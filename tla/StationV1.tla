------------------------------ MODULE StationV1 ------------------------------
(***************************************************************************)
(* Version 1 of the station protocol, and the live snapshots a server asks *)
(* of a station.                                                           *)
(*                                                                         *)
(* A station dials with version 1 or 2, as its configuration says when it  *)
(* starts; the server keeps a registry for each.  A session of version 1   *)
(* is modelled step by step; one of version 2, the subject of StationSync, *)
(* appears as what it promises: the server stores the next point or row it *)
(* misses.                                                                 *)
(*                                                                         *)
(* A point is its timestamp, a status-log entry its row id.  Whether a     *)
(* reading changes an item's status is left open, and the writes of the    *)
(* station's own database succeed.  The status the server shows for the    *)
(* station and for its items is set as in StationSync and left out.        *)
(***************************************************************************)
EXTENDS Integers, Sequences, FiniteSets

CONSTANTS
    Items,        \* item names of the station
    Versions,     \* the versions of the protocol it may use
    Conns,        \* connection slots; a slot is reused once nobody uses it
    NoConn,       \* "no connection"
    QueueCap,     \* capacity of the subscriber channel (1000 in the code)
    MaxReadings,  \* bound on the readings
    MaxRows,      \* bound on the status rows
    MaxFaults     \* bound on crashes, breaks and failed operations

ASSUME StationV1Assumption ==
    /\ Versions \subseteq {1, 2} /\ Versions # {}
    /\ NoConn \notin Conns
    /\ QueueCap \in Nat \ {0}
    /\ MaxReadings \in Nat /\ MaxRows \in Nat /\ MaxFaults \in Nat

VARIABLES
    \* The station: SQLite.
    hist,         \* item -> timestamps
    rows,         \* the last row id of its status log
    \* The station: memory.
    version,      \* of the protocol: its SyncV2.Enabled
    ingestMu,     \* is ingestMu held by the session?
    cpc,          \* where stationConn is
    cur,          \* the connection it runs on
    latest,       \* item -> latest timestamp of the server
    latestRow,    \* latest status row of the server
    received,     \* have they been received?
    subscribed,   \* is the session's subscriber in the data broker?
    writing,      \* is the goroutine that writes its messages running?
    queue,        \* subscriber.Ch
    \* The network, per connection.
    c2s,          \* messages on their way to the server, in order
    broken,       \* nothing sent from now on arrives
    \* The server.
    spc,          \* connection -> where its handler is
    reg,          \* version -> the registered connection of the station
    stored,       \* item -> timestamps
    statusLog,    \* row ids
    lost,         \* rows whose write failed and was only logged
    snap,         \* a request for a live snapshot, and its connection
    \* The environment.
    now,          \* readings so far
    faults        \* faults so far

stationDB == <<hist, rows>>
known     == <<latest, latestRow, received>>
session   == <<version, cpc, cur, known>>
channel   == <<subscribed, writing, queue>>
network   == <<c2s, broken>>
serverDB  == <<stored, statusLog, lost>>
vars == <<stationDB, session, ingestMu, channel, network, spc, reg, serverDB, snap,
          now, faults>>

-----------------------------------------------------------------------------
Point   == [type : {"data"}, item : Items, ts : Nat]
Row     == [type : {"status"}, row : Nat]
Message == Point \cup Row \cup [type : {"info"}, version : Versions]
           \cup [type : {"missData"}, points : [Items -> SUBSET Nat]]
           \cup [type : {"missStatus"}, rows : SUBSET Nat]

(* Every variable stays in its type; the channel within its capacity. *)
TypeOK ==
    /\ hist \in [Items -> SUBSET Nat] /\ rows \in Nat
    /\ version \in Versions
    /\ ingestMu \in BOOLEAN
    /\ cpc \in {"idle", "latest", "lock", "data", "status", "subscribe", "realtime",
                "runOnConn"}
    /\ cur \in Conns \cup {NoConn}
    /\ latest \in [Items -> Nat] /\ latestRow \in Nat /\ received \in BOOLEAN
    /\ subscribed \in BOOLEAN /\ writing \in BOOLEAN
    /\ queue \in Seq(Point \cup Row) /\ Len(queue) <= QueueCap
    /\ c2s \in [Conns -> Seq(Message)]
    /\ broken \in [Conns -> BOOLEAN]
    /\ spc \in [Conns -> {"gone", "info", "sync", "run", "StreamStation", "closing"}]
    /\ reg \in [{1, 2} -> Conns \cup {NoConn}]
    /\ stored \in [Items -> SUBSET Nat]
    /\ statusLog \subseteq Nat /\ lost \subseteq Nat
    /\ snap \in [pc : {"idle", "v1", "v2"}, conn : Conns \cup {NoConn}]
    /\ now \in Nat /\ faults \in Nat

Fault == faults < MaxFaults /\ faults' = faults + 1

NoSnap == [pc |-> "idle", conn |-> NoConn]

(* m is what max() of the set S of naturals returns, 0 on the empty set; *)
(* m is the least element of S.                                          *)
IsLatest(m, S) == m \in S \cup {0} /\ \A u \in S : u <= m
IsNext(m, S)   == m \in S /\ \A u \in S : m <= u

(* A message written to connection k. *)
Arrives(k, m) == [c2s EXCEPT ![k] = IF broken[k] THEN @ ELSE Append(@, m)]

-----------------------------------------------------------------------------
(* The station *)

(* Mutants: a full channel is not noticed; what does not fit is dropped. *)
Publish_Unbounded(msgs) ==
    /\ queue' = IF subscribed THEN queue \o msgs ELSE queue
    /\ UNCHANGED <<subscribed, broken>>

Publish_Drops(msgs) ==
    /\ queue' = IF subscribed /\ Len(queue \o msgs) <= QueueCap THEN queue \o msgs ELSE queue
    /\ UNCHANGED <<subscribed, broken>>

(* Broker.Publish: a full channel unsubscribes the session and closes it. *)
Publish(msgs) ==
    \/ ~subscribed /\ UNCHANGED <<subscribed, queue, broken>>
    \/ /\ subscribed
       /\ Len(queue \o msgs) <= QueueCap
       /\ queue' = queue \o msgs
       /\ UNCHANGED <<subscribed, broken>>
    \/ /\ subscribed
       /\ Len(queue \o msgs) > QueueCap
       /\ queue' = SubSeq(queue \o msgs, 1, QueueCap)
       /\ subscribed' = FALSE
       /\ broken' = [broken EXCEPT ![cur] = TRUE]

(* Mutant: readings are ingested without ingestMu. *)
IngestLockFree_Unlocked == TRUE

(* receiveData waits while a session holds ingestMu. *)
IngestLockFree == ~ingestMu

(* A reading of item i: a point if the device answered, a row if that       *)
(* changed the item's status.                                               *)
receiveData(i, answered, changed) ==
    LET row   == IF changed THEN <<[type |-> "status", row |-> rows + 1]>> ELSE <<>>
        point == IF answered
                 THEN <<[type |-> "data", item |-> i, ts |-> now + 1]>> ELSE <<>>
    IN  /\ IngestLockFree
        /\ now < MaxReadings
        /\ changed => rows < MaxRows
        /\ now' = now + 1
        /\ rows' = rows + Len(row)
        /\ hist' = [hist EXCEPT ![i] = IF answered THEN @ \cup {now + 1} ELSE @]
        /\ Publish(row \o point)
        /\ UNCHANGED <<session, ingestMu, writing, c2s, spc, reg, serverDB, snap,
                       faults>>

(* The slots are alike: the first free one is taken. *)
FreeSlots == {k \in Conns : spc[k] = "gone" /\ snap.conn # k}

(* The station dials: the server's handler starts, the station sends its    *)
(* StationInfo.                                                             *)
client(k) ==
    /\ cpc = "idle"
    /\ k \in FreeSlots /\ k = CHOOSE free \in FreeSlots : TRUE
    /\ cpc' = IF version = 1 THEN "latest" ELSE "runOnConn"
    /\ cur' = k
    /\ c2s' = [c2s EXCEPT ![k] = <<[type |-> "info", version |-> version]>>]
    /\ broken' = [broken EXCEPT ![k] = FALSE]
    /\ spc' = [spc EXCEPT ![k] = "info"]
    /\ UNCHANGED <<stationDB, version, known, ingestMu, channel, reg, serverDB, snap,
                   now, faults>>

(* The latest timestamps and row have arrived. *)
RecvLatest ==
    /\ cpc = "latest"
    /\ received
    /\ cpc' = "lock"
    /\ UNCHANGED <<stationDB, version, cur, known, ingestMu, channel, network, spc,
                   reg, serverDB, snap, now, faults>>

LockIngest ==
    /\ cpc = "lock"
    /\ cpc' = "data"
    /\ ingestMu' = TRUE
    /\ UNCHANGED <<stationDB, version, cur, known, channel, network, spc, reg,
                   serverDB, snap, now, faults>>

(* The points the server misses, of all items, are one message. *)
SendMissData ==
    /\ cpc = "data"
    /\ cpc' = "status"
    /\ c2s' = Arrives(cur, [type |-> "missData",
                  points |-> [i \in Items |-> {t \in hist[i] : t > latest[i]}]])
    /\ UNCHANGED <<stationDB, version, cur, known, ingestMu, channel, broken, spc, reg,
                   serverDB, snap, now, faults>>

SendMissStatus ==
    /\ cpc = "status"
    /\ cpc' = "subscribe"
    /\ c2s' = Arrives(cur, [type |-> "missStatus", rows |-> latestRow + 1 .. rows])
    /\ UNCHANGED <<stationDB, version, cur, known, ingestMu, channel, broken, spc, reg,
                   serverDB, snap, now, faults>>

(* Subscribe, and only then release ingestMu. *)
SubscribeAndUnlock ==
    /\ cpc = "subscribe"
    /\ cpc' = "realtime"
    /\ subscribed' = TRUE
    /\ writing' = TRUE
    /\ queue' = <<>>
    /\ ingestMu' = FALSE
    /\ UNCHANGED <<stationDB, version, cur, known, network, spc, reg, serverDB, snap,
                   now, faults>>

(* newSubscriber's goroutine writes the messages; when a write fails it     *)
(* returns, and nothing else happens: yamux may give up a write it has      *)
(* queued on a session that stays open, and the message still arrive.       *)
Write ==
    /\ cpc = "realtime"
    /\ writing
    /\ queue # <<>>
    /\ queue' = Tail(queue)
    /\ \/ c2s' = Arrives(cur, Head(queue)) /\ UNCHANGED <<writing, faults>>
       \/ c2s' \in {c2s, Arrives(cur, Head(queue))} /\ writing' = FALSE /\ Fault
    /\ UNCHANGED <<stationDB, session, ingestMu, subscribed, broken, spc, reg,
                   serverDB, snap, now>>

(* The session is over: what it held is given back. *)
SessionEnds ==
    /\ cpc' = "idle"
    /\ cur' = NoConn
    /\ ingestMu' = FALSE
    /\ subscribed' = FALSE
    /\ writing' = FALSE
    /\ queue' = <<>>
    /\ latest' = [i \in Items |-> 0] /\ latestRow' = 0 /\ received' = FALSE
    /\ broken' = [k \in Conns |-> broken[k] \/ k = cur]

stationConnReturns ==
    /\ cpc # "idle"
    /\ \/ broken[cur] /\ UNCHANGED faults
       \/ ~broken[cur] /\ Fault
    /\ SessionEnds
    /\ UNCHANGED <<stationDB, version, c2s, spc, reg, serverDB, snap, now>>

(* The station's process dies and is started again, perhaps with another    *)
(* version.                                                                 *)
StationRestart ==
    /\ Fault
    /\ version' \in Versions
    /\ SessionEnds
    /\ UNCHANGED <<stationDB, c2s, spc, reg, serverDB, snap, now>>

Break(k) ==
    /\ Fault
    /\ spc[k] # "gone" /\ ~broken[k]
    /\ broken' = [broken EXCEPT ![k] = TRUE]
    /\ UNCHANGED <<stationDB, session, ingestMu, channel, c2s, spc, reg, serverDB,
                   snap, now>>

-----------------------------------------------------------------------------
(* The server *)

Receives(k, ty) == c2s[k] # <<>> /\ Head(c2s[k]).type = ty

(* StationInfo arrives; LoadOrStore refuses a second connection of the      *)
(* version.  SyncStationInfo follows.                                       *)
recvStationInfo(k) ==
    /\ spc[k] = "info"
    /\ Receives(k, "info")
    /\ \/ /\ reg[Head(c2s[k]).version] = NoConn
          /\ reg' = [reg EXCEPT ![Head(c2s[k]).version] = k]
          /\ spc' = [spc EXCEPT ![k] =
                        IF Head(c2s[k]).version = 1 THEN "sync" ELSE "StreamStation"]
          /\ c2s' = [c2s EXCEPT ![k] = Tail(@)]
          /\ UNCHANGED broken
       \/ /\ reg[Head(c2s[k]).version] # NoConn
          /\ spc' = [spc EXCEPT ![k] = "gone"]
          /\ c2s' = [c2s EXCEPT ![k] = <<>>]
          /\ broken' = [broken EXCEPT ![k] = TRUE]
          /\ UNCHANGED reg
    /\ UNCHANGED <<stationDB, session, ingestMu, channel, serverDB, snap, now, faults>>

(* WriteItemsLatest and WriteLatestStatusLogRowId.  The station waits for   *)
(* them: they are put where it will read them, if it is still there.        *)
WriteLatest(k) ==
    /\ spc[k] = "sync"
    /\ spc' = [spc EXCEPT ![k] = "run"]
    /\ IF broken[k] THEN UNCHANGED known
       ELSE /\ received' = TRUE
            /\ latest' \in [Items -> 0 .. now]
            /\ \A i \in Items : IsLatest(latest'[i], stored[i])
            /\ latestRow' \in 0 .. rows
            /\ IsLatest(latestRow', statusLog)
    /\ UNCHANGED <<stationDB, version, cpc, cur, ingestMu, channel, c2s, broken, reg,
                   serverDB, snap, now, faults>>

Handles(k, ty) == spc[k] = "run" /\ Receives(k, ty)

(* ReadMissData: the items in any order, the points of an item in time      *)
(* order.                                                                   *)
ReadMissData(k) ==
    LET points == Head(c2s[k]).points
    IN  /\ Handles(k, "missData")
        /\ \/ \E i \in Items : \E t \in points[i] :
                 /\ IsNext(t, points[i])
                 /\ stored' = [stored EXCEPT ![i] = @ \cup {t}]
                 /\ c2s' = [c2s EXCEPT ![k][1].points[i] = @ \ {t}]
           \/ /\ \A i \in Items : points[i] = {}
              /\ c2s' = [c2s EXCEPT ![k] = Tail(@)]
              /\ UNCHANGED stored
        /\ UNCHANGED <<stationDB, session, ingestMu, channel, broken, spc, reg,
                       statusLog, lost, snap, now, faults>>

(* ReadMissStatusLogs: in the order of the rows. *)
ReadMissStatusLogs(k) ==
    /\ Handles(k, "missStatus")
    /\ \/ \E r \in Head(c2s[k]).rows :
             /\ IsNext(r, Head(c2s[k]).rows)
             /\ statusLog' = statusLog \cup {r}
             /\ c2s' = [c2s EXCEPT ![k][1].rows = @ \ {r}]
       \/ /\ Head(c2s[k]).rows = {}
          /\ c2s' = [c2s EXCEPT ![k] = Tail(@)]
          /\ UNCHANGED statusLog
    /\ UNCHANGED <<stationDB, session, ingestMu, channel, broken, spc, reg, stored,
                   lost, snap, now, faults>>

(* A realtime point. *)
SaveDataHistory(k) ==
    LET point == Head(c2s[k])
    IN  /\ Handles(k, "data")
        /\ c2s' = [c2s EXCEPT ![k] = Tail(@)]
        /\ stored' = [stored EXCEPT ![point.item] = @ \cup {point.ts}]
        /\ UNCHANGED <<stationDB, session, ingestMu, channel, broken, spc, reg,
                       statusLog, lost, snap, now, faults>>

(* A realtime row: an error is only logged. *)
saveAndUpdateItemStatus(k) ==
    LET row == Head(c2s[k]).row
    IN  /\ Handles(k, "status")
        /\ c2s' = [c2s EXCEPT ![k] = Tail(@)]
        /\ \/ statusLog' = statusLog \cup {row} /\ UNCHANGED <<lost, faults>>
           \/ lost' = lost \cup {row} /\ Fault /\ UNCHANGED statusLog
        /\ UNCHANGED <<stationDB, session, ingestMu, channel, broken, spc, reg, stored,
                       snap, now>>

(* Version 2: the next point of an item, or the next row, is stored; a row  *)
(* that was lost is sent again if the session found the log without it and  *)
(* without a later one.                                                     *)
StreamStation(k) ==
    /\ spc[k] = "StreamStation" /\ cur = k /\ ~broken[k]
    /\ \/ /\ \E i \in Items : \E t \in hist[i] :
                /\ IsNext(t, hist[i] \ stored[i])
                /\ stored' = [stored EXCEPT ![i] = @ \cup {t}]
          /\ UNCHANGED statusLog
       \/ /\ \E r \in 1 .. rows, skipped \in SUBSET lost :
                /\ IsNext(r, 1 .. rows \ (statusLog \cup skipped))
                /\ statusLog' = statusLog \cup {r}
          /\ UNCHANGED stored
    /\ UNCHANGED <<stationDB, session, ingestMu, channel, network, spc, reg, lost,
                   snap, now, faults>>

(* The handler fails: its connection broke, or a write, other than that of  *)
(* a realtime row, failed.                                                  *)
HandlerFails(k) ==
    /\ spc[k] \notin {"gone", "closing"}
    /\ \/ broken[k] /\ UNCHANGED faults
       \/ ~broken[k] /\ Fault
    /\ spc' = [spc EXCEPT ![k] = "closing"]
    /\ UNCHANGED <<stationDB, session, ingestMu, channel, network, reg, serverDB, snap,
                   now>>

(* Mutant: the entry of the registry is forgotten. *)
Deregister_Missing(k) == UNCHANGED reg

(* The deferred Delete, from the registry of the handler's version. *)
Deregister(k) == reg' = [v \in {1, 2} |-> IF reg[v] = k THEN NoConn ELSE reg[v]]

(* The deferred calls: out of the registry, the session closed. *)
HandlerReturns(k) ==
    /\ spc[k] = "closing"
    /\ spc' = [spc EXCEPT ![k] = "gone"]
    /\ Deregister(k)
    /\ c2s' = [c2s EXCEPT ![k] = <<>>]
    /\ broken' = [broken EXCEPT ![k] = TRUE]
    /\ UNCHANGED <<stationDB, session, ingestMu, channel, serverDB, snap, now, faults>>

(* The server's process dies and is started again. *)
ServerRestart ==
    /\ Fault
    /\ spc' = [k \in Conns |-> "gone"]
    /\ reg' = [v \in {1, 2} |-> NoConn]
    /\ c2s' = [k \in Conns |-> <<>>]
    /\ broken' = [k \in Conns |-> TRUE]
    /\ snap' = NoSnap
    /\ UNCHANGED <<stationDB, session, ingestMu, channel, serverDB, now>>

-----------------------------------------------------------------------------
(* Live snapshots *)

unchangedBySnap == <<stationDB, session, ingestMu, channel, network, spc, reg,
                     serverDB, now, faults>>

(* The connection of version 2 is asked, and that of version 1 only if there *)
(* is none.                                                                  *)
CameraLiveSnapshot ==
    /\ snap = NoSnap
    /\ \/ reg[2] # NoConn /\ snap' = [pc |-> "v2", conn |-> reg[2]]
       \/ reg[2] = NoConn /\ reg[1] # NoConn /\ snap' = [pc |-> "v1", conn |-> reg[1]]
    /\ UNCHANGED unchangedBySnap

(* The station's camera answers, or fails: that is an answer as well. *)
Answers ==
    /\ cur = snap.conn /\ ~broken[cur]
    /\ snap' = NoSnap
    /\ UNCHANGED unchangedBySnap

(* Version 1 accepts streams only when it has subscribed. *)
cameraSnapshot      == snap.pc = "v1" /\ cpc = "realtime" /\ Answers
handleCommandStream == snap.pc = "v2" /\ cpc = "runOnConn" /\ Answers

(* Only a request of version 2 has a timer. *)
TimesOut == snap.pc = "v2"

(* The request ends without an answer: its timer fires, or the session ends. *)
SnapshotFails ==
    /\ snap # NoSnap
    /\ TimesOut \/ broken[snap.conn]
    /\ snap' = NoSnap
    /\ UNCHANGED unchangedBySnap

-----------------------------------------------------------------------------
Init ==
    /\ hist = [i \in Items |-> {}] /\ rows = 0
    /\ version \in Versions
    /\ ingestMu = FALSE
    /\ cpc = "idle" /\ cur = NoConn
    /\ latest = [i \in Items |-> 0] /\ latestRow = 0 /\ received = FALSE
    /\ subscribed = FALSE /\ writing = FALSE /\ queue = <<>>
    /\ c2s = [k \in Conns |-> <<>>]
    /\ broken = [k \in Conns |-> TRUE]
    /\ spc = [k \in Conns |-> "gone"]
    /\ reg = [v \in {1, 2} |-> NoConn]
    /\ stored = [i \in Items |-> {}] /\ statusLog = {} /\ lost = {}
    /\ snap = NoSnap
    /\ now = 0 /\ faults = 0

SessionStep ==
    \/ RecvLatest
    \/ LockIngest
    \/ SendMissData
    \/ SendMissStatus
    \/ SubscribeAndUnlock
    \/ Write

HandlerStep(k) ==
    \/ recvStationInfo(k)
    \/ WriteLatest(k)
    \/ ReadMissData(k)
    \/ ReadMissStatusLogs(k)
    \/ SaveDataHistory(k)
    \/ saveAndUpdateItemStatus(k)
    \/ StreamStation(k)
    \/ HandlerReturns(k)

Next ==
    \/ \E i \in Items, answered, changed \in BOOLEAN :
          (answered \/ changed) /\ receiveData(i, answered, changed)
    \/ \E k \in Conns : client(k)
    \/ SessionStep
    \/ stationConnReturns
    \/ StationRestart
    \/ \E k \in Conns : Break(k) \/ HandlerStep(k) \/ HandlerFails(k)
    \/ ServerRestart
    \/ CameraLiveSnapshot
    \/ cameraSnapshot \/ handleCommandStream
    \/ SnapshotFails

Spec == Init /\ [][Next]_vars

(* The goroutines of both processes run, the station dials again after its  *)
(* pause, and a broken connection is noticed by both ends and by a request  *)
(* that waits on it.  Nothing is assumed of the camera.  The handler is fair *)
(* for a server without DataDelaySec: with a delay its Publish can block for *)
(* ever (DelayedBroker, run broker_wedged).                                  *)
Fairness ==
    /\ WF_vars(\E k \in Conns : client(k))
    /\ WF_vars(SessionStep)
    /\ WF_vars(stationConnReturns /\ broken[cur])
    /\ \A k \in Conns : WF_vars(HandlerStep(k))
    /\ \A k \in Conns : WF_vars(HandlerFails(k) /\ broken[k])
    /\ WF_vars(SnapshotFails)

FairSpec == Spec /\ Fairness

-----------------------------------------------------------------------------
(* The server misses no point before one it has, and no row before one it   *)
(* has but those whose realtime write failed: it remembers only the latest  *)
(* of each, so a gap would stay.                                            *)
ReplicaPrefix ==
    /\ \A i \in Items : \A t \in stored[i], u \in hist[i] : u < t => u \in stored[i]
    /\ \A r \in statusLog : 1 .. r \subseteq statusLog \cup lost

(* The points and rows the server does not have. *)
Missing     == UNION {{<<i, t>> : t \in hist[i] \ stored[i]} : i \in Items}
MissingRows == 1 .. rows \ (statusLog \cup lost)

(* A write that fails stops the forwarding and not the session: no more     *)
(* than the channel and the message in hand are held back for ever, since   *)
(* the channel overflows and the station dials again.                       *)
HeldBack == <>[](Cardinality(Missing) + Cardinality(MissingRows) <= QueueCap + 1)

(* Once faults stop, a live snapshot is asked of the session the station is *)
(* on, and no request stays behind on another: CameraLiveSnapshot looks into *)
(* the registry of version 2 first, and that may still have the dead session *)
(* of a station that has come back with version 1, or the other way round.   *)
(* Whether the camera answers is left open: over version 1 a request without *)
(* an answer lasts as long as its session.                                   *)
SnapshotsReach == <>[](snap # NoSnap => snap.conn = cur)
=============================================================================
