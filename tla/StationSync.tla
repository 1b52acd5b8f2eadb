----------------------------- MODULE StationSync -----------------------------
(***************************************************************************)
(* The v2 synchronisation of one station with its server: the station's    *)
(* ingest loop and local database, its sync session, the network, the      *)
(* server's per-connection handler and database.                           *)
(*                                                                         *)
(* A data point is its timestamp; the value plays no part in the protocol. *)
(* A status-log entry is its row id.  A DataBatch of several points is a   *)
(* run of single-point frames: the server saves point by point, without a  *)
(* transaction, so any prefix of a batch may be the part that is applied.  *)
(* A broken connection may still hold frames the server has received and   *)
(* not handled; it handles any prefix of them before it notices.           *)
(***************************************************************************)
EXTENDS Integers, Sequences

CONSTANTS
    Items,            \* item names of the station
    GpioItems,        \* those fed by MsgGpioData: they have no status log
    Conns,            \* connection slots; a slot is reused once its handler is gone
    NoConn,           \* "no connection"
    QueueCap,         \* capacity of the subscriber channel (10000 in the code)
    MaxClock,         \* bound on the readings ingested
    MaxFaults,        \* bound on crashes, breaks and failed operations
    ClockMayStepBack  \* may the station's wall clock be set back?

ASSUME ConstantsAssumption ==
    /\ GpioItems \subseteq Items
    /\ NoConn \notin Conns
    /\ QueueCap \in Nat \ {0}
    /\ MaxClock \in Nat
    /\ MaxFaults \in Nat
    /\ ClockMayStepBack \in BOOLEAN

VARIABLES
    \* The station: SQLite.
    hist,         \* item -> timestamps saved in its table
    log,          \* item_status_log, a sequence: the index is the ROWID
    \* The station: memory.
    itemsStatus,  \* item -> status last seen by receiveData
    ingestMu,     \* is ingestMu held by the sync session?
    cpc,          \* where runOnConn is
    cur,          \* the connection it runs on
    latest,       \* item -> latest timestamp of the server, then the replay cursor
    latestRow,    \* latest status-log row of the server
    subscribed,   \* is the session's subscriber in the data broker?
    queue,        \* subscriber.Ch
    \* The network, per connection.
    c2s,          \* frames on their way to the server, in order
    reply,        \* the frame on its way to the station, if any
    broken,       \* no frame sent from now on arrives
    \* The server: memory, per connection, and the registry.
    spc,          \* where StreamStation is
    work,         \* what is left of the replayed status batch in hand
    reg,          \* the registered connection of the station
    \* The server: PostgreSQL.
    stored,       \* item -> timestamps stored
    statusLog,    \* row ids stored in item_status_log
    itemStatus,   \* item -> row id of the status it shows, 0 for none
    stationStatus,
    \* The environment.
    now,          \* readings so far: a clock that is never set back
    faults        \* faults so far

stationDB  == <<hist, log>>
session    == <<cpc, cur, latest, latestRow>>
subscriber == <<subscribed, queue>>
network    == <<c2s, reply, broken>>
handler    == <<spc, work, reg>>
serverDB   == <<stored, statusLog, itemStatus, stationStatus>>
vars == <<stationDB, itemsStatus, ingestMu, session, subscriber, network,
          handler, serverDB, now, faults>>

-----------------------------------------------------------------------------
(* Types *)

Status    == {"none", "Normal", "Abnormal"}
DataMsg   == [type : {"data"}, item : Items, ts : Nat, replay : BOOLEAN]
StatusMsg == [type : {"status"}, row : Nat]
Frame     == [type : {"hello", "info"}] \cup DataMsg \cup StatusMsg
             \cup [type : {"statusReplay"}, rows : SUBSET Nat]
Reply     == [type : {"none", "server_hello"}]
             \cup [type : {"latest"}, ts : [Items -> Nat], row : Nat]

ClientPhase == {"idle", "hello", "latest", "lock", "replay", "subscribe", "realtime"}
ServerPhase == {"gone", "hello", "info", "sync", "run", "items", "logs", "closing", "delete"}

(* Every variable stays in its type; the subscriber channel within its capacity. *)
TypeOK ==
    /\ hist \in [Items -> SUBSET Nat]
    /\ log \in Seq([item : Items, status : Status])
    /\ itemsStatus \in [Items -> Status]
    /\ ingestMu \in BOOLEAN
    /\ cpc \in ClientPhase
    /\ cur \in Conns \cup {NoConn}
    /\ latest \in [Items -> Nat]
    /\ latestRow \in Nat
    /\ subscribed \in BOOLEAN
    /\ queue \in Seq(DataMsg \cup StatusMsg) /\ Len(queue) <= QueueCap
    /\ c2s \in [Conns -> Seq(Frame)]
    /\ reply \in [Conns -> Reply]
    /\ broken \in [Conns -> BOOLEAN]
    /\ spc \in [Conns -> ServerPhase]
    /\ work \in [Conns -> [items : SUBSET Items, rows : SUBSET Nat]]
    /\ reg \in Conns \cup {NoConn}
    /\ stored \in [Items -> SUBSET Nat]
    /\ statusLog \in SUBSET Nat
    /\ itemStatus \in [Items -> Nat]
    /\ stationStatus \in {"Normal", "Disconnected"}
    /\ now \in Nat
    /\ faults \in Nat

-----------------------------------------------------------------------------
(* Common parts *)

NoReply == [type |-> "none"]
NoWork  == [items |-> {}, rows |-> {}]

(* An operation fails: one of a bounded number of faults. *)
Fault == faults < MaxFaults /\ faults' = faults + 1

(* m is what max() of the set S of naturals returns, 0 on the empty set. *)
IsLatest(m, S) ==
    \/ S = {} /\ m = 0
    \/ m \in S /\ \A u \in S : u <= m

(* The rows of the status log that are about item i. *)
RowsOf(i, rows) == {r \in rows : r \in DOMAIN log /\ log[r].item = i}

(* A frame written to connection k: it is lost when the connection is broken. *)
Arrives(k, frame) == [c2s EXCEPT ![k] = IF broken[k] THEN @ ELSE Append(@, frame)]

(* Mutant: a full channel is not noticed. *)
Publish_Unbounded(msgs) ==
    /\ queue' = IF subscribed THEN queue \o msgs ELSE queue
    /\ UNCHANGED <<subscribed, broken>>

(* Broker.Publish of msgs, one after the other: a full subscriber channel   *)
(* unsubscribes the session and closes it.                                  *)
Publish(msgs) ==
    \/ /\ ~subscribed
       /\ UNCHANGED <<subscriber, broken>>
    \/ /\ subscribed
       /\ Len(queue) + Len(msgs) <= QueueCap
       /\ queue' = queue \o msgs
       /\ UNCHANGED <<subscribed, broken>>
    \/ /\ subscribed
       /\ Len(queue) + Len(msgs) > QueueCap
       /\ queue' = SubSeq(queue \o msgs, 1, QueueCap)
       /\ subscribed' = FALSE
       /\ broken' = [broken EXCEPT ![cur] = TRUE]

-----------------------------------------------------------------------------
(* The station *)

(* The timestamps time.Now() may return to the next reading. *)
Timestamps == IF ClockMayStepBack THEN 1 .. now + 1 ELSE {now + 1}

(* Mutant: readings are ingested without ingestMu. *)
IngestLockFree_Unlocked == TRUE

(* receiveData may take the lock only when no session holds it. *)
IngestLockFree == ~ingestMu

(* One reading of item i goes through receiveData: hasValue says whether    *)
(* the device answered; logSaved and dataSaved whether SQLite did.  A failed *)
(* SaveItemStatusLog is not published, a failed SaveData is.                *)
receiveData(i, hasValue, t, logSaved, dataSaved) ==
    LET status == IF hasValue THEN "Normal" ELSE "Abnormal"
        flips  == i \notin GpioItems /\ itemsStatus[i] # status
        change == IF flips /\ logSaved
                  THEN <<[type |-> "status", row |-> Len(log) + 1]>> ELSE <<>>
        point  == IF hasValue
                  THEN <<[type |-> "data", item |-> i, ts |-> t, replay |-> FALSE]>>
                  ELSE <<>>
    IN  /\ IngestLockFree
        /\ i \in GpioItems => hasValue
        /\ ~logSaved => flips
        /\ ~dataSaved => hasValue
        /\ now < MaxClock
        /\ now' = now + 1
        /\ itemsStatus' = [itemsStatus EXCEPT ![i] = IF flips THEN status ELSE @]
        /\ log' = IF flips /\ logSaved
                  THEN Append(log, [item |-> i, status |-> status]) ELSE log
        /\ hist' = [hist EXCEPT ![i] = IF hasValue /\ dataSaved THEN @ \cup {t} ELSE @]
        /\ Publish(change \o point)
        /\ IF logSaved /\ dataSaved THEN UNCHANGED faults ELSE Fault
        /\ UNCHANGED <<ingestMu, session, c2s, reply, handler, serverDB>>

(* Client.Run on a free slot: upgrade, yamux, main stream, ClientHello; the *)
(* server's handler starts.                                                 *)
Connect(k) ==
    /\ cpc = "idle"
    /\ spc[k] = "gone"
    /\ cpc' = "hello"
    /\ cur' = k
    /\ c2s' = [c2s EXCEPT ![k] = <<[type |-> "hello"]>>]
    /\ reply' = [reply EXCEPT ![k] = NoReply]
    /\ broken' = [broken EXCEPT ![k] = FALSE]
    /\ spc' = [spc EXCEPT ![k] = "hello"]
    /\ UNCHANGED <<stationDB, itemsStatus, ingestMu, latest, latestRow, subscriber,
                   work, reg, serverDB, now, faults>>

(* ServerHello arrives; the station answers with its StationInfo. *)
RecvServerHello ==
    /\ cpc = "hello"
    /\ reply[cur].type = "server_hello"
    /\ cpc' = "latest"
    /\ reply' = [reply EXCEPT ![cur] = NoReply]
    /\ c2s' = Arrives(cur, [type |-> "info"])
    /\ UNCHANGED <<stationDB, itemsStatus, ingestMu, cur, latest, latestRow, subscriber,
                   broken, handler, serverDB, now, faults>>

(* ItemsLatest and StatusLatest arrive. *)
recvLatestFrames ==
    /\ cpc = "latest"
    /\ reply[cur].type = "latest"
    /\ cpc' = "lock"
    /\ latest' = reply[cur].ts
    /\ latestRow' = reply[cur].row
    /\ reply' = [reply EXCEPT ![cur] = NoReply]
    /\ UNCHANGED <<stationDB, itemsStatus, ingestMu, cur, subscriber, c2s, broken,
                   handler, serverDB, now, faults>>

LockIngest ==
    /\ cpc = "lock"
    /\ ~ingestMu
    /\ cpc' = "replay"
    /\ ingestMu' = TRUE
    /\ UNCHANGED <<stationDB, itemsStatus, cur, latest, latestRow, subscriber, network,
                   handler, serverDB, now, faults>>

(* t is the point of item i that GetDataHistory lists next after the cursor. *)
NextPoint(i, t) ==
    /\ t > latest[i]
    /\ \A u \in hist[i] : u > latest[i] => t <= u

(* sendReplayData: the next missing point of item i. *)
sendReplayData(i, t) ==
    /\ cpc = "replay"
    /\ NextPoint(i, t)
    /\ latest' = [latest EXCEPT ![i] = t]
    /\ c2s' = Arrives(cur, [type |-> "data", item |-> i, ts |-> t, replay |-> TRUE])
    /\ UNCHANGED <<stationDB, itemsStatus, ingestMu, cpc, cur, latestRow, subscriber,
                   reply, broken, handler, serverDB, now, faults>>

(* sendReplayStatus: every later row of the status log in one frame, after  *)
(* the last item's data.                                                    *)
sendReplayStatus ==
    LET rows == {r \in DOMAIN log : r > latestRow}
    IN  /\ cpc = "replay"
        /\ \A i \in Items : \A u \in hist[i] : u <= latest[i]
        /\ cpc' = "subscribe"
        /\ c2s' = IF rows = {} THEN c2s
                  ELSE Arrives(cur, [type |-> "statusReplay", rows |-> rows])
        /\ UNCHANGED <<stationDB, itemsStatus, ingestMu, cur, latest, latestRow,
                       subscriber, reply, broken, handler, serverDB, now, faults>>

(* Subscribe, and only then release ingestMu. *)
SubscribeAndUnlock ==
    /\ cpc = "subscribe"
    /\ cpc' = "realtime"
    /\ subscribed' = TRUE
    /\ queue' = <<>>
    /\ ingestMu' = FALSE
    /\ UNCHANGED <<stationDB, itemsStatus, cur, latest, latestRow, network, handler,
                   serverDB, now, faults>>

(* The realtime loop takes a message from subscriber.Ch and sends it.  A    *)
(* Send that fails is logged and the loop goes on.  On a dead session that  *)
(* is a frame that does not arrive; when yamux gave up waiting for a write  *)
(* it had queued, the frame arrives after all, or its length alone does and *)
(* the server can make nothing of what follows: a Break.                    *)
forwardRealtimeData ==
    /\ cpc = "realtime"
    /\ queue # <<>>
    /\ queue' = Tail(queue)
    /\ c2s' = Arrives(cur, Head(queue))
    /\ UNCHANGED <<stationDB, itemsStatus, ingestMu, session, subscribed, reply, broken,
                   handler, serverDB, now, faults>>

(* Mutant: an error return that forgets the lock. *)
UnlockIngest_Leaked == UNCHANGED ingestMu

(* What the session holds is given back on its way out. *)
UnlockIngest == ingestMu' = FALSE

(* runOnConn returns: its connection broke, or an operation of it failed. *)
runOnConnReturns ==
    /\ cpc # "idle"
    /\ \/ broken[cur] /\ UNCHANGED faults
       \/ ~broken[cur] /\ Fault
    /\ UnlockIngest
    /\ cpc' = "idle"
    /\ cur' = NoConn
    /\ subscribed' = FALSE
    /\ queue' = <<>>
    /\ broken' = [broken EXCEPT ![cur] = TRUE]
    /\ UNCHANGED <<stationDB, itemsStatus, latest, latestRow, c2s, reply, handler,
                   serverDB, now>>

(* The status addDevices loads for item i: that of its last log row. *)
LoadedStatus(i, s) ==
    \/ s = "none" /\ \A r \in DOMAIN log : log[r].item # i
    \/ \E r \in DOMAIN log :
          /\ log[r] = [item |-> i, status |-> s]
          /\ \A q \in DOMAIN log : q > r => log[q].item # i

(* The station's process dies and is started again: memory is lost. *)
StationRestart ==
    /\ Fault
    /\ itemsStatus' \in [Items -> Status]
    /\ \A i \in Items : LoadedStatus(i, itemsStatus'[i])
    /\ ingestMu' = FALSE
    /\ cpc' = "idle"
    /\ cur' = NoConn
    /\ subscribed' = FALSE
    /\ queue' = <<>>
    /\ broken' = [k \in Conns |-> broken[k] \/ k = cur]
    /\ UNCHANGED <<stationDB, latest, latestRow, c2s, reply, handler, serverDB, now>>

(* The network breaks a connection that is in use. *)
Break(k) ==
    /\ Fault
    /\ spc[k] # "gone"
    /\ ~broken[k]
    /\ broken' = [broken EXCEPT ![k] = TRUE]
    /\ UNCHANGED <<stationDB, itemsStatus, ingestMu, session, subscriber, c2s, reply,
                   handler, serverDB, now>>

-----------------------------------------------------------------------------
(* The server *)

(* The handler of connection k has a frame of type ty to receive. *)
Receives(k, ty) == c2s[k] # <<>> /\ Head(c2s[k]).type = ty

(* Mutant: Store in place of LoadOrStore. *)
LoadOrStoreStores_Overwrites == TRUE

(* LoadOrStore finds no other connection of the station. *)
LoadOrStoreStores == reg = NoConn

(* recvHello, then LoadOrStore in the registry: a second connection of the  *)
(* station is refused.                                                      *)
recvHello(k) ==
    /\ spc[k] = "hello"
    /\ Receives(k, "hello")
    /\ \/ /\ LoadOrStoreStores
          /\ reg' = k
          /\ spc' = [spc EXCEPT ![k] = "info"]
          /\ reply' = [reply EXCEPT ![k] = [type |-> "server_hello"]]
          /\ c2s' = [c2s EXCEPT ![k] = Tail(@)]
          /\ UNCHANGED broken
       \/ /\ ~LoadOrStoreStores
          /\ spc' = [spc EXCEPT ![k] = "gone"]
          /\ broken' = [broken EXCEPT ![k] = TRUE]
          /\ c2s' = [c2s EXCEPT ![k] = <<>>]
          /\ UNCHANGED <<reg, reply>>
    /\ UNCHANGED <<stationDB, itemsStatus, ingestMu, session, subscriber, work, serverDB,
                   now, faults>>

(* recvStationInfo; from here on the handler will report the disconnection. *)
recvStationInfo(k) ==
    /\ spc[k] = "info"
    /\ Receives(k, "info")
    /\ c2s' = [c2s EXCEPT ![k] = Tail(@)]
    /\ spc' = [spc EXCEPT ![k] = "sync"]
    /\ stationStatus' = "Normal"
    /\ UNCHANGED <<stationDB, itemsStatus, ingestMu, session, subscriber, reply, broken,
                   work, reg, stored, statusLog, itemStatus, now, faults>>

(* SyncStationInfo, then the latest timestamp of each item and the latest   *)
(* status row are read and sent.                                            *)
SendLatest(k) ==
    /\ spc[k] = "sync"
    /\ spc' = [spc EXCEPT ![k] = "run"]
    /\ \E ts \in [Items -> 0 .. now], row \in 0 .. Len(log) :
          /\ \A i \in Items : IsLatest(ts[i], stored[i])
          /\ IsLatest(row, statusLog)
          /\ reply' = [reply EXCEPT ![k] = [type |-> "latest", ts |-> ts, row |-> row]]
    /\ UNCHANGED <<stationDB, itemsStatus, ingestMu, session, subscriber, c2s, broken,
                   work, reg, serverDB, now, faults>>

(* handleDataBatch, one point: insert on conflict do nothing. *)
handleDataBatch(k) ==
    LET point == Head(c2s[k])
    IN  /\ spc[k] = "run"
        /\ Receives(k, "data")
        /\ c2s' = [c2s EXCEPT ![k] = Tail(@)]
        /\ stored' = [stored EXCEPT ![point.item] = @ \cup {point.ts}]
        /\ itemStatus' = [itemStatus EXCEPT ![point.item] =
                             IF point.item \in GpioItems /\ ~point.replay THEN 0 ELSE @]
        /\ UNCHANGED <<stationDB, itemsStatus, ingestMu, session, subscriber, reply,
                       broken, handler, statusLog, stationStatus, now, faults>>

(* handleItemStatusBatch of a realtime log: one transaction inserts the row *)
(* and, if it was not there, updates the item.                              *)
handleItemStatus(k) ==
    LET row == Head(c2s[k]).row
    IN  /\ spc[k] = "run"
        /\ Receives(k, "status")
        /\ c2s' = [c2s EXCEPT ![k] = Tail(@)]
        /\ statusLog' = statusLog \cup {row}
        /\ itemStatus' = [itemStatus EXCEPT ![log[row].item] =
                             IF row \in statusLog THEN @ ELSE row]
        /\ UNCHANGED <<stationDB, itemsStatus, ingestMu, session, subscriber, reply,
                       broken, handler, stored, stationStatus, now, faults>>

(* Mutant: the logs of a replayed batch are saved before its items. *)
handleStatusReplay_LogsFirst(k) ==
    LET rows == Head(c2s[k]).rows
    IN  /\ spc[k] = "run"
        /\ Receives(k, "statusReplay")
        /\ c2s' = [c2s EXCEPT ![k] = Tail(@)]
        /\ spc' = [spc EXCEPT ![k] = "items"]
        /\ statusLog' = statusLog \cup rows
        /\ work' = [work EXCEPT ![k] =
                       [items |-> {i \in Items : RowsOf(i, rows) # {}}, rows |-> rows]]
        /\ UNCHANGED <<stationDB, itemsStatus, ingestMu, session, subscriber, reply,
                       broken, reg, stored, itemStatus, stationStatus, now, faults>>

(* handleItemStatusBatch of a replayed batch: the items it mentions, *)
(* then its logs.                                                    *)
handleStatusReplay(k) ==
    LET rows == Head(c2s[k]).rows
    IN  /\ spc[k] = "run"
        /\ Receives(k, "statusReplay")
        /\ c2s' = [c2s EXCEPT ![k] = Tail(@)]
        /\ spc' = [spc EXCEPT ![k] = "items"]
        /\ work' = [work EXCEPT ![k] =
                       [items |-> {i \in Items : RowsOf(i, rows) # {}}, rows |-> rows]]
        /\ UNCHANGED <<stationDB, itemsStatus, ingestMu, session, subscriber, reply,
                       broken, reg, serverDB, now, faults>>

(* UpdateItemStatus of one item to its last status of the batch. *)
UpdateReplayedItem(k, i) ==
    /\ spc[k] = "items"
    /\ i \in work[k].items
    /\ work' = [work EXCEPT ![k] = [items |-> @.items \ {i}, rows |-> @.rows]]
    /\ \E r \in work[k].rows :
          /\ IsLatest(r, RowsOf(i, work[k].rows))
          /\ itemStatus' = [itemStatus EXCEPT ![i] = r]
    /\ UNCHANGED <<stationDB, itemsStatus, ingestMu, session, subscriber, network, spc,
                   reg, stored, statusLog, stationStatus, now, faults>>

ReplayedItemsDone(k) ==
    /\ spc[k] = "items"
    /\ work[k].items = {}
    /\ spc' = [spc EXCEPT ![k] = "logs"]
    /\ UNCHANGED <<stationDB, itemsStatus, ingestMu, session, subscriber, network, work,
                   reg, serverDB, now, faults>>

(* Mutant: the rows of a batch are saved newest first. *)
NextRow_NewestFirst(r, rows) == r \in rows /\ \A q \in rows : q <= r

(* The row of the batch that is saved next: they come in ROWID order. *)
NextRow(r, rows) == r \in rows /\ \A q \in rows : r <= q

(* SaveItemStatusLog of the next row of the batch. *)
SaveReplayedLog(k) ==
    /\ spc[k] = "logs"
    /\ \E r \in work[k].rows :
          /\ NextRow(r, work[k].rows)
          /\ statusLog' = statusLog \cup {r}
          /\ work' = [work EXCEPT ![k] = [items |-> {}, rows |-> @.rows \ {r}]]
    /\ UNCHANGED <<stationDB, itemsStatus, ingestMu, session, subscriber, network, spc,
                   reg, stored, itemStatus, stationStatus, now, faults>>

ReplayedLogsDone(k) ==
    /\ spc[k] = "logs"
    /\ work[k].rows = {}
    /\ spc' = [spc EXCEPT ![k] = "run"]
    /\ UNCHANGED <<stationDB, itemsStatus, ingestMu, session, subscriber, network, work,
                   reg, serverDB, now, faults>>

(* The deferred calls StreamStation runs when it returns from phase p. *)
ReturnPhase(p) ==
    CASE p = "hello" -> "gone" [] p = "info" -> "delete" [] OTHER -> "closing"

(* StreamStation fails: its connection broke, or an operation of it failed. *)
StreamStationFails(k) ==
    /\ spc[k] \notin {"gone", "closing", "delete"}
    /\ \/ broken[k] /\ UNCHANGED faults
       \/ ~broken[k] /\ Fault
    /\ spc' = [spc EXCEPT ![k] = ReturnPhase(@)]
    /\ broken' = [broken EXCEPT ![k] = @ \/ spc[k] = "hello"]
    /\ c2s' = [c2s EXCEPT ![k] = IF spc[k] = "hello" THEN <<>> ELSE @]
    /\ work' = [work EXCEPT ![k] = NoWork]
    /\ UNCHANGED <<stationDB, itemsStatus, ingestMu, session, subscriber, reply, reg,
                   serverDB, now>>

(* Mutant: the registry entry is deleted before the status is written. *)
DeferredDisconnect_AfterDelete(k) ==
    /\ spc[k] = "closing"
    /\ \/ reg = k /\ reg' = NoConn /\ UNCHANGED <<spc, stationStatus>>
       \/ /\ reg # k
          /\ spc' = [spc EXCEPT ![k] = "delete"]
          /\ stationStatus' = "Disconnected"
          /\ UNCHANGED reg
    /\ UNCHANGED <<stationDB, itemsStatus, ingestMu, session, subscriber, network, work,
                   stored, statusLog, itemStatus, now, faults>>

(* The first deferred call: the station is marked Disconnected.  An error   *)
(* of that update is ignored.                                               *)
DeferredDisconnect(k) ==
    /\ spc[k] = "closing"
    /\ spc' = [spc EXCEPT ![k] = "delete"]
    /\ \/ stationStatus' = "Disconnected" /\ UNCHANGED faults
       \/ UNCHANGED stationStatus /\ Fault
    /\ UNCHANGED <<stationDB, itemsStatus, ingestMu, session, subscriber, network, work,
                   reg, stored, statusLog, itemStatus, now>>

(* Mutant: the deferred Delete is missing. *)
DeferredDelete_Missing(k) ==
    /\ spc[k] = "delete"
    /\ spc' = [spc EXCEPT ![k] = "gone"]
    /\ broken' = [broken EXCEPT ![k] = TRUE]
    /\ c2s' = [c2s EXCEPT ![k] = <<>>]
    /\ UNCHANGED <<stationDB, itemsStatus, ingestMu, session, subscriber, reply, work,
                   reg, serverDB, now, faults>>

(* The second: the registry entry is deleted; then the connection closes. *)
DeferredDelete(k) ==
    /\ spc[k] = "delete"
    /\ reg' = NoConn
    /\ spc' = [spc EXCEPT ![k] = "gone"]
    /\ broken' = [broken EXCEPT ![k] = TRUE]
    /\ c2s' = [c2s EXCEPT ![k] = <<>>]
    /\ UNCHANGED <<stationDB, itemsStatus, ingestMu, session, subscriber, reply, work,
                   serverDB, now, faults>>

(* The server's process dies and is started again; setAllDisconnected runs  *)
(* before it accepts connections.                                           *)
ServerRestart ==
    /\ Fault
    /\ spc' = [k \in Conns |-> "gone"]
    /\ work' = [k \in Conns |-> NoWork]
    /\ reg' = NoConn
    /\ c2s' = [k \in Conns |-> <<>>]
    /\ broken' = [k \in Conns |-> TRUE]
    /\ stationStatus' = "Disconnected"
    /\ UNCHANGED <<stationDB, itemsStatus, ingestMu, session, subscriber, reply, stored,
                   statusLog, itemStatus, now>>

-----------------------------------------------------------------------------
Init ==
    /\ hist = [i \in Items |-> {}]
    /\ log = <<>>
    /\ itemsStatus = [i \in Items |-> "none"]
    /\ ingestMu = FALSE
    /\ cpc = "idle"
    /\ cur = NoConn
    /\ latest = [i \in Items |-> 0]
    /\ latestRow = 0
    /\ subscribed = FALSE
    /\ queue = <<>>
    /\ c2s = [k \in Conns |-> <<>>]
    /\ reply = [k \in Conns |-> NoReply]
    /\ broken = [k \in Conns |-> TRUE]
    /\ spc = [k \in Conns |-> "gone"]
    /\ work = [k \in Conns |-> NoWork]
    /\ reg = NoConn
    /\ stored = [i \in Items |-> {}]
    /\ statusLog = {}
    /\ itemStatus = [i \in Items |-> 0]
    /\ stationStatus = "Disconnected"
    /\ now = 0
    /\ faults = 0

Ingest ==
    \E i \in Items, hasValue, logSaved, dataSaved \in BOOLEAN :
        \E t \in Timestamps : receiveData(i, hasValue, t, logSaved, dataSaved)

SessionStep ==
    \/ RecvServerHello
    \/ recvLatestFrames
    \/ LockIngest
    \/ \E i \in Items : \E t \in hist[i] : sendReplayData(i, t)
    \/ sendReplayStatus
    \/ SubscribeAndUnlock
    \/ forwardRealtimeData

HandlerStep(k) ==
    \/ recvHello(k)
    \/ recvStationInfo(k)
    \/ SendLatest(k)
    \/ handleDataBatch(k)
    \/ handleItemStatus(k)
    \/ handleStatusReplay(k)
    \/ \E i \in Items : UpdateReplayedItem(k, i)
    \/ ReplayedItemsDone(k)
    \/ SaveReplayedLog(k)
    \/ ReplayedLogsDone(k)
    \/ DeferredDisconnect(k)
    \/ DeferredDelete(k)

(* Everything the station saved is on the server. *)
Replicated ==
    /\ \A i \in Items : hist[i] \subseteq stored[i]
    /\ DOMAIN log \subseteq statusLog

(* The readings are used up and everything has been synchronised.  The only *)
(* state in which the system may stand still.                               *)
Quiescent ==
    /\ now = MaxClock
    /\ cpc = "realtime"
    /\ queue = <<>>
    /\ Replicated
    /\ UNCHANGED vars

Next ==
    \/ Ingest
    \/ \E k \in Conns : Connect(k)
    \/ SessionStep
    \/ runOnConnReturns
    \/ StationRestart
    \/ \E k \in Conns : Break(k) \/ HandlerStep(k) \/ StreamStationFails(k)
    \/ ServerRestart
    \/ Quiescent

Spec == Init /\ [][Next]_vars

(* The goroutines of both processes run; the station dials again after its  *)
(* pause; a broken connection is noticed by both ends (read error at the    *)
(* station, read error or the 100 s yamux keepalive at the server).         *)
Fairness ==
    /\ WF_vars(\E k \in Conns : Connect(k))
    /\ WF_vars(SessionStep)
    /\ WF_vars(runOnConnReturns /\ broken[cur])
    /\ \A k \in Conns : WF_vars(HandlerStep(k))
    /\ \A k \in Conns : WF_vars(StreamStationFails(k) /\ broken[k])

FairSpec == Spec /\ Fairness

-----------------------------------------------------------------------------
(* Safety *)

(* Replay and realtime leave no gap: when the server has a point of an      *)
(* item, it has every earlier point of that item the station saved.  The    *)
(* server only remembers the latest timestamp, so a gap would never be      *)
(* filled.                                                                  *)
GapFree ==
    \A i \in Items : \A t \in stored[i], u \in hist[i] : u < t => u \in stored[i]

(* The status log on the server is a prefix of the station's. *)
StatusLogPrefix ==
    \A r \in statusLog : \A q \in 1 .. r : q \in statusLog

(* The status the server shows for an item is never older than the last log *)
(* row it has of that item.  Such a row is not replayed again, so a stale   *)
(* status would stay.                                                       *)
ItemStatusFresh ==
    \A i \in Items : \A r \in RowsOf(i, statusLog) : r <= itemStatus[i]

(* The phases in which a handler is registered, and those in which it has   *)
(* marked the station Normal and not yet begun to return.                   *)
Registered(k) == spc[k] \notin {"gone", "hello"}
Serving(k)    == spc[k] \in {"sync", "run", "items", "logs"}

(* One v2 connection of a station is served at a time. *)
OneConnection ==
    \A k, l \in Conns : Registered(k) /\ Registered(l) => k = l

(* A station whose session is served is shown as Normal: the disconnection  *)
(* of an earlier session never overwrites it.                               *)
ServedIsNormal ==
    \A k \in Conns : Serving(k) => stationStatus = "Normal"

(* Liveness *)

(* What the station saved reaches the server, whatever breaks on the way, *)
(* once faults stop.                                                      *)
EventuallyReplicated ==
    /\ \A i \in Items, t \in 1 .. MaxClock : (t \in hist[i]) ~> (t \in stored[i])
    /\ \A r \in 1 .. MaxClock : (r \in DOMAIN log) ~> (r \in statusLog)

(* A session that locks ingestMu for its replay gives it back, so readings  *)
(* are not held up for ever.                                                *)
IngestResumes == ingestMu ~> ~ingestMu
=============================================================================
