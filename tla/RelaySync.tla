------------------------------ MODULE RelaySync ------------------------------
(***************************************************************************)
(* The relay between two servers: what an upstream has received from one   *)
(* station, data points and status rows, is copied to a downstream.        *)
(*                                                                         *)
(* Items are the items the relay's user may read.  A data point is its     *)
(* timestamp, a status-log entry its row id.  The station synchronisation  *)
(* stores the points of an item in order and the rows without gaps.  The   *)
(* status of a GPIO item, which has no rows and is reset with every point, *)
(* is left out.                                                            *)
(*                                                                         *)
(* A queue of the upstream is a subscriber channel together with the       *)
(* channel of frames it is converted into.  Nothing published after an     *)
(* overflow is sent.  When the downstream dials again, the handler of its  *)
(* old connection has no effect on it any more and is left out.            *)
(*                                                                         *)
(* Version 2 of the protocol has one stream.  Version 1 has four: status   *)
(* rows (1), the configuration and the missing rows (2), data (3) and the  *)
(* missing data (4).  There the status and the data go their own ways once *)
(* the missing rows are in, and the data in rounds: a round that ends, by  *)
(* an overflow, a refused write or a change of permissions, is followed by *)
(* a new subscription and a new look at the latest timestamps.             *)
(***************************************************************************)
EXTENDS Integers, Sequences, FiniteSets

CONSTANTS
    Items,             \* the items the relay's user may read
    Versions,          \* the versions of the protocol the downstream may use
    QueueCap,          \* capacity of a queue
    MaxPoints,         \* bound on the data points of the stations
    MaxRows,           \* bound on the status rows
    MaxFaults,         \* bound on crashes, breaks and failed operations
    DataDelay,         \* is DataDelaySec positive?
    ReplayMayOvertake  \* may a station replay a point while a delayed one waits?

ASSUME RelayAssumption ==
    /\ Versions \subseteq {1, 2} /\ Versions # {}
    /\ QueueCap \in Nat \ {0}
    /\ MaxPoints \in Nat /\ MaxRows \in Nat /\ MaxFaults \in Nat
    /\ DataDelay \in BOOLEAN /\ ReplayMayOvertake \in BOOLEAN

VARIABLES
    version,      \* of the protocol: the downstream's SyncV2.Enabled
    \* The upstream: PostgreSQL.
    uStored,      \* item -> timestamps
    uLog,         \* item_status_log: the index is the row id, the element its item
    \* The upstream: memory.
    unpublished,  \* what the station's handler has saved and not yet published
    delayed,      \* the queue of the delayed broker
    upc,          \* where StreamRelay is
    asked,        \* item -> the downstream's latest timestamp
    missItems,    \* items whose history is not sent yet
    subscribed,   \* which of the relay's subscribers are in the brokers
    sub,          \* their queues: config (and status) and data
    closed,       \* which of them has been cancelled
    \* The connection.
    u2d,          \* stream -> frames on their way down
    d2u,          \* the frame on its way up, if any
    broken,       \* no frame sent from now on arrives
    \* The downstream.
    dpc,          \* where RunDownstream is
    dStored,      \* item -> timestamps
    dLog,         \* rows in item_status_log
    dItem,        \* item -> row id of the status it shows, 0 for none
    skipped,      \* the points and rows whose write was refused, and only logged
    \* The environment.
    now,          \* data points so far
    faults        \* faults so far

upstreamDB == <<uStored, uLog>>
feed       == <<unpublished, delayed>>
queues     == <<subscribed, sub, closed>>
upstream   == <<upc, asked, missItems>>
network    == <<u2d, d2u, broken>>
downDB     == <<dStored, dLog, dItem, skipped>>
vars == <<version, upstreamDB, feed, upstream, queues, network, dpc, downDB, now, faults>>

-----------------------------------------------------------------------------
Point   == [type : {"data"}, item : Items, ts : Nat, replay : BOOLEAN]
Row     == [type : {"status"}, row : Nat]
Frame   == Point \cup Row \cup [type : {"config", "permissions", "end"}]
           \cup [type : {"missStatus"}, rows : SUBSET Nat, shown : SUBSET Nat]
           \cup [type : {"missData"}, item : Items, points : SUBSET Nat]
Request == [type : {"none", "hello", "open"}] \cup [type : {"statusLatest"}, row : Nat]
           \cup [type : {"itemsLatest"}, ts : [Items -> Nat]]

NoRequest == [type |-> "none"]
Queues    == {"config", "data"}
Empty     == [q \in Queues |-> <<>>]
None      == [q \in Queues |-> FALSE]
NoFrames  == [s \in 1 .. 4 |-> <<>>]

(* What the downstream missed: rows, those of them the items show already,  *)
(* and points of an item.                                                   *)
MissStatus(rows, shown) == [type |-> "missStatus", rows |-> rows, shown |-> shown]
MissData(i, points)     == [type |-> "missData", item |-> i, points |-> points]

(* Every variable stays in its type; the queues within their capacity. *)
TypeOK ==
    /\ uStored \in [Items -> SUBSET Nat]
    /\ uLog \in Seq(Items)
    /\ unpublished \in Seq(Point \cup Row) /\ Len(unpublished) <= 1
    /\ delayed \in Seq(Point)
    /\ version \in Versions
    /\ upc \in {"gone", "hello", "status", "accept", "data", "history", "run"}
    /\ asked \in [Items -> Nat]
    /\ missItems \subseteq Items
    /\ subscribed \in [Queues -> BOOLEAN]
    /\ sub \in [config : Seq(Row), data : Seq(Point)]
    /\ \A q \in DOMAIN sub : Len(sub[q]) <= QueueCap
    /\ closed \in [Queues -> BOOLEAN]
    /\ u2d \in [1 .. 4 -> Seq(Frame)]
    /\ d2u \in Request
    /\ broken \in BOOLEAN
    /\ dpc \in {"idle", "boot", "status", "open", "miss", "run"}
    /\ dStored \in [Items -> SUBSET Nat]
    /\ dLog \subseteq Nat
    /\ dItem \in [Items -> Nat]
    /\ skipped \in [points : SUBSET Nat, rows : SUBSET Nat]
    /\ now \in Nat
    /\ faults \in Nat

Fault == faults < MaxFaults /\ faults' = faults + 1

(* m is what max() of the set S of naturals returns, 0 on the empty set; *)
(* m is the least element of S.                                          *)
IsLatest(m, S) == m \in S \cup {0} /\ \A u \in S : u <= m
IsNext(m, S)   == m \in S /\ \A u \in S : m <= u

(* The stream of a frame. *)
Stream(ty) ==
    IF version = 2 THEN 1
    ELSE CASE ty = "status"                  -> 1
           [] ty \in {"config", "missStatus"} -> 2
           [] ty = "data"                    -> 3
           [] OTHER                          -> 4

(* A frame is sent down: it is lost when the connection is broken. *)
Arrives(frame) ==
    IF broken THEN u2d ELSE [u2d EXCEPT ![Stream(frame.type)] = Append(@, frame)]

-----------------------------------------------------------------------------
(* The stations' side of the upstream *)

QueueOf(m) == IF m.type = "data" THEN "data" ELSE "config"

(* Mutant: a full channel is not noticed. *)
Publish_Unbounded(m) ==
    /\ sub' = IF subscribed[QueueOf(m)] THEN [sub EXCEPT ![QueueOf(m)] = Append(@, m)] ELSE sub
    /\ UNCHANGED <<subscribed, closed>>

(* Broker.Publish to the relay's subscriber: a full channel closes it. *)
Publish(m) ==
    LET q == QueueOf(m)
    IN  \/ /\ ~subscribed[q] \/ closed[q]
           /\ UNCHANGED queues
        \/ /\ subscribed[q] /\ ~closed[q]
           /\ Len(sub[q]) < QueueCap
           /\ sub' = [sub EXCEPT ![q] = Append(@, m)]
           /\ UNCHANGED <<subscribed, closed>>
        \/ /\ subscribed[q] /\ ~closed[q]
           /\ Len(sub[q]) = QueueCap
           /\ closed' = [closed EXCEPT ![q] = TRUE]
           /\ UNCHANGED <<subscribed, sub>>

(* The station's handler saves a point, a realtime or a replayed one. *)
StorePoint(i, replay) ==
    /\ unpublished = <<>>
    /\ now < MaxPoints
    /\ replay => ReplayMayOvertake \/ \A n \in DOMAIN delayed : delayed[n].item # i
    /\ now' = now + 1
    /\ uStored' = [uStored EXCEPT ![i] = @ \cup {now + 1}]
    /\ unpublished' = <<[type |-> "data", item |-> i, ts |-> now + 1, replay |-> replay]>>
    /\ UNCHANGED <<version, uLog, delayed, upstream, queues, network, dpc, downDB,
                   faults>>

(* It saves a status row. *)
StoreRow(i) ==
    /\ unpublished = <<>>
    /\ Len(uLog) < MaxRows
    /\ uLog' = Append(uLog, i)
    /\ unpublished' = <<[type |-> "status", row |-> Len(uLog) + 1]>>
    /\ UNCHANGED <<version, uStored, delayed, upstream, queues, network, dpc, downDB,
                   now, faults>>

(* What was saved is published: a replayed point and a row at once, a       *)
(* realtime point through the delayed broker.                               *)
PublishSaved ==
    /\ unpublished # <<>>
    /\ unpublished' = <<>>
    /\ LET m == Head(unpublished)
       IN  IF DataDelay /\ m.type = "data" /\ ~m.replay
           THEN delayed' = Append(delayed, m) /\ UNCHANGED queues
           ELSE Publish(m) /\ UNCHANGED delayed
    /\ UNCHANGED <<version, upstreamDB, upstream, network, dpc, downDB, now, faults>>

PublishDelayed ==
    /\ delayed # <<>>
    /\ delayed' = Tail(delayed)
    /\ Publish(Head(delayed))
    /\ UNCHANGED <<version, upstreamDB, unpublished, upstream, network, dpc, downDB,
                   now, faults>>

-----------------------------------------------------------------------------
(* StreamRelay *)

(* Mutants: the brokers are subscribed to after the history has been sent; *)
(* they are not subscribed to at all.                                      *)
SubscribesAt_Run(p) == p = "run"
SubscribesAt_Never(p) == FALSE

(* The phase the upstream is in when it has subscribed; version 1 does so   *)
(* for the data in every round.                                             *)
SubscribesAt(p) == p = "status" \/ (p = "data" /\ version = 1)

Subscribe(p, qs) ==
    IF SubscribesAt(p)
    THEN /\ subscribed' = [q \in Queues |-> q \in qs \/ subscribed[q]]
         /\ sub' = [q \in Queues |-> IF q \in qs THEN <<>> ELSE sub[q]]
         /\ closed' = [q \in Queues |-> q \notin qs /\ closed[q]]
    ELSE UNCHANGED queues

(* The brokers are subscribed to, the available items and the full          *)
(* configuration sent.                                                      *)
Serve(qs) ==
    /\ upc = "hello"
    /\ d2u.type = "hello"
    /\ upc' = "status"
    /\ Subscribe("status", qs)
    /\ d2u' = NoRequest
    /\ u2d' = Arrives([type |-> "config"])
    /\ UNCHANGED <<version, upstreamDB, feed, asked, missItems, broken, dpc, downDB,
                   now, faults>>

(* Version 2: after DownstreamHello. *)
RecvDownstreamHello == version = 2 /\ Serve(Queues)

(* Version 1: when the first stream is accepted, for the configuration and  *)
(* the status.                                                              *)
handleSyncServerConn == version = 1 /\ Serve({"config"})

(* The rows after the downstream's latest one. *)
SendMissStatus(next) ==
    /\ upc = "status"
    /\ d2u.type = "statusLatest"
    /\ upc' = next
    /\ d2u' = NoRequest
    /\ u2d' = Arrives(MissStatus({r \in DOMAIN uLog : r > d2u.row}, {}))
    /\ UNCHANGED <<version, upstreamDB, feed, asked, missItems, queues, broken, dpc,
                   downDB, now, faults>>

handleMissStatusSync == version = 2 /\ SendMissStatus("data")
fullSyncConfigServer == version = 1 /\ SendMissStatus("accept")

(* A round of version 1: the streams are accepted, the data subscribed to,   *)
(* the permissions sent.                                                     *)
syncDataServer ==
    /\ upc = "accept"
    /\ d2u.type = "open"
    /\ upc' = "data"
    /\ Subscribe("data", {"data"})
    /\ d2u' = NoRequest
    /\ u2d' = Arrives([type |-> "permissions"])
    /\ UNCHANGED <<version, upstreamDB, feed, asked, missItems, broken, dpc, downDB,
                   now, faults>>

(* The downstream has closed the data stream: the round is over. *)
syncDataServerReturns ==
    /\ upc = "run"
    /\ d2u.type = "open"
    /\ upc' = "accept"
    /\ subscribed' = [subscribed EXCEPT !.data = FALSE]
    /\ sub' = [sub EXCEPT !.data = <<>>]
    /\ closed' = [closed EXCEPT !.data = FALSE]
    /\ UNCHANGED <<version, upstreamDB, feed, asked, missItems, network, dpc, downDB,
                   now, faults>>

(* The latest timestamps are received.  An item of which the downstream has  *)
(* nothing gets no history.                                                  *)
RecvItemsLatest ==
    /\ upc = "data"
    /\ d2u.type = "itemsLatest"
    /\ upc' = "history"
    /\ d2u' = NoRequest
    /\ asked' = d2u.ts
    /\ missItems' = {i \in Items : d2u.ts[i] > 0}
    /\ UNCHANGED <<version, upstreamDB, feed, queues, u2d, broken, dpc, downDB, now,
                   faults>>

(* Mutant: the history is asked for one point too late. *)
HistoryAfter_Skips(i) == {t \in uStored[i] : t > asked[i] + 1}

(* GetDataHistory: the points after the downstream's latest one. *)
HistoryAfter(i) == {t \in uStored[i] : t > asked[i]}

SendHistory(i) ==
    /\ upc = "history"
    /\ i \in missItems
    /\ missItems' = missItems \ {i}
    /\ u2d' = IF HistoryAfter(i) = {} THEN u2d
              ELSE Arrives(MissData(i, HistoryAfter(i)))
    /\ UNCHANGED <<version, upstreamDB, feed, upc, asked, queues, d2u, broken, dpc,
                   downDB, now, faults>>

SendHistoryEnd ==
    /\ upc = "history"
    /\ missItems = {}
    /\ upc' = "run"
    /\ Subscribe("run", Queues)
    /\ u2d' = Arrives([type |-> "end"])
    /\ UNCHANGED <<version, upstreamDB, feed, asked, missItems, d2u, broken, dpc,
                   downDB, now, faults>>

SendMissData == RecvItemsLatest \/ (\E i \in Items : SendHistory(i)) \/ SendHistoryEnd

handleMissDataSync == version = 2 /\ SendMissData
fillMissDataServer == version = 1 /\ SendMissData

(* Version 2 drains its queues when everything else has been sent.  In      *)
(* version 1 every subscriber has a goroutine that writes until it is       *)
(* cancelled, or nobody reads the stream any more.                          *)
Forwards(q) ==
    \/ version = 2 /\ upc = "run"
    \/ version = 1 /\ ~closed[q] /\ (q = "data" => d2u.type # "open")

forwardIncremental(q) ==
    /\ Forwards(q)
    /\ sub[q] # <<>>
    /\ sub' = [sub EXCEPT ![q] = Tail(@)]
    /\ u2d' = Arrives(Head(sub[q]))
    /\ UNCHANGED <<version, upstreamDB, feed, upstream, subscribed, closed, d2u,
                   broken, dpc, downDB, now, faults>>

(* What ends the connection: its break, a queue that closed.  In version 1   *)
(* only the status queue does, when the missing rows have been sent.         *)
Ended ==
    \/ broken
    \/ version = 2 /\ upc = "run" /\ \E q \in Queues : closed[q] /\ sub[q] = <<>>
    \/ version = 1 /\ upc \notin {"hello", "status"} /\ closed.config

(* hub.UpdatePermissions cancels the data subscriber. *)
UpdatePermissions ==
    /\ Fault
    /\ subscribed.data /\ ~closed.data
    /\ closed' = [closed EXCEPT !.data = TRUE]
    /\ UNCHANGED <<version, upstreamDB, feed, upstream, subscribed, sub, network, dpc,
                   downDB, now>>

(* StreamRelay returns; its deferred calls unsubscribe. *)
StreamRelayReturns ==
    /\ upc # "gone"
    /\ \/ Ended /\ UNCHANGED faults
       \/ ~Ended /\ Fault
    /\ upc' = "gone"
    /\ subscribed' = None
    /\ sub' = Empty
    /\ closed' = None
    /\ broken' = TRUE
    /\ UNCHANGED <<version, upstreamDB, feed, asked, missItems, u2d, d2u, dpc, downDB,
                   now>>

(* The upstream's process dies and is started again. *)
UpstreamRestart ==
    /\ Fault
    /\ unpublished' = <<>>
    /\ delayed' = <<>>
    /\ upc' = "gone"
    /\ subscribed' = None
    /\ sub' = Empty
    /\ closed' = None
    /\ broken' = TRUE
    /\ UNCHANGED <<version, upstreamDB, asked, missItems, u2d, d2u, dpc, downDB, now>>

Break ==
    /\ Fault
    /\ ~broken
    /\ broken' = TRUE
    /\ UNCHANGED <<version, upstreamDB, feed, upstream, queues, u2d, d2u, dpc, downDB,
                   now>>

-----------------------------------------------------------------------------
(* RunDownstream *)

Receives(ty) == LET s == u2d[Stream(ty)] IN s # <<>> /\ Head(s).type = ty
Taken(ty) == [u2d EXCEPT ![Stream(ty)] = Tail(@)]

(* A write the downstream's database refuses is only logged in version 2;   *)
(* in version 1 it ends the round or the connection.                        *)
Refused(kind, n) ==
    /\ version = 2
    /\ Fault
    /\ skipped' = [skipped EXCEPT ![kind] = @ \cup {n}]

openDownstreamStream ==
    /\ dpc = "idle"
    /\ dpc' = "boot"
    /\ upc' = "hello"
    /\ subscribed' = None
    /\ sub' = Empty
    /\ closed' = None
    /\ u2d' = NoFrames
    /\ d2u' = [type |-> "hello"]
    /\ broken' = FALSE
    /\ UNCHANGED <<version, upstreamDB, feed, asked, missItems, downDB, now, faults>>

(* The configuration is applied and the latest status row sent. *)
RecvFullConfig ==
    /\ dpc = "boot"
    /\ Receives("config")
    /\ dpc' = "status"
    /\ u2d' = Taken("config")
    /\ \E row \in dLog \cup {0} :
          /\ IsLatest(row, dLog)
          /\ d2u' = [type |-> "statusLatest", row |-> row]
    /\ UNCHANGED <<version, upstreamDB, feed, upstream, queues, broken, downDB, now,
                   faults>>

(* The rows whose status the items show before a row is saved: in version 2 *)
(* the next row, in version 1 the last one of every item.                   *)
ToShow(rows) ==
    IF version = 2 THEN {r \in rows : IsNext(r, rows)}
    ELSE {r \in rows : IsLatest(r, {q \in rows : uLog[q] = uLog[r]})}

(* The items show the status ... *)
ShowMissStatus(r) ==
    LET s     == Stream("missStatus")
        batch == Head(u2d[s])
    IN  /\ dpc = "status"
        /\ Receives("missStatus")
        /\ r \in ToShow(batch.rows) \ batch.shown
        /\ \/ /\ dItem' = [dItem EXCEPT ![uLog[r]] = r]
              /\ u2d' = [u2d EXCEPT ![s][1] = MissStatus(batch.rows, batch.shown \cup {r})]
              /\ UNCHANGED <<skipped, faults>>
           \/ /\ Refused("rows", r)
              /\ u2d' = [u2d EXCEPT ![s][1] = MissStatus(batch.rows \ {r}, batch.shown)]
              /\ UNCHANGED dItem
        /\ UNCHANGED <<version, upstreamDB, feed, upstream, queues, d2u, broken, dpc,
                       dStored, dLog, now>>

(* ... and then the rows are saved, in order. *)
SaveMissStatus(r) ==
    LET s     == Stream("missStatus")
        batch == Head(u2d[s])
    IN  /\ dpc = "status"
        /\ Receives("missStatus")
        /\ IsNext(r, batch.rows)
        /\ ToShow(batch.rows) \subseteq batch.shown
        /\ \/ dLog' = dLog \cup {r} /\ UNCHANGED <<skipped, faults>>
           \/ Refused("rows", r) /\ UNCHANGED dLog
        /\ u2d' = [u2d EXCEPT ![s][1] = MissStatus(batch.rows \ {r}, batch.shown \ {r})]
        /\ UNCHANGED <<version, upstreamDB, feed, upstream, queues, d2u, broken, dpc,
                       dStored, dItem, now>>

(* Version 1: the streams of the first round are opened. *)
fullSyncConfigClientReturns ==
    /\ dpc = "status"
    /\ Receives("missStatus")
    /\ Head(u2d[2]).rows = {}
    /\ dpc' = "open"
    /\ u2d' = Taken("missStatus")
    /\ d2u' = [type |-> "open"]
    /\ UNCHANGED <<version, upstreamDB, feed, upstream, queues, broken, downDB, now,
                   faults>>

TakeMissStatus == \E r \in DOMAIN uLog : ShowMissStatus(r) \/ SaveMissStatus(r)

syncMissStatus       == version = 2 /\ (RecvFullConfig \/ TakeMissStatus)
fullSyncConfigClient ==
    version = 1 /\ (RecvFullConfig \/ TakeMissStatus \/ fullSyncConfigClientReturns)

(* The missing rows are in; in version 1 the permissions have been received. *)
ReadyForData ==
    \/ /\ version = 2 /\ dpc = "status"
       /\ Receives("missStatus") /\ Head(u2d[1]).rows = {}
       /\ u2d' = Taken("missStatus")
    \/ /\ version = 1 /\ dpc = "open"
       /\ Receives("permissions")
       /\ u2d' = Taken("permissions")

(* The latest timestamp of every item is sent. *)
SendItemsLatest ==
    /\ ReadyForData
    /\ dpc' = "miss"
    /\ \E ts \in [Items -> 0 .. now] :
          /\ \A i \in Items : IsLatest(ts[i], dStored[i])
          /\ d2u' = [type |-> "itemsLatest", ts |-> ts]
    /\ UNCHANGED <<version, upstreamDB, feed, upstream, queues, broken, downDB, now,
                   faults>>

(* The point of a batch that is saved next: they come in time order. *)
NextMissing(t, S) == IsNext(t, S)

(* Version 1 sends the missing data as a whole. *)
MissDataArrived == version = 1 => \E k \in DOMAIN u2d[4] : u2d[4][k].type = "end"

SaveMissData(t) ==
    LET s     == Stream("missData")
        batch == Head(u2d[s])
        left  == batch.points \ {t}
    IN  /\ dpc = "miss"
        /\ Receives("missData")
        /\ MissDataArrived
        /\ NextMissing(t, batch.points)
        /\ dStored' = [dStored EXCEPT ![batch.item] = @ \cup {t}]
        /\ u2d' = IF left = {} THEN Taken("missData")
                  ELSE [u2d EXCEPT ![s][1] = MissData(batch.item, left)]
        /\ UNCHANGED <<version, upstreamDB, feed, upstream, queues, d2u, broken, dpc,
                       dLog, dItem, skipped, now, faults>>

MissDataEnds ==
    /\ dpc = "miss"
    /\ Receives("end")
    /\ dpc' = "run"
    /\ u2d' = Taken("end")
    /\ UNCHANGED <<version, upstreamDB, feed, upstream, queues, d2u, broken, downDB,
                   now, faults>>

TakeMissData == SendItemsLatest \/ (\E t \in 1 .. now : SaveMissData(t)) \/ MissDataEnds

syncMissData       == version = 2 /\ TakeMissData
fillMissDataClient == version = 1 /\ TakeMissData

(* A point of the data stream is saved. *)
SavePoint ==
    LET point == Head(u2d[Stream("data")])
    IN  /\ dpc = "run"
        /\ Receives("data")
        /\ u2d' = Taken("data")
        /\ \/ /\ dStored' = [dStored EXCEPT ![point.item] = @ \cup {point.ts}]
              /\ UNCHANGED <<skipped, faults>>
           \/ Refused("points", point.ts) /\ UNCHANGED dStored
        /\ UNCHANGED <<version, upstreamDB, feed, upstream, queues, d2u, broken, dpc,
                       dLog, dItem, now>>

applyDataBatch == version = 2 /\ SavePoint
syncDataClient == version = 1 /\ SavePoint

(* Mutant: the item shows the status of a row that was there already. *)
ShowsRow_Always(r) == TRUE

(* UpdateAndSaveStatusLog updates the item if it inserted the row. *)
ShowsRow(r) == r \notin dLog

(* A row of the realtime queue: one transaction. *)
SaveRow ==
    LET r == Head(u2d[1]).row
    IN  /\ Receives("status")
        /\ u2d' = Taken("status")
        /\ \/ /\ dLog' = dLog \cup {r}
              /\ dItem' = [dItem EXCEPT ![uLog[r]] = IF ShowsRow(r) THEN r ELSE @]
              /\ UNCHANGED <<skipped, faults>>
           \/ Refused("rows", r) /\ UNCHANGED <<dLog, dItem>>
        /\ UNCHANGED <<version, upstreamDB, feed, upstream, queues, d2u, broken, dpc,
                       dStored, now>>

applyStatusEvent == version = 2 /\ dpc = "run" /\ SaveRow

(* It runs beside the rounds of the data. *)
handleSyncConfigMsg == version = 1 /\ dpc \in {"open", "miss", "run"} /\ SaveRow

(* Version 1: the data stream has ended, or a point was refused; what is     *)
(* still on the stream is dropped.                                           *)
RoundEnds == closed.data /\ u2d[3] = <<>> /\ ~broken

syncDataClientReturns ==
    /\ version = 1
    /\ dpc = "run"
    /\ \/ RoundEnds /\ UNCHANGED faults
       \/ Receives("data") /\ Fault
    /\ dpc' = "open"
    /\ u2d' = [u2d EXCEPT ![3] = <<>>]
    /\ d2u' = [type |-> "open"]
    /\ UNCHANGED <<version, upstreamDB, feed, upstream, queues, broken, downDB, now>>

(* RunDownstream returns, or its process dies: it keeps nothing in memory. *)
RunDownstreamReturns ==
    /\ dpc # "idle"
    /\ \/ broken /\ UNCHANGED faults
       \/ ~broken /\ Fault
    /\ dpc' = "idle"
    /\ broken' = TRUE
    /\ u2d' = NoFrames
    /\ d2u' = NoRequest
    /\ UNCHANGED <<version, upstreamDB, feed, upstream, queues, downDB, now>>

-----------------------------------------------------------------------------
Init ==
    /\ version \in Versions
    /\ uStored = [i \in Items |-> {}]
    /\ uLog = <<>>
    /\ unpublished = <<>>
    /\ delayed = <<>>
    /\ upc = "gone"
    /\ asked = [i \in Items |-> 0]
    /\ missItems = {}
    /\ subscribed = None
    /\ sub = Empty
    /\ closed = None
    /\ u2d = NoFrames
    /\ d2u = NoRequest
    /\ broken = TRUE
    /\ dpc = "idle"
    /\ dStored = [i \in Items |-> {}]
    /\ dLog = {}
    /\ dItem = [i \in Items |-> 0]
    /\ skipped = [points |-> {}, rows |-> {}]
    /\ now = 0
    /\ faults = 0

StationFeeds ==
    \/ \E i \in Items, replay \in BOOLEAN : StorePoint(i, replay)
    \/ \E i \in Items : StoreRow(i)

StreamRelay ==
    \/ RecvDownstreamHello
    \/ handleMissStatusSync
    \/ handleMissDataSync
    \/ handleSyncServerConn
    \/ fullSyncConfigServer
    \/ syncDataServer
    \/ fillMissDataServer
    \/ syncDataServerReturns

RunDownstream ==
    \/ syncMissStatus
    \/ syncMissData
    \/ applyDataBatch
    \/ fullSyncConfigClient
    \/ fillMissDataClient
    \/ syncDataClient

(* Everything has been fed and relayed: the only state in which the system *)
(* may stand still.                                                        *)
Quiescent ==
    /\ now = MaxPoints /\ Len(uLog) = MaxRows
    /\ unpublished = <<>> /\ delayed = <<>>
    /\ dpc = "run" /\ upc = "run" /\ ~broken
    /\ sub = Empty /\ closed = None /\ u2d = NoFrames
    /\ UNCHANGED vars

Next ==
    \/ StationFeeds
    \/ PublishSaved
    \/ PublishDelayed
    \/ StreamRelay
    \/ \E q \in Queues : forwardIncremental(q)
    \/ UpdatePermissions
    \/ StreamRelayReturns
    \/ UpstreamRestart
    \/ Break
    \/ openDownstreamStream
    \/ RunDownstream
    \/ applyStatusEvent
    \/ handleSyncConfigMsg
    \/ syncDataClientReturns
    \/ RunDownstreamReturns
    \/ Quiescent

Spec == Init /\ [][Next]_vars

(* The goroutines of both servers run, the downstream dials again after its *)
(* pause, a broken connection is noticed by both ends, and forwardIncremental *)
(* takes from a channel that stays ready, as Go's select does.  Of what goes *)
(* through the delayed broker nothing is assumed: its loop and its publisher *)
(* can wait for each other for ever (DelayedBroker, run broker_wedged).      *)
Fairness ==
    /\ WF_vars(PublishSaved /\ UNCHANGED delayed)
    /\ WF_vars(StreamRelay)
    /\ \A q \in Queues : WF_vars(forwardIncremental(q))
    /\ WF_vars(StreamRelayReturns /\ Ended)
    /\ WF_vars(openDownstreamStream)
    /\ WF_vars(RunDownstream)
    /\ WF_vars(applyStatusEvent \/ handleSyncConfigMsg)
    /\ WF_vars(syncDataClientReturns /\ RoundEnds)
    /\ WF_vars(RunDownstreamReturns /\ broken)

FairSpec == Spec /\ Fairness

-----------------------------------------------------------------------------
(* From its first point of an item on, the downstream misses no point but   *)
(* those its database refused: when it has a later one it has every earlier *)
(* one the upstream stored.  It asks only for what is later than its latest *)
(* point, so a gap would stay.                                              *)
RelayGapFree ==
    \A i \in Items : \A first, t \in dStored[i], u \in uStored[i] :
        first < u /\ u < t => u \in dStored[i] \cup skipped.points

(* The downstream's status log is a prefix of the upstream's, but for the   *)
(* rows its database refused.                                               *)
RelayedLogPrefix == \A r \in dLog : 1 .. r \subseteq dLog \cup skipped.rows

(* The status the downstream shows for an item is that of the last row it   *)
(* has of it, or of the row it is about to save, and it never goes back to  *)
(* that of an earlier row, although the rows replayed and those of the      *)
(* realtime queue overlap.  A row whose first write was refused is the      *)
(* exception: its queued copy is new and comes after later rows.            *)
RelayedStatusFresh ==
    /\ [](\A r \in dLog : r <= dItem[uLog[r]] \/ dItem[uLog[r]] \in skipped.rows)
    /\ [][\A i \in Items : dItem'[i] >= dItem[i] \/ dItem'[i] \in skipped.rows]_vars

(* The delayed broker takes and hands on what it is given: it is not wedged. *)
BrokerServes == []<>(unpublished = <<>> /\ delayed = <<>>)

(* A point the downstream misses between two others is sent again, where the *)
(* delayed broker serves.                                                    *)
GapsFilled ==
    BrokerServes => \A i \in Items, t \in 1 .. MaxPoints :
        (/\ t \in uStored[i] \ (dStored[i] \cup skipped.points)
         /\ \E u, v \in dStored[i] : u < t /\ t < v) ~> (t \in dStored[i])

(* Every row reaches the downstream, and every point of an item it already  *)
(* has a point of, whatever breaks on the way, once faults stop and as long *)
(* as the delayed broker serves.                                            *)
EventuallyRelayed ==
    BrokerServes =>
        <>[](/\ DOMAIN uLog \subseteq dLog \cup skipped.rows
             /\ \A i \in Items : \A u \in dStored[i], t \in uStored[i] :
                   u < t => t \in dStored[i] \cup skipped.points)
=============================================================================
