--------------------------- MODULE StationV1Proofs ---------------------------
(***************************************************************************)
(* Proofs about StationV1: its types, and that the server's copy of every  *)
(* item and of the status log is a prefix of the station's, whatever       *)
(* becomes of the messages and whichever version serves the station.       *)
(*                                                                         *)
(* The points of an item and the rows of the status log obey the same      *)
(* argument.  Each is a stream of naturals: the station saves them in      *)
(* increasing order, the server stores them, and what is on its way        *)
(* between the two is a sequence of sets.                                  *)
(***************************************************************************)
EXTENDS StationV1, SequenceTheorems, TLAPS

Msg == Point \cup Row

(* A channel that takes what fits of m after q. *)
LEMMA Clipped ==
    ASSUME NEW S, NEW q \in Seq(S), NEW n \in Nat \ {0}, Len(q) > n
    PROVE  SubSeq(q, 1, n) \in Seq(S) /\ Len(SubSeq(q, 1, n)) = n
<1>1. \A j \in 1 .. n : q[j] \in S
  BY ElementOfSeq
<1> QED BY <1>1, SubSeqProperties

LEMMA SingletonSeq ==
    ASSUME NEW S, NEW e \in S
    PROVE  <<e>> \in Seq(S) /\ Len(<<e>>) = 1
OBVIOUS

(* What Publish does to the variables it changes. *)
LEMMA PublishType ==
    ASSUME TypeOK, NEW msgs \in Seq(Msg), Publish(msgs)
    PROVE  /\ queue' \in Seq(Msg) /\ Len(queue') <= QueueCap
           /\ subscribed' \in BOOLEAN
           /\ broken' \in [Conns -> BOOLEAN]
<1>1. /\ queue \in Seq(Msg) /\ Len(queue) <= QueueCap
      /\ queue \o msgs \in Seq(Msg) /\ Len(queue \o msgs) \in Nat /\ QueueCap \in Nat \ {0}
  BY ConcatProperties, LenProperties, StationV1Assumption DEF TypeOK, Msg
<1>2. subscribed \in BOOLEAN /\ broken \in [Conns -> BOOLEAN]
  BY DEF TypeOK
<1>3. subscribed' \in BOOLEAN /\ broken' \in [Conns -> BOOLEAN]
  BY <1>2, Zenon DEF Publish
<1>4. CASE queue' = queue
  BY <1>1, <1>3, <1>4
<1>5. CASE Len(queue \o msgs) <= QueueCap /\ queue' = queue \o msgs
  BY <1>1, <1>3, <1>5
<1>6. CASE Len(queue \o msgs) > QueueCap /\ queue' = SubSeq(queue \o msgs, 1, QueueCap)
  BY <1>1, <1>3, <1>6, Clipped
<1> QED BY <1>4, <1>5, <1>6, Zenon DEF Publish

(* Messages sent to a connection are messages. *)
LEMMA ArrivesType ==
    ASSUME TypeOK, NEW k \in Conns, NEW m \in Message
    PROVE  Arrives(k, m) \in [Conns -> Seq(Message)]
BY DEF TypeOK, Arrives

(* Taking the first message of a connection leaves messages. *)
LEMMA TakenType ==
    ASSUME TypeOK, NEW k \in Conns, c2s[k] # <<>>
    PROVE  /\ Head(c2s[k]) \in Message
           /\ [c2s EXCEPT ![k] = Tail(@)] \in [Conns -> Seq(Message)]
BY HeadTailProperties DEF TypeOK

(* The type of the first message tells what it is. *)
LEMMA HeadKinds ==
    ASSUME NEW m \in Message
    PROVE  /\ m.type = "data" => m \in Point
           /\ m.type = "status" => m \in Row
           /\ m.type = "missData" => \E P \in [Items -> SUBSET Nat] :
                                        m = [type |-> "missData", points |-> P]
           /\ m.type = "missStatus" => \E R \in SUBSET Nat :
                                          m = [type |-> "missStatus", rows |-> R]
           /\ m.type = "info" => m.version \in Versions
BY DEF Message, Point, Row

(* A batch that has lost a row; a point. *)
LEMMA RowLeaves ==
    ASSUME NEW R, NEW r
    PROVE  [[type |-> "missStatus", rows |-> R] EXCEPT !.rows = @ \ {r}]
             = [type |-> "missStatus", rows |-> R \ {r}]
OBVIOUS

LEMMA BatchShrinks ==
    ASSUME NEW m \in Message, m.type = "missData", NEW i \in Items, NEW t
    PROVE  [m EXCEPT !.points[i] = @ \ {t}] \in Message
<1>1. PICK P \in [Items -> SUBSET Nat] : m = [type |-> "missData", points |-> P]
  BY HeadKinds
<1>2. [P EXCEPT ![i] = @ \ {t}] \in [Items -> SUBSET Nat]
  OBVIOUS
<1>3. [m EXCEPT !.points[i] = @ \ {t}]
        = [type |-> "missData", points |-> [P EXCEPT ![i] = @ \ {t}]]
  <2>1. m.points = P
    BY <1>1
  <2>2. [[type |-> "missData", points |-> P] EXCEPT !.points = [P EXCEPT ![i] = P[i] \ {t}]]
          = [type |-> "missData", points |-> [P EXCEPT ![i] = P[i] \ {t}]]
    OBVIOUS
  <2>3. [m EXCEPT !.points[i] = @ \ {t}] = [m EXCEPT !.points = [P EXCEPT ![i] = P[i] \ {t}]]
    BY <2>1
  <2> QED BY <1>1, <2>2, <2>3
<1> QED BY <1>2, <1>3 DEF Message

(* The first message of q replaced by m. *)
LEMMA HeadReplaced ==
    ASSUME TypeOK, NEW k \in Conns, c2s[k] # <<>>, NEW m \in Message
    PROVE  [c2s EXCEPT ![k] = [@ EXCEPT ![1] = m]] \in [Conns -> Seq(Message)]
<1>1. c2s[k] \in Seq(Message) /\ 1 \in 1 .. Len(c2s[k])
  BY LenProperties, EmptySeq DEF TypeOK
<1>2. [c2s[k] EXCEPT ![1] = m] \in Seq(Message)
  BY <1>1, ExceptSeq
<1> QED BY <1>2 DEF TypeOK

-----------------------------------------------------------------------------
(* Types *)

(* runOnConn runs on a connection exactly while it is not idle; ingestMu is  *)
(* held while what the server misses is sent; then the channel is used.      *)
PhaseInv ==
    /\ (cpc = "idle") <=> (cur = NoConn)
    /\ cpc \in {"data", "status", "subscribe"} => ingestMu
    /\ writing \/ subscribed => cpc = "realtime"

TInv == TypeOK /\ PhaseInv

LEMMA InitType == Init => TInv
<1> SUFFICES ASSUME Init PROVE TInv
  OBVIOUS
<1>1. /\ hist \in [Items -> SUBSET Nat] /\ latest \in [Items -> Nat]
      /\ stored \in [Items -> SUBSET Nat]
  BY DEF Init
<1>2. /\ c2s \in [Conns -> Seq(Message)] /\ reg \in [{1, 2} -> Conns \cup {NoConn}]
      /\ spc \in [Conns -> {"gone", "info", "sync", "run", "StreamStation", "closing"}]
      /\ snap \in [pc : {"idle", "v1", "v2"}, conn : Conns \cup {NoConn}]
  BY DEF Init, NoSnap
<1>3. /\ broken \in [Conns -> BOOLEAN] /\ ingestMu \in BOOLEAN /\ subscribed \in BOOLEAN
      /\ writing \in BOOLEAN /\ received \in BOOLEAN
  BY Zenon DEF Init
<1>4. queue \in Seq(Point \cup Row) /\ Len(queue) <= QueueCap
  BY StationV1Assumption, EmptySeq DEF Init
<1>5. /\ rows \in Nat /\ version \in Versions /\ cpc = "idle" /\ cur = NoConn
      /\ latestRow \in Nat /\ statusLog \subseteq Nat /\ lost \subseteq Nat
      /\ now \in Nat /\ faults \in Nat
  BY DEF Init
<1>6. PhaseInv
  BY DEF Init, PhaseInv
<1> QED BY <1>1, <1>2, <1>3, <1>4, <1>5, <1>6 DEF TInv, TypeOK

LEMMA CurIsConn ==
    ASSUME TInv, cpc # "idle"
    PROVE  cur \in Conns
BY DEF TInv, TypeOK, PhaseInv

LEMMA IngestType ==
    ASSUME TInv, NEW i \in Items, NEW answered \in BOOLEAN, NEW changed \in BOOLEAN,
           receiveData(i, answered, changed)
    PROVE  TInv'
<1> DEFINE row   == IF changed THEN <<[type |-> "status", row |-> rows + 1]>> ELSE <<>>
           point == IF answered
                    THEN <<[type |-> "data", item |-> i, ts |-> now + 1]>> ELSE <<>>
<1>1. rows + 1 \in Nat /\ now + 1 \in Nat
  BY DEF TInv, TypeOK
<1>2. row \in Seq(Msg) /\ point \in Seq(Msg) /\ Len(row) \in Nat
  <2>1. [type |-> "status", row |-> rows + 1] \in Msg
    BY <1>1 DEF Msg, Row
  <2>2. [type |-> "data", item |-> i, ts |-> now + 1] \in Msg
    BY <1>1 DEF Msg, Point
  <2>3. row \in Seq(Msg)
    BY <2>1, EmptySeq, SingletonSeq
  <2>4. point \in Seq(Msg)
    BY <2>2, EmptySeq, SingletonSeq
  <2> QED BY <2>3, <2>4, LenProperties
<1>3. Publish(row \o point) /\ row \o point \in Seq(Msg)
  BY <1>2, ConcatProperties DEF receiveData
<1>4. /\ queue' \in Seq(Msg) /\ Len(queue') <= QueueCap
      /\ subscribed' \in BOOLEAN /\ broken' \in [Conns -> BOOLEAN]
  BY <1>3, PublishType DEF TInv
<1>5. hist' \in [Items -> SUBSET Nat]
  BY <1>1 DEF receiveData, TInv, TypeOK
<1>6. rows' = rows + Len(row) /\ now' = now + 1
  BY DEF receiveData
<1>7. rows' \in Nat /\ now' \in Nat
  BY <1>1, <1>2, <1>6 DEF TInv, TypeOK
<1>8. UNCHANGED <<version, cpc, cur, latest, latestRow, received, ingestMu, writing, c2s,
                  spc, reg, stored, statusLog, lost, snap, faults>>
  BY DEF receiveData, session, known, serverDB
<1>9. subscribed' => subscribed
  BY <1>3, Zenon DEF Publish
<1>10. PhaseInv'
  BY <1>8, <1>9 DEF TInv, PhaseInv
<1>11. TypeOK'
  BY <1>4, <1>5, <1>7, <1>8 DEF TInv, TypeOK, Msg
<1> QED BY <1>10, <1>11 DEF TInv

LEMMA SessionType ==
    ASSUME TInv, SessionStep \/ \E k \in Conns : client(k)
    PROVE  TInv'
<1> USE DEF TInv, TypeOK, PhaseInv, stationDB, known, channel, network, serverDB
<1>1. ASSUME NEW k \in Conns, client(k) PROVE TInv'
  <2>1. [type |-> "info", version |-> version] \in Message
    BY DEF Message
  <2>2. c2s' \in [Conns -> Seq(Message)]
    BY <1>1, <2>1, SingletonSeq DEF client
  <2>3. broken' \in [Conns -> BOOLEAN]
    BY <1>1, Zenon DEF client
  <2>4. /\ spc' \in [Conns -> {"gone", "info", "sync", "run", "StreamStation", "closing"}]
        /\ cpc' \in {"latest", "runOnConn"} /\ cur' \in Conns /\ cur' # NoConn
    BY <1>1, StationV1Assumption DEF client
  <2> QED BY <1>1, <2>2, <2>3, <2>4 DEF client
<1>2. CASE RecvLatest
  BY <1>2 DEF RecvLatest
<1>3. CASE LockIngest
  BY <1>3 DEF LockIngest
<1>4. CASE SendMissData
  <2>1. [i \in Items |-> {t \in hist[i] : t > latest[i]}] \in [Items -> SUBSET Nat]
    OBVIOUS
  <2>2. [type |-> "missData", points |-> [i \in Items |-> {t \in hist[i] : t > latest[i]}]]
            \in Message
    BY <2>1 DEF Message
  <2>3. c2s' \in [Conns -> Seq(Message)]
    BY <1>4, <2>2, CurIsConn, ArrivesType DEF SendMissData
  <2> QED BY <1>4, <2>3 DEF SendMissData
<1>5. CASE SendMissStatus
  <2>1. latestRow + 1 .. rows \in SUBSET Nat
    OBVIOUS
  <2>2. [type |-> "missStatus", rows |-> latestRow + 1 .. rows] \in Message
    BY <2>1 DEF Message
  <2>3. c2s' \in [Conns -> Seq(Message)]
    BY <1>5, <2>2, CurIsConn, ArrivesType DEF SendMissStatus
  <2> QED BY <1>5, <2>3 DEF SendMissStatus
<1>6. CASE SubscribeAndUnlock
  <2>1. queue' \in Seq(Point \cup Row) /\ Len(queue') <= QueueCap
    BY <1>6, EmptySeq, StationV1Assumption DEF SubscribeAndUnlock
  <2>2. subscribed' \in BOOLEAN /\ writing' \in BOOLEAN /\ ingestMu' \in BOOLEAN
    BY <1>6, Zenon DEF SubscribeAndUnlock
  <2> QED BY <1>6, <2>1, <2>2 DEF SubscribeAndUnlock
<1>7. CASE Write
  <2>1. /\ Head(queue) \in Point \cup Row
        /\ queue' \in Seq(Point \cup Row) /\ Len(queue') <= QueueCap
    BY <1>7, HeadTailProperties, LenProperties, StationV1Assumption DEF Write
  <2>2. Head(queue) \in Message
    BY <2>1 DEF Message
  <2>3. Arrives(cur, Head(queue)) \in [Conns -> Seq(Message)]
    BY <1>7, <2>2, CurIsConn, ArrivesType DEF Write
  <2>4. c2s' \in [Conns -> Seq(Message)]
    BY <1>7, <2>3 DEF Write
  <2>5. faults' \in Nat
    <3>1. faults' = faults \/ faults' = faults + 1
      BY <1>7, Zenon DEF Write, Fault
    <3> QED BY <3>1
  <2>6. writing' \in BOOLEAN /\ (writing' => writing)
    BY <1>7, Zenon DEF Write
  <2> QED BY <1>7, <2>1, <2>4, <2>5, <2>6 DEF Write, session
<1> QED BY <1>1, <1>2, <1>3, <1>4, <1>5, <1>6, <1>7 DEF SessionStep

LEMMA StationFaultType ==
    ASSUME TInv, stationConnReturns \/ StationRestart \/ \E k \in Conns : Break(k)
    PROVE  TInv'
<1>1. ASSUME SessionEnds, faults' \in Nat, version' \in Versions,
             UNCHANGED <<stationDB, c2s, spc, reg, serverDB, snap, now>>
      PROVE  TInv'
  <2>1. queue' \in Seq(Point \cup Row) /\ Len(queue') <= QueueCap
    BY <1>1, EmptySeq, StationV1Assumption DEF SessionEnds
  <2>2. /\ subscribed' \in BOOLEAN /\ writing' \in BOOLEAN /\ ingestMu' \in BOOLEAN
        /\ received' \in BOOLEAN /\ broken' \in [Conns -> BOOLEAN]
    BY <1>1, Zenon DEF SessionEnds, TInv, TypeOK
  <2>3. PhaseInv'
    BY <1>1 DEF SessionEnds, PhaseInv
  <2> QED BY <1>1, <2>1, <2>2, <2>3 DEF SessionEnds, TInv, TypeOK, stationDB, serverDB
<1>2. CASE stationConnReturns
  <2>1. faults' \in Nat /\ version' \in Versions
    BY <1>2 DEF stationConnReturns, Fault, TInv, TypeOK
  <2> QED BY <1>1, <1>2, <2>1 DEF stationConnReturns
<1>3. CASE StationRestart
  <2>1. faults' \in Nat /\ version' \in Versions
    BY <1>3 DEF StationRestart, Fault, TInv, TypeOK
  <2> QED BY <1>1, <1>3, <2>1 DEF StationRestart
<1>4. ASSUME NEW k \in Conns, Break(k) PROVE TInv'
  <2>1. broken' \in [Conns -> BOOLEAN]
    BY <1>4, Zenon DEF Break, TInv, TypeOK
  <2> QED BY <1>4, <2>1 DEF Break, TInv, TypeOK, PhaseInv, stationDB, session, known, channel,
     serverDB, Fault
<1> QED BY <1>2, <1>3, <1>4

LEMMA HandlerType ==
    ASSUME TInv, NEW k \in Conns, HandlerStep(k) \/ HandlerFails(k)
    PROVE  TInv'
<1> USE DEF TInv, TypeOK, PhaseInv, stationDB, session, known, channel, network, serverDB
<1>1. CASE recvStationInfo(k)
  <2>1. c2s[k] # <<>> /\ Head(c2s[k]).version \in {1, 2}
    BY <1>1, TakenType, HeadKinds, StationV1Assumption DEF recvStationInfo, Receives
  <2>2. c2s' \in [Conns -> Seq(Message)]
    <3>1. CASE c2s' = [c2s EXCEPT ![k] = Tail(@)]
      BY <2>1, <3>1, TakenType
    <3>2. CASE c2s' = [c2s EXCEPT ![k] = <<>>]
      BY <3>2
    <3> QED BY <1>1, <3>1, <3>2 DEF recvStationInfo
  <2>3. /\ spc' \in [Conns -> {"gone", "info", "sync", "run", "StreamStation", "closing"}]
        /\ reg' \in [{1, 2} -> Conns \cup {NoConn}]
    <3>1. CASE /\ reg' = [reg EXCEPT ![Head(c2s[k]).version] = k]
               /\ spc' = [spc EXCEPT ![k] =
                            IF Head(c2s[k]).version = 1 THEN "sync" ELSE "StreamStation"]
      BY <2>1, <3>1
    <3>2. CASE reg' = reg /\ spc' = [spc EXCEPT ![k] = "gone"]
      BY <3>2
    <3> QED BY <1>1, <3>1, <3>2 DEF recvStationInfo
  <2>4. broken' \in [Conns -> BOOLEAN]
    BY <1>1, Zenon DEF recvStationInfo
  <2> QED BY <1>1, <2>2, <2>3, <2>4 DEF recvStationInfo
<1>2. CASE WriteLatest(k)
  <2>1. latest' \in [Items -> Nat] /\ latestRow' \in Nat
    <3>1. CASE broken[k]
      BY <1>2, <3>1 DEF WriteLatest
    <3>2. CASE ~broken[k]
      <4>1. latest' \in [Items -> 0 .. now] /\ latestRow' \in 0 .. rows
        BY <1>2, <3>2 DEF WriteLatest
      <4> QED BY <4>1
    <3> QED BY <3>1, <3>2
  <2>2. received' \in BOOLEAN
    BY <1>2, Zenon DEF WriteLatest
  <2> QED BY <1>2, <2>1, <2>2 DEF WriteLatest
<1>3. CASE ReadMissData(k)
  <2> DEFINE m == Head(c2s[k])
  <2>1. c2s[k] # <<>> /\ m \in Message /\ m.type = "missData"
    BY <1>3, TakenType DEF ReadMissData, Handles, Receives
  <2>2. PICK P \in [Items -> SUBSET Nat] : m = [type |-> "missData", points |-> P]
    BY <2>1, HeadKinds
  <2>3. ASSUME NEW i \in Items, NEW t \in m.points[i],
               stored' = [stored EXCEPT ![i] = @ \cup {t}],
               c2s' = [c2s EXCEPT ![k][1].points[i] = @ \ {t}]
        PROVE  stored' \in [Items -> SUBSET Nat] /\ c2s' \in [Conns -> Seq(Message)]
    <3> DEFINE f == [m EXCEPT !.points[i] = @ \ {t}]
    <3>1. f \in Message
      BY <2>1, BatchShrinks
    <3>2. c2s' = [c2s EXCEPT ![k] = [@ EXCEPT ![1] = f]]
      BY <2>1, <2>3
    <3>3. c2s' \in [Conns -> Seq(Message)]
      BY <2>1, <3>1, <3>2, HeadReplaced
    <3>4. t \in Nat
      BY <2>2
    <3> QED BY <2>3, <3>3, <3>4
  <2>4. stored' \in [Items -> SUBSET Nat] /\ c2s' \in [Conns -> Seq(Message)]
    <3>1. CASE c2s' = [c2s EXCEPT ![k] = Tail(@)] /\ stored' = stored
      BY <2>1, <3>1, TakenType
    <3> QED BY <1>3, <2>3, <3>1 DEF ReadMissData
  <2> QED BY <1>3, <2>4 DEF ReadMissData
<1>4. CASE ReadMissStatusLogs(k)
  <2> DEFINE m == Head(c2s[k])
  <2>1. c2s[k] # <<>> /\ m \in Message /\ m.type = "missStatus"
    BY <1>4, TakenType DEF ReadMissStatusLogs, Handles, Receives
  <2>2. PICK R \in SUBSET Nat : m = [type |-> "missStatus", rows |-> R]
    BY <2>1, HeadKinds
  <2>3. ASSUME NEW r \in m.rows, statusLog' = statusLog \cup {r},
               c2s' = [c2s EXCEPT ![k][1].rows = @ \ {r}]
        PROVE  statusLog' \subseteq Nat /\ c2s' \in [Conns -> Seq(Message)]
    <3> DEFINE f == [m EXCEPT !.rows = @ \ {r}]
    <3>1. f \in Message
      <4>1. f = [type |-> "missStatus", rows |-> R \ {r}]
        BY <2>2, RowLeaves, ZenonT(30)
      <4> QED BY <2>2, <4>1 DEF Message
    <3>2. c2s' = [c2s EXCEPT ![k] = [@ EXCEPT ![1] = f]]
      BY <2>1, <2>3
    <3>3. c2s' \in [Conns -> Seq(Message)]
      BY <2>1, <3>1, <3>2, HeadReplaced
    <3> QED BY <2>2, <2>3, <3>3
  <2>4. statusLog' \subseteq Nat /\ c2s' \in [Conns -> Seq(Message)]
    <3>1. CASE c2s' = [c2s EXCEPT ![k] = Tail(@)] /\ statusLog' = statusLog
      BY <2>1, <3>1, TakenType
    <3> QED BY <1>4, <2>3, <3>1 DEF ReadMissStatusLogs
  <2> QED BY <1>4, <2>4 DEF ReadMissStatusLogs
<1>5. CASE SaveDataHistory(k)
  <2>1. Head(c2s[k]) \in Point /\ c2s' \in [Conns -> Seq(Message)]
    BY <1>5, TakenType, HeadKinds DEF SaveDataHistory, Handles, Receives
  <2>2. stored' \in [Items -> SUBSET Nat]
    BY <1>5, <2>1 DEF SaveDataHistory, Point
  <2> QED BY <1>5, <2>1, <2>2 DEF SaveDataHistory
<1>6. CASE saveAndUpdateItemStatus(k)
  <2>1. Head(c2s[k]) \in Row /\ c2s' \in [Conns -> Seq(Message)]
    BY <1>6, TakenType, HeadKinds DEF saveAndUpdateItemStatus, Handles, Receives
  <2>2. statusLog' \subseteq Nat /\ lost' \subseteq Nat
    BY <1>6, <2>1 DEF saveAndUpdateItemStatus, Row
  <2>3. faults' \in Nat
    BY <1>6 DEF saveAndUpdateItemStatus, Fault
  <2> QED BY <1>6, <2>1, <2>2, <2>3 DEF saveAndUpdateItemStatus
<1>7. CASE StreamStation(k)
  <2>1. stored' \in [Items -> SUBSET Nat] /\ statusLog' \subseteq Nat
    <3>1. ASSUME NEW i \in Items, NEW t \in hist[i], stored' = [stored EXCEPT ![i] = @ \cup {t}]
          PROVE  stored' \in [Items -> SUBSET Nat]
      BY <3>1
    <3>2. ASSUME NEW r \in 1 .. rows, statusLog' = statusLog \cup {r}
          PROVE  statusLog' \subseteq Nat
      BY <3>2
    <3> QED BY <1>7, <3>1, <3>2 DEF StreamStation
  <2> QED BY <1>7, <2>1 DEF StreamStation
<1>8. CASE HandlerReturns(k)
  <2>1. broken' \in [Conns -> BOOLEAN]
    BY <1>8, Zenon DEF HandlerReturns, Deregister
  <2> QED BY <1>8, <2>1 DEF HandlerReturns, Deregister
<1>9. CASE HandlerFails(k)
  BY <1>9 DEF HandlerFails, Fault
<1> QED BY <1>1, <1>2, <1>3, <1>4, <1>5, <1>6, <1>7, <1>8, <1>9 DEF HandlerStep

LEMMA ServerType ==
    ASSUME TInv, \/ ServerRestart \/ CameraLiveSnapshot \/ cameraSnapshot
                 \/ handleCommandStream \/ SnapshotFails \/ UNCHANGED vars
    PROVE  TInv'
<1> USE DEF TInv, TypeOK, PhaseInv, stationDB, session, known, channel, network, serverDB, NoSnap
<1>1. CASE ServerRestart
  <2>1. broken' \in [Conns -> BOOLEAN]
    BY <1>1, Zenon DEF ServerRestart
  <2> QED BY <1>1, <2>1 DEF ServerRestart, Fault
<1>2. CASE CameraLiveSnapshot
  BY <1>2 DEF CameraLiveSnapshot, unchangedBySnap
<1>3. CASE cameraSnapshot \/ handleCommandStream
  <2>1. snap' = [pc |-> "idle", conn |-> NoConn] /\ UNCHANGED unchangedBySnap
    BY <1>3 DEF cameraSnapshot, handleCommandStream, Answers
  <2> QED BY <2>1 DEF unchangedBySnap
<1>4. CASE SnapshotFails
  BY <1>4 DEF SnapshotFails, unchangedBySnap
<1>5. CASE UNCHANGED vars
  BY <1>5 DEF vars
<1> QED BY <1>1, <1>2, <1>3, <1>4, <1>5

LEMMA TypeInductive == TInv /\ [Next]_vars => TInv'
BY IngestType, SessionType, StationFaultType, HandlerType, ServerType DEF Next

(* Every behaviour keeps every variable in its type: in particular the      *)
(* subscriber channel never holds more than its capacity, and what the      *)
(* station takes for the server's latest is always a time or a row.         *)
THEOREM TypeCorrect == Spec => []TypeOK
<1>1. TInv => TypeOK
  BY DEF TInv
<1> QED BY <1>1, InitType, TypeInductive, PTL DEF Spec

-----------------------------------------------------------------------------
(* Sequences of sets *)

(* What the sets of s hold together. *)
On(s) == UNION {s[n] : n \in DOMAIN s}

(* When a number of s arrives, the smaller ones of H are in B or have       *)
(* arrived from s: the numbers of one set are stored in order.              *)
Ordered(s, H, B) ==
    \A n \in DOMAIN s : \A t \in s[n], u \in H :
        u < t => u \in B \/ \E m \in DOMAIN s : m <= n /\ u \in s[m]

(* The first set loses x. *)
Drop(s, x) == [s EXCEPT ![1] = @ \ {x}]

Sets == SUBSET Nat

LEMMA OnDef ==
    ASSUME NEW s, NEW t
    PROVE  t \in On(s) <=> \E n \in DOMAIN s : t \in s[n]
BY DEF On

LEMMA AppendIndex ==
    ASSUME NEW S, NEW q \in Seq(S), NEW f \in S
    PROVE  /\ Len(q) \in Nat
           /\ \A n \in DOMAIN Append(q, f) :
                \/ n \in DOMAIN q /\ Append(q, f)[n] = q[n]
                \/ n = Len(q) + 1 /\ Append(q, f)[n] = f
           /\ \A n \in DOMAIN q : /\ n \in DOMAIN Append(q, f) /\ Append(q, f)[n] = q[n]
                                  /\ n \in Nat /\ n <= Len(q) + 1
           /\ Len(q) + 1 \in DOMAIN Append(q, f) /\ Append(q, f)[Len(q) + 1] = f
<1> DEFINE a == Append(q, f)
<1>1. /\ Len(a) = Len(q) + 1 /\ Len(q) \in Nat
      /\ DOMAIN a = 1 .. Len(a) /\ DOMAIN q = 1 .. Len(q)
      /\ \A n \in 1 .. Len(q) : a[n] = q[n]
      /\ a[Len(q) + 1] = f
  BY AppendProperties, LenProperties
<1> HIDE DEF a
<1>2. /\ \A n \in DOMAIN a : \/ n \in DOMAIN q /\ a[n] = q[n]
                             \/ n = Len(q) + 1 /\ a[n] = f
      /\ \A n \in DOMAIN q : n \in DOMAIN a /\ a[n] = q[n] /\ n \in Nat /\ n <= Len(q) + 1
      /\ Len(q) + 1 \in DOMAIN a /\ a[Len(q) + 1] = f
  BY <1>1
<1> QED BY <1>1, <1>2 DEF a

LEMMA TailIndex ==
    ASSUME NEW S, NEW q \in Seq(S), q # <<>>
    PROVE  /\ Head(q) \in S /\ Tail(q) \in Seq(S)
           /\ 1 \in DOMAIN q /\ q[1] = Head(q)
           /\ \A n \in DOMAIN q : n \in Nat /\ 1 <= n
           /\ \A n \in DOMAIN q : n = 1 \/ (n - 1 \in DOMAIN Tail(q) /\ Tail(q)[n - 1] = q[n])
           /\ \A n \in DOMAIN Tail(q) : /\ n \in Nat /\ 1 <= n
                                        /\ n + 1 \in DOMAIN q /\ Tail(q)[n] = q[n + 1]
<1> DEFINE a == Tail(q)
<1>1. /\ Len(q) \in Nat \ {0} /\ Len(a) = Len(q) - 1 /\ a \in Seq(S)
      /\ DOMAIN a = 1 .. Len(a) /\ DOMAIN q = 1 .. Len(q)
      /\ \A n \in 1 .. Len(a) : a[n] = q[n + 1]
      /\ Head(q) = q[1] /\ Head(q) \in S
  BY HeadTailProperties, LenProperties, EmptySeq
<1> HIDE DEF a
<1>2. /\ 1 \in DOMAIN q /\ \A n \in DOMAIN q : n \in Nat /\ 1 <= n
      /\ \A n \in DOMAIN q : n = 1 \/ (n - 1 \in DOMAIN a /\ a[n - 1] = q[n])
      /\ \A n \in DOMAIN a : n \in Nat /\ 1 <= n /\ n + 1 \in DOMAIN q /\ a[n] = q[n + 1]
  BY <1>1
<1> QED BY <1>1, <1>2 DEF a

LEMMA EmptySets ==
    ASSUME NEW H, NEW B PROVE On(<<>>) = {} /\ Ordered(<<>>, H, B)
BY DEF On, Ordered

LEMMA OnAppend ==
    ASSUME NEW s \in Seq(Sets), NEW X \in Sets
    PROVE  Append(s, X) \in Seq(Sets) /\ On(Append(s, X)) = On(s) \cup X
<1>1. \A t : t \in On(Append(s, X)) <=> t \in On(s) \/ t \in X
  <2> SUFFICES ASSUME NEW t
               PROVE  t \in On(Append(s, X)) <=> t \in On(s) \/ t \in X
    OBVIOUS
  <2>1. ASSUME NEW n \in DOMAIN Append(s, X), t \in Append(s, X)[n]
        PROVE  t \in On(s) \/ t \in X
    BY <2>1, AppendIndex, OnDef
  <2>2. ASSUME NEW n \in DOMAIN s, t \in s[n] PROVE t \in On(Append(s, X))
    BY <2>2, AppendIndex, OnDef
  <2>3. ASSUME t \in X PROVE t \in On(Append(s, X))
    <3>1. Len(s) + 1 \in DOMAIN Append(s, X) /\ t \in Append(s, X)[Len(s) + 1]
      BY <2>3, AppendIndex
    <3> QED BY <3>1, OnDef
  <2> QED BY <2>1, <2>2, <2>3, OnDef
<1> QED BY <1>1, AppendProperties

LEMMA OnTail ==
    ASSUME NEW s \in Seq(Sets), s # <<>>
    PROVE  /\ Tail(s) \in Seq(Sets) /\ Head(s) \in Sets
           /\ On(s) = Head(s) \cup On(Tail(s))
<1>1. \A t : t \in On(s) <=> t \in Head(s) \/ t \in On(Tail(s))
  <2> SUFFICES ASSUME NEW t
               PROVE  t \in On(s) <=> t \in Head(s) \/ t \in On(Tail(s))
    OBVIOUS
  <2>1. ASSUME NEW n \in DOMAIN s, t \in s[n] PROVE t \in Head(s) \/ t \in On(Tail(s))
    <3>1. CASE n = 1
      BY <2>1, <3>1, TailIndex
    <3>2. CASE n # 1
      <4>1. n - 1 \in DOMAIN Tail(s) /\ t \in Tail(s)[n - 1]
        BY <2>1, <3>2, TailIndex
      <4> QED BY <4>1, OnDef
    <3> QED BY <3>1, <3>2
  <2>2. ASSUME NEW n \in DOMAIN Tail(s), t \in Tail(s)[n] PROVE t \in On(s)
    BY <2>2, TailIndex, OnDef
  <2>3. t \in Head(s) => t \in On(s)
    BY TailIndex, OnDef
  <2> QED BY <2>1, <2>2, <2>3, OnDef
<1> QED BY <1>1, TailIndex

LEMMA OrderedAppend ==
    ASSUME NEW s \in Seq(Sets), NEW X \in Sets, NEW H, NEW B, Ordered(s, H, B),
           \A t \in X, u \in H : u < t => u \in B \cup On(s) \cup X
    PROVE  Ordered(Append(s, X), H, B)
<1> SUFFICES ASSUME NEW n \in DOMAIN Append(s, X), NEW t \in Append(s, X)[n], NEW u \in H,
                    u < t, u \notin B
             PROVE  \E m \in DOMAIN Append(s, X) : m <= n /\ u \in Append(s, X)[m]
  BY DEF Ordered
<1>1. CASE n \in DOMAIN s /\ Append(s, X)[n] = s[n]
  <2>1. PICK m \in DOMAIN s : m <= n /\ u \in s[m]
    BY <1>1 DEF Ordered
  <2> QED BY <2>1, AppendIndex
<1>2. CASE n = Len(s) + 1 /\ Append(s, X)[n] = X
  <2>1. CASE u \in X
    BY <1>2, <2>1, AppendIndex
  <2>2. CASE u \in On(s)
    <3>1. PICK m \in DOMAIN s : u \in s[m]
      BY <2>2, OnDef
    <3> QED BY <1>2, <3>1, AppendIndex
  <2> QED BY <1>2, <2>1, <2>2
<1> QED BY <1>1, <1>2, AppendIndex

LEMMA OrderedTail ==
    ASSUME NEW s \in Seq(Sets), s # <<>>, NEW H, NEW B, Ordered(s, H, B)
    PROVE  /\ Ordered(Tail(s), H, B \cup Head(s))
           /\ \A t \in Head(s), u \in H : u < t => u \in B \cup Head(s)
<1>1. ASSUME NEW n \in DOMAIN Tail(s), NEW t \in Tail(s)[n], NEW u \in H,
             u < t, u \notin B, u \notin Head(s)
      PROVE  \E m \in DOMAIN Tail(s) : m <= n /\ u \in Tail(s)[m]
  <2>1. n + 1 \in DOMAIN s /\ t \in s[n + 1] /\ n \in Nat
    BY <1>1, TailIndex
  <2>2. PICK m \in DOMAIN s : m <= n + 1 /\ u \in s[m]
    BY <1>1, <2>1 DEF Ordered
  <2>3. m # 1 /\ m \in Nat
    BY <1>1, <2>2, TailIndex
  <2>4. m - 1 \in DOMAIN Tail(s) /\ Tail(s)[m - 1] = s[m]
    BY <2>3, TailIndex
  <2> QED BY <2>1, <2>2, <2>3, <2>4
<1>2. ASSUME NEW t \in Head(s), NEW u \in H, u < t, u \notin B PROVE u \in Head(s)
  <2>1. 1 \in DOMAIN s /\ t \in s[1]
    BY TailIndex
  <2>2. PICK m \in DOMAIN s : m <= 1 /\ u \in s[m]
    BY <1>2, <2>1 DEF Ordered
  <2>3. m = 1
    BY <2>2, TailIndex
  <2> QED BY <2>2, <2>3, TailIndex
<1> QED BY <1>1, <1>2 DEF Ordered

(* More is in B; what is new in H is above everything in s. *)
LEMMA OrderedMore ==
    ASSUME NEW s, NEW H, NEW B, NEW G, NEW C, Ordered(s, H, B),
           B \subseteq C, \A u \in G, t \in On(s) : u < t => u \in H
    PROVE  Ordered(s, G, C)
BY OnDef DEF Ordered

LEMMA DropIndex ==
    ASSUME NEW s \in Seq(Sets), s # <<>>, NEW x
    PROVE  /\ Drop(s, x) \in Seq(Sets) /\ Drop(s, x) # <<>>
           /\ DOMAIN Drop(s, x) = DOMAIN s
           /\ Drop(s, x)[1] = Head(s) \ {x} /\ Head(Drop(s, x)) = Head(s) \ {x}
           /\ \A n \in DOMAIN s : n # 1 => Drop(s, x)[n] = s[n]
           /\ Tail(Drop(s, x)) = Tail(s)
<1>1. /\ 1 \in DOMAIN s /\ s[1] = Head(s) /\ Head(s) \in Sets /\ DOMAIN s = 1 .. Len(s)
      /\ Len(s) \in Nat
  BY TailIndex, LenProperties
<1>2. Drop(s, x) \in Seq(Sets) /\ Len(Drop(s, x)) = Len(s)
  BY <1>1, ExceptSeq DEF Drop, Sets
<1>3. /\ DOMAIN Drop(s, x) = DOMAIN s /\ Drop(s, x)[1] = Head(s) \ {x}
      /\ \A n \in DOMAIN s : n # 1 => Drop(s, x)[n] = s[n]
  BY <1>1, <1>2 DEF Drop
<1>4. Drop(s, x) # <<>>
  BY <1>1, <1>2
<1>5. Head(Drop(s, x)) = Head(s) \ {x}
  BY <1>2, <1>3, <1>4, TailIndex
<1>6. Tail(Drop(s, x)) = Tail(s)
  <2>1. /\ Tail(s) \in Seq(Sets) /\ Len(Tail(s)) = Len(s) - 1
        /\ Tail(Drop(s, x)) \in Seq(Sets) /\ Len(Tail(Drop(s, x))) = Len(s) - 1
    BY <1>2, <1>4, HeadTailProperties
  <2>2. ASSUME NEW n \in 1 .. Len(s) - 1 PROVE Tail(Drop(s, x))[n] = Tail(s)[n]
    <3>1. /\ Tail(Drop(s, x))[n] = Drop(s, x)[n + 1] /\ Tail(s)[n] = s[n + 1]
          /\ n + 1 \in DOMAIN s /\ n + 1 # 1
      BY <1>1, <1>2, <1>4, <2>1, HeadTailProperties
    <3> QED BY <1>3, <3>1
  <2> QED BY <2>1, <2>2, SeqEqual
<1> QED BY <1>2, <1>3, <1>4, <1>5, <1>6

LEMMA DropOrdered ==
    ASSUME NEW s \in Seq(Sets), s # <<>>, NEW x \in Head(s), NEW H, NEW B, Ordered(s, H, B)
    PROVE  /\ Ordered(Drop(s, x), H, B \cup {x})
           /\ On(s) = On(Drop(s, x)) \cup {x}
<1>1. \A n \in DOMAIN s : \A t : t \in s[n] => t \in Drop(s, x)[n] \/ t = x
  BY DropIndex, TailIndex
<1>2. \A n \in DOMAIN s : \A t : t \in Drop(s, x)[n] => t \in s[n]
  BY DropIndex, TailIndex
<1>3. DOMAIN Drop(s, x) = DOMAIN s
  BY DropIndex
<1>4. \A t : t \in On(s) <=> t \in On(Drop(s, x)) \/ t = x
  BY <1>1, <1>2, <1>3, OnDef, TailIndex
<1>5. Ordered(Drop(s, x), H, B \cup {x})
  <2> SUFFICES ASSUME NEW n \in DOMAIN s, NEW t \in Drop(s, x)[n], NEW u \in H,
                      u < t, u \notin B, u # x
               PROVE  \E m \in DOMAIN s : m <= n /\ u \in Drop(s, x)[m]
    BY <1>3 DEF Ordered
  <2>1. PICK m \in DOMAIN s : m <= n /\ u \in s[m]
    BY <1>2 DEF Ordered
  <2> QED BY <1>1, <2>1
<1> QED BY <1>4, <1>5

-----------------------------------------------------------------------------
(* Streams: the points of each item, and the rows *)

RowStream == <<>>
Streams   == {<<i>> : i \in Items} \cup {RowStream}

(* What message m carries of stream x; what the messages of q carry. *)
In(m, x) ==
    IF m.type = "data" THEN IF x = <<m.item>> THEN {m.ts} ELSE {}
    ELSE IF m.type = "missData" THEN IF x = RowStream THEN {} ELSE m.points[x[1]]
    ELSE IF m.type = "status" THEN IF x = RowStream THEN {m.row} ELSE {}
    ELSE IF m.type = "missStatus" THEN IF x = RowStream THEN m.rows ELSE {}
    ELSE {}
Carried(q, x) == [n \in DOMAIN q |-> In(q[n], x)]

LEMMA StreamNames ==
    /\ RowStream \in Streams
    /\ \A i \in Items : <<i>> \in Streams /\ <<i>> # RowStream /\ <<i>>[1] = i
    /\ \A i, j : <<i>> = <<j>> => i = j
    /\ \A x \in Streams : x = RowStream \/ \E i \in Items : x = <<i>>
BY DEF Streams, RowStream

LEMMA InSets ==
    ASSUME NEW m \in Message, NEW x \in Streams
    PROVE  In(m, x) \in Sets
<1>1. CASE m \in Point
  BY <1>1 DEF Point, In, Sets
<1>2. CASE m \in Row
  BY <1>2 DEF Row, In, Sets
<1>3. CASE m \in [type : {"info"}, version : Versions]
  BY <1>3 DEF In, Sets
<1>4. CASE m \in [type : {"missData"}, points : [Items -> SUBSET Nat]]
  <2>1. CASE x = RowStream
    BY <1>4, <2>1 DEF In, Sets
  <2>2. CASE x # RowStream
    BY <1>4, <2>2, StreamNames DEF In, Sets
  <2> QED BY <2>1, <2>2
<1>5. CASE m \in [type : {"missStatus"}, rows : SUBSET Nat]
  BY <1>5 DEF In, Sets
<1> QED BY <1>1, <1>2, <1>3, <1>4, <1>5 DEF Message

LEMMA CarriedSeq ==
    ASSUME NEW T \in SUBSET Message, NEW q \in Seq(T), NEW x \in Streams
    PROVE  /\ Carried(q, x) \in Seq(Sets)
           /\ Len(Carried(q, x)) = Len(q)
           /\ DOMAIN Carried(q, x) = 1 .. Len(q) /\ DOMAIN q = 1 .. Len(q)
           /\ \A n \in 1 .. Len(q) : Carried(q, x)[n] = In(q[n], x)
<1>1. DOMAIN q = 1 .. Len(q) /\ Len(q) \in Nat /\ \A n \in 1 .. Len(q) : q[n] \in T
  BY LenProperties, ElementOfSeq
<1>2. Carried(q, x) = [n \in 1 .. Len(q) |-> In(q[n], x)]
  BY <1>1 DEF Carried
<1>3. \A n \in 1 .. Len(q) : In(q[n], x) \in Sets
  BY <1>1, InSets
<1>4. Carried(q, x) \in [1 .. Len(q) -> Sets]
  BY <1>2, <1>3, Zenon
<1>5. Carried(q, x) \in Seq(Sets)
  BY <1>1, <1>4, SeqDef
<1> QED BY <1>1, <1>2, <1>4, <1>5, LenProperties

LEMMA CarriedEmpty == \A x : Carried(<<>>, x) = <<>>
BY DEF Carried

LEMMA CarriedAppend ==
    ASSUME NEW T \in SUBSET Message, NEW q \in Seq(T), NEW x \in Streams, NEW f \in T
    PROVE  Carried(Append(q, f), x) = Append(Carried(q, x), In(f, x))
<1> DEFINE s == Carried(q, x)
           a == Carried(Append(q, f), x)
           b == Append(s, In(f, x))
<1>1. /\ Append(q, f) \in Seq(T) /\ Len(Append(q, f)) = Len(q) + 1 /\ Len(q) \in Nat
      /\ \A n \in 1 .. Len(q) : Append(q, f)[n] = q[n]
      /\ Append(q, f)[Len(q) + 1] = f
  BY AppendProperties, LenProperties
<1>2. /\ s \in Seq(Sets) /\ Len(s) = Len(q)
      /\ \A n \in 1 .. Len(q) : s[n] = In(q[n], x)
  BY CarriedSeq
<1>3. /\ a \in Seq(Sets) /\ Len(a) = Len(q) + 1
      /\ \A n \in 1 .. Len(q) + 1 : a[n] = In(Append(q, f)[n], x)
  BY <1>1, CarriedSeq
<1>4. In(f, x) \in Sets
  BY InSets
<1>5. /\ b \in Seq(Sets) /\ Len(b) = Len(q) + 1
      /\ \A n \in 1 .. Len(q) : b[n] = s[n]
      /\ b[Len(q) + 1] = In(f, x)
  BY <1>2, <1>4, AppendProperties
<1> HIDE DEF a, b, s
<1>6. \A n \in 1 .. Len(q) + 1 : a[n] = b[n]
  BY <1>1, <1>2, <1>3, <1>5
<1>7. a = b
  BY <1>3, <1>5, <1>6, SeqEqual
<1> QED BY <1>7 DEF a, b, s

LEMMA CarriedTail ==
    ASSUME NEW T \in SUBSET Message, NEW q \in Seq(T), q # <<>>, NEW x \in Streams
    PROVE  /\ Carried(q, x) # <<>>
           /\ Head(Carried(q, x)) = In(Head(q), x)
           /\ Carried(Tail(q), x) = Tail(Carried(q, x))
<1> DEFINE s == Carried(q, x)
           a == Carried(Tail(q), x)
           b == Tail(s)
<1>1. /\ Tail(q) \in Seq(T) /\ Len(Tail(q)) = Len(q) - 1 /\ Len(q) \in Nat \ {0}
      /\ \A n \in 1 .. Len(q) - 1 : Tail(q)[n] = q[n + 1]
      /\ Head(q) = q[1]
  BY HeadTailProperties, LenProperties, EmptySeq
<1>2. /\ s \in Seq(Sets) /\ Len(s) = Len(q)
      /\ \A n \in 1 .. Len(q) : s[n] = In(q[n], x)
  BY CarriedSeq
<1>3. /\ a \in Seq(Sets) /\ Len(a) = Len(q) - 1
      /\ \A n \in 1 .. Len(q) - 1 : a[n] = In(Tail(q)[n], x)
  BY <1>1, CarriedSeq, ZenonT(30)
<1> HIDE DEF a, s
<1>4. s # <<>>
  BY <1>1, <1>2
<1>5. Head(s) = In(Head(q), x)
  BY <1>1, <1>2, <1>4
<1>6. /\ b \in Seq(Sets) /\ Len(b) = Len(q) - 1
      /\ \A n \in 1 .. Len(q) - 1 : b[n] = s[n + 1]
  BY <1>2, <1>4, HeadTailProperties
<1> HIDE DEF b
<1>7. \A n \in 1 .. Len(q) - 1 : a[n] = b[n]
  BY <1>1, <1>2, <1>3, <1>6
<1>8. a = b
  BY <1>1, <1>3, <1>6, <1>7, SeqEqual
<1> QED BY <1>4, <1>5, <1>8 DEF a, b, s

LEMMA CarriedClip ==
    ASSUME NEW T \in SUBSET Message, NEW q \in Seq(T), NEW n \in Nat, n <= Len(q),
           NEW x \in Streams
    PROVE  On(Carried(SubSeq(q, 1, n), x)) \subseteq On(Carried(q, x))
<1> DEFINE c == SubSeq(q, 1, n)
<1>1. \A j \in 1 .. n : q[j] \in T
  BY ElementOfSeq
<1>2. c \in Seq(T) /\ Len(c) = n /\ \A j \in 1 .. n : c[j] = q[j]
  BY <1>1, SubSeqProperties
<1> HIDE DEF c
<1>3. /\ DOMAIN Carried(c, x) = 1 .. n /\ \A j \in 1 .. n : Carried(c, x)[j] = In(c[j], x)
      /\ DOMAIN Carried(q, x) = 1 .. Len(q)
      /\ \A j \in 1 .. Len(q) : Carried(q, x)[j] = In(q[j], x)
  BY <1>2, CarriedSeq
<1>4. Len(q) \in Nat
  BY LenProperties
<1>5. \A j \in DOMAIN Carried(c, x) : /\ j \in DOMAIN Carried(q, x)
                                      /\ Carried(c, x)[j] = Carried(q, x)[j]
  BY <1>2, <1>3, <1>4
<1>6. \A t : t \in On(Carried(c, x)) => t \in On(Carried(q, x))
  BY <1>5, OnDef
<1> QED BY <1>6 DEF c

(* How far the station has counted, what it has saved and the server has    *)
(* dealt with, and what the server has reported as its latest.              *)
Clock(x) == IF x = RowStream THEN rows ELSE now
Saved(x) == IF x = RowStream THEN 1 .. rows ELSE hist[x[1]]
Done(x)  == IF x = RowStream THEN statusLog \cup lost ELSE stored[x[1]]
Mark(x)  == IF x = RowStream THEN latestRow ELSE latest[x[1]]

(* The session has sent what the server missed of x. *)
SentAll(x) == cpc = "subscribe" \/ (cpc = "status" /\ x # RowStream)

(* The connection a session writes to, if what it writes arrives. *)
Line == IF cur # NoConn /\ ~broken[cur] THEN cur ELSE NoConn

(* One stream: c is its clock, H what is saved, S what is dealt with, m the  *)
(* reported latest, p the sets on the connections, w those in the channel,   *)
(* l the line; all: everything was sent; wr, sub: the writer runs, the       *)
(* channel is subscribed.                                                    *)
StreamOK(c, H, S, m, p, w, l, all, wr, sub) ==
    /\ H \subseteq 1 .. c /\ S \subseteq 0 .. c /\ m \in 0 .. c
    /\ On(w) \subseteq 0 .. c
    /\ \A k \in Conns : On(p[k]) \subseteq 0 .. c
    /\ \A t \in S, u \in H : u < t => u \in S
    /\ \A u \in H : u <= m => u \in S
    /\ \A k \in Conns : Ordered(p[k], H, S)
    /\ l # NoConn /\ all => H \subseteq S \cup On(p[l])
    /\ l # NoConn /\ wr => Ordered(w, H, S \cup On(p[l]))
    /\ l # NoConn /\ wr /\ sub => H \subseteq S \cup On(p[l]) \cup On(w)

(* The connections do not change. *)

LEMMA ClockAdvances ==
    ASSUME NEW c \in Nat, NEW d \in Nat, c <= d, NEW H \in Sets, NEW S \in Sets, NEW m \in Nat,
           NEW p \in [Conns -> Seq(Sets)], NEW w \in Seq(Sets), NEW l \in Conns \cup {NoConn},
           NEW all, NEW wr, NEW sub,
           StreamOK(c, H, S, m, p, w, l, all, wr, sub)
    PROVE  StreamOK(d, H, S, m, p, w, l, all, wr, sub)
<1>1. 1 .. c \subseteq 1 .. d /\ 0 .. c \subseteq 0 .. d
  OBVIOUS
<1> QED BY <1>1, Zenon DEF StreamOK

(* The number after c is saved, and nobody is told. *)
LEMMA SavedUnseen ==
    ASSUME NEW c \in Nat, NEW H \in Sets, NEW S \in Sets, NEW m \in Nat,
           NEW p \in [Conns -> Seq(Sets)], NEW w \in Seq(Sets), NEW l \in Conns \cup {NoConn},
           NEW wr, StreamOK(c, H, S, m, p, w, l, FALSE, wr, FALSE)
    PROVE  StreamOK(c + 1, H \cup {c + 1}, S, m, p, w, l, FALSE, wr, FALSE)
<1>1. StreamOK(c + 1, H, S, m, p, w, l, FALSE, wr, FALSE)
  <2>1. 1 .. c \subseteq 1 .. c + 1 /\ 0 .. c \subseteq 0 .. c + 1
    OBVIOUS
  <2> QED BY <2>1, Zenon DEF StreamOK
<1>2. /\ S \subseteq 0 .. c /\ m \in 0 .. c /\ On(w) \subseteq 0 .. c
      /\ \A k \in Conns : On(p[k]) \subseteq 0 .. c
  BY DEF StreamOK
<1>3. \A t \in 0 .. c : ~(c + 1 < t)
  OBVIOUS
<1>4. \A k \in Conns : Ordered(p[k], H \cup {c + 1}, S)
  <2> SUFFICES ASSUME NEW k \in Conns PROVE Ordered(p[k], H \cup {c + 1}, S)
    OBVIOUS
  <2>1. \A u \in H \cup {c + 1}, t \in On(p[k]) : u < t => u \in H
    BY <1>2, <1>3
  <2> QED BY <2>1, OrderedMore DEF StreamOK
<1>5. l # NoConn /\ wr => Ordered(w, H \cup {c + 1}, S \cup On(p[l]))
  <2>1. \A u \in H \cup {c + 1}, t \in On(w) : u < t => u \in H
    BY <1>2, <1>3
  <2> QED BY <2>1, OrderedMore DEF StreamOK
<1>6. \A u \in H \cup {c + 1} : u <= m => u \in S
  BY <1>2 DEF StreamOK
<1>7. \A t \in S, u \in H \cup {c + 1} : u < t => u \in S
  BY <1>2, <1>3 DEF StreamOK
<1>8. H \cup {c + 1} \subseteq 1 .. c + 1
  BY <1>1 DEF StreamOK
<1> QED BY <1>1, <1>4, <1>5, <1>6, <1>7, <1>8 DEF StreamOK

(* The number after c is saved and published. *)
LEMMA SavedPublished ==
    ASSUME NEW c \in Nat, NEW H \in Sets, NEW S \in Sets, NEW m \in Nat,
           NEW p \in [Conns -> Seq(Sets)], NEW w \in Seq(Sets), NEW l \in Conns \cup {NoConn},
           NEW wr, StreamOK(c, H, S, m, p, w, l, FALSE, wr, TRUE)
    PROVE  StreamOK(c + 1, H \cup {c + 1}, S, m, p, Append(w, {c + 1}), l, FALSE, wr, TRUE)
<1>1. StreamOK(c, H, S, m, p, w, l, FALSE, wr, FALSE)
  BY DEF StreamOK
<1>2. StreamOK(c + 1, H \cup {c + 1}, S, m, p, w, l, FALSE, wr, FALSE)
  BY <1>1, SavedUnseen, Zenon
<1>3. On(Append(w, {c + 1})) = On(w) \cup {c + 1}
  BY OnAppend DEF Sets
<1>4. l # NoConn /\ wr => Ordered(Append(w, {c + 1}), H \cup {c + 1}, S \cup On(p[l]))
  <2> SUFFICES ASSUME l # NoConn, wr
               PROVE  Ordered(Append(w, {c + 1}), H \cup {c + 1}, S \cup On(p[l]))
    OBVIOUS
  <2>1. H \subseteq S \cup On(p[l]) \cup On(w)
    BY DEF StreamOK
  <2>2. Ordered(w, H \cup {c + 1}, S \cup On(p[l]))
    BY <1>2 DEF StreamOK
  <2>3. {c + 1} \in Sets
    BY DEF Sets
  <2> QED BY <2>1, <2>2, <2>3, OrderedAppend
<1>5. l # NoConn /\ wr
        => H \cup {c + 1} \subseteq S \cup On(p[l]) \cup On(Append(w, {c + 1}))
  BY <1>3 DEF StreamOK
<1>6. On(Append(w, {c + 1})) \subseteq 0 .. c + 1
  <2>1. On(w) \subseteq 0 .. c + 1 /\ c + 1 \in 0 .. c + 1
    BY <1>2 DEF StreamOK
  <2> QED BY <1>3, <2>1
<1> QED BY <1>2, <1>4, <1>5, <1>6 DEF StreamOK

(* A message of another stream is published. *)
LEMMA OtherPublished ==
    ASSUME NEW c \in Nat, NEW H \in Sets, NEW S \in Sets, NEW m \in Nat,
           NEW p \in [Conns -> Seq(Sets)], NEW w \in Seq(Sets), NEW l \in Conns \cup {NoConn},
           NEW all, NEW wr, NEW sub,
           StreamOK(c, H, S, m, p, w, l, all, wr, sub)
    PROVE  StreamOK(c, H, S, m, p, Append(w, {}), l, all, wr, sub)
<1>1. On(Append(w, {})) = On(w) /\ {} \in Sets
  BY OnAppend DEF Sets
<1>2. l # NoConn /\ wr => Ordered(Append(w, {}), H, S \cup On(p[l]))
  BY <1>1, OrderedAppend DEF StreamOK
<1> QED BY <1>1, <1>2 DEF StreamOK

(* Nothing written arrives: only the connections matter. *)
LEMMA LineDown ==
    ASSUME NEW c, NEW H, NEW S, NEW m, NEW n, n = m \/ n = 0, NEW p, NEW w, NEW v,
           On(v) \subseteq On(w), NEW l, NEW all, NEW wr, NEW sub, NEW all2, NEW wr2, NEW sub2,
           c \in Nat,
           StreamOK(c, H, S, m, p, w, l, all, wr, sub)
    PROVE  StreamOK(c, H, S, n, p, v, NoConn, all2, wr2, sub2)
<1>1. n \in 0 .. c /\ On(v) \subseteq 0 .. c
  BY DEF StreamOK
<1>2. \A u \in H : u <= n => u \in S
  BY DEF StreamOK
<1> QED BY <1>1, <1>2 DEF StreamOK

(* The writer stops. *)
LEMMA WriterStops ==
    ASSUME NEW c, NEW H, NEW S, NEW m, NEW p, NEW w, NEW v,
           On(v) \subseteq On(w), NEW l, NEW all, NEW wr, NEW sub,
           StreamOK(c, H, S, m, p, w, l, all, wr, sub)
    PROVE  StreamOK(c, H, S, m, p, v, l, all, FALSE, sub)
BY DEF StreamOK

(* Everything was sent; the channel opens, empty. *)
LEMMA ChannelOpens ==
    ASSUME NEW c, NEW H, NEW S, NEW m, NEW p, NEW w, NEW l, NEW wr, NEW sub,
           StreamOK(c, H, S, m, p, w, l, TRUE, wr, sub)
    PROVE  StreamOK(c, H, S, m, p, <<>>, l, FALSE, TRUE, TRUE)
BY EmptySets DEF StreamOK

(* The server reports its latest of T. *)
LEMMA LatestReported ==
    ASSUME NEW c \in Nat, NEW H, NEW S, NEW m, NEW n \in 0 .. c, NEW T \in SUBSET S,
           IsLatest(n, T), NEW p, NEW w, NEW l, NEW all, NEW wr, NEW sub,
           StreamOK(c, H, S, m, p, w, l, all, wr, sub)
    PROVE  StreamOK(c, H, S, n, p, w, l, all, wr, sub)
<1>1. ASSUME NEW u \in H, u <= n PROVE u \in S
  <2>1. u \in 1 .. c
    BY DEF StreamOK
  <2>2. n # 0 /\ n \in S
    BY <1>1, <2>1 DEF IsLatest
  <2>3. u < n => u \in S
    BY <2>2 DEF StreamOK
  <2> QED BY <1>1, <2>1, <2>2, <2>3
<1> QED BY <1>1 DEF StreamOK

(* One connection changes. *)

(* Connection k carries X as well: it is in order, and nothing is lost. *)
LEMMA Written ==
    ASSUME NEW c \in Nat, NEW H \in Sets, NEW S \in Sets, NEW m,
           NEW p \in [Conns -> Seq(Sets)], NEW w, NEW l \in Conns \cup {NoConn},
           NEW all, NEW wr, NEW sub, StreamOK(c, H, S, m, p, w, l, all, wr, sub),
           NEW k \in Conns, NEW X \in Sets, X \subseteq 0 .. c,
           \A t \in X, u \in H : u < t => u \in S \cup On(p[k]) \cup X
    PROVE  StreamOK(c, H, S, m, [p EXCEPT ![k] = Append(@, X)], w, l, all, wr, sub)
<1> DEFINE n == [p EXCEPT ![k] = Append(@, X)]
<1>1. n[k] = Append(p[k], X) /\ \A j \in Conns : j # k => n[j] = p[j]
  OBVIOUS
<1>2. On(n[k]) = On(p[k]) \cup X /\ Ordered(n[k], H, S)
  BY <1>1, OnAppend, OrderedAppend DEF StreamOK
<1> HIDE DEF n
<1>3. \A j \in Conns : On(p[j]) \subseteq On(n[j]) /\ On(n[j]) \subseteq 0 .. c
  BY <1>1, <1>2 DEF StreamOK
<1>4. \A j \in Conns : Ordered(n[j], H, S)
  BY <1>1, <1>2 DEF StreamOK
<1>5. l # NoConn /\ wr => Ordered(w, H, S \cup On(n[l]))
  <2> SUFFICES ASSUME l # NoConn, wr PROVE Ordered(w, H, S \cup On(n[l]))
    OBVIOUS
  <2>1. Ordered(w, H, S \cup On(p[l])) /\ S \cup On(p[l]) \subseteq S \cup On(n[l])
    BY <1>3 DEF StreamOK
  <2> QED BY <2>1, OrderedMore
<1>6. StreamOK(c, H, S, m, n, w, l, all, wr, sub)
  BY <1>3, <1>4, <1>5 DEF StreamOK
<1> QED BY <1>6 DEF n

(* What is saved after the reported latest is sent. *)
LEMMA MissingSent ==
    ASSUME NEW c \in Nat, NEW H \in Sets, NEW S \in Sets, NEW m \in Nat,
           NEW p \in [Conns -> Seq(Sets)], NEW w, NEW l \in Conns,
           NEW all, NEW sub, StreamOK(c, H, S, m, p, w, l, all, FALSE, sub),
           NEW X, X = {t \in H : t > m}
    PROVE  StreamOK(c, H, S, m, [p EXCEPT ![l] = Append(@, X)], w, l, TRUE, FALSE, sub)
<1> DEFINE n == [p EXCEPT ![l] = Append(@, X)]
<1>1. X \in Sets /\ X \subseteq 0 .. c
  <2>1. X \subseteq H /\ H \subseteq 1 .. c /\ 1 .. c \subseteq 0 .. c /\ H \subseteq Nat
    BY DEF StreamOK, Sets
  <2> QED BY <2>1, Zenon DEF Sets
<1>2. \A u \in H : u \in S \/ u \in X
  BY DEF StreamOK, Sets
<1>3. StreamOK(c, H, S, m, n, w, l, all, FALSE, sub)
  BY <1>1, <1>2, Written
<1>4. On(n[l]) = On(p[l]) \cup X
  BY <1>1, OnAppend
<1> HIDE DEF n
<1>5. H \subseteq S \cup On(n[l])
  BY <1>2, <1>4
<1>6. StreamOK(c, H, S, m, n, w, l, TRUE, FALSE, sub)
  BY <1>3, <1>5 DEF StreamOK
<1> QED BY <1>6 DEF n

(* The writer takes the first of the channel and sends it. *)
LEMMA Forwarded ==
    ASSUME NEW c \in Nat, NEW H \in Sets, NEW S \in Sets, NEW m,
           NEW p \in [Conns -> Seq(Sets)], NEW w \in Seq(Sets), w # <<>>, NEW l \in Conns,
           NEW all, NEW sub, StreamOK(c, H, S, m, p, w, l, all, TRUE, sub)
    PROVE  StreamOK(c, H, S, m, [p EXCEPT ![l] = Append(@, Head(w))], Tail(w), l, all, TRUE, sub)
<1> DEFINE n == [p EXCEPT ![l] = Append(@, Head(w))]
<1>1. l # NoConn /\ Ordered(w, H, S \cup On(p[l]))
  BY StationV1Assumption DEF StreamOK
<1>2. /\ Head(w) \in Sets /\ On(w) = Head(w) \cup On(Tail(w))
      /\ Ordered(Tail(w), H, (S \cup On(p[l])) \cup Head(w))
      /\ \A t \in Head(w), u \in H : u < t => u \in (S \cup On(p[l])) \cup Head(w)
  BY <1>1, OnTail, OrderedTail
<1>3. Head(w) \subseteq 0 .. c /\ On(Tail(w)) \subseteq On(w)
  BY <1>2 DEF StreamOK
<1>4. StreamOK(c, H, S, m, n, w, l, all, TRUE, sub)
  BY <1>2, <1>3, Written
<1>5. On(n[l]) = On(p[l]) \cup Head(w)
  BY <1>2, OnAppend
<1> HIDE DEF n
<1>6. (S \cup On(p[l])) \cup Head(w) = S \cup On(n[l])
  BY <1>5
<1>7. Ordered(Tail(w), H, S \cup On(n[l]))
  BY <1>2, <1>6
<1>8. S \cup On(n[l]) \cup On(w) = S \cup On(n[l]) \cup On(Tail(w))
  BY <1>2, <1>5
<1>9. StreamOK(c, H, S, m, n, Tail(w), l, all, TRUE, sub)
  BY <1>3, <1>4, <1>7, <1>8 DEF StreamOK
<1> QED BY <1>9 DEF n

(* Connection k carries nothing; no writer relies on it. *)
LEMMA Emptied ==
    ASSUME NEW c, NEW H, NEW S, NEW m,
           NEW p \in [Conns -> Seq(Sets)], NEW w, NEW l, NEW k \in Conns,
           NEW s \in Seq(Sets), On(s) = {},
           NEW all, NEW wr, NEW sub, StreamOK(c, H, S, m, p, w, l, all, wr, sub),
           NEW j \in Conns \cup {NoConn}, (j = l /\ j # k) \/ j = NoConn \/ (~all /\ ~wr)
    PROVE  StreamOK(c, H, S, m, [p EXCEPT ![k] = s], w, j, all, wr, sub)
<1> DEFINE n == [p EXCEPT ![k] = s]
<1>1. n[k] = s /\ \A i \in Conns : i # k => n[i] = p[i]
  OBVIOUS
<1>2. Ordered(s, H, S)
  BY OnDef DEF Ordered
<1> HIDE DEF n
<1>3. \A i \in Conns : On(n[i]) \subseteq 0 .. c
  BY <1>1 DEF StreamOK
<1>4. \A i \in Conns : Ordered(n[i], H, S)
  BY <1>1, <1>2 DEF StreamOK
<1>5. StreamOK(c, H, S, m, n, w, j, all, wr, sub)
  BY <1>1, <1>3, <1>4 DEF StreamOK
<1> QED BY <1>5 DEF n

(* More is dealt with: t, before which nothing saved is missing. *)
LEMMA DealtWith ==
    ASSUME NEW c \in Nat, NEW H \in Sets, NEW S \in Sets, NEW m,
           NEW p \in [Conns -> Seq(Sets)], NEW w, NEW l \in Conns \cup {NoConn},
           NEW all, NEW wr, NEW sub, StreamOK(c, H, S, m, p, w, l, all, wr, sub),
           NEW t \in 0 .. c, \A u \in H : u < t => u \in S
    PROVE  StreamOK(c, H, S \cup {t}, m, p, w, l, all, wr, sub)
<1>1. /\ \A k \in Conns : Ordered(p[k], H, S \cup {t})
      /\ l # NoConn /\ wr => Ordered(w, H, (S \cup {t}) \cup On(p[l]))
  BY OrderedMore DEF StreamOK
<1>2. S \cup {t} \subseteq 0 .. c
  BY DEF StreamOK
<1>3. \A v \in S \cup {t}, u \in H : u < v => u \in S \cup {t}
  BY DEF StreamOK
<1> QED BY <1>1, <1>2, <1>3 DEF StreamOK

(* The first set of k is empty and taken away. *)
LEMMA EmptyTaken ==
    ASSUME NEW c \in Nat, NEW H \in Sets, NEW S \in Sets, NEW m,
           NEW p \in [Conns -> Seq(Sets)], NEW w, NEW l \in Conns \cup {NoConn},
           NEW all, NEW wr, NEW sub, StreamOK(c, H, S, m, p, w, l, all, wr, sub),
           NEW k \in Conns, p[k] # <<>>, Head(p[k]) = {}
    PROVE  StreamOK(c, H, S, m, [p EXCEPT ![k] = Tail(@)], w, l, all, wr, sub)
<1> DEFINE n == [p EXCEPT ![k] = Tail(@)]
<1>1. n[k] = Tail(p[k]) /\ \A j \in Conns : j # k => n[j] = p[j]
  OBVIOUS
<1>2. On(n[k]) = On(p[k])
  BY <1>1, OnTail
<1>3. Ordered(n[k], H, S)
  <2>1. Ordered(Tail(p[k]), H, S \cup Head(p[k]))
    BY OrderedTail DEF StreamOK
  <2> QED BY <1>1, <2>1
<1> HIDE DEF n
<1>4. \A j \in Conns : On(n[j]) = On(p[j]) /\ Ordered(n[j], H, S)
  BY <1>1, <1>2, <1>3 DEF StreamOK
<1>5. StreamOK(c, H, S, m, n, w, l, all, wr, sub)
  BY <1>4 DEF StreamOK
<1> QED BY <1>5 DEF n

(* The least of the first set of k is taken and dealt with. *)
LEMMA LeastTaken ==
    ASSUME NEW c \in Nat, NEW H \in Sets, NEW S \in Sets, NEW m,
           NEW p \in [Conns -> Seq(Sets)], NEW w, NEW l \in Conns \cup {NoConn},
           NEW all, NEW wr, NEW sub, StreamOK(c, H, S, m, p, w, l, all, wr, sub),
           NEW k \in Conns, p[k] # <<>>, NEW t, IsNext(t, Head(p[k]))
    PROVE  StreamOK(c, H, S \cup {t}, m, [p EXCEPT ![k] = Drop(@, t)], w, l, all, wr, sub)
<1> DEFINE n == [p EXCEPT ![k] = Drop(@, t)]
<1>1. n[k] = Drop(p[k], t) /\ \A j \in Conns : j # k => n[j] = p[j]
  OBVIOUS
<1>2. t \in Head(p[k]) /\ Head(p[k]) \in Sets /\ On(p[k]) = Head(p[k]) \cup On(Tail(p[k]))
  BY OnTail DEF IsNext
<1>3. t \in 0 .. c
  BY <1>2 DEF StreamOK
<1>4. \A u \in H : u < t => u \in S
  <2>1. \A u \in H : u < t => u \in S \cup Head(p[k])
    BY <1>2, OrderedTail DEF StreamOK
  <2> QED BY <1>2, <2>1 DEF IsNext, Sets
<1>5. StreamOK(c, H, S \cup {t}, m, p, w, l, all, wr, sub)
  BY <1>3, <1>4, DealtWith
<1>6. On(p[k]) = On(n[k]) \cup {t} /\ Ordered(n[k], H, S \cup {t})
  BY <1>1, <1>2, DropOrdered DEF StreamOK
<1> HIDE DEF n
<1>7. \A j \in Conns : /\ On(n[j]) \subseteq On(p[j])
                       /\ (S \cup {t}) \cup On(n[j]) = (S \cup {t}) \cup On(p[j])
                       /\ Ordered(n[j], H, S \cup {t})
  BY <1>1, <1>5, <1>6 DEF StreamOK
<1>8. \A j \in Conns : On(n[j]) \subseteq 0 .. c
  BY <1>5, <1>7 DEF StreamOK
<1>9. StreamOK(c, H, S \cup {t}, m, n, w, l, all, wr, sub)
  BY <1>5, <1>7, <1>8 DEF StreamOK
<1> QED BY <1>9 DEF n

(* The first set of k is {t}: it is taken and dealt with. *)
LEMMA OneTaken ==
    ASSUME NEW c \in Nat, NEW H \in Sets, NEW S \in Sets, NEW m,
           NEW p \in [Conns -> Seq(Sets)], NEW w, NEW l \in Conns \cup {NoConn},
           NEW all, NEW wr, NEW sub, StreamOK(c, H, S, m, p, w, l, all, wr, sub),
           NEW k \in Conns, p[k] # <<>>, NEW t \in Nat, Head(p[k]) = {t}
    PROVE  StreamOK(c, H, S \cup {t}, m, [p EXCEPT ![k] = Tail(@)], w, l, all, wr, sub)
<1> DEFINE n == [p EXCEPT ![k] = Drop(@, t)]
<1>1. IsNext(t, Head(p[k])) /\ S \cup {t} \in Sets
  BY DEF IsNext, Sets
<1>2. StreamOK(c, H, S \cup {t}, m, n, w, l, all, wr, sub)
  BY <1>1, LeastTaken
<1>3. /\ Drop(p[k], t) \in Seq(Sets) /\ Drop(p[k], t) # <<>> /\ Head(Drop(p[k], t)) = {}
      /\ Tail(Drop(p[k], t)) = Tail(p[k])
  BY DropIndex
<1>4. n \in [Conns -> Seq(Sets)] /\ n[k] # <<>> /\ Head(n[k]) = {}
  BY <1>3
<1>5. [n EXCEPT ![k] = Tail(@)] = [p EXCEPT ![k] = Tail(@)]
  BY <1>3
<1> HIDE DEF n
<1>6. StreamOK(c, H, S \cup {t}, m, [n EXCEPT ![k] = Tail(@)], w, l, all, wr, sub)
  BY <1>1, <1>2, <1>4, EmptyTaken
<1> QED BY <1>5, <1>6

-----------------------------------------------------------------------------
(* The streams of a state *)

Pipes(x) == [k \in Conns |-> Carried(c2s[k], x)]

Stream(x) ==
    StreamOK(Clock(x), Saved(x), Done(x), Mark(x), Pipes(x), Carried(queue, x), Line,
             SentAll(x), writing, subscribed)

Inv == TInv /\ \A x \in Streams : Stream(x)

LEMMA NextStream ==
    ASSUME NEW x
    PROVE  Stream(x)' <=>
             StreamOK(Clock(x)', Saved(x)', Done(x)', Mark(x)', Pipes(x)', Carried(queue', x),
                      Line', SentAll(x)', writing', subscribed')
BY DEF Stream

LEMMA StreamTypes ==
    ASSUME TInv, NEW x \in Streams
    PROVE  /\ Clock(x) \in Nat /\ Saved(x) \in Sets /\ Done(x) \in Sets /\ Mark(x) \in Nat
           /\ Pipes(x) \in [Conns -> Seq(Sets)] /\ Carried(queue, x) \in Seq(Sets)
           /\ Line \in Conns \cup {NoConn}
<1>1. /\ rows \in Nat /\ now \in Nat /\ hist \in [Items -> SUBSET Nat] /\ latest \in [Items -> Nat]
      /\ latestRow \in Nat /\ stored \in [Items -> SUBSET Nat] /\ statusLog \subseteq Nat
      /\ lost \subseteq Nat /\ cur \in Conns \cup {NoConn} /\ c2s \in [Conns -> Seq(Message)]
      /\ queue \in Seq(Point \cup Row)
  BY DEF TInv, TypeOK
<1>2. Line \in Conns \cup {NoConn}
  BY <1>1 DEF Line
<1>3. Clock(x) \in Nat /\ Saved(x) \in Sets /\ Done(x) \in Sets /\ Mark(x) \in Nat
  <2>1. CASE x = RowStream
    BY <1>1, <2>1 DEF Clock, Saved, Done, Mark, Sets
  <2>2. ASSUME NEW i \in Items, x = <<i>>
        PROVE  Clock(x) \in Nat /\ Saved(x) \in Sets /\ Done(x) \in Sets /\ Mark(x) \in Nat
    BY <1>1, <2>2, StreamNames DEF Clock, Saved, Done, Mark, Sets
  <2> QED BY <2>1, <2>2, StreamNames
<1>4. Pipes(x) \in [Conns -> Seq(Sets)]
  <2>1. \A k \in Conns : Carried(c2s[k], x) \in Seq(Sets)
    BY <1>1, CarriedSeq
  <2> QED BY <2>1 DEF Pipes
<1>5. Carried(queue, x) \in Seq(Sets)
  <2>1. Point \cup Row \in SUBSET Message
    BY DEF Message
  <2> QED BY <1>1, <2>1, CarriedSeq
<1> QED BY <1>2, <1>3, <1>4, <1>5

(* The operations on connection k. *)
LEMMA PipesWritten ==
    ASSUME TInv, NEW x \in Streams, NEW k \in Conns, NEW f \in Message,
           c2s' = [c2s EXCEPT ![k] = Append(@, f)]
    PROVE  Pipes(x)' = [Pipes(x) EXCEPT ![k] = Append(@, In(f, x))]
<1>1. c2s \in [Conns -> Seq(Message)]
  BY DEF TInv, TypeOK
<1>2. Carried(Append(c2s[k], f), x) = Append(Carried(c2s[k], x), In(f, x))
  BY <1>1, CarriedAppend
<1> QED BY <1>1, <1>2 DEF Pipes

LEMMA PipesTaken ==
    ASSUME TInv, NEW x \in Streams, NEW k \in Conns, c2s[k] # <<>>
    PROVE  /\ Pipes(x)[k] # <<>> /\ Head(Pipes(x)[k]) = In(Head(c2s[k]), x)
           /\ c2s' = [c2s EXCEPT ![k] = Tail(@)]
                => Pipes(x)' = [Pipes(x) EXCEPT ![k] = Tail(@)]
<1>1. c2s \in [Conns -> Seq(Message)]
  BY DEF TInv, TypeOK
<1>2. /\ Carried(c2s[k], x) # <<>> /\ Head(Carried(c2s[k], x)) = In(Head(c2s[k]), x)
      /\ Carried(Tail(c2s[k]), x) = Tail(Carried(c2s[k], x))
  BY <1>1, CarriedTail
<1> QED BY <1>1, <1>2 DEF Pipes

LEMMA PipesReplaced ==
    ASSUME TInv, NEW x \in Streams, NEW k \in Conns, NEW q \in Seq(Message),
           c2s' = [c2s EXCEPT ![k] = q]
    PROVE  Pipes(x)' = [Pipes(x) EXCEPT ![k] = Carried(q, x)]
BY DEF TInv, TypeOK, Pipes

LEMMA Same ==
    ASSUME NEW x
    PROVE  /\ UNCHANGED <<hist, rows, now>> => Clock(x)' = Clock(x) /\ Saved(x)' = Saved(x)
           /\ UNCHANGED <<latest, latestRow>> => Mark(x)' = Mark(x)
           /\ UNCHANGED <<stored, statusLog, lost>> => Done(x)' = Done(x)
           /\ UNCHANGED c2s => Pipes(x)' = Pipes(x)
           /\ UNCHANGED <<cur, broken>> => Line' = Line
           /\ UNCHANGED cpc => SentAll(x)' = SentAll(x)
           /\ UNCHANGED queue => Carried(queue', x) = Carried(queue, x)
BY DEF Clock, Saved, Mark, Done, Pipes, Line, SentAll

LEMMA FlagsFall ==
    ASSUME NEW c, NEW H, NEW S, NEW m, NEW p, NEW w, NEW l, NEW all, NEW wr, NEW sub,
           StreamOK(c, H, S, m, p, w, l, all, wr, sub),
           NEW all2, NEW wr2, NEW sub2, all2 => all, wr2 => wr, sub2 => sub
    PROVE  StreamOK(c, H, S, m, p, w, l, all2, wr2, sub2)
BY DEF StreamOK

-----------------------------------------------------------------------------
(* The station *)

(* Nothing is stored or carried; the line may go down. *)
LEMMA NothingMoves ==
    ASSUME Inv, NEW x \in Streams,
           UNCHANGED <<hist, rows, now, latest, latestRow, stored, statusLog, lost, c2s, queue,
                       writing, subscribed>>,
           \/ Line' = Line /\ (SentAll(x)' => SentAll(x))
           \/ Line' = NoConn
    PROVE  Stream(x)'
<1>1. StreamOK(Clock(x), Saved(x), Done(x), Mark(x), Pipes(x), Carried(queue, x), Line,
               SentAll(x), writing, subscribed) /\ Clock(x) \in Nat
  BY StreamTypes DEF Inv, Stream
<1>2. /\ Clock(x)' = Clock(x) /\ Saved(x)' = Saved(x) /\ Mark(x)' = Mark(x) /\ Done(x)' = Done(x)
      /\ Pipes(x)' = Pipes(x) /\ Carried(queue', x) = Carried(queue, x)
      /\ writing' = writing /\ subscribed' = subscribed
  BY Same
<1>3. CASE Line' = Line /\ (SentAll(x)' => SentAll(x))
  <2>1. StreamOK(Clock(x), Saved(x), Done(x), Mark(x), Pipes(x), Carried(queue, x), Line,
                 SentAll(x)', writing, subscribed)
    BY <1>1, <1>3, FlagsFall
  <2> QED BY <1>2, <1>3, <2>1, NextStream
<1>4. CASE Line' = NoConn
  <2>1. StreamOK(Clock(x), Saved(x), Done(x), Mark(x), Pipes(x), Carried(queue, x), NoConn,
                 SentAll(x)', writing, subscribed)
    BY <1>1, LineDown
  <2> QED BY <1>2, <1>4, <2>1, NextStream
<1> QED BY <1>3, <1>4

LEMMA ClientStream ==
    ASSUME Inv, NEW x \in Streams, NEW k \in Conns, client(k)
    PROVE  Stream(x)'
<1> DEFINE info == [type |-> "info", version |-> version]
<1>1. /\ StreamOK(Clock(x), Saved(x), Done(x), Mark(x), Pipes(x), Carried(queue, x), Line,
                  SentAll(x), writing, subscribed)
      /\ Pipes(x) \in [Conns -> Seq(Sets)]
  BY StreamTypes DEF Inv, Stream
<1>2. /\ Clock(x)' = Clock(x) /\ Saved(x)' = Saved(x) /\ Mark(x)' = Mark(x) /\ Done(x)' = Done(x)
      /\ Carried(queue', x) = Carried(queue, x) /\ writing' = writing /\ subscribed' = subscribed
  BY Same DEF client, stationDB, known, channel, serverDB
<1>3. info \in Message /\ In(info, x) = {}
  BY DEF Inv, TInv, TypeOK, Message, In
<1>4. <<info>> \in Seq(Message) /\ <<info>> = Append(<<>>, info)
  BY <1>3, SingletonSeq
<1>5. Carried(<<info>>, x) \in Seq(Sets) /\ On(Carried(<<info>>, x)) = {}
  <2>1. Carried(<<info>>, x) = Append(<<>>, {})
    <3>1. Message \in SUBSET Message /\ <<>> \in Seq(Message)
      BY EmptySeq
    <3>2. Carried(Append(<<>>, info), x) = Append(Carried(<<>>, x), In(info, x))
      BY <1>3, <3>1, CarriedAppend
    <3> QED BY <1>3, <1>4, <3>2, CarriedEmpty
  <2>2. {} \in Sets /\ <<>> \in Seq(Sets)
    BY EmptySeq DEF Sets
  <2> QED BY <2>1, <2>2, OnAppend, EmptySets
<1>6. Pipes(x)' = [Pipes(x) EXCEPT ![k] = Carried(<<info>>, x)]
  BY <1>4, PipesReplaced DEF client, Inv
<1>7. ~SentAll(x) /\ ~SentAll(x)' /\ ~writing
  BY DEF client, SentAll, Inv, TInv, PhaseInv
<1>8. Line' = k
  BY StationV1Assumption DEF client, Line, Inv, TInv, TypeOK
<1>9. StreamOK(Clock(x), Saved(x), Done(x), Mark(x), [Pipes(x) EXCEPT ![k] = Carried(<<info>>, x)],
               Carried(queue, x), k, SentAll(x), writing, subscribed)
  BY <1>1, <1>5, <1>7, Emptied
<1>10. StreamOK(Clock(x), Saved(x), Done(x), Mark(x), [Pipes(x) EXCEPT ![k] = Carried(<<info>>, x)],
                Carried(queue, x), k, SentAll(x)', writing, subscribed)
  BY <1>7, <1>9, FlagsFall
<1> QED BY <1>2, <1>6, <1>8, <1>10, NextStream

(* The session writes f to its connection. *)
LEMMA LineIsCur ==
    ASSUME TInv, cpc # "idle", NEW f
    PROVE  /\ broken[cur] => Line = NoConn /\ Arrives(cur, f) = c2s
           /\ ~broken[cur] => Line = cur /\ cur \in Conns
                              /\ Arrives(cur, f) = [c2s EXCEPT ![cur] = Append(@, f)]
<1>1. cur \in Conns /\ cur # NoConn /\ c2s \in [Conns -> Seq(Message)]
  BY CurIsConn, StationV1Assumption DEF TInv, TypeOK
<1>2. CASE broken[cur]
  BY <1>1, <1>2 DEF Line, Arrives
<1>3. CASE ~broken[cur]
  BY <1>1, <1>3 DEF Line, Arrives
<1> QED BY <1>2, <1>3

(* What the server misses of x, or of other streams, is written. *)
LEMMA MissStream ==
    ASSUME Inv, NEW x \in Streams, NEW f \in Message, cpc # "idle", ~writing, ~subscribed,
           c2s' = Arrives(cur, f),
           UNCHANGED <<hist, rows, now, latest, latestRow, stored, statusLog, lost, queue,
                       writing, subscribed, cur, broken>>,
           \/ In(f, x) = {t \in Saved(x) : t > Mark(x)}
           \/ In(f, x) = {} /\ (SentAll(x)' => SentAll(x))
    PROVE  Stream(x)'
<1>1. CASE broken[cur]
  <2>1. Line' = NoConn /\ c2s' = c2s
    BY <1>1, LineIsCur, Same DEF Inv
  <2> QED BY <2>1, NothingMoves
<1>2. CASE ~broken[cur]
  <2>1. /\ StreamOK(Clock(x), Saved(x), Done(x), Mark(x), Pipes(x), Carried(queue, x), Line,
                    SentAll(x), writing, subscribed)
        /\ Clock(x) \in Nat /\ Saved(x) \in Sets /\ Done(x) \in Sets /\ Mark(x) \in Nat
        /\ Pipes(x) \in [Conns -> Seq(Sets)]
    BY StreamTypes DEF Inv, Stream
  <2>2. Line = cur /\ cur \in Conns /\ c2s' = [c2s EXCEPT ![cur] = Append(@, f)]
    BY <1>2, LineIsCur DEF Inv
  <2>3. Pipes(x)' = [Pipes(x) EXCEPT ![cur] = Append(@, In(f, x))]
    BY <2>2, PipesWritten DEF Inv
  <2>4. /\ Clock(x)' = Clock(x) /\ Saved(x)' = Saved(x) /\ Mark(x)' = Mark(x) /\ Done(x)' = Done(x)
        /\ Carried(queue', x) = Carried(queue, x) /\ Line' = cur
        /\ writing' = writing /\ subscribed' = subscribed
    BY <2>2, Same
  <2>5. StreamOK(Clock(x), Saved(x), Done(x), Mark(x), Pipes(x), Carried(queue, x), cur,
                 SentAll(x), FALSE, FALSE)
    BY <2>1, <2>2, FlagsFall
  <2>6. StreamOK(Clock(x), Saved(x), Done(x), Mark(x), Pipes(x)', Carried(queue, x), cur,
                 SentAll(x)', FALSE, FALSE)
    <3>1. CASE In(f, x) = {t \in Saved(x) : t > Mark(x)}
      <4>1. StreamOK(Clock(x), Saved(x), Done(x), Mark(x),
                     [Pipes(x) EXCEPT ![cur] = Append(@, In(f, x))], Carried(queue, x), cur,
                     TRUE, FALSE, FALSE)
        BY <2>1, <2>2, <2>5, <3>1, MissingSent
      <4> QED BY <2>3, <4>1, FlagsFall, ZenonT(30)
    <3>2. CASE In(f, x) = {} /\ (SentAll(x)' => SentAll(x))
      <4>1. StreamOK(Clock(x), Saved(x), Done(x), Mark(x),
                     [Pipes(x) EXCEPT ![cur] = Append(@, {})], Carried(queue, x), cur,
                     SentAll(x), FALSE, FALSE)
        <5>1. {} \in Sets /\ {} \subseteq 0 .. Clock(x)
          BY DEF Sets
        <5> QED BY <2>1, <2>2, <2>5, <5>1, Written
      <4> QED BY <2>3, <3>2, <4>1, FlagsFall, ZenonT(30)
    <3> QED BY <3>1, <3>2
  <2>7. StreamOK(Clock(x), Saved(x), Done(x), Mark(x), Pipes(x)', Carried(queue, x), cur,
                 SentAll(x)', writing, subscribed)
    BY <2>6, FlagsFall
  <2> QED BY <2>4, <2>7, NextStream
<1> QED BY <1>1, <1>2

LEMMA MissDataStream ==
    ASSUME Inv, NEW x \in Streams, SendMissData PROVE Stream(x)'
<1> DEFINE points == [i \in Items |-> {t \in hist[i] : t > latest[i]}]
           f == [type |-> "missData", points |-> points]
<1>1. f \in Message
  <2>1. points \in [Items -> SUBSET Nat]
    BY DEF Inv, TInv, TypeOK
  <2> QED BY <2>1 DEF Message
<1>2. cpc # "idle" /\ ~writing /\ ~subscribed /\ cpc = "data" /\ cpc' = "status"
  BY DEF SendMissData, Inv, TInv, PhaseInv
<1>3. \/ In(f, x) = {t \in Saved(x) : t > Mark(x)}
      \/ In(f, x) = {} /\ (SentAll(x)' => SentAll(x))
  <2>1. CASE x = RowStream
    BY <1>2, <2>1 DEF In, SentAll
  <2>2. ASSUME NEW i \in Items, x = <<i>> PROVE In(f, x) = {t \in Saved(x) : t > Mark(x)}
    BY <2>2, StreamNames DEF In, Saved, Mark
  <2> QED BY <2>1, <2>2, StreamNames
<1>4. /\ c2s' = Arrives(cur, f)
      /\ UNCHANGED <<hist, rows, now, latest, latestRow, stored, statusLog, lost, queue,
                     writing, subscribed, cur, broken>>
  BY DEF SendMissData, stationDB, known, channel, serverDB
<1> HIDE DEF f
<1> QED BY <1>1, <1>2, <1>3, <1>4, MissStream

LEMMA MissStatusStream ==
    ASSUME Inv, NEW x \in Streams, SendMissStatus PROVE Stream(x)'
<1> DEFINE f == [type |-> "missStatus", rows |-> latestRow + 1 .. rows]
<1>1. f \in Message /\ rows \in Nat /\ latestRow \in Nat
  BY DEF Inv, TInv, TypeOK, Message
<1>2. cpc # "idle" /\ ~writing /\ ~subscribed /\ cpc = "status" /\ cpc' = "subscribe"
  BY DEF SendMissStatus, Inv, TInv, PhaseInv
<1>3. \/ In(f, x) = {t \in Saved(x) : t > Mark(x)}
      \/ In(f, x) = {} /\ (SentAll(x)' => SentAll(x))
  <2>1. CASE x = RowStream
    <3>1. latestRow + 1 .. rows = {t \in 1 .. rows : t > latestRow}
      BY <1>1
    <3> QED BY <2>1, <3>1 DEF In, Saved, Mark
  <2>2. CASE x # RowStream
    BY <1>2, <2>2 DEF In, SentAll
  <2> QED BY <2>1, <2>2
<1>4. /\ c2s' = Arrives(cur, f)
      /\ UNCHANGED <<hist, rows, now, latest, latestRow, stored, statusLog, lost, queue,
                     writing, subscribed, cur, broken>>
  BY DEF SendMissStatus, stationDB, known, channel, serverDB
<1> HIDE DEF f
<1> QED BY <1>1, <1>2, <1>3, <1>4, MissStream

LEMMA SubscribeStream ==
    ASSUME Inv, NEW x \in Streams, SubscribeAndUnlock PROVE Stream(x)'
<1>1. /\ StreamOK(Clock(x), Saved(x), Done(x), Mark(x), Pipes(x), Carried(queue, x), Line,
                  SentAll(x), writing, subscribed)
  BY DEF Inv, Stream
<1>2. /\ Clock(x)' = Clock(x) /\ Saved(x)' = Saved(x) /\ Mark(x)' = Mark(x) /\ Done(x)' = Done(x)
      /\ Pipes(x)' = Pipes(x) /\ Line' = Line /\ Carried(queue', x) = <<>>
  BY Same, CarriedEmpty DEF SubscribeAndUnlock, stationDB, known, network, serverDB
<1>3. SentAll(x) /\ ~SentAll(x)' /\ writing' /\ subscribed'
  BY DEF SubscribeAndUnlock, SentAll
<1>4. StreamOK(Clock(x), Saved(x), Done(x), Mark(x), Pipes(x), Carried(queue, x), Line,
               TRUE, writing, subscribed)
  BY <1>1, <1>3, FlagsFall
<1>5. StreamOK(Clock(x), Saved(x), Done(x), Mark(x), Pipes(x), <<>>, Line, FALSE, TRUE, TRUE)
  BY <1>4, ChannelOpens
<1>6. StreamOK(Clock(x), Saved(x), Done(x), Mark(x), Pipes(x), <<>>, Line, SentAll(x)', writing',
               subscribed')
  BY <1>3, <1>5, FlagsFall
<1> QED BY <1>2, <1>6, NextStream

LEMMA WriteStream ==
    ASSUME Inv, NEW x \in Streams, Write PROVE Stream(x)'
<1>1. /\ StreamOK(Clock(x), Saved(x), Done(x), Mark(x), Pipes(x), Carried(queue, x), Line,
                  SentAll(x), writing, subscribed)
      /\ Clock(x) \in Nat /\ Saved(x) \in Sets /\ Done(x) \in Sets
      /\ Pipes(x) \in [Conns -> Seq(Sets)] /\ Carried(queue, x) \in Seq(Sets)
  BY StreamTypes DEF Inv, Stream
<1>2. /\ queue \in Seq(Point \cup Row) /\ queue # <<>> /\ Point \cup Row \in SUBSET Message
      /\ Head(queue) \in Message /\ queue' = Tail(queue)
  BY HeadTailProperties DEF Write, Inv, TInv, TypeOK, Message
<1>3. /\ Carried(queue, x) # <<>> /\ Head(Carried(queue, x)) = In(Head(queue), x)
      /\ Carried(queue', x) = Tail(Carried(queue, x))
  BY <1>2, CarriedTail
<1>4. On(Carried(queue', x)) \subseteq On(Carried(queue, x))
  BY <1>1, <1>3, OnTail
<1>5. /\ Clock(x)' = Clock(x) /\ Saved(x)' = Saved(x) /\ Mark(x)' = Mark(x) /\ Done(x)' = Done(x)
      /\ Line' = Line /\ SentAll(x)' = SentAll(x) /\ subscribed' = subscribed
  BY Same DEF Write, stationDB, session, known, serverDB
<1>6. cpc # "idle" /\ writing /\ writing' \in BOOLEAN
  BY Zenon DEF Write, Inv, TInv, TypeOK
<1>7. CASE c2s' = c2s /\ (~writing' \/ Line = NoConn)
  <2>1. Pipes(x)' = Pipes(x)
    BY <1>7, Same
  <2>2. CASE ~writing'
    <3>1. StreamOK(Clock(x), Saved(x), Done(x), Mark(x), Pipes(x), Carried(queue', x), Line,
                   SentAll(x), FALSE, subscribed)
      BY <1>1, <1>4, WriterStops
    <3>2. StreamOK(Clock(x), Saved(x), Done(x), Mark(x), Pipes(x), Carried(queue', x), Line,
                   SentAll(x), writing', subscribed)
      BY <2>2, <3>1, FlagsFall
    <3> QED BY <1>5, <2>1, <3>2, NextStream
  <2>3. CASE Line = NoConn
    <3>1. StreamOK(Clock(x), Saved(x), Done(x), Mark(x), Pipes(x), Carried(queue', x), NoConn,
                   SentAll(x), writing', subscribed)
      BY <1>1, <1>4, LineDown
    <3> QED BY <1>5, <2>1, <2>3, <3>1, NextStream
  <2> QED BY <1>7, <2>2, <2>3
<1>8. CASE Line = cur /\ cur \in Conns /\ c2s' = [c2s EXCEPT ![cur] = Append(@, Head(queue))]
  <2>1. Pipes(x)' = [Pipes(x) EXCEPT ![cur] = Append(@, Head(Carried(queue, x)))]
    BY <1>2, <1>3, <1>8, PipesWritten DEF Inv
  <2>2. StreamOK(Clock(x), Saved(x), Done(x), Mark(x), Pipes(x), Carried(queue, x), cur,
                 SentAll(x), TRUE, subscribed)
    BY <1>1, <1>6, <1>8, FlagsFall
  <2>3. StreamOK(Clock(x), Saved(x), Done(x), Mark(x),
                 [Pipes(x) EXCEPT ![cur] = Append(@, Head(Carried(queue, x)))],
                 Tail(Carried(queue, x)), cur, SentAll(x), TRUE, subscribed)
    BY <1>1, <1>3, <1>8, <2>2, Forwarded
  <2>4. StreamOK(Clock(x), Saved(x), Done(x), Mark(x), Pipes(x)', Carried(queue', x), cur,
                 SentAll(x), writing', subscribed)
    BY <1>3, <2>1, <2>3, FlagsFall
  <2> QED BY <1>5, <1>8, <2>4, NextStream
<1>9. c2s' = Arrives(cur, Head(queue)) \/ (c2s' = c2s /\ ~writing')
  BY Zenon DEF Write
<1>10. CASE c2s' = Arrives(cur, Head(queue))
  <2>1. CASE broken[cur]
    BY <1>6, <1>7, <1>10, <2>1, LineIsCur DEF Inv
  <2>2. CASE ~broken[cur]
    BY <1>6, <1>8, <1>10, <2>2, LineIsCur DEF Inv
  <2> QED BY <2>1, <2>2
<1> QED BY <1>7, <1>9, <1>10

LEMMA SessionEndStream ==
    ASSUME Inv, NEW x \in Streams, SessionEnds,
           UNCHANGED <<hist, rows, now, stored, statusLog, lost, c2s>>
    PROVE  Stream(x)'
<1>1. /\ StreamOK(Clock(x), Saved(x), Done(x), Mark(x), Pipes(x), Carried(queue, x), Line,
                  SentAll(x), writing, subscribed)
      /\ Clock(x) \in Nat
  BY StreamTypes DEF Inv, Stream
<1>2. /\ Clock(x)' = Clock(x) /\ Saved(x)' = Saved(x) /\ Done(x)' = Done(x)
      /\ Pipes(x)' = Pipes(x) /\ Carried(queue', x) = <<>>
  BY Same, CarriedEmpty DEF SessionEnds
<1>3. Mark(x)' = 0
  BY StreamNames DEF SessionEnds, Mark
<1>4. Line' = NoConn
  BY DEF SessionEnds, Line
<1>5. On(<<>>) \subseteq On(Carried(queue, x))
  BY EmptySets
<1>6. StreamOK(Clock(x), Saved(x), Done(x), 0, Pipes(x), <<>>, NoConn, SentAll(x)', writing',
               subscribed')
  BY <1>1, <1>5, LineDown
<1> QED BY <1>2, <1>3, <1>4, <1>6, NextStream

-----------------------------------------------------------------------------
(* The server *)

LEMMA PipesShrink ==
    ASSUME TInv, NEW x \in Streams, NEW k \in Conns, c2s[k] # <<>>, NEW f \in Message, NEW t,
           c2s' = [c2s EXCEPT ![k] = [@ EXCEPT ![1] = f]]
    PROVE  /\ In(f, x) = In(Head(c2s[k]), x) \ {t}
                => Pipes(x)' = [Pipes(x) EXCEPT ![k] = Drop(@, t)]
           /\ In(f, x) = In(Head(c2s[k]), x) => Pipes(x)' = Pipes(x)
<1> DEFINE q == c2s[k]
           s == Carried(q, x)
<1>1. c2s \in [Conns -> Seq(Message)] /\ q \in Seq(Message)
  BY DEF TInv, TypeOK
<1>2. 1 \in DOMAIN q /\ q[1] = Head(q)
  BY <1>1, TailIndex
<1>3. c2s'[k] = [q EXCEPT ![1] = f] /\ \A j \in Conns : j # k => c2s'[j] = c2s[j]
  BY <1>1
<1>4. Carried(c2s'[k], x) = [s EXCEPT ![1] = In(f, x)]
  BY <1>1, <1>2, <1>3 DEF Carried
<1>5. s[1] = In(Head(q), x) /\ DOMAIN s = DOMAIN q
  BY <1>2 DEF Carried
<1>6. Pipes(x)' = [Pipes(x) EXCEPT ![k] = [s EXCEPT ![1] = In(f, x)]]
  <2>1. \A j \in Conns : Carried(c2s'[j], x) = IF j = k THEN [s EXCEPT ![1] = In(f, x)]
                                              ELSE Carried(c2s[j], x)
    BY <1>3, <1>4
  <2> HIDE DEF s
  <2> QED BY <2>1 DEF Pipes
<1>7. Pipes(x)[k] = s
  BY DEF Pipes
<1>8. s \in Seq(Sets)
  BY <1>1, CarriedSeq
<1> HIDE DEF s
<1>9. ASSUME In(f, x) = In(Head(c2s[k]), x) \ {t} PROVE [s EXCEPT ![1] = In(f, x)] = Drop(s, t)
  BY <1>5, <1>9 DEF Drop
<1>10. ASSUME In(f, x) = In(Head(c2s[k]), x) PROVE [s EXCEPT ![1] = In(f, x)] = s
  BY <1>5, <1>8, <1>10
<1>11. Pipes(x) \in [Conns -> Seq(Sets)]
  BY StreamTypes
<1> QED BY <1>6, <1>7, <1>9, <1>10, <1>11

(* Handler k leaves, and its connection with it. *)
LEMMA ClearedStream ==
    ASSUME Inv, NEW x \in Streams, NEW k \in Conns,
           c2s' = [c2s EXCEPT ![k] = <<>>], broken' = [broken EXCEPT ![k] = TRUE],
           UNCHANGED <<stationDB, session, channel, serverDB, now>>
    PROVE  Stream(x)'
<1>1. /\ StreamOK(Clock(x), Saved(x), Done(x), Mark(x), Pipes(x), Carried(queue, x), Line,
                  SentAll(x), writing, subscribed)
      /\ Pipes(x) \in [Conns -> Seq(Sets)]
  BY StreamTypes DEF Inv, Stream
<1>2. /\ Clock(x)' = Clock(x) /\ Saved(x)' = Saved(x) /\ Mark(x)' = Mark(x) /\ Done(x)' = Done(x)
      /\ Carried(queue', x) = Carried(queue, x) /\ writing' = writing /\ subscribed' = subscribed
      /\ SentAll(x)' = SentAll(x)
  BY Same DEF stationDB, session, known, channel, serverDB
<1>3. Pipes(x)' = [Pipes(x) EXCEPT ![k] = <<>>]
  <2>1. <<>> \in Seq(Message)
    BY EmptySeq
  <2>2. Pipes(x)' = [Pipes(x) EXCEPT ![k] = Carried(<<>>, x)]
    BY <2>1, PipesReplaced DEF Inv
  <2> QED BY <2>2, CarriedEmpty
<1>4. (Line' = Line /\ Line' # k) \/ Line' = NoConn
  BY DEF Line, session, Inv, TInv, TypeOK
<1>5. Line' \in Conns \cup {NoConn} /\ <<>> \in Seq(Sets) /\ On(<<>>) = {}
  BY <1>4, StreamTypes, EmptySeq, EmptySets DEF Inv
<1>6. StreamOK(Clock(x), Saved(x), Done(x), Mark(x), [Pipes(x) EXCEPT ![k] = <<>>],
               Carried(queue, x), Line', SentAll(x), writing, subscribed)
  BY <1>1, <1>4, <1>5, Emptied
<1> QED BY <1>2, <1>3, <1>6, NextStream

(* Handler k takes a message off its connection: of t of this stream, of     *)
(* nothing of it.                                                            *)
LEMMA TakenStream ==
    ASSUME Inv, NEW x \in Streams, NEW k \in Conns, c2s[k] # <<>>,
           c2s' = [c2s EXCEPT ![k] = Tail(@)],
           UNCHANGED <<stationDB, session, channel, broken, now>>,
           \/ In(Head(c2s[k]), x) = {} /\ Done(x)' = Done(x)
           \/ \E t \in Nat : In(Head(c2s[k]), x) = {t} /\ Done(x)' = Done(x) \cup {t}
    PROVE  Stream(x)'
<1>1. /\ StreamOK(Clock(x), Saved(x), Done(x), Mark(x), Pipes(x), Carried(queue, x), Line,
                  SentAll(x), writing, subscribed)
      /\ Clock(x) \in Nat /\ Saved(x) \in Sets /\ Done(x) \in Sets
      /\ Pipes(x) \in [Conns -> Seq(Sets)] /\ Line \in Conns \cup {NoConn}
  BY StreamTypes DEF Inv, Stream
<1>2. /\ Clock(x)' = Clock(x) /\ Saved(x)' = Saved(x) /\ Mark(x)' = Mark(x) /\ Line' = Line
      /\ Carried(queue', x) = Carried(queue, x) /\ writing' = writing /\ subscribed' = subscribed
      /\ SentAll(x)' = SentAll(x)
  BY Same DEF stationDB, session, known, channel
<1>3. /\ Pipes(x)[k] # <<>> /\ Head(Pipes(x)[k]) = In(Head(c2s[k]), x)
      /\ Pipes(x)' = [Pipes(x) EXCEPT ![k] = Tail(@)]
  BY PipesTaken DEF Inv
<1>4. CASE In(Head(c2s[k]), x) = {} /\ Done(x)' = Done(x)
  <2>1. StreamOK(Clock(x), Saved(x), Done(x), Mark(x), [Pipes(x) EXCEPT ![k] = Tail(@)],
                 Carried(queue, x), Line, SentAll(x), writing, subscribed)
    BY <1>1, <1>3, <1>4, EmptyTaken
  <2> QED BY <1>2, <1>3, <1>4, <2>1, NextStream
<1>5. ASSUME NEW t \in Nat, In(Head(c2s[k]), x) = {t}, Done(x)' = Done(x) \cup {t}
      PROVE  Stream(x)'
  <2>1. StreamOK(Clock(x), Saved(x), Done(x) \cup {t}, Mark(x), [Pipes(x) EXCEPT ![k] = Tail(@)],
                 Carried(queue, x), Line, SentAll(x), writing, subscribed)
    BY <1>1, <1>3, <1>5, OneTaken
  <2> QED BY <1>2, <1>3, <1>5, <2>1, NextStream
<1> QED BY <1>4, <1>5

(* Handler k takes the least of what the first message has of this stream,   *)
(* or takes something of another one.                                        *)
LEMMA LeastStream ==
    ASSUME Inv, NEW x \in Streams, NEW k \in Conns, c2s[k] # <<>>, NEW f \in Message, NEW t,
           c2s' = [c2s EXCEPT ![k] = [@ EXCEPT ![1] = f]],
           UNCHANGED <<stationDB, session, channel, broken, now>>,
           \/ In(f, x) = In(Head(c2s[k]), x) /\ Done(x)' = Done(x)
           \/ /\ IsNext(t, In(Head(c2s[k]), x)) /\ In(f, x) = In(Head(c2s[k]), x) \ {t}
              /\ Done(x)' = Done(x) \cup {t}
    PROVE  Stream(x)'
<1>1. /\ StreamOK(Clock(x), Saved(x), Done(x), Mark(x), Pipes(x), Carried(queue, x), Line,
                  SentAll(x), writing, subscribed)
      /\ Clock(x) \in Nat /\ Saved(x) \in Sets /\ Done(x) \in Sets
      /\ Pipes(x) \in [Conns -> Seq(Sets)] /\ Line \in Conns \cup {NoConn}
  BY StreamTypes DEF Inv, Stream
<1>2. /\ Clock(x)' = Clock(x) /\ Saved(x)' = Saved(x) /\ Mark(x)' = Mark(x) /\ Line' = Line
      /\ Carried(queue', x) = Carried(queue, x) /\ writing' = writing /\ subscribed' = subscribed
      /\ SentAll(x)' = SentAll(x)
  BY Same DEF stationDB, session, known, channel
<1>3. Pipes(x)[k] # <<>> /\ Head(Pipes(x)[k]) = In(Head(c2s[k]), x)
  BY PipesTaken DEF Inv
<1>4. /\ In(f, x) = In(Head(c2s[k]), x) \ {t}
           => Pipes(x)' = [Pipes(x) EXCEPT ![k] = Drop(@, t)]
      /\ In(f, x) = In(Head(c2s[k]), x) => Pipes(x)' = Pipes(x)
  BY PipesShrink, ZenonT(30) DEF Inv
<1>5. CASE In(f, x) = In(Head(c2s[k]), x) /\ Done(x)' = Done(x)
  <2>1. Pipes(x)' = Pipes(x)
    BY <1>4, <1>5
  <2> QED BY <1>1, <1>2, <1>5, <2>1, NextStream
<1>6. CASE /\ IsNext(t, In(Head(c2s[k]), x)) /\ In(f, x) = In(Head(c2s[k]), x) \ {t}
           /\ Done(x)' = Done(x) \cup {t}
  <2>1. Pipes(x)' = [Pipes(x) EXCEPT ![k] = Drop(@, t)]
    BY <1>4, <1>6
  <2>2. StreamOK(Clock(x), Saved(x), Done(x) \cup {t}, Mark(x), [Pipes(x) EXCEPT ![k] = Drop(@, t)],
                 Carried(queue, x), Line, SentAll(x), writing, subscribed)
    BY <1>1, <1>3, <1>6, LeastTaken
  <2> QED BY <1>2, <1>6, <2>1, <2>2, NextStream
<1> QED BY <1>5, <1>6

LEMMA InfoStream ==
    ASSUME Inv, NEW x \in Streams, NEW k \in Conns, recvStationInfo(k) PROVE Stream(x)'
<1>1. c2s[k] # <<>> /\ Head(c2s[k]).type = "info"
  BY DEF recvStationInfo, Receives
<1>2. In(Head(c2s[k]), x) = {}
  BY <1>1 DEF In
<1>3. UNCHANGED <<stationDB, session, channel, serverDB, now>>
  BY DEF recvStationInfo
<1>4. CASE c2s' = [c2s EXCEPT ![k] = Tail(@)] /\ broken' = broken
  <2>1. Done(x)' = Done(x)
    BY <1>3, Same DEF serverDB
  <2> QED BY <1>1, <1>2, <1>3, <1>4, <2>1, TakenStream
<1>5. CASE c2s' = [c2s EXCEPT ![k] = <<>>] /\ broken' = [broken EXCEPT ![k] = TRUE]
  BY <1>3, <1>5, ClearedStream
<1> QED BY <1>4, <1>5 DEF recvStationInfo

LEMMA WriteLatestStream ==
    ASSUME Inv, NEW x \in Streams, NEW k \in Conns, WriteLatest(k) PROVE Stream(x)'
<1>1. UNCHANGED <<hist, rows, now, stored, statusLog, lost, c2s, queue, writing, subscribed,
                  cpc, cur, broken>>
  BY DEF WriteLatest, stationDB, channel, serverDB
<1>2. CASE broken[k]
  <2>1. UNCHANGED <<latest, latestRow>>
    BY <1>2 DEF WriteLatest, known
  <2>2. Line' = Line /\ SentAll(x)' = SentAll(x)
    BY <1>1, Same
  <2> QED BY <1>1, <2>1, <2>2, NothingMoves
<1>3. CASE ~broken[k]
  <2>1. /\ StreamOK(Clock(x), Saved(x), Done(x), Mark(x), Pipes(x), Carried(queue, x), Line,
                    SentAll(x), writing, subscribed)
        /\ Clock(x) \in Nat
    BY StreamTypes DEF Inv, Stream
  <2>2. /\ latest' \in [Items -> 0 .. now] /\ \A i \in Items : IsLatest(latest'[i], stored[i])
        /\ latestRow' \in 0 .. rows /\ IsLatest(latestRow', statusLog)
    BY <1>3 DEF WriteLatest
  <2>3. Mark(x)' \in 0 .. Clock(x) /\ \E T \in SUBSET Done(x) : IsLatest(Mark(x)', T)
    <3>1. CASE x = RowStream
      <4>1. statusLog \in SUBSET Done(x) /\ Mark(x)' = latestRow' /\ Clock(x) = rows
        BY <3>1 DEF Done, Mark, Clock
      <4> QED BY <2>2, <4>1
    <3>2. ASSUME NEW i \in Items, x = <<i>>
          PROVE  Mark(x)' \in 0 .. Clock(x) /\ \E T \in SUBSET Done(x) : IsLatest(Mark(x)', T)
      <4>1. Done(x) = stored[i] /\ Mark(x)' = latest'[i] /\ Clock(x) = now
        BY <3>2, StreamNames DEF Done, Mark, Clock
      <4> QED BY <2>2, <4>1
    <3> QED BY <3>1, <3>2, StreamNames
  <2>4. StreamOK(Clock(x), Saved(x), Done(x), Mark(x)', Pipes(x), Carried(queue, x), Line,
                 SentAll(x), writing, subscribed)
    BY <2>1, <2>3, LatestReported
  <2>5. /\ Clock(x)' = Clock(x) /\ Saved(x)' = Saved(x) /\ Done(x)' = Done(x) /\ Line' = Line
        /\ Pipes(x)' = Pipes(x) /\ Carried(queue', x) = Carried(queue, x)
        /\ writing' = writing /\ subscribed' = subscribed /\ SentAll(x)' = SentAll(x)
    BY <1>1, Same
  <2> QED BY <2>4, <2>5, NextStream
<1> QED BY <1>2, <1>3

LEMMA MissDataReadStream ==
    ASSUME Inv, NEW x \in Streams, NEW k \in Conns, ReadMissData(k) PROVE Stream(x)'
<1> DEFINE m == Head(c2s[k])
<1>1. c2s[k] # <<>> /\ m.type = "missData" /\ m \in Message
  BY TakenType DEF ReadMissData, Handles, Receives, Inv, TInv
<1>2. /\ UNCHANGED <<stationDB, session, channel, broken, now>> /\ UNCHANGED <<statusLog, lost>>
  BY DEF ReadMissData
<1>3. PICK P \in [Items -> SUBSET Nat] : m = [type |-> "missData", points |-> P]
  BY <1>1, HeadKinds
<1>4. m.points = P
  BY <1>3
<1>5. In(m, RowStream) = {} /\ \A j \in Items : In(m, <<j>>) = P[j]
  BY <1>1, <1>4, StreamNames DEF In
<1>6. /\ \A j \in Items : Done(<<j>>) = stored[j] /\ Done(<<j>>)' = stored'[j]
      /\ Done(RowStream)' = Done(RowStream)
  BY <1>2, StreamNames DEF Done
<1>7. ASSUME NEW i \in Items, NEW t \in P[i], IsNext(t, P[i]),
             stored' = [stored EXCEPT ![i] = @ \cup {t}],
             c2s' = [c2s EXCEPT ![k][1].points[i] = @ \ {t}]
      PROVE  Stream(x)'
  <2> DEFINE f == [m EXCEPT !.points[i] = @ \ {t}]
  <2>1. f \in Message
    BY <1>1, BatchShrinks
  <2>2. c2s' = [c2s EXCEPT ![k] = [@ EXCEPT ![1] = f]]
    <3>1. c2s \in [Conns -> Seq(Message)]
      BY DEF Inv, TInv, TypeOK
    <3> QED BY <1>1, <1>7, <3>1
  <2>3. f.type = "missData" /\ f.points = [P EXCEPT ![i] = @ \ {t}]
    <3>1. f = [m EXCEPT !.points = [P EXCEPT ![i] = P[i] \ {t}]]
      BY <1>4
    <3>2. DOMAIN m = {"type", "points"}
      BY <1>3
    <3> HIDE DEF m, f
    <3> QED BY <1>1, <3>1, <3>2
  <2> HIDE DEF f
  <2>4. In(f, RowStream) = {} /\ \A j \in Items : In(f, <<j>>) = IF j = i THEN P[i] \ {t} ELSE P[j]
    BY <2>3, StreamNames DEF In
  <2>5. \A j \in Items : stored'[j] = IF j = i THEN stored[i] \cup {t} ELSE stored[j]
    BY <1>7 DEF Inv, TInv, TypeOK
  <2>6. \/ In(f, x) = In(m, x) /\ Done(x)' = Done(x)
        \/ /\ IsNext(t, In(m, x)) /\ In(f, x) = In(m, x) \ {t}
           /\ Done(x)' = Done(x) \cup {t}
    <3>1. CASE x = RowStream
      BY <1>5, <1>6, <2>4, <3>1
    <3>2. ASSUME NEW j \in Items, x = <<j>>, j # i
          PROVE  In(f, x) = In(m, x) /\ Done(x)' = Done(x)
      BY <1>5, <1>6, <2>4, <2>5, <3>2
    <3>3. CASE x = <<i>>
      BY <1>5, <1>6, <1>7, <2>4, <2>5, <3>3
    <3> QED BY <3>1, <3>2, <3>3, StreamNames
  <2> QED BY <1>1, <1>2, <2>1, <2>2, <2>6, LeastStream
<1>8. CASE /\ \A i \in Items : P[i] = {}
           /\ c2s' = [c2s EXCEPT ![k] = Tail(@)]
           /\ stored' = stored
  <2>1. In(m, x) = {} /\ Done(x)' = Done(x)
    BY <1>5, <1>6, <1>8, StreamNames
  <2> QED BY <1>1, <1>2, <1>8, <2>1, TakenStream
<1> QED BY <1>4, <1>7, <1>8 DEF ReadMissData

LEMMA MissStatusReadStream ==
    ASSUME Inv, NEW x \in Streams, NEW k \in Conns, ReadMissStatusLogs(k) PROVE Stream(x)'
<1> DEFINE m == Head(c2s[k])
<1>1. c2s[k] # <<>> /\ m.type = "missStatus" /\ m \in Message
  BY TakenType DEF ReadMissStatusLogs, Handles, Receives, Inv, TInv
<1>2. UNCHANGED <<stationDB, session, channel, broken, now>> /\ UNCHANGED <<stored, lost>>
  BY DEF ReadMissStatusLogs
<1>3. PICK R \in SUBSET Nat : m = [type |-> "missStatus", rows |-> R]
  BY <1>1, HeadKinds
<1>4. m.rows = R
  BY <1>3
<1>5. In(m, x) = IF x = RowStream THEN R ELSE {}
  BY <1>1, <1>4 DEF In
<1>6. x # RowStream => Done(x)' = Done(x)
  BY <1>2 DEF Done
<1>7. ASSUME NEW r \in R, IsNext(r, R), statusLog' = statusLog \cup {r},
             c2s' = [c2s EXCEPT ![k][1].rows = @ \ {r}]
      PROVE  Stream(x)'
  <2> DEFINE f == [m EXCEPT !.rows = @ \ {r}]
  <2>1. f = [type |-> "missStatus", rows |-> R \ {r}]
    BY <1>3, RowLeaves
  <2>2. c2s' = [c2s EXCEPT ![k] = [@ EXCEPT ![1] = f]]
    <3>1. c2s \in [Conns -> Seq(Message)]
      BY DEF Inv, TInv, TypeOK
    <3> QED BY <1>1, <1>7, <3>1
  <2> HIDE DEF f
  <2>3. f \in Message /\ In(f, x) = IF x = RowStream THEN R \ {r} ELSE {}
    BY <2>1 DEF Message, In
  <2>4. x = RowStream => Done(x)' = Done(x) \cup {r}
    BY <1>2, <1>7 DEF Done
  <2>5. \/ In(f, x) = In(m, x) /\ Done(x)' = Done(x)
        \/ /\ IsNext(r, In(m, x)) /\ In(f, x) = In(m, x) \ {r}
           /\ Done(x)' = Done(x) \cup {r}
    BY <1>5, <1>6, <1>7, <2>3, <2>4
  <2> QED BY <1>1, <1>2, <2>2, <2>3, <2>5, LeastStream
<1>8. CASE R = {} /\ c2s' = [c2s EXCEPT ![k] = Tail(@)] /\ statusLog' = statusLog
  <2>1. In(m, x) = {} /\ Done(x)' = Done(x)
    BY <1>2, <1>5, <1>8, Same
  <2> QED BY <1>1, <1>2, <1>8, <2>1, TakenStream
<1> QED BY <1>4, <1>7, <1>8 DEF ReadMissStatusLogs

LEMMA RealtimeStream ==
    ASSUME Inv, NEW x \in Streams, NEW k \in Conns,
           SaveDataHistory(k) \/ saveAndUpdateItemStatus(k)
    PROVE  Stream(x)'
<1> DEFINE m == Head(c2s[k])
<1>1. c2s[k] # <<>> /\ m \in Message /\ c2s' = [c2s EXCEPT ![k] = Tail(@)]
  BY TakenType DEF SaveDataHistory, saveAndUpdateItemStatus, Handles, Receives, Inv, TInv
<1>2. UNCHANGED <<stationDB, session, channel, broken, now>>
  BY DEF SaveDataHistory, saveAndUpdateItemStatus
<1>3. \/ In(m, x) = {} /\ Done(x)' = Done(x)
      \/ \E t \in Nat : In(m, x) = {t} /\ Done(x)' = Done(x) \cup {t}
  <2>1. CASE SaveDataHistory(k)
    <3>1. m.type = "data" /\ m \in Point
      BY <1>1, <2>1, HeadKinds DEF SaveDataHistory, Handles, Receives
    <3>2. m.item \in Items /\ m.ts \in Nat /\ In(m, x) = IF x = <<m.item>> THEN {m.ts} ELSE {}
      BY <3>1 DEF Point, In
    <3>3. /\ UNCHANGED <<statusLog, lost>>
          /\ \A j \in Items : stored'[j] = IF j = m.item THEN stored[j] \cup {m.ts} ELSE stored[j]
      BY <2>1, <3>2 DEF SaveDataHistory, Inv, TInv, TypeOK
    <3>4. CASE x = <<m.item>>
      <4>1. Done(x)' = Done(x) \cup {m.ts}
        BY <3>2, <3>3, <3>4, StreamNames DEF Done
      <4> QED BY <3>2, <3>4, <4>1
    <3>5. CASE x # <<m.item>>
      <4>1. Done(x)' = Done(x)
        <5>1. CASE x = RowStream
          BY <3>3, <5>1 DEF Done
        <5>2. ASSUME NEW j \in Items, x = <<j>> PROVE Done(x)' = Done(x)
          BY <3>2, <3>3, <3>5, <5>2, StreamNames DEF Done
        <5> QED BY <5>1, <5>2, StreamNames
      <4> QED BY <3>2, <3>5, <4>1
    <3> QED BY <3>4, <3>5
  <2>2. CASE saveAndUpdateItemStatus(k)
    <3>1. m.type = "status" /\ m \in Row
      BY <1>1, <2>2, HeadKinds DEF saveAndUpdateItemStatus, Handles, Receives
    <3>2. m.row \in Nat /\ In(m, x) = IF x = RowStream THEN {m.row} ELSE {}
      BY <3>1 DEF Row, In
    <3>3. /\ stored' = stored
          /\ \/ statusLog' = statusLog \cup {m.row} /\ lost' = lost
             \/ lost' = lost \cup {m.row} /\ statusLog' = statusLog
      BY <2>2 DEF saveAndUpdateItemStatus
    <3>4. Done(x)' = IF x = RowStream THEN Done(x) \cup {m.row} ELSE Done(x)
      BY <3>3 DEF Done
    <3> QED BY <3>2, <3>4
  <2> QED BY <2>1, <2>2
<1> HIDE DEF m
<1> QED BY <1>1, <1>2, <1>3, TakenStream DEF m

LEMMA StoredStream ==
    ASSUME Inv, NEW x \in Streams, NEW k \in Conns, StreamStation(k) PROVE Stream(x)'
<1>1. /\ StreamOK(Clock(x), Saved(x), Done(x), Mark(x), Pipes(x), Carried(queue, x), Line,
                  SentAll(x), writing, subscribed)
      /\ Clock(x) \in Nat /\ Saved(x) \in Sets /\ Done(x) \in Sets
      /\ Pipes(x) \in [Conns -> Seq(Sets)] /\ Line \in Conns \cup {NoConn}
  BY StreamTypes DEF Inv, Stream
<1>2. UNCHANGED <<stationDB, session, channel, network, lost, now>>
  BY DEF StreamStation
<1>3. /\ Clock(x)' = Clock(x) /\ Saved(x)' = Saved(x) /\ Mark(x)' = Mark(x) /\ Line' = Line
      /\ Pipes(x)' = Pipes(x) /\ Carried(queue', x) = Carried(queue, x)
      /\ writing' = writing /\ subscribed' = subscribed /\ SentAll(x)' = SentAll(x)
  BY <1>2, Same DEF stationDB, session, known, channel, network
<1>4. CASE Done(x)' = Done(x)
  BY <1>1, <1>3, <1>4, NextStream
<1>5. ASSUME NEW t \in Saved(x), \A u \in Saved(x) : u < t => u \in Done(x),
             Done(x)' = Done(x) \cup {t}
      PROVE  Stream(x)'
  <2>1. t \in 0 .. Clock(x)
    BY <1>1 DEF StreamOK
  <2>2. StreamOK(Clock(x), Saved(x), Done(x) \cup {t}, Mark(x), Pipes(x), Carried(queue, x), Line,
                 SentAll(x), writing, subscribed)
    BY <1>1, <1>5, <2>1, DealtWith
  <2> QED BY <1>3, <1>5, <2>2, NextStream
<1>6. /\ hist \in [Items -> SUBSET Nat] /\ stored \in [Items -> SUBSET Nat] /\ rows \in Nat
  BY DEF Inv, TInv, TypeOK
<1>7. ASSUME NEW i \in Items, NEW t \in hist[i], IsNext(t, hist[i] \ stored[i]),
             stored' = [stored EXCEPT ![i] = @ \cup {t}], statusLog' = statusLog
      PROVE  Stream(x)'
  <2>1. CASE x = <<i>>
    <3>1. Saved(x) = hist[i] /\ Done(x) = stored[i] /\ Done(x)' = stored[i] \cup {t}
      BY <1>6, <1>7, <2>1, StreamNames DEF Saved, Done
    <3>2. \A u \in hist[i] : u < t => u \in stored[i]
      <4>1. \A u \in hist[i] \ stored[i] : t <= u
        BY <1>7 DEF IsNext
      <4> QED BY <1>6, <4>1
    <3> QED BY <1>5, <3>1, <3>2
  <2>2. CASE x # <<i>>
    <3>1. Done(x)' = Done(x)
      <4>1. CASE x = RowStream
        BY <1>2, <1>7, <4>1 DEF Done
      <4>2. ASSUME NEW j \in Items, x = <<j>> PROVE Done(x)' = Done(x)
        BY <1>6, <1>7, <2>2, <4>2, StreamNames DEF Done
      <4> QED BY <4>1, <4>2, StreamNames
    <3> QED BY <1>4, <3>1
  <2> QED BY <2>1, <2>2
<1>8. ASSUME NEW r \in 1 .. rows, NEW skipped \in SUBSET lost, stored' = stored,
             IsNext(r, 1 .. rows \ (statusLog \cup skipped)), statusLog' = statusLog \cup {r}
      PROVE  Stream(x)'
  <2>1. CASE x = RowStream
    <3>1. /\ Saved(x) = 1 .. rows /\ Done(x) = statusLog \cup lost
          /\ Done(x)' = Done(x) \cup {r}
      BY <1>2, <1>8, <2>1 DEF Saved, Done
    <3>2. \A u \in 1 .. rows : u < r => u \in statusLog \cup lost
      <4>1. \A u \in 1 .. rows : u \notin statusLog \cup skipped => r <= u
        BY <1>8 DEF IsNext
      <4> QED BY <1>6, <4>1
    <3> QED BY <1>5, <3>1, <3>2
  <2>2. CASE x # RowStream
    BY <1>4, <1>8, <2>2 DEF Done
  <2> QED BY <2>1, <2>2
<1> QED BY <1>7, <1>8 DEF StreamStation

LEMMA ServerRestartStream ==
    ASSUME Inv, NEW x \in Streams, ServerRestart PROVE Stream(x)'
<1>1. /\ StreamOK(Clock(x), Saved(x), Done(x), Mark(x), Pipes(x), Carried(queue, x), Line,
                  SentAll(x), writing, subscribed)
      /\ Clock(x) \in Nat
  BY StreamTypes DEF Inv, Stream
<1>2. /\ Clock(x)' = Clock(x) /\ Saved(x)' = Saved(x) /\ Mark(x)' = Mark(x) /\ Done(x)' = Done(x)
      /\ Carried(queue', x) = Carried(queue, x) /\ writing' = writing /\ subscribed' = subscribed
      /\ SentAll(x)' = SentAll(x)
  BY Same DEF ServerRestart, stationDB, session, known, channel, serverDB
<1>3. Line' = NoConn
  BY DEF ServerRestart, Line, session, Inv, TInv, TypeOK
<1>4. \A k \in Conns : Pipes(x)'[k] = <<>>
  BY CarriedEmpty DEF ServerRestart, Pipes
<1>5. \A k \in Conns : On(Pipes(x)'[k]) \subseteq 0 .. Clock(x)
                       /\ Ordered(Pipes(x)'[k], Saved(x), Done(x))
  BY <1>4, EmptySets
<1>6. StreamOK(Clock(x), Saved(x), Done(x), Mark(x), Pipes(x)', Carried(queue, x), NoConn,
               SentAll(x), writing, subscribed)
  BY <1>1, <1>5 DEF StreamOK
<1> QED BY <1>2, <1>3, <1>6, NextStream

-----------------------------------------------------------------------------
(* Readings *)

(* A stream goes from clock c and H to d and G with a message of X of it. *)
Grown(c, H, d, G, X) ==
    \/ X = {} /\ G = H /\ c <= d
    \/ X = {c + 1} /\ G = H \cup {c + 1} /\ d = c + 1

LEMMA OnePublished ==
    ASSUME NEW c \in Nat, NEW H \in Sets, NEW S \in Sets, NEW m \in Nat,
           NEW p \in [Conns -> Seq(Sets)], NEW w \in Seq(Sets), NEW l \in Conns \cup {NoConn},
           NEW wr, StreamOK(c, H, S, m, p, w, l, FALSE, wr, TRUE),
           NEW d \in Nat, NEW G, NEW X, Grown(c, H, d, G, X)
    PROVE  /\ StreamOK(d, G, S, m, p, Append(w, X), l, FALSE, wr, TRUE)
           /\ G \in Sets /\ Append(w, X) \in Seq(Sets)
<1>1. CASE X = {} /\ G = H /\ c <= d
  <2>1. 1 .. c \subseteq 1 .. d /\ 0 .. c \subseteq 0 .. d
    BY <1>1
  <2>2. StreamOK(d, H, S, m, p, w, l, FALSE, wr, TRUE)
    BY <2>1, Zenon DEF StreamOK
  <2>3. StreamOK(d, H, S, m, p, Append(w, {}), l, FALSE, wr, TRUE)
    BY <2>2, OtherPublished, Zenon
  <2>4. {} \in Sets
    BY DEF Sets
  <2> QED BY <1>1, <2>3, <2>4, OnAppend
<1>2. CASE X = {c + 1} /\ G = H \cup {c + 1} /\ d = c + 1
  <2>1. StreamOK(c + 1, H \cup {c + 1}, S, m, p, Append(w, {c + 1}), l, FALSE, wr, TRUE)
    BY SavedPublished, Zenon
  <2>2. {c + 1} \in Sets /\ H \cup {c + 1} \in Sets
    BY DEF Sets
  <2> QED BY <1>2, <2>1, <2>2, OnAppend
<1> QED BY <1>1, <1>2 DEF Grown

LEMMA Appended ==
    ASSUME NEW T, NEW q \in Seq(T), NEW a \in T, NEW b \in T
    PROVE  /\ q \o (<<a>> \o <<>>) = Append(q, a)
           /\ q \o (<<>> \o <<b>>) = Append(q, b)
           /\ q \o (<<a>> \o <<b>>) = Append(Append(q, a), b)
<1>1. <<a>> \in Seq(T) /\ <<b>> \in Seq(T)
  OBVIOUS
<1>2. <<a>> \o <<>> = <<a>> /\ <<>> \o <<b>> = <<b>>
  BY <1>1, ConcatEmptySeq
<1>3. Append(q, a) = q \o <<a>> /\ Append(q, b) = q \o <<b>> /\ Append(q, a) \in Seq(T)
  BY AppendIsConcat, AppendProperties
<1>4. Append(Append(q, a), b) = Append(q, a) \o <<b>>
  BY <1>3, AppendIsConcat
<1>5. q \o (<<a>> \o <<b>>) = (q \o <<a>>) \o <<b>>
  BY <1>1, ConcatAssociative
<1> QED BY <1>2, <1>3, <1>4, <1>5

LEMMA IngestStream ==
    ASSUME Inv, NEW x \in Streams, NEW i \in Items, NEW answered \in BOOLEAN,
           NEW changed \in BOOLEAN, answered \/ changed, receiveData(i, answered, changed)
    PROVE  Stream(x)'
<1> DEFINE a     == [type |-> "status", row |-> rows + 1]
           b     == [type |-> "data", item |-> i, ts |-> now + 1]
           row   == IF changed THEN <<a>> ELSE <<>>
           point == IF answered THEN <<b>> ELSE <<>>
           w     == Carried(queue, x)
           v     == Carried(queue \o (row \o point), x)
<1>1. /\ StreamOK(Clock(x), Saved(x), Done(x), Mark(x), Pipes(x), w, Line,
                  SentAll(x), writing, subscribed)
      /\ Clock(x) \in Nat /\ Saved(x) \in Sets /\ Done(x) \in Sets /\ Mark(x) \in Nat
      /\ Pipes(x) \in [Conns -> Seq(Sets)] /\ w \in Seq(Sets) /\ Line \in Conns \cup {NoConn}
  BY StreamTypes DEF Inv, Stream
<1>2. /\ Mark(x)' = Mark(x) /\ Done(x)' = Done(x) /\ Pipes(x)' = Pipes(x) /\ writing' = writing
      /\ UNCHANGED <<cpc, cur>>
  BY Same DEF receiveData, session, known, serverDB
<1>3. ~SentAll(x) /\ ~SentAll(x)'
  BY <1>2 DEF receiveData, IngestLockFree, SentAll, Inv, TInv, PhaseInv
<1>4. /\ rows \in Nat /\ now \in Nat /\ hist \in [Items -> SUBSET Nat]
      /\ queue \in Seq(Msg) /\ subscribed \in BOOLEAN
  BY DEF Inv, TInv, TypeOK, Msg
<1>5. a \in Msg /\ b \in Msg
  BY <1>4 DEF Msg, Point, Row
<1>6. /\ In(a, x) = (IF x = RowStream THEN {rows + 1} ELSE {})
      /\ In(b, x) = (IF x = <<i>> THEN {now + 1} ELSE {})
  BY DEF In
<1>7. /\ now' = now + 1 /\ rows' = (IF changed THEN rows + 1 ELSE rows)
      /\ \A j \in Items : hist'[j] = IF j = i /\ answered THEN hist[j] \cup {now + 1} ELSE hist[j]
  <2>1. Len(<<a>>) = 1 /\ Len(<<>>) = 0
    OBVIOUS
  <2>2. now' = now + 1 /\ rows' = rows + Len(row)
        /\ hist' = [hist EXCEPT ![i] = IF answered THEN @ \cup {now + 1} ELSE @]
    BY DEF receiveData
  <2>3. rows' = IF changed THEN rows + 1 ELSE rows
    BY <1>4, <2>1, <2>2
  <2> QED BY <1>4, <2>2, <2>3
<1> HIDE DEF a, b
<1>8. Clock(x)' \in Nat
  BY <1>4, <1>7 DEF Clock
(* The clock and what is saved, as the two messages arrive. *)
<1>9. /\ \/ Saved(x)' = Saved(x) /\ Clock(x) <= Clock(x)'
         \/ Saved(x)' = Saved(x) \cup {Clock(x) + 1} /\ Clock(x)' = Clock(x) + 1
      /\ changed /\ ~answered => Grown(Clock(x), Saved(x), Clock(x)', Saved(x)', In(a, x))
      /\ answered /\ ~changed => Grown(Clock(x), Saved(x), Clock(x)', Saved(x)', In(b, x))
      /\ answered /\ changed => \E c \in Nat : \E G :
                                   /\ Grown(Clock(x), Saved(x), c, G, In(a, x))
                                   /\ Grown(c, G, Clock(x)', Saved(x)', In(b, x))
  <2>1. CASE x = RowStream
    <3>1. /\ Clock(x) = rows /\ Clock(x)' = rows' /\ Saved(x) = 1 .. rows
          /\ Saved(x)' = 1 .. rows' /\ x # <<i>>
      BY <2>1, StreamNames DEF Clock, Saved
    <3>2. 1 .. rows + 1 = 1 .. rows \cup {rows + 1}
      BY <1>4
    <3>3. Grown(Clock(x), Saved(x), Clock(x)', Saved(x)', IF changed THEN In(a, x) ELSE {})
      BY <1>4, <1>6, <1>7, <2>1, <3>1, <3>2 DEF Grown
    <3>4. In(b, x) = {} /\ Grown(Clock(x)', Saved(x)', Clock(x)', Saved(x)', {})
      BY <1>6, <1>8, <3>1 DEF Grown
    <3>5. \/ Saved(x)' = Saved(x) /\ Clock(x) <= Clock(x)'
          \/ Saved(x)' = Saved(x) \cup {Clock(x) + 1} /\ Clock(x)' = Clock(x) + 1
      BY <1>4, <1>7, <3>1, <3>2
    <3> QED BY <1>8, <3>3, <3>4, <3>5
  <2>2. ASSUME NEW j \in Items, x = <<j>>
        PROVE  <1>9!:
    <3>1. /\ Clock(x) = now /\ Clock(x)' = now + 1 /\ Saved(x) = hist[j]
          /\ Saved(x)' = hist'[j] /\ x # RowStream /\ (x = <<i>> <=> j = i)
      BY <1>7, <2>2, StreamNames DEF Clock, Saved
    <3>2. In(a, x) = {} /\ Grown(Clock(x), Saved(x), Clock(x), Saved(x), {})
      BY <1>1, <1>6, <3>1 DEF Grown
    <3>3. ~answered => Grown(Clock(x), Saved(x), Clock(x)', Saved(x)', {})
      BY <1>4, <1>7, <3>1 DEF Grown
    <3>4. answered => Grown(Clock(x), Saved(x), Clock(x)', Saved(x)', In(b, x))
      <4>1. CASE j = i
        BY <1>6, <1>7, <3>1, <4>1 DEF Grown
      <4>2. CASE j # i
        <5>1. hist'[j] = hist[j]
          BY <1>7, <4>2, Zenon
        <5>2. In(b, x) = {}
          BY <1>6, <3>1, <4>2, Zenon
        <5>3. now <= now + 1
          BY <1>4
        <5> QED BY <3>1, <5>1, <5>2, <5>3 DEF Grown
      <4> QED BY <4>1, <4>2
    <3>5. \/ Saved(x)' = Saved(x) /\ Clock(x) <= Clock(x)'
          \/ Saved(x)' = Saved(x) \cup {Clock(x) + 1} /\ Clock(x)' = Clock(x) + 1
      <4>1. hist'[j] = hist[j] \/ hist'[j] = hist[j] \cup {now + 1}
        BY <1>7
      <4> QED BY <1>4, <3>1, <4>1
    <3>6. changed /\ ~answered => Grown(Clock(x), Saved(x), Clock(x)', Saved(x)', In(a, x))
      BY <3>2, <3>3, Zenon
    <3>7. answered /\ changed => \E c \in Nat : \E G :
                                   /\ Grown(Clock(x), Saved(x), c, G, In(a, x))
                                   /\ Grown(c, G, Clock(x)', Saved(x)', In(b, x))
      <4>1. Grown(Clock(x), Saved(x), Clock(x), Saved(x), In(a, x))
        BY <3>2, Zenon
      <4> QED BY <1>1, <4>1, <3>4, Zenon
    <3> QED BY <3>4, <3>5, <3>6, <3>7, Zenon
  <2> QED BY <2>1, <2>2, StreamNames
<1>10. ASSUME ~subscribed
       PROVE  StreamOK(Clock(x)', Saved(x)', Done(x), Mark(x), Pipes(x), w, Line, SentAll(x), writing,
                       subscribed)
  <2> HIDE DEF w
  <2>1. \/ Saved(x)' = Saved(x) /\ Clock(x) <= Clock(x)'
        \/ Saved(x)' = Saved(x) \cup {Clock(x) + 1} /\ Clock(x)' = Clock(x) + 1
    BY <1>9, Zenon
  <2>2. StreamOK(Clock(x), Saved(x), Done(x), Mark(x), Pipes(x), w, Line, FALSE, writing, FALSE)
    BY <1>1, Zenon DEF StreamOK
  <2>3. StreamOK(Clock(x)', Saved(x)', Done(x), Mark(x), Pipes(x), w, Line, FALSE, writing, FALSE)
    <3>1. CASE Saved(x)' = Saved(x) /\ Clock(x) <= Clock(x)'
      <4>1. StreamOK(Clock(x)', Saved(x), Done(x), Mark(x), Pipes(x), w, Line, FALSE, writing, FALSE)
        BY <1>1, <1>8, <2>2, <3>1, ClockAdvances, Zenon
      <4> QED BY <3>1, <4>1, Zenon
    <3>2. CASE Saved(x)' = Saved(x) \cup {Clock(x) + 1} /\ Clock(x)' = Clock(x) + 1
      <4>1. StreamOK(Clock(x) + 1, Saved(x) \cup {Clock(x) + 1}, Done(x), Mark(x), Pipes(x), w,
                     Line, FALSE, writing, FALSE)
        BY <1>1, <2>2, SavedUnseen, Zenon
      <4> QED BY <3>2, <4>1, Zenon
    <3> QED BY <2>1, <3>1, <3>2
  <2> QED BY <1>3, <1>10, <2>3, Zenon DEF StreamOK
<1>11. ASSUME subscribed
       PROVE  StreamOK(Clock(x)', Saved(x)', Done(x), Mark(x), Pipes(x), v, Line, FALSE, writing, TRUE)
  <2>1. StreamOK(Clock(x), Saved(x), Done(x), Mark(x), Pipes(x), w, Line, FALSE, writing, TRUE)
    BY <1>1, <1>11, Zenon DEF StreamOK
  <2>2. Msg \in SUBSET Message
    BY DEF Msg, Message
  <2>3. /\ Carried(Append(queue, a), x) = Append(w, In(a, x))
        /\ Carried(Append(queue, b), x) = Append(w, In(b, x))
        /\ Carried(Append(Append(queue, a), b), x) = Append(Append(w, In(a, x)), In(b, x))
    <3>1. /\ Carried(Append(queue, a), x) = Append(w, In(a, x))
          /\ Carried(Append(queue, b), x) = Append(w, In(b, x))
      BY <1>4, <1>5, <2>2, CarriedAppend
    <3>2. Append(queue, a) \in Seq(Msg)
      BY <1>4, <1>5, AppendProperties
    <3>3. Carried(Append(Append(queue, a), b), x) = Append(Carried(Append(queue, a), x), In(b, x))
      BY <1>5, <2>2, <3>2, CarriedAppend
    <3> QED BY <3>1, <3>3
  <2>4. /\ queue \o (<<a>> \o <<>>) = Append(queue, a)
        /\ queue \o (<<>> \o <<b>>) = Append(queue, b)
        /\ queue \o (<<a>> \o <<b>>) = Append(Append(queue, a), b)
    BY <1>4, <1>5, Appended
  <2>5. CASE changed /\ ~answered
    <3>1. v = Append(w, In(a, x))
      BY <2>3, <2>4, <2>5
    <3> HIDE DEF v, w
    <3> QED BY <1>1, <1>8, <1>9, <2>1, <2>5, <3>1, OnePublished
  <2>6. CASE answered /\ ~changed
    <3>1. v = Append(w, In(b, x))
      BY <2>3, <2>4, <2>6
    <3> HIDE DEF v, w
    <3> QED BY <1>1, <1>8, <1>9, <2>1, <2>6, <3>1, OnePublished
  <2>7. CASE answered /\ changed
    <3>1. v = Append(Append(w, In(a, x)), In(b, x))
      BY <2>3, <2>4, <2>7
    <3> HIDE DEF v, w
    <3>2. PICK c \in Nat : \E G : /\ Grown(Clock(x), Saved(x), c, G, In(a, x))
                                  /\ Grown(c, G, Clock(x)', Saved(x)', In(b, x))
      BY <1>9, <2>7
    <3>3. PICK G : /\ Grown(Clock(x), Saved(x), c, G, In(a, x))
                   /\ Grown(c, G, Clock(x)', Saved(x)', In(b, x))
      BY <3>2
    <3>4. /\ StreamOK(c, G, Done(x), Mark(x), Pipes(x), Append(w, In(a, x)), Line, FALSE, writing,
                      TRUE)
          /\ G \in Sets /\ Append(w, In(a, x)) \in Seq(Sets)
      BY <1>1, <2>1, <3>3, OnePublished
    <3> QED BY <1>1, <1>8, <3>1, <3>3, <3>4, OnePublished
  <2> QED BY <2>5, <2>6, <2>7
<1>12. Publish(row \o point)
  BY DEF receiveData, a, b
<1>13. CASE ~subscribed /\ UNCHANGED <<subscribed, queue, broken>>
  <2>1. Line' = Line /\ Carried(queue', x) = w
    BY <1>2, <1>13, Same
  <2> HIDE DEF w
  <2>2. StreamOK(Clock(x)', Saved(x)', Done(x), Mark(x), Pipes(x), w, Line, SentAll(x)', writing,
                 subscribed)
    <3>1. SentAll(x)' = SentAll(x)
      BY <1>2, Same
    <3> QED BY <1>10, <1>13, <3>1
  <2> QED BY <1>2, <1>13, <2>1, <2>2, NextStream
<1>14. CASE subscribed /\ queue' = queue \o (row \o point) /\ UNCHANGED <<subscribed, broken>>
  <2>1. Line' = Line /\ Carried(queue', x) = v
    BY <1>2, <1>14, Same
  <2> HIDE DEF v
  <2>2. StreamOK(Clock(x)', Saved(x)', Done(x), Mark(x), Pipes(x), v, Line, FALSE, writing, TRUE)
    BY <1>11, <1>14
  <2>3. StreamOK(Clock(x)', Saved(x)', Done(x), Mark(x), Pipes(x), v, Line, SentAll(x)', writing,
                 subscribed)
    BY <1>3, <2>2, Zenon DEF StreamOK
  <2> QED BY <1>2, <1>14, <2>1, <2>3, NextStream
<1>15. CASE /\ subscribed /\ Len(queue \o (row \o point)) > QueueCap
            /\ queue' = SubSeq(queue \o (row \o point), 1, QueueCap)
            /\ broken' = [broken EXCEPT ![cur] = TRUE]
  <2>1. Line' = NoConn
    BY <1>2, <1>15 DEF Line, Inv, TInv, TypeOK
  <2>2. /\ queue \o (row \o point) \in Seq(Msg) /\ Msg \in SUBSET Message
        /\ QueueCap \in Nat /\ Len(queue \o (row \o point)) \in Nat
    <3>1. row \in Seq(Msg) /\ point \in Seq(Msg)
      BY <1>5, EmptySeq, SingletonSeq
    <3>2. queue \o (row \o point) \in Seq(Msg)
      BY <1>4, <3>1, ConcatProperties
    <3> QED BY <3>2, LenProperties, StationV1Assumption DEF Msg, Message
  <2>3. On(Carried(queue', x)) \subseteq On(v)
    <3> DEFINE q == queue \o (row \o point)
    <3>1. QueueCap <= Len(q)
      BY <1>15, <2>2
    <3> HIDE DEF q
    <3>2. On(Carried(SubSeq(q, 1, QueueCap), x)) \subseteq On(Carried(q, x))
      BY <2>2, <3>1, CarriedClip DEF q
    <3> QED BY <1>15, <3>2 DEF q
  <2>4. StreamOK(Clock(x)', Saved(x)', Done(x), Mark(x), Pipes(x), v, Line, FALSE, writing, TRUE)
    BY <1>11, <1>15
  <2> HIDE DEF v
  <2>5. StreamOK(Clock(x)', Saved(x)', Done(x), Mark(x), Pipes(x), Carried(queue', x), NoConn,
                 SentAll(x)', writing, subscribed')
    BY <1>8, <2>3, <2>4, LineDown
  <2> QED BY <1>2, <2>1, <2>5, NextStream
<1> HIDE DEF row, point
<1> QED BY <1>12, <1>13, <1>14, <1>15, Zenon DEF Publish

-----------------------------------------------------------------------------
LEMMA InitStream ==
    ASSUME Init, NEW x \in Streams PROVE Stream(x)
<1>1. /\ Clock(x) = 0 /\ Saved(x) = {} /\ Done(x) = {} /\ Mark(x) = 0
  BY StreamNames DEF Init, Clock, Saved, Done, Mark
<1>2. Line = NoConn /\ Carried(queue, x) = <<>> /\ \A k \in Conns : Pipes(x)[k] = <<>>
  BY CarriedEmpty DEF Init, Line, Pipes
<1>3. \A k \in Conns : On(Pipes(x)[k]) = {} /\ Ordered(Pipes(x)[k], {}, {})
  BY <1>2, EmptySets
<1>4. StreamOK(0, {}, {}, 0, Pipes(x), <<>>, NoConn, SentAll(x), writing, subscribed)
  BY <1>3, EmptySets DEF StreamOK
<1> QED BY <1>1, <1>2, <1>4 DEF Stream

LEMMA StreamInductive ==
    ASSUME Inv, [Next]_vars, NEW x \in Streams PROVE Stream(x)'
<1>1. ASSUME NEW i \in Items, NEW answered \in BOOLEAN, NEW changed \in BOOLEAN,
             answered \/ changed, receiveData(i, answered, changed)
      PROVE  Stream(x)'
  BY <1>1, IngestStream
<1>2. CASE RecvLatest \/ LockIngest
  <2>1. UNCHANGED <<hist, rows, now, latest, latestRow, stored, statusLog, lost, c2s, queue,
                    writing, subscribed, cur, broken>>
    BY <1>2 DEF RecvLatest, LockIngest, stationDB, known, channel, network, serverDB
  <2>2. Line' = Line /\ ~SentAll(x)'
    BY <1>2, <2>1, Same DEF RecvLatest, LockIngest, SentAll
  <2> QED BY <2>1, <2>2, NothingMoves
<1>3. CASE SessionStep
  BY <1>2, <1>3, MissDataStream, MissStatusStream, SubscribeStream, WriteStream DEF SessionStep
<1>4. CASE stationConnReturns \/ StationRestart
  BY <1>4, SessionEndStream DEF stationConnReturns, StationRestart, stationDB, serverDB
<1>5. ASSUME NEW k \in Conns, Break(k) PROVE Stream(x)'
  <2>1. UNCHANGED <<hist, rows, now, latest, latestRow, stored, statusLog, lost, c2s, queue,
                    writing, subscribed, cur, cpc>>
    BY <1>5 DEF Break, stationDB, session, known, channel, serverDB
  <2>2. Line' = Line \/ Line' = NoConn
    BY <1>5, <2>1 DEF Break, Line, Inv, TInv, TypeOK
  <2>3. SentAll(x)' = SentAll(x)
    BY <2>1, Same
  <2> QED BY <2>1, <2>2, <2>3, NothingMoves
<1>6. ASSUME UNCHANGED <<stationDB, session, channel, network, serverDB, now>> PROVE Stream(x)'
  <2>1. UNCHANGED <<hist, rows, now, latest, latestRow, stored, statusLog, lost, c2s, queue,
                    writing, subscribed, cur, cpc, broken>>
    BY <1>6 DEF stationDB, session, known, channel, network, serverDB
  <2>2. Line' = Line /\ SentAll(x)' = SentAll(x)
    BY <2>1, Same
  <2> QED BY <2>1, <2>2, NothingMoves
<1>7. ASSUME NEW k \in Conns, HandlerStep(k) \/ HandlerFails(k) PROVE Stream(x)'
  <2>1. CASE HandlerReturns(k)
    BY <2>1, ClearedStream DEF HandlerReturns, Deregister
  <2>2. CASE HandlerFails(k)
    BY <1>6, <2>2 DEF HandlerFails
  <2> QED BY <1>7, <2>1, <2>2, InfoStream, WriteLatestStream, MissDataReadStream,
             MissStatusReadStream, RealtimeStream, StoredStream DEF HandlerStep
<1>8. CASE \/ CameraLiveSnapshot \/ cameraSnapshot \/ handleCommandStream \/ SnapshotFails
           \/ UNCHANGED vars
  BY <1>6, <1>8 DEF CameraLiveSnapshot, cameraSnapshot, handleCommandStream, SnapshotFails, Answers,
     unchangedBySnap, vars
<1> QED BY <1>1, <1>3, <1>4, <1>5, <1>7, <1>8, ClientStream, ServerRestartStream DEF Next

LEMMA StreamsHold == Spec => []Inv
<1>1. Init => Inv
  BY InitType, InitStream DEF Inv
<1>2. Inv /\ [Next]_vars => Inv'
  BY TypeInductive, StreamInductive DEF Inv
<1> QED BY <1>1, <1>2, PTL DEF Spec

(* Whichever version serves the station, in whatever order the messages,    *)
(* faults and restarts come: the server's copy of every item is a prefix of *)
(* the station's, and so is its status log but for rows whose write failed. *)
THEOREM ReplicaIsPrefix == Spec => []ReplicaPrefix
<1>1. Inv => ReplicaPrefix
  <2> SUFFICES ASSUME Inv PROVE ReplicaPrefix
    OBVIOUS
  <2>1. \A x \in Streams : /\ \A t \in Done(x), u \in Saved(x) : u < t => u \in Done(x)
                           /\ Done(x) \subseteq 0 .. Clock(x)
    BY DEF Inv, Stream, StreamOK
  <2>2. ASSUME NEW i \in Items, NEW t \in stored[i], NEW u \in hist[i], u < t
        PROVE  u \in stored[i]
    <3>1. Done(<<i>>) = stored[i] /\ Saved(<<i>>) = hist[i] /\ <<i>> \in Streams
      BY StreamNames DEF Done, Saved
    <3> QED BY <2>1, <2>2, <3>1
  <2>3. ASSUME NEW r \in statusLog, NEW u \in 1 .. r PROVE u \in statusLog \cup lost
    <3>1. /\ Done(RowStream) = statusLog \cup lost /\ Saved(RowStream) = 1 .. rows
          /\ Clock(RowStream) = rows /\ RowStream \in Streams
      BY StreamNames DEF Done, Saved, Clock
    <3>2. r \in 0 .. rows /\ rows \in Nat
      BY <2>1, <3>1 DEF Inv, TInv, TypeOK
    <3>3. CASE u < r
      BY <2>1, <3>1, <3>2, <3>3
    <3> QED BY <3>2, <3>3
  <2> QED BY <2>2, <2>3 DEF ReplicaPrefix
<1> QED BY <1>1, StreamsHold, PTL
=============================================================================
