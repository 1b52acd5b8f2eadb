-------------------------- MODULE StationSyncProofs --------------------------
(***************************************************************************)
(* Proofs about StationSync: its types, that a station is served over one  *)
(* connection at a time, that replay and realtime data leave no gap on the *)
(* server of a station whose clock is never set back, that the server's    *)
(* status log is always a prefix of the station's, and that the status it  *)
(* shows for an item is never older than the rows it has of it.            *)
(***************************************************************************)
EXTENDS StationSyncInv, SequenceTheorems, TLAPS

Msg == DataMsg \cup StatusMsg

-----------------------------------------------------------------------------
(* Sequences *)

(* A channel that takes what fits of m after q. *)
LEMMA Clipped ==
    ASSUME NEW S, NEW q \in Seq(S), NEW m \in Seq(S), NEW n \in Nat \ {0},
           Len(q) + Len(m) > n
    PROVE  /\ SubSeq(q \o m, 1, n) \in Seq(S)
           /\ Len(SubSeq(q \o m, 1, n)) = n
<1>1. q \o m \in Seq(S) /\ Len(q \o m) = Len(q) + Len(m)
  BY ConcatProperties
<1>2. \A j \in 1 .. n : (q \o m)[j] \in S
  BY <1>1, ElementOfSeq
<1> QED BY <1>2, SubSeqProperties

LEMMA SingletonSeq ==
    ASSUME NEW S, NEW e \in S
    PROVE  <<e>> \in Seq(S) /\ Len(<<e>>) = 1
OBVIOUS

(* What Publish does to the variables it changes. *)
LEMMA PublishType ==
    ASSUME TypeOK, NEW msgs \in Seq(Msg), Publish(msgs)
    PROVE  /\ queue' \in Seq(Msg) /\ Len(queue') <= QueueCap
           /\ subscribed' \in BOOLEAN
           /\ broken' \in [Conns -> BOOLEAN]
<1>1. /\ queue \in Seq(Msg) /\ Len(queue) <= QueueCap /\ Len(queue) \in Nat
      /\ subscribed \in BOOLEAN /\ broken \in [Conns -> BOOLEAN]
  BY LenProperties DEF TypeOK, Msg
<1>2. QueueCap \in Nat \ {0} /\ Len(msgs) \in Nat
  BY ConstantsAssumption, LenProperties
<1>3. CASE ~subscribed
  BY <1>1, <1>3 DEF Publish, subscriber
<1>4. CASE subscribed /\ Len(queue) + Len(msgs) <= QueueCap
  <2>1. ~(Len(queue) + Len(msgs) > QueueCap)
    BY <1>1, <1>2, <1>4
  <2>2. queue' = queue \o msgs /\ subscribed' = subscribed /\ broken' = broken
    BY <1>4, <2>1, Zenon DEF Publish
  <2>3. queue \o msgs \in Seq(Msg) /\ Len(queue \o msgs) = Len(queue) + Len(msgs)
    BY <1>1, ConcatProperties
  <2> QED BY <1>1, <1>4, <2>2, <2>3
<1>5. CASE subscribed /\ Len(queue) + Len(msgs) > QueueCap
  <2>1. ~(Len(queue) + Len(msgs) <= QueueCap)
    BY <1>1, <1>2, <1>5
  <2>2. /\ queue' = SubSeq(queue \o msgs, 1, QueueCap)
        /\ subscribed' = FALSE
        /\ broken' = [broken EXCEPT ![cur] = TRUE]
    BY <1>5, <2>1, Zenon DEF Publish
  <2>3. queue' \in Seq(Msg) /\ Len(queue') = QueueCap
    BY <1>1, <1>2, <1>5, <2>2, Clipped
  <2>4. broken' \in [Conns -> BOOLEAN] /\ subscribed' \in BOOLEAN
    BY <1>1, <2>2, Zenon
  <2> QED BY <1>2, <2>3, <2>4
<1> QED BY <1>1, <1>2, <1>3, <1>4, <1>5

(* Frames sent to a connection are frames. *)
LEMMA ArrivesType ==
    ASSUME TypeOK, NEW k \in Conns, NEW frame \in Frame
    PROVE  Arrives(k, frame) \in [Conns -> Seq(Frame)]
BY DEF TypeOK, Arrives

(* Taking the first frame of a connection leaves frames. *)
LEMMA TakenType ==
    ASSUME TypeOK, NEW k \in Conns, c2s[k] # <<>>
    PROVE  /\ Head(c2s[k]) \in Frame
           /\ [c2s EXCEPT ![k] = Tail(@)] \in [Conns -> Seq(Frame)]
BY HeadTailProperties DEF TypeOK

-----------------------------------------------------------------------------
(* Types *)

LEMMA InitType == Init => TypeOK
<1> SUFFICES ASSUME Init PROVE TypeOK
  OBVIOUS
<1>1. /\ hist \in [Items -> SUBSET Nat] /\ itemsStatus \in [Items -> Status]
      /\ latest \in [Items -> Nat] /\ itemStatus \in [Items -> Nat]
      /\ stored \in [Items -> SUBSET Nat]
  BY DEF Init, Status
<1>2. /\ c2s \in [Conns -> Seq(Frame)] /\ reply \in [Conns -> Reply]
      /\ work \in [Conns -> [items : SUBSET Items, rows : SUBSET Nat]]
      /\ spc \in [Conns -> ServerPhase]
  BY DEF Init, NoReply, NoWork, Reply, ServerPhase
<1>3. broken \in [Conns -> BOOLEAN] /\ ingestMu \in BOOLEAN /\ subscribed \in BOOLEAN
  BY Zenon DEF Init
<1>4. /\ log \in Seq([item : Items, status : Status]) /\ queue \in Seq(Msg)
      /\ Len(queue) <= QueueCap
  BY ConstantsAssumption, EmptySeq DEF Init
<1>5. /\ cpc \in ClientPhase /\ cur \in Conns \cup {NoConn} /\ latestRow \in Nat
      /\ reg \in Conns \cup {NoConn} /\ statusLog \in SUBSET Nat
      /\ stationStatus \in {"Normal", "Disconnected"} /\ now \in Nat /\ faults \in Nat
  BY DEF Init, ClientPhase
<1> QED BY <1>1, <1>2, <1>3, <1>4, <1>5 DEF TypeOK, Msg

LEMMA IngestType ==
    ASSUME TypeOK, NEW i \in Items, NEW hasValue \in BOOLEAN, NEW logSaved \in BOOLEAN,
           NEW dataSaved \in BOOLEAN, NEW t \in Timestamps,
           receiveData(i, hasValue, t, logSaved, dataSaved)
    PROVE  TypeOK'
<1> DEFINE status == IF hasValue THEN "Normal" ELSE "Abnormal"
           flips  == i \notin GpioItems /\ itemsStatus[i] # status
           change == IF flips /\ logSaved
                     THEN <<[type |-> "status", row |-> Len(log) + 1]>> ELSE <<>>
           point  == IF hasValue
                     THEN <<[type |-> "data", item |-> i, ts |-> t, replay |-> FALSE]>>
                     ELSE <<>>
<1>1. t \in Nat
  BY DEF Timestamps, TypeOK
<1>2. Len(log) + 1 \in Nat
  BY LenProperties DEF TypeOK
<1>3. change \in Seq(Msg) /\ point \in Seq(Msg)
  <2>1. [type |-> "status", row |-> Len(log) + 1] \in Msg
    BY <1>2 DEF Msg, StatusMsg
  <2>2. [type |-> "data", item |-> i, ts |-> t, replay |-> FALSE] \in Msg
    BY <1>1, Zenon DEF Msg, DataMsg
  <2>3. change \in Seq(Msg)
    BY <2>1, EmptySeq, SingletonSeq
  <2>4. point \in Seq(Msg)
    BY <2>2, EmptySeq, SingletonSeq
  <2> QED BY <2>3, <2>4
<1>4. change \o point \in Seq(Msg)
  BY <1>3, ConcatProperties
<1>5. Publish(change \o point)
  BY DEF receiveData
<1>6. /\ queue' \in Seq(Msg) /\ Len(queue') <= QueueCap
      /\ subscribed' \in BOOLEAN
      /\ broken' \in [Conns -> BOOLEAN]
  BY <1>4, <1>5, PublishType
<1>7. log' \in Seq([item : Items, status : Status])
  <2>1. [item |-> i, status |-> status] \in [item : Items, status : Status]
    BY DEF Status
  <2>2. log \in Seq([item : Items, status : Status])
    BY DEF TypeOK
  <2>3. log' = IF flips /\ logSaved THEN Append(log, [item |-> i, status |-> status])
               ELSE log
    BY DEF receiveData
  <2> QED BY <2>1, <2>2, <2>3, AppendProperties
<1>8. /\ itemsStatus' \in [Items -> Status] /\ hist' \in [Items -> SUBSET Nat]
  BY <1>1 DEF receiveData, TypeOK, Status
<1>9. now' \in Nat /\ faults' \in Nat
  BY DEF receiveData, TypeOK, Fault
<1>10. UNCHANGED <<ingestMu, cpc, cur, latest, latestRow, c2s, reply, spc, work, reg,
                   stored, statusLog, itemStatus, stationStatus>>
  BY DEF receiveData, session, handler, serverDB
<1> QED BY <1>6, <1>7, <1>8, <1>9, <1>10 DEF TypeOK, Msg

(* runOnConn runs on a connection exactly while it is not idle. *)
CurInv == (cpc = "idle") <=> (cur = NoConn)

TInv == TypeOK /\ CurInv

LEMMA CurIsConn ==
    ASSUME TInv, cpc # "idle"
    PROVE  cur \in Conns
BY DEF TInv, TypeOK, CurInv

LEMMA SessionType ==
    ASSUME TInv, SessionStep \/ \E k \in Conns : Connect(k)
    PROVE  TInv'
<1>1. ASSUME NEW k \in Conns, Connect(k) PROVE TInv'
  BY <1>1, ConstantsAssumption DEF Connect, TInv, TypeOK, CurInv, stationDB, subscriber, serverDB, ClientPhase,
     ServerPhase, Frame, NoReply, Reply
<1>2. CASE RecvServerHello
  BY <1>2, CurIsConn, ArrivesType DEF RecvServerHello, TInv, TypeOK, CurInv, stationDB, subscriber, handler,
     serverDB, ClientPhase, Frame, NoReply, Reply
<1>3. CASE recvLatestFrames
  BY <1>3, CurIsConn DEF recvLatestFrames, TInv, TypeOK, CurInv, stationDB, subscriber, handler, serverDB,
     ClientPhase, NoReply, Reply
<1>4. CASE LockIngest
  BY <1>4 DEF LockIngest, TInv, TypeOK, CurInv, stationDB, subscriber, network, handler, serverDB,
     ClientPhase
<1>5. ASSUME NEW i \in Items, NEW t \in hist[i], sendReplayData(i, t) PROVE TInv'
  BY <1>5, CurIsConn, ArrivesType DEF sendReplayData, TInv, TypeOK, CurInv, stationDB, subscriber, handler,
     serverDB, Frame, DataMsg
<1>6. CASE sendReplayStatus
  <2> DEFINE rows == {r \in DOMAIN log : r > latestRow}
  <2>1. rows \in SUBSET Nat
    BY LenProperties DEF TInv, TypeOK
  <2>2. [type |-> "statusReplay", rows |-> rows] \in Frame
    BY <2>1 DEF Frame
  <2>3. Arrives(cur, [type |-> "statusReplay", rows |-> rows]) \in [Conns -> Seq(Frame)]
    BY <1>6, <2>2, CurIsConn, ArrivesType DEF sendReplayStatus, TInv
  <2>4. c2s' \in [Conns -> Seq(Frame)]
    BY <1>6, <2>3 DEF sendReplayStatus, TInv, TypeOK
  <2> QED BY <1>6, <2>4 DEF sendReplayStatus, TInv, TypeOK, CurInv, stationDB, subscriber,
     handler, serverDB, ClientPhase
<1>7. CASE SubscribeAndUnlock
  <2>1. queue' \in Seq(DataMsg \cup StatusMsg) /\ Len(queue') <= QueueCap
    BY <1>7, EmptySeq, ConstantsAssumption DEF SubscribeAndUnlock
  <2>2. subscribed' \in BOOLEAN /\ ingestMu' \in BOOLEAN
    BY <1>7, Zenon DEF SubscribeAndUnlock
  <2> QED BY <1>7, <2>1, <2>2 DEF SubscribeAndUnlock, TInv, TypeOK, CurInv, stationDB,
     network, handler, serverDB, ClientPhase
<1>8. CASE forwardRealtimeData
  <2>1. /\ Head(queue) \in DataMsg \cup StatusMsg
        /\ queue' \in Seq(DataMsg \cup StatusMsg) /\ Len(queue') <= QueueCap
    BY <1>8, HeadTailProperties, LenProperties, ConstantsAssumption
       DEF forwardRealtimeData, TInv, TypeOK
  <2>2. Head(queue) \in Frame
    BY <2>1 DEF Frame
  <2>3. Arrives(cur, Head(queue)) \in [Conns -> Seq(Frame)]
    BY <1>8, <2>2, CurIsConn, ArrivesType DEF forwardRealtimeData, TInv
  <2>4. c2s' \in [Conns -> Seq(Frame)] /\ faults' \in Nat
    BY <1>8, <2>3 DEF forwardRealtimeData, TInv, TypeOK
  <2> QED BY <1>8, <2>1, <2>4 DEF forwardRealtimeData, TInv, TypeOK, CurInv, stationDB,
     session, handler, serverDB
<1> QED BY <1>1, <1>2, <1>3, <1>4, <1>5, <1>6, <1>7, <1>8 DEF SessionStep

LEMMA StationFaultType ==
    ASSUME TInv, runOnConnReturns \/ StationRestart \/ \E k \in Conns : Break(k)
    PROVE  TInv'
<1>1. CASE runOnConnReturns
  <2>1. queue' \in Seq(DataMsg \cup StatusMsg) /\ Len(queue') <= QueueCap
    BY <1>1, EmptySeq, ConstantsAssumption DEF runOnConnReturns
  <2>2. /\ subscribed' \in BOOLEAN /\ ingestMu' \in BOOLEAN
        /\ broken' \in [Conns -> BOOLEAN]
    BY <1>1, Zenon DEF runOnConnReturns, UnlockIngest, TInv, TypeOK
  <2> QED BY <1>1, <2>1, <2>2 DEF runOnConnReturns, TInv, TypeOK, CurInv, stationDB,
     handler, serverDB, ClientPhase, Fault
<1>2. CASE StationRestart
  <2>1. queue' \in Seq(DataMsg \cup StatusMsg) /\ Len(queue') <= QueueCap
    BY <1>2, EmptySeq, ConstantsAssumption DEF StationRestart
  <2>2. /\ subscribed' \in BOOLEAN /\ ingestMu' \in BOOLEAN
        /\ broken' \in [Conns -> BOOLEAN]
    BY <1>2, Zenon DEF StationRestart, TInv, TypeOK
  <2> QED BY <1>2, <2>1, <2>2 DEF StationRestart, TInv, TypeOK, CurInv, stationDB,
     handler, serverDB, ClientPhase, Fault
<1>3. ASSUME NEW k \in Conns, Break(k) PROVE TInv'
  <2>1. broken' \in [Conns -> BOOLEAN]
    BY <1>3, Zenon DEF Break, TInv, TypeOK
  <2> QED BY <1>3, <2>1 DEF Break, TInv, TypeOK, CurInv, stationDB, session, subscriber,
     handler, serverDB, Fault
<1> QED BY <1>1, <1>2, <1>3

LEMMA HandlerType ==
    ASSUME TInv, NEW k \in Conns, HandlerStep(k)
    PROVE  TInv'
<1> USE DEF TInv, TypeOK, CurInv, stationDB, session, subscriber, network, handler, serverDB
<1>1. CASE recvHello(k)
  <2>1. c2s[k] # <<>>
    BY <1>1 DEF recvHello, Receives
  <2>2. c2s' \in [Conns -> Seq(Frame)]
    <3>1. CASE c2s' = [c2s EXCEPT ![k] = Tail(@)]
      BY <2>1, <3>1, TakenType
    <3>2. CASE c2s' = [c2s EXCEPT ![k] = <<>>]
      BY <3>2
    <3> QED BY <1>1, <3>1, <3>2 DEF recvHello
  <2>4. reply' \in [Conns -> Reply]
    <3>1. [type |-> "server_hello"] \in Reply
      BY DEF Reply
    <3> QED BY <1>1, <3>1 DEF recvHello
  <2>5. spc' \in [Conns -> ServerPhase] /\ reg' \in Conns \cup {NoConn}
    BY <1>1 DEF recvHello, ServerPhase
  <2>3. broken' \in [Conns -> BOOLEAN]
    BY <1>1, Zenon DEF recvHello
  <2> QED BY <1>1, <2>2, <2>3, <2>4, <2>5 DEF recvHello
<1>2. CASE recvStationInfo(k)
  <2>1. c2s' \in [Conns -> Seq(Frame)]
    BY <1>2, TakenType DEF recvStationInfo, Receives
  <2> QED BY <1>2, <2>1 DEF recvStationInfo, ServerPhase
<1>3. CASE SendLatest(k)
  <2>1. PICK ts \in [Items -> 0 .. now], row \in 0 .. Len(log) :
          reply' = [reply EXCEPT ![k] = [type |-> "latest", ts |-> ts, row |-> row]]
    BY <1>3 DEF SendLatest
  <2>2. [type |-> "latest", ts |-> ts, row |-> row] \in Reply
    BY LenProperties DEF Reply
  <2> QED BY <1>3, <2>1, <2>2 DEF SendLatest, ServerPhase
<1>4. CASE handleDataBatch(k)
  <2>1. c2s[k] # <<>> /\ Head(c2s[k]).type = "data"
    BY <1>4 DEF handleDataBatch, Receives
  <2>2. Head(c2s[k]) \in DataMsg /\ c2s' \in [Conns -> Seq(Frame)]
    BY <1>4, <2>1, TakenType DEF handleDataBatch, Frame, StatusMsg
  <2>3. stored' \in [Items -> SUBSET Nat] /\ itemStatus' \in [Items -> Nat]
    BY <1>4, <2>2 DEF handleDataBatch, DataMsg
  <2> QED BY <1>4, <2>2, <2>3 DEF handleDataBatch
<1>5. CASE handleItemStatus(k)
  <2>1. c2s[k] # <<>> /\ Head(c2s[k]).type = "status"
    BY <1>5 DEF handleItemStatus, Receives
  <2>2. Head(c2s[k]) \in StatusMsg /\ c2s' \in [Conns -> Seq(Frame)]
    BY <1>5, <2>1, TakenType DEF handleItemStatus, Frame, DataMsg
  <2>3. statusLog' \in SUBSET Nat /\ itemStatus' \in [Items -> Nat]
    BY <1>5, <2>2 DEF handleItemStatus, StatusMsg
  <2> QED BY <1>5, <2>2, <2>3 DEF handleItemStatus
<1>6. CASE handleStatusReplay(k)
  <2>1. c2s[k] # <<>> /\ Head(c2s[k]).type = "statusReplay"
    BY <1>6 DEF handleStatusReplay, Receives
  <2>2. Head(c2s[k]).rows \in SUBSET Nat /\ c2s' \in [Conns -> Seq(Frame)]
    BY <1>6, <2>1, TakenType DEF handleStatusReplay, Frame, DataMsg, StatusMsg
  <2> QED BY <1>6, <2>2 DEF handleStatusReplay, ServerPhase
<1>7. ASSUME NEW i \in Items, UpdateReplayedItem(k, i) PROVE TInv'
  <2>1. PICK r \in work[k].rows : itemStatus' = [itemStatus EXCEPT ![i] = r]
    BY <1>7 DEF UpdateReplayedItem
  <2>2. work[k] \in [items : SUBSET Items, rows : SUBSET Nat]
    OBVIOUS
  <2>3. itemStatus' \in [Items -> Nat]
    BY <2>1, <2>2
  <2>4. work' \in [Conns -> [items : SUBSET Items, rows : SUBSET Nat]]
    BY <1>7, <2>2 DEF UpdateReplayedItem
  <2> QED BY <1>7, <2>3, <2>4 DEF UpdateReplayedItem
<1>8. CASE ReplayedItemsDone(k)
  BY <1>8 DEF ReplayedItemsDone, ServerPhase
<1>9. CASE SaveReplayedLog(k)
  <2>1. PICK r \in work[k].rows : /\ statusLog' = statusLog \cup {r}
                                  /\ work' = [work EXCEPT ![k] = [items |-> {}, rows |-> @.rows \ {r}]]
    BY <1>9 DEF SaveReplayedLog
  <2>2. work[k] \in [items : SUBSET Items, rows : SUBSET Nat]
    OBVIOUS
  <2>4. work' \in [Conns -> [items : SUBSET Items, rows : SUBSET Nat]]
    BY <2>1, <2>2
  <2> QED BY <1>9, <2>1, <2>2, <2>4 DEF SaveReplayedLog
<1>10. CASE ReplayedLogsDone(k)
  BY <1>10 DEF ReplayedLogsDone, ServerPhase
<1>11. CASE DeferredDisconnect(k)
  BY <1>11 DEF DeferredDisconnect, ServerPhase, Fault
<1>12. CASE DeferredDelete(k)
  <2>1. broken' \in [Conns -> BOOLEAN]
    BY <1>12, Zenon DEF DeferredDelete
  <2> QED BY <1>12, <2>1 DEF DeferredDelete, ServerPhase
<1> QED BY <1>1, <1>2, <1>3, <1>4, <1>5, <1>6, <1>7, <1>8, <1>9, <1>10, <1>11, <1>12
        DEF HandlerStep

LEMMA ServerFaultType ==
    ASSUME TInv, ServerRestart \/ \E k \in Conns : StreamStationFails(k)
    PROVE  TInv'
<1> USE DEF TInv, TypeOK, CurInv, stationDB, session, subscriber, serverDB
<1>1. CASE ServerRestart
  <2>1. broken' \in [Conns -> BOOLEAN]
    BY <1>1, Zenon DEF ServerRestart
  <2> QED BY <1>1, <2>1 DEF ServerRestart, Fault, ServerPhase, NoWork
<1>2. ASSUME NEW k \in Conns, StreamStationFails(k) PROVE TInv'
  <2>1. broken' \in [Conns -> BOOLEAN]
    <3>1. broken[k] \in BOOLEAN
      BY Zenon
    <3> QED BY <1>2, <3>1, Zenon DEF StreamStationFails
  <2>2. /\ c2s' \in [Conns -> Seq(Frame)] /\ spc' \in [Conns -> ServerPhase]
        /\ work' \in [Conns -> [items : SUBSET Items, rows : SUBSET Nat]]
        /\ faults' \in Nat
    BY <1>2 DEF StreamStationFails, Fault, ReturnPhase, ServerPhase, NoWork
  <2> QED BY <1>2, <2>1, <2>2 DEF StreamStationFails
<1> QED BY <1>1, <1>2

LEMMA StutterType == TInv /\ UNCHANGED vars => TInv'
BY DEF TInv, TypeOK, CurInv, vars, stationDB, session, subscriber, network, handler,
   serverDB

LEMMA TypeInductive == TInv /\ [Next]_vars => TInv'
<1> SUFFICES ASSUME TInv, [Next]_vars PROVE TInv'
  OBVIOUS
<1>1. CASE Ingest
  <2>1. TypeOK'
    BY <1>1, IngestType DEF Ingest, TInv
  <2>2. cpc' = cpc /\ cur' = cur
    BY <1>1 DEF Ingest, receiveData, session
  <2> QED BY <2>1, <2>2 DEF TInv, CurInv
<1>2. CASE Quiescent
  BY <1>2, StutterType DEF Quiescent
<1> QED BY <1>1, <1>2, SessionType, StationFaultType, HandlerType, ServerFaultType,
           StutterType DEF Next

(* Every behaviour keeps every variable in its type: in particular the      *)
(* subscriber channel never holds more than its capacity, and the replay    *)
(* cursor is always a timestamp the server sent or the station saved.       *)
THEOREM TypeCorrect == Spec => []TypeOK
<1>1. Init => TInv
  BY InitType DEF TInv, CurInv, Init
<1>2. TInv => TypeOK
  BY DEF TInv
<1> QED BY <1>1, <1>2, TypeInductive, PTL DEF Spec

-----------------------------------------------------------------------------
(* The registry *)

(* The registry names the handler that is past LoadOrStore and has not yet  *)
(* deleted its entry; while it serves, the station is shown as Normal.      *)
RegistryInv ==
    /\ \A k \in Conns : Registered(k) <=> reg = k
    /\ ServedIsNormal

LEMMA RegistryInductive == TInv /\ RegistryInv /\ [Next]_vars => RegistryInv'
<1> SUFFICES ASSUME TInv, RegistryInv, [Next]_vars PROVE RegistryInv'
  OBVIOUS
<1> USE DEF RegistryInv, Registered, ServedIsNormal, Serving
<1>1. /\ spc \in [Conns -> ServerPhase] /\ NoConn \notin Conns /\ reg \in Conns \cup {NoConn}
  BY ConstantsAssumption DEF TInv, TypeOK
<1>2. CASE UNCHANGED <<spc, reg, stationStatus>>
  BY <1>2
<1>3. ASSUME NEW k \in Conns, Connect(k) PROVE RegistryInv'
  BY <1>1, <1>3 DEF Connect, serverDB
<1>4. ASSUME NEW k \in Conns, recvHello(k) PROVE RegistryInv'
  BY <1>1, <1>4 DEF recvHello, LoadOrStoreStores, serverDB
<1>5. ASSUME NEW k \in Conns, recvStationInfo(k) PROVE RegistryInv'
  BY <1>1, <1>5 DEF recvStationInfo
<1>6. ASSUME NEW k \in Conns,
             SendLatest(k) \/ handleStatusReplay(k) \/ ReplayedItemsDone(k)
               \/ ReplayedLogsDone(k)
      PROVE  RegistryInv'
  BY <1>1, <1>6 DEF SendLatest, handleStatusReplay, ReplayedItemsDone, ReplayedLogsDone,
     serverDB
<1>7. ASSUME NEW k \in Conns, StreamStationFails(k) PROVE RegistryInv'
  BY <1>1, <1>7 DEF StreamStationFails, ReturnPhase, ServerPhase, serverDB
<1>8. ASSUME NEW k \in Conns, DeferredDisconnect(k) PROVE RegistryInv'
  BY <1>1, <1>8 DEF DeferredDisconnect
<1>9. ASSUME NEW k \in Conns, DeferredDelete(k) PROVE RegistryInv'
  BY <1>1, <1>9 DEF DeferredDelete, serverDB
<1>10. CASE ServerRestart
  BY <1>1, <1>10 DEF ServerRestart
<1>11. ASSUME NEW k \in Conns, HandlerStep(k) PROVE RegistryInv'
  <2>1. CASE \/ handleDataBatch(k) \/ handleItemStatus(k) \/ SaveReplayedLog(k)
             \/ \E i \in Items : UpdateReplayedItem(k, i)
    <3>1. UNCHANGED <<spc, reg, stationStatus>>
      BY <2>1 DEF handleDataBatch, handleItemStatus, SaveReplayedLog, UpdateReplayedItem,
         handler
    <3> QED BY <1>2, <3>1
  <2> QED BY <1>4, <1>5, <1>6, <1>8, <1>9, <1>11, <2>1 DEF HandlerStep
<1>12. CASE Ingest \/ SessionStep \/ runOnConnReturns \/ StationRestart \/ Quiescent
              \/ UNCHANGED vars \/ \E k \in Conns : Break(k)
  <2>1. UNCHANGED <<spc, reg, stationStatus>>
    <3>1. CASE Ingest
      BY <3>1 DEF Ingest, receiveData, handler, serverDB
    <3>2. CASE SessionStep
      BY <3>2 DEF SessionStep, RecvServerHello, recvLatestFrames, LockIngest,
         sendReplayData, sendReplayStatus, SubscribeAndUnlock, forwardRealtimeData,
         handler, serverDB
    <3>3. CASE runOnConnReturns \/ StationRestart \/ \E k \in Conns : Break(k)
      BY <3>3 DEF runOnConnReturns, StationRestart, Break, handler, serverDB
    <3>4. CASE Quiescent \/ UNCHANGED vars
      BY <3>4 DEF Quiescent, vars, handler, serverDB
    <3> QED BY <1>12, <3>1, <3>2, <3>3, <3>4
  <2> QED BY <1>2, <2>1
<1> QED BY <1>3, <1>7, <1>10, <1>11, <1>12 DEF Next

LEMMA RegistryHolds == Spec => []RegistryInv
<1>1. Init => TInv /\ RegistryInv
  BY InitType, ConstantsAssumption
     DEF Init, TInv, CurInv, RegistryInv, Registered, ServedIsNormal, Serving
<1>2. TInv /\ RegistryInv /\ [Next]_vars => (TInv /\ RegistryInv)'
  BY TypeInductive, RegistryInductive
<1> QED BY <1>1, <1>2, PTL DEF Spec

(* LoadOrStore in the registry, with the deferred Delete, admits one served *)
(* v2 connection of a station at a time.                                    *)
THEOREM ServedAlone == Spec => []OneConnection
<1>1. RegistryInv => OneConnection
  BY DEF RegistryInv, OneConnection
<1> QED BY <1>1, RegistryHolds, PTL

(* The deferred calls run in the order Disconnected, then Delete, so the    *)
(* end of one session never marks the next one's station as Disconnected.   *)
THEOREM ServedShownNormal == Spec => []ServedIsNormal
<1>1. RegistryInv => ServedIsNormal
  BY DEF RegistryInv
<1> QED BY <1>1, RegistryHolds, PTL

-----------------------------------------------------------------------------
(* Carried and Backed under the operations on channels *)

(* The point frame f carries, as a set. *)
PointOf(f, i) == IF IsPoint(f, i) THEN {f.ts} ELSE {}

LEMMA EmptyChannel ==
    ASSUME NEW i, NEW H, NEW B
    PROVE  Carried(<<>>, i) = {} /\ Backed(<<>>, i, H, B)
BY DEF Carried, Backed

LEMMA CarriedAppend ==
    ASSUME NEW S, NEW q \in Seq(S), NEW f \in S, NEW i
    PROVE  Carried(Append(q, f), i) = Carried(q, i) \cup PointOf(f, i)
<1> DEFINE a == Append(q, f)
<1>1. /\ Len(a) = Len(q) + 1 /\ Len(q) \in Nat
      /\ DOMAIN a = 1 .. Len(a) /\ DOMAIN q = 1 .. Len(q)
      /\ \A n \in 1 .. Len(q) : a[n] = q[n]
      /\ a[Len(q) + 1] = f
  BY AppendProperties, LenProperties
<1> HIDE DEF a
<1>2. \A n \in DOMAIN a : n \in DOMAIN q \/ n = Len(q) + 1
  BY <1>1
<1>3. DOMAIN q \subseteq DOMAIN a /\ Len(q) + 1 \in DOMAIN a
  BY <1>1
<1>4. Carried(a, i) = Carried(q, i) \cup PointOf(f, i)
  <2>1. ASSUME NEW u \in Carried(a, i) PROVE u \in Carried(q, i) \cup PointOf(f, i)
    <3>1. PICK n \in DOMAIN a : IsPoint(a[n], i) /\ u = a[n].ts
      BY <2>1 DEF Carried
    <3> QED BY <1>1, <1>2, <3>1 DEF Carried, PointOf
  <2>2. ASSUME NEW u \in Carried(q, i) PROVE u \in Carried(a, i)
    <3>1. PICK n \in DOMAIN q : IsPoint(q[n], i) /\ u = q[n].ts
      BY <2>2 DEF Carried
    <3> QED BY <1>1, <1>3, <3>1 DEF Carried
  <2>3. ASSUME NEW u \in PointOf(f, i) PROVE u \in Carried(a, i)
    BY <1>1, <1>3, <2>3 DEF Carried, PointOf
  <2> QED BY <2>1, <2>2, <2>3
<1> QED BY <1>4 DEF a

LEMMA CarriedTail ==
    ASSUME NEW S, NEW q \in Seq(S), q # <<>>, NEW i
    PROVE  Carried(q, i) = Carried(Tail(q), i) \cup PointOf(Head(q), i)
<1> DEFINE a == Tail(q)
<1>1. /\ Len(q) \in Nat \ {0} /\ Len(a) = Len(q) - 1
      /\ DOMAIN a = 1 .. Len(a) /\ DOMAIN q = 1 .. Len(q)
      /\ \A n \in 1 .. Len(a) : a[n] = q[n + 1]
      /\ Head(q) = q[1]
  BY HeadTailProperties, LenProperties, EmptySeq
<1> HIDE DEF a
<1>2. \A n \in DOMAIN q : n = 1 \/ (n - 1 \in DOMAIN a /\ a[n - 1] = q[n])
  BY <1>1
<1>3. 1 \in DOMAIN q /\ \A n \in DOMAIN a : n + 1 \in DOMAIN q /\ a[n] = q[n + 1]
  BY <1>1
<1>4. Carried(q, i) = Carried(a, i) \cup PointOf(Head(q), i)
  <2>1. ASSUME NEW u \in Carried(q, i) PROVE u \in Carried(a, i) \cup PointOf(Head(q), i)
    <3>1. PICK n \in DOMAIN q : IsPoint(q[n], i) /\ u = q[n].ts
      BY <2>1 DEF Carried
    <3> QED BY <1>1, <1>2, <3>1 DEF Carried, PointOf
  <2>2. ASSUME NEW u \in Carried(a, i) PROVE u \in Carried(q, i)
    <3>1. PICK n \in DOMAIN a : IsPoint(a[n], i) /\ u = a[n].ts
      BY <2>2 DEF Carried
    <3> QED BY <1>3, <3>1 DEF Carried
  <2>3. ASSUME NEW u \in PointOf(Head(q), i) PROVE u \in Carried(q, i)
    BY <1>1, <1>3, <2>3 DEF Carried, PointOf
  <2> QED BY <2>1, <2>2, <2>3
<1> QED BY <1>4 DEF a

LEMMA BackedAppend ==
    ASSUME NEW S, NEW q \in Seq(S), NEW f \in S, NEW i, NEW H, NEW B,
           Backed(q, i, H, B),
           IsPoint(f, i) => \A u \in H : u < f.ts => u \in B \cup Carried(q, i)
    PROVE  Backed(Append(q, f), i, H, B)
<1> DEFINE a == Append(q, f)
<1>1. /\ Len(a) = Len(q) + 1 /\ Len(q) \in Nat
      /\ DOMAIN a = 1 .. Len(a) /\ DOMAIN q = 1 .. Len(q)
      /\ \A n \in 1 .. Len(q) : a[n] = q[n]
      /\ a[Len(q) + 1] = f
  BY AppendProperties, LenProperties
<1> HIDE DEF a
<1>2. SUFFICES ASSUME NEW n \in DOMAIN a, IsPoint(a[n], i), NEW u \in H, u < a[n].ts,
                      u \notin B
               PROVE  \E m \in DOMAIN a : m < n /\ IsPoint(a[m], i) /\ a[m].ts = u
  BY DEF a, Backed
<1>3. CASE n \in DOMAIN q
  <2>1. a[n] = q[n]
    BY <1>1, <1>3
  <2>2. PICK m \in DOMAIN q : m < n /\ IsPoint(q[m], i) /\ q[m].ts = u
    BY <1>2, <1>3, <2>1 DEF Backed
  <2> QED BY <1>1, <2>2
<1>4. CASE n = Len(q) + 1
  <2>1. u \in Carried(q, i)
    BY <1>1, <1>2, <1>4
  <2>2. PICK m \in DOMAIN q : IsPoint(q[m], i) /\ q[m].ts = u
    BY <2>1 DEF Carried
  <2>3. m \in DOMAIN a /\ m < n /\ a[m] = q[m]
    BY <1>1, <1>4
  <2> QED BY <2>2, <2>3
<1> QED BY <1>1, <1>3, <1>4

LEMMA BackedTail ==
    ASSUME NEW S, NEW q \in Seq(S), q # <<>>, NEW i, NEW H, NEW B,
           Backed(q, i, H, B)
    PROVE  /\ IsPoint(Head(q), i) => \A u \in H : u < Head(q).ts => u \in B
           /\ Backed(Tail(q), i, H, B \cup PointOf(Head(q), i))
<1> DEFINE a == Tail(q)
<1>1. /\ Len(q) \in Nat \ {0} /\ Len(a) = Len(q) - 1
      /\ DOMAIN a = 1 .. Len(a) /\ DOMAIN q = 1 .. Len(q)
      /\ \A n \in 1 .. Len(a) : a[n] = q[n + 1]
      /\ Head(q) = q[1]
  BY HeadTailProperties, LenProperties, EmptySeq
<1> HIDE DEF a
<1>2. ASSUME IsPoint(Head(q), i), NEW u \in H, u < Head(q).ts PROVE u \in B
  <2>1. 1 \in DOMAIN q /\ \A m \in DOMAIN q : ~(m < 1)
    BY <1>1
  <2> QED BY <1>1, <1>2, <2>1 DEF Backed
<1>3. Backed(a, i, H, B \cup PointOf(Head(q), i))
  <2> SUFFICES ASSUME NEW n \in DOMAIN a, IsPoint(a[n], i), NEW u \in H, u < a[n].ts,
                      u \notin B, u \notin PointOf(Head(q), i)
               PROVE  \E m \in DOMAIN a : m < n /\ IsPoint(a[m], i) /\ a[m].ts = u
    BY DEF Backed
  <2>1. n + 1 \in DOMAIN q /\ a[n] = q[n + 1]
    BY <1>1
  <2>2. PICK m \in DOMAIN q : m < n + 1 /\ IsPoint(q[m], i) /\ q[m].ts = u
    BY <2>1 DEF Backed
  <2>3. m # 1
    BY <1>1, <2>2 DEF PointOf
  <2>4. m - 1 \in DOMAIN a /\ m - 1 < n /\ a[m - 1] = q[m]
    BY <1>1, <2>2, <2>3
  <2> QED BY <2>2, <2>4
<1> QED BY <1>2, <1>3 DEF a

(* Backing survives when more is stored and when the station saves points *)
(* that are later than everything in the channel.                         *)
LEMMA BackedMore ==
    ASSUME NEW q, NEW i, NEW H, NEW B, NEW H2, NEW B2,
           Backed(q, i, H, B), B \subseteq B2,
           \A u \in H2 \ H : \A v \in Carried(q, i) : ~(u < v)
    PROVE  Backed(q, i, H2, B2)
BY DEF Backed, Carried

-----------------------------------------------------------------------------
(* Steps that share an effect on the points *)

Inv == TInv /\ NoGapInv

(* Connections are closed or break; the rest stays. *)
LEMMA Degrade ==
    ASSUME Inv,
           UNCHANGED <<hist, ingestMu, cpc, cur, latest, subscribed, queue, stored, now>>,
           \A k \in Conns : c2s'[k] = c2s[k] \/ (c2s'[k] = <<>> /\ broken'[k]),
           \A k \in Conns : broken[k] => broken'[k],
           \A k \in Conns : reply'[k] = reply[k] \/ reply'[k].type # "latest"
    PROVE  NoGapInv'
<1>1. cpc # "idle" => cur \in Conns
  BY CurIsConn DEF Inv
<1>2. GapFree'
  BY DEF Inv, NoGapInv, GapFree
<1>3. StampInv'
  BY EmptyChannel DEF Inv, NoGapInv, StampInv
<1>4. FramesInv'
  BY EmptyChannel DEF Inv, NoGapInv, FramesInv
<1>5. ReplyInv'
  BY DEF Inv, NoGapInv, ReplyInv
<1>6. CursorInv'
  BY <1>1 DEF Inv, NoGapInv, CursorInv
<1>7. ReplayInv'
  BY DEF Inv, NoGapInv, ReplayInv
<1>8. RealtimeInv'
  BY <1>1 DEF Inv, NoGapInv, RealtimeInv
<1>9. QueueInv'
  BY <1>1 DEF Inv, NoGapInv, QueueInv
<1> QED BY <1>2, <1>3, <1>4, <1>5, <1>6, <1>7, <1>8, <1>9 DEF NoGapInv

(* The server takes the first frame of connection k and stores its point. *)
LEMMA TakeFrame ==
    ASSUME Inv, NEW k \in Conns, c2s[k] # <<>>,
           UNCHANGED <<hist, ingestMu, cpc, cur, latest, subscribed, queue, broken, now>>,
           c2s' = [c2s EXCEPT ![k] = Tail(@)],
           \A i \in Items : stored'[i] = stored[i] \cup PointOf(Head(c2s[k]), i),
           \A l \in Conns : reply'[l] = reply[l] \/ reply'[l].type # "latest"
    PROVE  NoGapInv'
<1>1. cpc # "idle" => cur \in Conns
  BY CurIsConn DEF Inv
<1>2. c2s[k] \in Seq(Frame) /\ c2s \in [Conns -> Seq(Frame)]
  BY DEF Inv, TInv, TypeOK
<1>3. c2s'[k] = Tail(c2s[k]) /\ \A l \in Conns \ {k} : c2s'[l] = c2s[l]
  BY <1>2
<1>4. \A i \in Items : Carried(c2s[k], i) = Carried(c2s'[k], i) \cup PointOf(Head(c2s[k]), i)
  BY <1>2, <1>3, CarriedTail
<1>5. \A i \in Items : /\ Backed(c2s[k], i, hist[i], stored[i])
                       /\ IsPoint(Head(c2s[k]), i) =>
                            \A u \in hist[i] : u < Head(c2s[k]).ts => u \in stored[i]
                       /\ Backed(c2s'[k], i, hist[i], stored'[i])
  <2> SUFFICES ASSUME NEW i \in Items
               PROVE  /\ Backed(c2s[k], i, hist[i], stored[i])
                      /\ IsPoint(Head(c2s[k]), i) =>
                           \A u \in hist[i] : u < Head(c2s[k]).ts => u \in stored[i]
                      /\ Backed(c2s'[k], i, hist[i], stored'[i])
    OBVIOUS
  <2>1. Backed(c2s[k], i, hist[i], stored[i])
    BY DEF Inv, NoGapInv, FramesInv
  <2>2. /\ IsPoint(Head(c2s[k]), i) =>
             \A u \in hist[i] : u < Head(c2s[k]).ts => u \in stored[i]
        /\ Backed(Tail(c2s[k]), i, hist[i], stored[i] \cup PointOf(Head(c2s[k]), i))
    BY <1>2, <2>1, BackedTail
  <2> QED BY <1>3, <2>1, <2>2
<1>6. GapFree'
  BY <1>5 DEF Inv, NoGapInv, GapFree, PointOf
<1>7. StampInv'
  BY <1>3, <1>4 DEF Inv, NoGapInv, StampInv
<1>8. FramesInv'
  <2>1. ASSUME NEW l \in Conns \ {k}, NEW i \in Items
        PROVE  Backed(c2s'[l], i, hist[i], stored'[i])
    BY <1>3, BackedMore DEF Inv, NoGapInv, FramesInv
  <2> QED BY <1>5, <2>1 DEF FramesInv
<1>9. ReplyInv'
  BY DEF Inv, NoGapInv, ReplyInv
<1>10. CursorInv'
  BY <1>1, <1>3, <1>4 DEF Inv, NoGapInv, CursorInv
<1>11. ReplayInv'
  BY DEF Inv, NoGapInv, ReplayInv
<1>12. RealtimeInv'
  BY <1>1, <1>3, <1>4 DEF Inv, NoGapInv, RealtimeInv
<1>13. QueueInv'
  <2> SUFFICES ASSUME cpc = "realtime", ~broken[cur], NEW i \in Items
               PROVE  Backed(queue, i, hist[i], stored'[i] \cup Carried(c2s'[cur], i))
    BY DEF QueueInv
  <2>1. Backed(queue, i, hist[i], stored[i] \cup Carried(c2s[cur], i))
    BY DEF Inv, NoGapInv, QueueInv
  <2>2. stored[i] \cup Carried(c2s[cur], i) \subseteq stored'[i] \cup Carried(c2s'[cur], i)
    BY <1>1, <1>3, <1>4
  <2> QED BY <2>1, <2>2, BackedMore
<1> QED BY <1>6, <1>7, <1>8, <1>9, <1>10, <1>11, <1>12, <1>13 DEF NoGapInv

(* The session writes frame f to its connection; cursors may move and the  *)
(* first message may leave the queue.                                      *)
LEMMA SentFrames ==
    ASSUME Inv, cpc # "idle", NEW f \in Frame, c2s' = Arrives(cur, f),
           \A i \in Items : ~broken[cur] /\ IsPoint(f, i) =>
               \A u \in hist[i] : u < f.ts => u \in stored[i] \cup Carried(c2s[cur], i)
    PROVE  /\ cur \in Conns
           /\ \A l \in Conns : l # cur \/ broken[cur] => c2s'[l] = c2s[l]
           /\ \A i \in Items : ~broken[cur] =>
                Carried(c2s'[cur], i) = Carried(c2s[cur], i) \cup PointOf(f, i)
           /\ \A l \in Conns, i \in Items : Backed(c2s'[l], i, hist[i], stored[i])
<1>1. cur \in Conns
  BY CurIsConn DEF Inv
<1>2. c2s \in [Conns -> Seq(Frame)]
  BY DEF Inv, TInv, TypeOK
<1>3. \A l \in Conns : l # cur \/ broken[cur] => c2s'[l] = c2s[l]
  BY <1>1, <1>2 DEF Arrives
<1>4. ~broken[cur] => c2s'[cur] = Append(c2s[cur], f)
  BY <1>1, <1>2 DEF Arrives
<1>5. \A i \in Items : ~broken[cur] =>
        Carried(c2s'[cur], i) = Carried(c2s[cur], i) \cup PointOf(f, i)
  <2>1. c2s[cur] \in Seq(Frame)
    BY <1>1, <1>2
  <2>2. \A i \in Items : Carried(Append(c2s[cur], f), i)
                           = Carried(c2s[cur], i) \cup PointOf(f, i)
    BY <2>1, CarriedAppend
  <2> QED BY <1>4, <2>2
<1>6. ASSUME NEW l \in Conns, NEW i \in Items
      PROVE  Backed(c2s'[l], i, hist[i], stored[i])
  <2>1. Backed(c2s[l], i, hist[i], stored[i])
    BY DEF Inv, NoGapInv, FramesInv
  <2>2. CASE l # cur \/ broken[cur]
    BY <1>3, <2>1, <2>2
  <2>3. CASE l = cur /\ ~broken[cur]
    BY <1>1, <1>2, <1>4, <2>1, <2>3, BackedAppend
  <2> QED BY <2>2, <2>3
<1> QED BY <1>1, <1>3, <1>5, <1>6

-----------------------------------------------------------------------------
(* One lemma per step of the session *)

LEMMA ConnectGap == ASSUME Inv, NEW k \in Conns, Connect(k) PROVE NoGapInv'
<1>1. /\ c2s \in [Conns -> Seq(Frame)] /\ reply \in [Conns -> Reply]
      /\ subscribed \in BOOLEAN /\ broken \in [Conns -> BOOLEAN]
  BY DEF Inv, TInv, TypeOK
<1>2. /\ UNCHANGED <<hist, ingestMu, latest, subscribed, queue, stored, now>>
      /\ cpc = "idle" /\ cpc' = "hello" /\ cur' = k
      /\ c2s'[k] = <<[type |-> "hello"]>> /\ \A l \in Conns \ {k} : c2s'[l] = c2s[l]
      /\ \A l \in Conns : reply'[l] = reply[l] \/ reply'[l].type # "latest"
  BY <1>1 DEF Connect, stationDB, subscriber, serverDB, NoReply
<1>3. ~subscribed
  BY <1>2 DEF Inv, NoGapInv, RealtimeInv
<1>4. \A i, H, B : /\ Carried(c2s'[k], i) = {}
                   /\ Backed(c2s'[k], i, H, B)
  BY <1>2 DEF Carried, Backed, IsPoint
<1>5. GapFree' /\ ReplyInv'
  BY <1>2 DEF Inv, NoGapInv, GapFree, ReplyInv
<1>6. StampInv'
  BY <1>2, <1>4 DEF Inv, NoGapInv, StampInv
<1>7. FramesInv'
  BY <1>2, <1>4 DEF Inv, NoGapInv, FramesInv
<1>8. CursorInv' /\ ReplayInv' /\ QueueInv'
  BY <1>2 DEF CursorInv, ReplayInv, QueueInv
<1>9. RealtimeInv'
  BY <1>2, <1>3 DEF RealtimeInv
<1> QED BY <1>5, <1>6, <1>7, <1>8, <1>9 DEF NoGapInv

LEMMA HelloGap == ASSUME Inv, RecvServerHello PROVE NoGapInv'
<1> DEFINE f == [type |-> "info"]
<1>1. /\ cpc = "hello" /\ cpc' = "latest" /\ c2s' = Arrives(cur, f)
      /\ UNCHANGED <<hist, ingestMu, cur, latest, subscribed, queue, broken, stored, now>>
      /\ reply' = [reply EXCEPT ![cur] = NoReply]
  BY DEF RecvServerHello, stationDB, subscriber, serverDB
<1>2. f \in Frame /\ \A i \in Items : ~IsPoint(f, i) /\ PointOf(f, i) = {}
  BY DEF Frame, IsPoint, PointOf
<1> HIDE DEF f
<1>3. /\ cur \in Conns
      /\ \A l \in Conns : l # cur \/ broken[cur] => c2s'[l] = c2s[l]
      /\ \A i \in Items : ~broken[cur] => Carried(c2s'[cur], i) = Carried(c2s[cur], i)
      /\ \A l \in Conns, i \in Items : Backed(c2s'[l], i, hist[i], stored[i])
  BY <1>1, <1>2, SentFrames
<1>4. \A l \in Conns : reply'[l] = reply[l] \/ reply'[l].type # "latest"
  BY <1>1, <1>3 DEF Inv, TInv, TypeOK, NoReply
<1>5. ~subscribed
  BY <1>1 DEF Inv, NoGapInv, RealtimeInv
<1>6. GapFree' /\ ReplyInv'
  BY <1>1, <1>4 DEF Inv, NoGapInv, GapFree, ReplyInv
<1>7. StampInv'
  <2>1. \A l \in Conns, i \in Items : Carried(c2s'[l], i) = Carried(c2s[l], i)
    BY <1>3
  <2> QED BY <1>1, <1>4, <2>1 DEF Inv, NoGapInv, StampInv
<1>8. FramesInv'
  BY <1>1, <1>3 DEF FramesInv
<1>9. CursorInv' /\ ReplayInv' /\ QueueInv'
  BY <1>1 DEF CursorInv, ReplayInv, QueueInv
<1>10. RealtimeInv'
  BY <1>1, <1>5 DEF RealtimeInv
<1> QED BY <1>6, <1>7, <1>8, <1>9, <1>10 DEF NoGapInv

LEMMA LatestGap == ASSUME Inv, recvLatestFrames PROVE NoGapInv'
<1>1. /\ cpc = "latest" /\ cpc' = "lock" /\ reply[cur].type = "latest"
      /\ latest' = reply[cur].ts
      /\ UNCHANGED <<hist, ingestMu, cur, subscribed, queue, c2s, broken, stored, now>>
      /\ reply' = [reply EXCEPT ![cur] = NoReply]
  BY DEF recvLatestFrames, stationDB, subscriber, serverDB
<1>2. cur \in Conns
  BY <1>1, CurIsConn DEF Inv
<1>3. \A l \in Conns : reply'[l] = reply[l] \/ reply'[l].type # "latest"
  BY <1>1, <1>2 DEF Inv, TInv, TypeOK, NoReply
<1>4. ~subscribed
  BY <1>1 DEF Inv, NoGapInv, RealtimeInv
<1>5. GapFree' /\ ReplyInv' /\ FramesInv'
  BY <1>1, <1>3 DEF Inv, NoGapInv, GapFree, ReplyInv, FramesInv
<1>6. StampInv'
  BY <1>1, <1>2, <1>3 DEF Inv, NoGapInv, StampInv
<1>7. CursorInv'
  BY <1>1, <1>2 DEF Inv, NoGapInv, CursorInv, ReplyInv
<1>8. ReplayInv' /\ QueueInv'
  BY <1>1 DEF ReplayInv, QueueInv
<1>9. RealtimeInv'
  BY <1>1, <1>4 DEF RealtimeInv
<1> QED BY <1>5, <1>6, <1>7, <1>8, <1>9 DEF NoGapInv

LEMMA LockGap == ASSUME Inv, LockIngest PROVE NoGapInv'
<1>1. /\ cpc = "lock" /\ cpc' = "replay" /\ ingestMu' = TRUE
      /\ UNCHANGED <<hist, cur, latest, subscribed, queue, c2s, reply, broken, stored, now>>
  BY DEF LockIngest, stationDB, subscriber, serverDB, network
<1>2. GapFree' /\ ReplyInv' /\ FramesInv' /\ StampInv'
  BY <1>1 DEF Inv, NoGapInv, GapFree, ReplyInv, FramesInv, StampInv
<1>3. CursorInv'
  BY <1>1 DEF Inv, NoGapInv, CursorInv
<1>4. ReplayInv' /\ QueueInv'
  BY <1>1 DEF ReplayInv, QueueInv
<1>5. RealtimeInv'
  BY <1>1 DEF Inv, NoGapInv, RealtimeInv
<1> QED BY <1>2, <1>3, <1>4, <1>5 DEF NoGapInv

LEMMA ReplayGap ==
    ASSUME Inv, NEW i \in Items, NEW t \in hist[i], sendReplayData(i, t)
    PROVE  NoGapInv'
<1> DEFINE f == [type |-> "data", item |-> i, ts |-> t, replay |-> TRUE]
<1>1. /\ cpc = "replay" /\ NextPoint(i, t) /\ c2s' = Arrives(cur, f)
      /\ latest' = [latest EXCEPT ![i] = t]
      /\ UNCHANGED <<hist, ingestMu, cpc, cur, subscribed, queue, reply, broken, stored, now>>
  BY DEF sendReplayData, stationDB, subscriber, serverDB
<1>2. /\ latest \in [Items -> Nat] /\ hist \in [Items -> SUBSET Nat] /\ now \in Nat
      /\ t \in Nat
  BY DEF Inv, TInv, TypeOK
<1>3. f \in Frame
  BY <1>2, Zenon DEF Frame, DataMsg
<1>4. \A j \in Items : IsPoint(f, j) <=> j = i
  BY DEF IsPoint
<1>5. f.ts = t /\ \A j \in Items : PointOf(f, j) = IF j = i THEN {t} ELSE {}
  BY <1>4 DEF PointOf
<1> HIDE DEF f
<1>6. \A u \in hist[i] : u <= t => u <= latest[i] \/ u = t
  BY <1>1, <1>2 DEF NextPoint
<1>7. cur \in Conns
  BY <1>1, CurIsConn DEF Inv
<1>8. ~broken[cur] => \A j \in Items : \A u \in hist[j] :
                          u <= latest[j] => u \in stored[j] \cup Carried(c2s[cur], j)
  BY <1>1 DEF Inv, NoGapInv, CursorInv
<1>9. ~broken[cur] => \A u \in hist[i] : u < t => u \in stored[i] \cup Carried(c2s[cur], i)
  BY <1>2, <1>6, <1>8
<1>10. /\ \A l \in Conns : l # cur \/ broken[cur] => c2s'[l] = c2s[l]
       /\ \A j \in Items : ~broken[cur] =>
            Carried(c2s'[cur], j) = Carried(c2s[cur], j) \cup PointOf(f, j)
       /\ \A l \in Conns, j \in Items : Backed(c2s'[l], j, hist[j], stored[j])
  BY <1>1, <1>3, <1>4, <1>5, <1>9, SentFrames
<1>11. GapFree' /\ ReplyInv'
  BY <1>1 DEF Inv, NoGapInv, GapFree, ReplyInv
<1>12. FramesInv'
  BY <1>1, <1>10 DEF FramesInv
<1>13. StampInv'
  <2>1. t \in 0 .. now
    BY <1>2 DEF Inv, NoGapInv, StampInv
  <2>2. \A l \in Conns, j \in Items :
          Carried(c2s'[l], j) = Carried(c2s[l], j)
          \/ Carried(c2s'[l], j) = Carried(c2s[l], j) \cup PointOf(f, j)
    BY <1>10
  <2>3. \A l \in Conns, j \in Items : Carried(c2s'[l], j) \subseteq 0 .. now
    BY <1>5, <2>1, <2>2 DEF Inv, NoGapInv, StampInv
  <2>4. \A j \in Items : latest'[j] \in 0 .. now
    BY <1>1, <1>2, <2>1 DEF Inv, NoGapInv, StampInv
  <2> QED BY <1>1, <2>3, <2>4 DEF Inv, NoGapInv, StampInv
<1>14. CursorInv'
  <2> SUFFICES ASSUME ~broken[cur], NEW j \in Items, NEW u \in hist[j], u <= latest'[j]
               PROVE  u \in stored[j] \cup Carried(c2s'[cur], j)
    BY <1>1 DEF CursorInv
  <2>1. CASE j = i
    <3>1. u <= latest[i] \/ u = t
      BY <1>1, <1>2, <1>6, <2>1
    <3>2. t \in Carried(c2s'[cur], i) /\ Carried(c2s[cur], i) \subseteq Carried(c2s'[cur], i)
      BY <1>5, <1>10
    <3> QED BY <1>8, <2>1, <3>1, <3>2
  <2>2. CASE j # i
    <3>1. latest'[j] = latest[j]
      BY <1>1, <1>2, <2>2
    <3>2. Carried(c2s[cur], j) \subseteq Carried(c2s'[cur], j)
      BY <1>10
    <3> QED BY <1>8, <3>1, <3>2
  <2> QED BY <2>1, <2>2
<1>15. ReplayInv' /\ QueueInv'
  BY <1>1 DEF Inv, NoGapInv, ReplayInv, QueueInv
<1>16. RealtimeInv'
  BY <1>1 DEF Inv, NoGapInv, RealtimeInv
<1> QED BY <1>11, <1>12, <1>13, <1>14, <1>15, <1>16 DEF NoGapInv

LEMMA ReplayStatusGap == ASSUME Inv, sendReplayStatus PROVE NoGapInv'
<1> DEFINE rows == {r \in DOMAIN log : r > latestRow}
           f == [type |-> "statusReplay", rows |-> rows]
<1>1. /\ cpc = "replay" /\ cpc' = "subscribe" /\ (c2s' = c2s \/ c2s' = Arrives(cur, f))
      /\ \A i \in Items : \A u \in hist[i] : u <= latest[i]
      /\ UNCHANGED <<hist, ingestMu, cur, latest, subscribed, queue, reply, broken, stored, now>>
  BY DEF sendReplayStatus, stationDB, subscriber, serverDB
<1>2. rows \in SUBSET Nat
  BY LenProperties DEF Inv, TInv, TypeOK
<1> HIDE DEF rows
<1>3. f \in Frame /\ \A i \in Items : ~IsPoint(f, i) /\ PointOf(f, i) = {}
  BY <1>2 DEF Frame, IsPoint, PointOf
<1> HIDE DEF f
<1>4. cur \in Conns
  BY <1>1, CurIsConn DEF Inv
<1>5. /\ \A l \in Conns, i \in Items : Carried(c2s'[l], i) = Carried(c2s[l], i)
      /\ \A l \in Conns, i \in Items : Backed(c2s'[l], i, hist[i], stored[i])
  <2>1. CASE c2s' = c2s
    BY <2>1 DEF Inv, NoGapInv, FramesInv
  <2>2. CASE c2s' = Arrives(cur, f)
    <3>1. /\ \A l \in Conns : l # cur \/ broken[cur] => c2s'[l] = c2s[l]
          /\ \A i \in Items : ~broken[cur] => Carried(c2s'[cur], i) = Carried(c2s[cur], i)
          /\ \A l \in Conns, i \in Items : Backed(c2s'[l], i, hist[i], stored[i])
      BY <1>1, <1>3, <2>2, SentFrames
    <3> QED BY <3>1
  <2> QED BY <1>1, <2>1, <2>2
<1>6. GapFree' /\ ReplyInv' /\ FramesInv'
  BY <1>1, <1>5 DEF Inv, NoGapInv, GapFree, ReplyInv, FramesInv
<1>7. StampInv'
  BY <1>1, <1>5 DEF Inv, NoGapInv, StampInv
<1>8. CursorInv'
  BY <1>1, <1>4, <1>5 DEF Inv, NoGapInv, CursorInv
<1>9. ReplayInv' /\ QueueInv'
  BY <1>1 DEF Inv, NoGapInv, ReplayInv, QueueInv
<1>10. RealtimeInv'
  BY <1>1 DEF Inv, NoGapInv, RealtimeInv
<1> QED BY <1>6, <1>7, <1>8, <1>9, <1>10 DEF NoGapInv

LEMMA SubscribeGap == ASSUME Inv, SubscribeAndUnlock PROVE NoGapInv'
<1>1. /\ cpc = "subscribe" /\ cpc' = "realtime" /\ queue' = <<>>
      /\ UNCHANGED <<hist, cur, latest, c2s, reply, broken, stored, now>>
  BY DEF SubscribeAndUnlock, stationDB, network, serverDB
<1>2. GapFree' /\ ReplyInv' /\ FramesInv'
  BY <1>1 DEF Inv, NoGapInv, GapFree, ReplyInv, FramesInv
<1>3. StampInv'
  BY <1>1, EmptyChannel DEF Inv, NoGapInv, StampInv
<1>4. CursorInv' /\ ReplayInv'
  BY <1>1 DEF CursorInv, ReplayInv
<1>5. QueueInv'
  BY <1>1, EmptyChannel DEF QueueInv
<1>6. RealtimeInv'
  BY <1>1 DEF Inv, NoGapInv, RealtimeInv, CursorInv, ReplayInv
<1> QED BY <1>2, <1>3, <1>4, <1>5, <1>6 DEF NoGapInv

LEMMA ForwardGap ==
    ASSUME Inv, forwardRealtimeData
    PROVE  NoGapInv'
<1> DEFINE f == Head(queue)
<1>1. /\ cpc = "realtime" /\ queue # <<>> /\ queue' = Tail(queue) /\ c2s' = Arrives(cur, f)
      /\ UNCHANGED <<hist, ingestMu, cpc, cur, latest, subscribed, reply, broken, stored, now>>
  BY DEF forwardRealtimeData, stationDB, session, serverDB
<1>2. queue \in Seq(Msg)
  BY DEF Inv, TInv, TypeOK, Msg
<1>3. f \in Frame
  BY <1>1, <1>2, HeadTailProperties DEF Msg, Frame
<1>4. \A i \in Items : Carried(queue, i) = Carried(queue', i) \cup PointOf(f, i)
  BY <1>1, <1>2, CarriedTail
<1>5. cur \in Conns
  BY <1>1, CurIsConn DEF Inv
<1>6. ASSUME ~broken[cur], NEW i \in Items
      PROVE  /\ IsPoint(f, i) => \A u \in hist[i] : u < f.ts =>
                  u \in stored[i] \cup Carried(c2s[cur], i)
             /\ Backed(queue', i, hist[i],
                       (stored[i] \cup Carried(c2s[cur], i)) \cup PointOf(f, i))
  <2>1. Backed(queue, i, hist[i], stored[i] \cup Carried(c2s[cur], i))
    BY <1>1, <1>6 DEF Inv, NoGapInv, QueueInv
  <2> DEFINE B == stored[i] \cup Carried(c2s[cur], i)
             H == hist[i]
  <2>2. Backed(queue, i, H, B)
    BY <2>1
  <2> HIDE DEF B, H
  <2>3. /\ IsPoint(Head(queue), i) => \A u \in H : u < Head(queue).ts => u \in B
        /\ Backed(Tail(queue), i, H, B \cup PointOf(Head(queue), i))
    BY <1>1, <1>2, <2>2, BackedTail
  <2> QED BY <1>1, <2>3 DEF B, H
<1> HIDE DEF f
<1>7. /\ \A l \in Conns : l # cur \/ broken[cur] => c2s'[l] = c2s[l]
      /\ \A i \in Items : ~broken[cur] =>
           Carried(c2s'[cur], i) = Carried(c2s[cur], i) \cup PointOf(f, i)
      /\ \A l \in Conns, i \in Items : Backed(c2s'[l], i, hist[i], stored[i])
  BY <1>1, <1>3, <1>6, SentFrames
<1>8. GapFree' /\ ReplyInv' /\ FramesInv'
  BY <1>1, <1>7 DEF Inv, NoGapInv, GapFree, ReplyInv, FramesInv
<1>9. StampInv'
  <2>1. \A i \in Items : PointOf(f, i) \subseteq 0 .. now
    BY <1>4 DEF Inv, NoGapInv, StampInv
  <2>2. \A l \in Conns, i \in Items :
          Carried(c2s'[l], i) = Carried(c2s[l], i)
          \/ Carried(c2s'[l], i) = Carried(c2s[l], i) \cup PointOf(f, i)
    BY <1>7
  <2>3. \A l \in Conns, i \in Items : Carried(c2s'[l], i) \subseteq 0 .. now
    BY <2>1, <2>2 DEF Inv, NoGapInv, StampInv
  <2> QED BY <1>1, <1>4, <2>3 DEF Inv, NoGapInv, StampInv
<1>10. CursorInv' /\ ReplayInv'
  BY <1>1 DEF CursorInv, ReplayInv
<1>11. RealtimeInv'
  BY <1>1, <1>4, <1>7 DEF Inv, NoGapInv, RealtimeInv
<1>12. QueueInv'
  <2> SUFFICES ASSUME ~broken[cur], NEW i \in Items
               PROVE  Backed(queue', i, hist[i], stored[i] \cup Carried(c2s'[cur], i))
    BY <1>1 DEF QueueInv
  <2>1. (stored[i] \cup Carried(c2s[cur], i)) \cup PointOf(f, i)
          = stored[i] \cup Carried(c2s'[cur], i)
    BY <1>7
  <2> QED BY <1>6, <2>1
<1> QED BY <1>8, <1>9, <1>10, <1>11, <1>12 DEF NoGapInv

-----------------------------------------------------------------------------
(* Readings *)

(* A clipped channel carries no more than the whole. *)
LEMMA CarriedClip ==
    ASSUME NEW S, NEW q \in Seq(S), NEW n \in Nat, n <= Len(q), NEW i
    PROVE  Carried(SubSeq(q, 1, n), i) \subseteq Carried(q, i)
<1> DEFINE c == SubSeq(q, 1, n)
<1>1. \A j \in 1 .. n : q[j] \in S
  BY ElementOfSeq
<1>2. c \in Seq(S) /\ Len(c) = n /\ \A j \in 1 .. n : c[j] = q[j]
  BY <1>1, SubSeqProperties
<1>3. DOMAIN c = 1 .. n /\ DOMAIN c \subseteq DOMAIN q
  BY <1>2, LenProperties
<1> HIDE DEF c
<1>4. \A j \in DOMAIN c : j \in DOMAIN q /\ c[j] = q[j]
  BY <1>2, <1>3
<1>5. Carried(c, i) \subseteq Carried(q, i)
  BY <1>4 DEF Carried
<1> QED BY <1>5 DEF c

LEMMA IngestGap ==
    ASSUME Inv, ~ClockMayStepBack, NEW i \in Items, NEW hasValue \in BOOLEAN,
           NEW logSaved \in BOOLEAN, NEW dataSaved \in BOOLEAN, NEW t \in Timestamps,
           receiveData(i, hasValue, t, logSaved, dataSaved)
    PROVE  NoGapInv'
<1> DEFINE status == IF hasValue THEN "Normal" ELSE "Abnormal"
           flips  == i \notin GpioItems /\ itemsStatus[i] # status
           a == [type |-> "status", row |-> Len(log) + 1]
           b == [type |-> "data", item |-> i, ts |-> t, replay |-> FALSE]
           change == IF flips /\ logSaved THEN <<a>> ELSE <<>>
           point  == IF hasValue THEN <<b>> ELSE <<>>
           msgs   == change \o point
<1>1. /\ ~ingestMu /\ now' = now + 1
      /\ hist' = [hist EXCEPT ![i] = IF hasValue /\ dataSaved THEN @ \cup {t} ELSE @]
      /\ Publish(msgs)
      /\ UNCHANGED <<ingestMu, cpc, cur, latest, c2s, reply, stored>>
  BY DEF receiveData, IngestLockFree, session, serverDB
<1>2. /\ t = now + 1 /\ now \in Nat /\ t \in Nat /\ hist \in [Items -> SUBSET Nat]
      /\ stored \in [Items -> SUBSET Nat]
      /\ queue \in Seq(Msg) /\ latest \in [Items -> Nat] /\ subscribed \in BOOLEAN
      /\ broken \in [Conns -> BOOLEAN]
  BY DEF Timestamps, Inv, TInv, TypeOK, Msg
<1>3. a \in Msg /\ \A j \in Items : ~IsPoint(a, j) /\ PointOf(a, j) = {}
  <2>1. Len(log) + 1 \in Nat
    BY LenProperties DEF Inv, TInv, TypeOK
  <2> QED BY <2>1 DEF Msg, StatusMsg, IsPoint, PointOf
<1>4. b \in Msg /\ b.ts = t
  BY <1>2, Zenon DEF Msg, DataMsg
<1>5. \A j \in Items : /\ IsPoint(b, j) <=> j = i
                       /\ PointOf(b, j) = IF j = i THEN {t} ELSE {}
  BY DEF IsPoint, PointOf
<1> HIDE DEF a, b, flips
(* Every point the system holds is earlier than the new one. *)
<1>6. /\ \A u \in 0 .. now : u < t
      /\ 0 .. now \subseteq 0 .. now' /\ 1 .. now \subseteq 1 .. now'
      /\ t \in 0 .. now' /\ t \in 1 .. now'
  BY <1>1, <1>2
<1>7. \A j \in Items :
        /\ \A u \in hist[j] : u < t
        /\ \A u \in stored[j] : u < t
        /\ \A k \in Conns : \A v \in Carried(c2s[k], j) : v < t
        /\ \A v \in Carried(queue, j) : v < t
        /\ latest[j] < t
        /\ \A k \in Conns : reply[k].type = "latest" => reply[k].ts[j] < t
  <2> SUFFICES ASSUME NEW j \in Items
               PROVE  /\ \A u \in hist[j] : u < t
                      /\ \A u \in stored[j] : u < t
                      /\ \A k \in Conns : \A v \in Carried(c2s[k], j) : v < t
                      /\ \A v \in Carried(queue, j) : v < t
                      /\ latest[j] < t
                      /\ \A k \in Conns : reply[k].type = "latest" => reply[k].ts[j] < t
    OBVIOUS
  <2>1. StampInv /\ \A u \in 1 .. now : u \in 0 .. now
    BY <1>2 DEF Inv, NoGapInv
  <2>2. (\A u \in hist[j] : u < t) /\ (\A u \in stored[j] : u < t) /\ latest[j] < t
    BY <1>6, <2>1 DEF StampInv
  <2>3. \A k \in Conns : \A v \in Carried(c2s[k], j) : v < t
    BY <1>6, <2>1 DEF StampInv
  <2>4. \A v \in Carried(queue, j) : v < t
    BY <1>6, <2>1 DEF StampInv
  <2>5. \A k \in Conns : reply[k].type = "latest" => reply[k].ts[j] < t
    BY <1>6, <2>1 DEF StampInv
  <2> QED BY <2>2, <2>3, <2>4, <2>5
<1>8. \A j \in Items :
        /\ hist[j] \subseteq hist'[j]
        /\ \A u \in hist'[j] : u \in hist[j] \/ (u = t /\ hasValue /\ j = i)
  BY <1>1, <1>2
<1>9. \A j \in Items : \A u \in hist'[j] \ hist[j] :
        /\ \A k \in Conns : \A v \in Carried(c2s[k], j) : ~(u < v)
        /\ \A v \in Carried(queue, j) : ~(u < v)
  <2> SUFFICES ASSUME NEW j \in Items, NEW v, v < t,
                      v \in Carried(queue, j) \/ \E k \in Conns : v \in Carried(c2s[k], j)
               PROVE  ~(t < v)
    BY <1>7, <1>8
  <2>1. v \in Nat
    BY <1>2 DEF Inv, NoGapInv, StampInv
  <2> QED BY <1>2, <2>1
<1>10. GapFree'
  <2> SUFFICES ASSUME NEW j \in Items, NEW v \in stored[j], NEW u \in hist'[j], u < v
               PROVE  u \in stored[j]
    BY <1>1 DEF GapFree
  <2>1. u \in hist[j]
    BY <1>2, <1>7, <1>8
  <2> QED BY <2>1 DEF Inv, NoGapInv, GapFree
<1>11. FramesInv'
  <2> SUFFICES ASSUME NEW k \in Conns, NEW j \in Items
               PROVE  Backed(c2s[k], j, hist'[j], stored[j])
    BY <1>1 DEF FramesInv
  <2>1. Backed(c2s[k], j, hist[j], stored[j])
    BY DEF Inv, NoGapInv, FramesInv
  <2> QED BY <1>9, <2>1, BackedMore
<1>12. ReplyInv'
  <2> SUFFICES ASSUME NEW k \in Conns, NEW j \in Items, reply[k].type = "latest",
                      NEW u \in hist'[j], u <= reply[k].ts[j]
               PROVE  u \in stored[j]
    BY <1>1 DEF ReplyInv
  <2>1. reply[k].ts[j] \in Nat /\ reply[k].ts[j] < t
    BY <1>2, <1>7 DEF Inv, NoGapInv, StampInv
  <2>2. u \in hist[j]
    BY <1>2, <1>8, <2>1
  <2> QED BY <2>2 DEF Inv, NoGapInv, ReplyInv
<1>13. ReplayInv'
  BY <1>1 DEF Inv, NoGapInv, ReplayInv
(* What is published. *)
<1> DEFINE q1 == IF flips /\ logSaved THEN Append(queue, a) ELSE queue
           q2 == IF hasValue THEN Append(q1, b) ELSE q1
<1>14. q1 \in Seq(Msg) /\ q2 \in Seq(Msg)
  BY <1>2, <1>3, <1>4, AppendProperties
<1>15. queue \o msgs = q2 /\ msgs \in Seq(Msg)
  <2>1. change \in Seq(Msg) /\ point \in Seq(Msg)
    BY <1>3, <1>4, EmptySeq, SingletonSeq
  <2>2. queue \o change = q1
    BY <1>2, <1>3, AppendIsConcat, ConcatEmptySeq
  <2>3. q1 \o point = q2
    BY <1>4, <1>14, AppendIsConcat, ConcatEmptySeq
  <2> HIDE DEF change, point, q1, q2
  <2>4. (queue \o change) \o point = queue \o (change \o point)
    BY <1>2, <2>1, ConcatAssociative
  <2> QED BY <2>1, <2>2, <2>3, <2>4, ConcatProperties
<1> HIDE DEF change, point, msgs
<1>16. \A j \in Items :
         /\ Carried(q1, j) = Carried(queue, j)
         /\ Carried(q2, j) = Carried(queue, j) \cup (IF hasValue /\ j = i THEN {t} ELSE {})
  <2> SUFFICES ASSUME NEW j \in Items
               PROVE  /\ Carried(q1, j) = Carried(queue, j)
                      /\ Carried(q2, j) = Carried(queue, j)
                                          \cup (IF hasValue /\ j = i THEN {t} ELSE {})
    OBVIOUS
  <2>1. Carried(Append(queue, a), j) = Carried(queue, j) \cup PointOf(a, j)
    BY <1>2, <1>3, CarriedAppend
  <2>2. Carried(q1, j) = Carried(queue, j)
    BY <1>3, <2>1
  <2> HIDE DEF q1
  <2>3. Carried(Append(q1, b), j) = Carried(q1, j) \cup PointOf(b, j)
    BY <1>4, <1>14, CarriedAppend
  <2> QED BY <1>5, <2>2, <2>3
<1> HIDE DEF q1
(* The cases of Publish. *)
<1>17. \/ queue' = queue /\ broken' = broken /\ subscribed' = subscribed /\ ~subscribed
       \/ queue' = q2 /\ broken' = broken /\ subscribed' = subscribed /\ subscribed
       \/ /\ subscribed /\ subscribed' = FALSE
          /\ Len(queue) + Len(msgs) > QueueCap
          /\ queue' = SubSeq(q2, 1, QueueCap)
          /\ broken' = [broken EXCEPT ![cur] = TRUE]
  BY <1>1, <1>15, Zenon DEF Publish, subscriber
<1> HIDE DEF q2
<1>18. /\ \A j \in Items : Carried(queue', j) \subseteq Carried(q2, j)
       /\ ~(subscribed' /\ ~subscribed)
       /\ cpc # "idle" => cur \in Conns
       /\ cpc # "idle" /\ ~broken'[cur] => broken' = broken /\ ~(subscribed /\ ~subscribed')
  <2>1. cpc # "idle" => cur \in Conns
    BY CurIsConn DEF Inv
  <2>2. \A j \in Items : Carried(queue, j) \subseteq Carried(q2, j)
    BY <1>16
  <2>3. Len(queue \o msgs) = Len(queue) + Len(msgs)
    BY <1>2, <1>15, ConcatProperties
  <2>4. Len(queue) + Len(msgs) > QueueCap =>
          \A j \in Items : Carried(SubSeq(q2, 1, QueueCap), j) \subseteq Carried(q2, j)
    <3>1. Len(q2) \in Nat /\ QueueCap \in Nat
      BY <1>14, LenProperties, ConstantsAssumption
    <3>2. Len(queue) + Len(msgs) > QueueCap => QueueCap <= Len(q2)
      BY <1>15, <2>3, <3>1
    <3> QED BY <1>14, <3>1, <3>2, CarriedClip
  <2>5. \A j \in Items : Carried(queue', j) \subseteq Carried(q2, j)
    BY <1>17, <2>2, <2>4
  <2>6. ~(subscribed' /\ ~subscribed)
    BY <1>17
  <2>7. cpc # "idle" /\ ~broken'[cur] => broken' = broken /\ ~(subscribed /\ ~subscribed')
    <3>1. cpc # "idle" => [broken EXCEPT ![cur] = TRUE][cur] = TRUE
      BY <1>2, <2>1
    <3> QED BY <1>17, <3>1, Zenon
  <2> QED BY <2>1, <2>5, <2>6, <2>7
<1>19. StampInv'
  <2>1. \A j \in Items : Carried(queue', j) \subseteq 0 .. now'
    BY <1>6, <1>16, <1>18 DEF Inv, NoGapInv, StampInv
  <2>2. \A j \in Items : hist'[j] \subseteq 1 .. now'
    BY <1>6, <1>8 DEF Inv, NoGapInv, StampInv
  <2> QED BY <1>1, <1>6, <2>1, <2>2 DEF Inv, NoGapInv, StampInv
<1>20. CursorInv'
  <2> SUFFICES ASSUME cpc \in {"lock", "replay", "subscribe"}, ~broken'[cur],
                      NEW j \in Items, NEW u \in hist'[j], u <= latest[j]
               PROVE  u \in stored[j] \cup Carried(c2s[cur], j)
    BY <1>1 DEF CursorInv
  <2>1. u \in hist[j]
    BY <1>2, <1>7, <1>8
  <2> QED BY <1>18, <2>1 DEF Inv, NoGapInv, CursorInv
<1>21. ASSUME subscribed' PROVE queue' = q2 /\ broken' = broken /\ cpc = "realtime"
  BY <1>17, <1>21 DEF Inv, NoGapInv, RealtimeInv
<1>22. RealtimeInv'
  <2> SUFFICES ASSUME subscribed', ~broken[cur], NEW j \in Items, NEW u \in hist'[j]
               PROVE  u \in stored[j] \cup Carried(c2s[cur], j) \cup Carried(q2, j)
    BY <1>1, <1>21 DEF RealtimeInv
  <2>1. CASE u \in hist[j]
    BY <1>16, <1>18, <2>1 DEF Inv, NoGapInv, RealtimeInv
  <2>2. CASE u \notin hist[j]
    BY <1>8, <1>16, <2>2
  <2> QED BY <2>1, <2>2
<1>23. QueueInv'
  <2> SUFFICES ASSUME cpc = "realtime", ~broken'[cur], NEW j \in Items
               PROVE  Backed(queue', j, hist'[j], stored[j] \cup Carried(c2s[cur], j))
    BY <1>1 DEF QueueInv
  <2> DEFINE B == stored[j] \cup Carried(c2s[cur], j)
             H == hist'[j]
  <2>1. broken' = broken /\ Backed(queue, j, hist[j], B)
    BY <1>18 DEF Inv, NoGapInv, QueueInv
  <2>2. Backed(queue, j, H, B)
    BY <1>9, <2>1, BackedMore
  <2>3. CASE ~subscribed
    BY <1>17, <2>2, <2>3
  <2>4. CASE subscribed
    <3>1. queue' = q2
      BY <1>17, <1>18, <2>1, <2>4
    <3>2. \A u \in H : u < t => u \in B \cup Carried(queue, j)
      BY <1>2, <1>8, <2>1, <2>4 DEF Inv, NoGapInv, RealtimeInv
    <3> HIDE DEF B, H
    <3>3. Backed(Append(queue, a), j, H, B)
      BY <1>2, <1>3, <2>2, BackedAppend
    <3>4. Backed(q1, j, H, B)
      BY <2>2, <3>3 DEF q1
    <3>5. Backed(Append(q1, b), j, H, B)
      BY <1>4, <1>14, <1>16, <3>2, <3>4, BackedAppend
    <3>6. Backed(q2, j, H, B)
      BY <3>4, <3>5 DEF q2
    <3> QED BY <3>1, <3>6 DEF B, H
  <2> QED BY <2>3, <2>4
<1> QED BY <1>10, <1>11, <1>12, <1>13, <1>19, <1>20, <1>22, <1>23 DEF NoGapInv

-----------------------------------------------------------------------------
(* The end of a session, and the server *)

LEMMA SessionEndGap ==
    ASSUME Inv, runOnConnReturns \/ StationRestart
    PROVE  NoGapInv'
<1>1. /\ cpc' = "idle" /\ subscribed' = FALSE /\ queue' = <<>>
      /\ UNCHANGED <<hist, latest, c2s, reply, stored, now>>
  BY DEF runOnConnReturns, StationRestart, stationDB, serverDB
<1>2. GapFree' /\ ReplyInv' /\ FramesInv'
  BY <1>1 DEF Inv, NoGapInv, GapFree, ReplyInv, FramesInv
<1>3. StampInv'
  BY <1>1, EmptyChannel DEF Inv, NoGapInv, StampInv
<1>4. CursorInv' /\ ReplayInv' /\ QueueInv' /\ RealtimeInv'
  BY <1>1 DEF CursorInv, ReplayInv, QueueInv, RealtimeInv
<1> QED BY <1>2, <1>3, <1>4 DEF NoGapInv

LEMMA LatestSentGap == ASSUME Inv, NEW k \in Conns, SendLatest(k) PROVE NoGapInv'
<1>1. PICK ts \in [Items -> 0 .. now], row \in 0 .. Len(log) :
        /\ \A i \in Items : IsLatest(ts[i], stored[i])
        /\ reply' = [reply EXCEPT ![k] = [type |-> "latest", ts |-> ts, row |-> row]]
  BY DEF SendLatest
<1>2. UNCHANGED <<hist, ingestMu, cpc, cur, latest, subscribed, queue, c2s, broken, stored, now>>
  BY DEF SendLatest, stationDB, session, subscriber, serverDB
<1>3. /\ reply'[k].ts = ts /\ \A l \in Conns \ {k} : reply'[l] = reply[l]
  BY <1>1 DEF Inv, TInv, TypeOK
<1>4. ReplyInv'
  <2>1. ASSUME NEW i \in Items, NEW u \in hist[i], u <= ts[i] PROVE u \in stored[i]
    <3>1. u \in Nat /\ u > 0 /\ ts[i] \in Nat
      BY DEF Inv, TInv, TypeOK, NoGapInv, StampInv
    <3>2. ts[i] \in stored[i]
      BY <1>1, <2>1, <3>1 DEF IsLatest
    <3> QED BY <2>1, <3>1, <3>2 DEF Inv, NoGapInv, GapFree
  <2> QED BY <1>2, <1>3, <2>1 DEF Inv, NoGapInv, ReplyInv
<1>5. StampInv'
  BY <1>2, <1>3 DEF Inv, NoGapInv, StampInv
<1>6. GapFree' /\ FramesInv' /\ CursorInv' /\ ReplayInv'
  BY <1>2 DEF Inv, NoGapInv, GapFree, FramesInv, CursorInv, ReplayInv
<1>7. QueueInv' /\ RealtimeInv'
  BY <1>2 DEF Inv, NoGapInv, QueueInv, RealtimeInv
<1> QED BY <1>4, <1>5, <1>6, <1>7 DEF NoGapInv

LEMMA HandlerGap == ASSUME Inv, NEW k \in Conns, HandlerStep(k) PROVE NoGapInv'
<1> USE DEF stationDB, session, subscriber, network, handler, serverDB
<1>0. /\ c2s \in [Conns -> Seq(Frame)] /\ reply \in [Conns -> Reply]
      /\ broken \in [Conns -> BOOLEAN] /\ stored \in [Items -> SUBSET Nat]
  BY DEF Inv, TInv, TypeOK
<1>1. CASE recvHello(k)
  <2>1. c2s[k] # <<>> /\ \A i \in Items : PointOf(Head(c2s[k]), i) = {}
    BY <1>1 DEF recvHello, Receives, PointOf, IsPoint
  <2>2. UNCHANGED <<hist, ingestMu, cpc, cur, latest, subscribed, queue, stored, now>>
    BY <1>1 DEF recvHello
  <2>3. \A l \in Conns : reply'[l] = reply[l] \/ reply'[l].type # "latest"
    BY <1>0, <1>1 DEF recvHello
  <2>4. CASE c2s' = [c2s EXCEPT ![k] = Tail(@)] /\ broken' = broken
    BY <2>1, <2>2, <2>3, <2>4, TakeFrame
  <2>5. CASE c2s' = [c2s EXCEPT ![k] = <<>>] /\ broken' = [broken EXCEPT ![k] = TRUE]
    <3>1. /\ \A l \in Conns : c2s'[l] = c2s[l] \/ (c2s'[l] = <<>> /\ broken'[l])
          /\ \A l \in Conns : broken[l] => broken'[l]
      BY <1>0, <2>5
    <3> QED BY <2>2, <2>3, <3>1, Degrade
  <2> QED BY <1>1, <2>4, <2>5 DEF recvHello
<1>2. CASE recvStationInfo(k) \/ handleItemStatus(k) \/ handleStatusReplay(k)
  <2>1. c2s[k] # <<>> /\ \A i \in Items : PointOf(Head(c2s[k]), i) = {}
    BY <1>2 DEF recvStationInfo, handleItemStatus, handleStatusReplay, Receives, PointOf,
       IsPoint
  <2>2. /\ UNCHANGED <<hist, ingestMu, cpc, cur, latest, subscribed, queue, reply, broken,
                       stored, now>>
        /\ c2s' = [c2s EXCEPT ![k] = Tail(@)]
    BY <1>2 DEF recvStationInfo, handleItemStatus, handleStatusReplay
  <2> QED BY <2>1, <2>2, TakeFrame
<1>3. CASE SendLatest(k)
  BY <1>3, LatestSentGap
<1>4. CASE handleDataBatch(k)
  <2> DEFINE point == Head(c2s[k])
  <2>1. c2s[k] # <<>> /\ point.type = "data"
    BY <1>4 DEF handleDataBatch, Receives
  <2>2. /\ UNCHANGED <<hist, ingestMu, cpc, cur, latest, subscribed, queue, reply, broken, now>>
        /\ c2s' = [c2s EXCEPT ![k] = Tail(@)]
        /\ stored' = [stored EXCEPT ![point.item] = @ \cup {point.ts}]
    BY <1>4 DEF handleDataBatch
  <2>3. \A i \in Items : stored'[i] = stored[i] \cup PointOf(point, i)
    BY <1>0, <2>1, <2>2 DEF PointOf, IsPoint
  <2> QED BY <2>1, <2>2, <2>3, TakeFrame
<1>5. CASE DeferredDelete(k)
  <2>1. /\ UNCHANGED <<hist, ingestMu, cpc, cur, latest, subscribed, queue, reply, stored, now>>
        /\ c2s' = [c2s EXCEPT ![k] = <<>>] /\ broken' = [broken EXCEPT ![k] = TRUE]
    BY <1>5 DEF DeferredDelete
  <2>2. /\ \A l \in Conns : c2s'[l] = c2s[l] \/ (c2s'[l] = <<>> /\ broken'[l])
        /\ \A l \in Conns : broken[l] => broken'[l]
    BY <1>0, <2>1
  <2> QED BY <2>1, <2>2, Degrade
<1>6. CASE \/ \E i \in Items : UpdateReplayedItem(k, i)
           \/ ReplayedItemsDone(k) \/ SaveReplayedLog(k) \/ ReplayedLogsDone(k)
           \/ DeferredDisconnect(k)
  <2>1. UNCHANGED <<hist, ingestMu, cpc, cur, latest, subscribed, queue, c2s, reply, broken,
                    stored, now>>
    BY <1>6 DEF UpdateReplayedItem, ReplayedItemsDone, SaveReplayedLog, ReplayedLogsDone,
       DeferredDisconnect
  <2> QED BY <2>1, Degrade
<1> QED BY <1>1, <1>2, <1>3, <1>4, <1>5, <1>6 DEF HandlerStep

LEMMA LossGap ==
    ASSUME Inv, ServerRestart \/ \E k \in Conns : Break(k) \/ StreamStationFails(k)
    PROVE  NoGapInv'
<1>0. c2s \in [Conns -> Seq(Frame)] /\ broken \in [Conns -> BOOLEAN]
  BY DEF Inv, TInv, TypeOK
<1>1. UNCHANGED <<hist, ingestMu, cpc, cur, latest, subscribed, queue, reply, stored, now>>
  BY DEF ServerRestart, Break, StreamStationFails, stationDB, session, subscriber, serverDB
<1>2. /\ \A l \in Conns : c2s'[l] = c2s[l] \/ (c2s'[l] = <<>> /\ broken'[l])
      /\ \A l \in Conns : broken[l] => broken'[l]
  BY <1>0, ZenonT(30) DEF ServerRestart, Break, StreamStationFails
<1> QED BY <1>1, <1>2, Degrade

-----------------------------------------------------------------------------
LEMMA NoGapInductive ==
    ASSUME ~ClockMayStepBack
    PROVE  Inv /\ [Next]_vars => Inv'
<1> SUFFICES ASSUME Inv, [Next]_vars PROVE Inv'
  OBVIOUS
<1>1. TInv'
  BY TypeInductive DEF Inv
<1>2. NoGapInv'
  <2>1. CASE Ingest
    BY <2>1, IngestGap DEF Ingest
  <2>2. CASE SessionStep
    BY <2>2, HelloGap, LatestGap, LockGap, ReplayGap, ReplayStatusGap, SubscribeGap,
       ForwardGap DEF SessionStep
  <2>3. CASE UNCHANGED vars
    BY <2>3, Degrade DEF vars, stationDB, session, subscriber, network, serverDB
  <2>4. CASE Quiescent
    BY <2>3, <2>4 DEF Quiescent
  <2> QED BY <2>1, <2>2, <2>3, <2>4, ConnectGap, SessionEndGap, HandlerGap, LossGap DEF Next
<1> QED BY <1>1, <1>2 DEF Inv

(* Replay and realtime data leave no gap, for any number of items,          *)
(* connections and readings, any capacity of the subscriber channel, and    *)
(* any number of crashes, breaks and failed operations - on a station whose *)
(* clock is not set back.                                                   *)
THEOREM NoGap == ~ClockMayStepBack => (Spec => []GapFree)
<1> SUFFICES ASSUME ~ClockMayStepBack PROVE Spec => []GapFree
  OBVIOUS
<1>1. Init => Inv
  <2> SUFFICES ASSUME Init PROVE Inv
    OBVIOUS
  <2>1. TInv
    BY InitType DEF TInv, CurInv, Init
  <2>2. NoGapInv
    <3>1. GapFree /\ ReplyInv /\ CursorInv /\ ReplayInv /\ RealtimeInv /\ QueueInv
      BY DEF Init, GapFree, ReplyInv, CursorInv, ReplayInv, RealtimeInv, QueueInv
    <3>2. StampInv
      <4>1. now = 0 /\ \A i \in Items : hist[i] = {} /\ stored[i] = {} /\ latest[i] = 0
        BY DEF Init
      <4>2. queue = <<>> /\ \A k \in Conns : c2s[k] = <<>> /\ reply[k].type # "latest"
        BY DEF Init, NoReply
      <4>3. \A i \in Items : Carried(queue, i) = {} /\ \A k \in Conns : Carried(c2s[k], i) = {}
        BY <4>2, EmptyChannel
      <4>4. \A i \in Items : latest[i] \in 0 .. now
        <5>1. 0 \in 0 .. 0
          OBVIOUS
        <5> QED BY <4>1, <5>1, Zenon
      <4> QED BY <4>1, <4>2, <4>3, <4>4 DEF StampInv
    <3>3. FramesInv
      BY EmptyChannel DEF Init, FramesInv
    <3> QED BY <3>1, <3>2, <3>3 DEF NoGapInv
  <2> QED BY <2>1, <2>2 DEF Inv
<1>2. Inv /\ [Next]_vars => Inv'
  BY NoGapInductive
<1>3. Inv => GapFree
  BY DEF Inv, NoGapInv
<1> QED BY <1>1, <1>2, <1>3, PTL DEF Spec

-----------------------------------------------------------------------------
(* Rows under the operations on channels *)

LEMMA RowsOnDef ==
    ASSUME NEW q, NEW r
    PROVE  r \in RowsOn(q) <=> \E n \in DOMAIN q : r \in RowsIn(q[n])
BY DEF RowsOn

LEMMA AppendIndex ==
    ASSUME NEW S, NEW q \in Seq(S), NEW f \in S
    PROVE  /\ Len(q) \in Nat
           /\ \A n \in DOMAIN Append(q, f) :
                \/ n \in DOMAIN q /\ Append(q, f)[n] = q[n]
                \/ n = Len(q) + 1 /\ Append(q, f)[n] = f
           /\ \A n \in DOMAIN q : /\ n \in DOMAIN Append(q, f) /\ Append(q, f)[n] = q[n]
                                  /\ n \in Nat /\ n < Len(q) + 1
           /\ Len(q) + 1 \in DOMAIN Append(q, f) /\ Append(q, f)[Len(q) + 1] = f
<1> DEFINE a == Append(q, f)
<1>1. /\ Len(a) = Len(q) + 1 /\ Len(q) \in Nat
      /\ DOMAIN a = 1 .. Len(a) /\ DOMAIN q = 1 .. Len(q)
      /\ \A n \in 1 .. Len(q) : a[n] = q[n]
      /\ a[Len(q) + 1] = f
  BY AppendProperties, LenProperties
<1> HIDE DEF a
<1>2. /\ \A n \in DOMAIN a : \/ n \in DOMAIN q /\ a[n] = q[n]
                             \/ n = Len(q) + 1 /\ a[n] = f
      /\ \A n \in DOMAIN q : n \in DOMAIN a /\ a[n] = q[n] /\ n \in Nat /\ n < Len(q) + 1
      /\ Len(q) + 1 \in DOMAIN a /\ a[Len(q) + 1] = f
  BY <1>1
<1> QED BY <1>1, <1>2 DEF a

LEMMA TailIndex ==
    ASSUME NEW S, NEW q \in Seq(S), q # <<>>
    PROVE  /\ Head(q) \in S
           /\ 1 \in DOMAIN q /\ q[1] = Head(q)
           /\ \A n \in DOMAIN q : n \in Nat /\ 1 <= n
           /\ \A n \in DOMAIN q : n = 1 \/ (n - 1 \in DOMAIN Tail(q) /\ Tail(q)[n - 1] = q[n])
           /\ \A n \in DOMAIN Tail(q) : /\ n \in Nat /\ 1 <= n
                                        /\ n + 1 \in DOMAIN q /\ Tail(q)[n] = q[n + 1]
<1> DEFINE a == Tail(q)
<1>1. /\ Len(q) \in Nat \ {0} /\ Len(a) = Len(q) - 1
      /\ DOMAIN a = 1 .. Len(a) /\ DOMAIN q = 1 .. Len(q)
      /\ \A n \in 1 .. Len(a) : a[n] = q[n + 1]
      /\ Head(q) = q[1] /\ Head(q) \in S
  BY HeadTailProperties, LenProperties, EmptySeq
<1> HIDE DEF a
<1>2. /\ 1 \in DOMAIN q /\ \A n \in DOMAIN q : n \in Nat /\ 1 <= n
      /\ \A n \in DOMAIN q : n = 1 \/ (n - 1 \in DOMAIN a /\ a[n - 1] = q[n])
      /\ \A n \in DOMAIN a : n \in Nat /\ 1 <= n /\ n + 1 \in DOMAIN q /\ a[n] = q[n + 1]
  BY <1>1
<1> QED BY <1>1, <1>2 DEF a

LEMMA RowsAppend ==
    ASSUME NEW S, NEW q \in Seq(S), NEW f \in S
    PROVE  RowsOn(Append(q, f)) = RowsOn(q) \cup RowsIn(f)
<1>1. \A r : r \in RowsOn(Append(q, f)) <=> r \in RowsOn(q) \/ r \in RowsIn(f)
  <2> DEFINE a == Append(q, f)
  <2>1. /\ \A n \in DOMAIN a : \/ n \in DOMAIN q /\ a[n] = q[n]
                               \/ a[n] = f
        /\ \A n \in DOMAIN q : n \in DOMAIN a /\ a[n] = q[n]
        /\ \E n \in DOMAIN a : a[n] = f
    BY AppendIndex
  <2> HIDE DEF a
  <2>2. \A r : r \in RowsOn(a) <=> r \in RowsOn(q) \/ r \in RowsIn(f)
    BY <2>1, RowsOnDef
  <2> QED BY <2>2 DEF a
<1> QED BY <1>1

LEMMA RowsTail ==
    ASSUME NEW S, NEW q \in Seq(S), q # <<>>
    PROVE  RowsOn(q) = RowsOn(Tail(q)) \cup RowsIn(Head(q))
<1>1. \A r : r \in RowsOn(q) <=> r \in RowsOn(Tail(q)) \/ r \in RowsIn(Head(q))
  <2> DEFINE a == Tail(q)
  <2>1. /\ \A n \in DOMAIN q : \/ q[n] = Head(q)
                               \/ \E m \in DOMAIN a : a[m] = q[n]
        /\ \A n \in DOMAIN a : \E m \in DOMAIN q : a[n] = q[m]
        /\ \E n \in DOMAIN q : q[n] = Head(q)
    BY TailIndex
  <2> HIDE DEF a
  <2>2. \A r : r \in RowsOn(q) <=> r \in RowsOn(a) \/ r \in RowsIn(Head(q))
    BY <2>1, RowsOnDef
  <2> QED BY <2>2 DEF a
<1> QED BY <1>1

LEMMA EmptyRows ==
    ASSUME NEW B
    PROVE  /\ RowsOn(<<>>) = {} /\ RowsBacked(<<>>, B)
           /\ NoBatch(<<>>) /\ BatchFirst(<<>>, B) /\ StatusFree(<<>>)
BY DEF RowsOn, RowsBacked, NoBatch, BatchFirst, StatusFree

LEMMA BackedRowsAppend ==
    ASSUME NEW S, NEW q \in Seq(S), NEW f \in S, NEW B, RowsBacked(q, B),
           \A r \in RowsIn(f) : \A p \in 1 .. r : p \in B \cup RowsOn(q) \cup RowsIn(f)
    PROVE  RowsBacked(Append(q, f), B)
<1> DEFINE a == Append(q, f)
<1>1. /\ Len(q) \in Nat
      /\ \A n \in DOMAIN a : \/ n \in DOMAIN q /\ a[n] = q[n]
                             \/ n = Len(q) + 1 /\ a[n] = f
      /\ \A n \in DOMAIN q : n \in DOMAIN a /\ a[n] = q[n] /\ n \in Nat /\ n < Len(q) + 1
      /\ Len(q) + 1 \in DOMAIN a /\ a[Len(q) + 1] = f
  BY AppendIndex
<1> HIDE DEF a
<1> SUFFICES ASSUME NEW n \in DOMAIN a, NEW r \in RowsIn(a[n]), NEW p \in 1 .. r, p \notin B
             PROVE  \E m \in DOMAIN a : m <= n /\ p \in RowsIn(a[m])
  BY DEF RowsBacked, a
<1>2. CASE n \in DOMAIN q /\ a[n] = q[n]
  BY <1>1, <1>2 DEF RowsBacked
<1>3. CASE n = Len(q) + 1 /\ a[n] = f
  <2>1. p \in RowsOn(q) \/ p \in RowsIn(f)
    BY <1>3
  <2>2. CASE p \in RowsIn(f)
    BY <1>1, <1>3, <2>2
  <2>3. CASE p \in RowsOn(q)
    <3>1. PICK m \in DOMAIN q : p \in RowsIn(q[m])
      BY <2>3, RowsOnDef
    <3> QED BY <1>1, <1>3, <3>1
  <2> QED BY <2>1, <2>2, <2>3
<1> QED BY <1>1, <1>2, <1>3

LEMMA BackedRowsTail ==
    ASSUME NEW S, NEW q \in Seq(S), q # <<>>, NEW B, RowsBacked(q, B)
    PROVE  /\ \A r \in RowsIn(Head(q)) : \A p \in 1 .. r : p \in B \cup RowsIn(Head(q))
           /\ RowsBacked(Tail(q), B \cup RowsIn(Head(q)))
<1> DEFINE a == Tail(q)
<1>1. /\ 1 \in DOMAIN q /\ q[1] = Head(q)
      /\ \A n \in DOMAIN q : n \in Nat /\ 1 <= n
      /\ \A n \in DOMAIN q : n = 1 \/ (n - 1 \in DOMAIN a /\ a[n - 1] = q[n])
      /\ \A n \in DOMAIN a : n \in Nat /\ 1 <= n /\ n + 1 \in DOMAIN q /\ a[n] = q[n + 1]
  BY TailIndex
<1> HIDE DEF a
<1>2. ASSUME NEW r \in RowsIn(Head(q)), NEW p \in 1 .. r
      PROVE  p \in B \cup RowsIn(Head(q))
  <2>1. \A m \in DOMAIN q : m <= 1 => m = 1
    BY <1>1
  <2> QED BY <1>1, <2>1 DEF RowsBacked
<1>3. RowsBacked(a, B \cup RowsIn(Head(q)))
  <2> SUFFICES ASSUME NEW n \in DOMAIN a, NEW r \in RowsIn(a[n]), NEW p \in 1 .. r,
                      p \notin B, p \notin RowsIn(Head(q))
               PROVE  \E m \in DOMAIN a : m <= n /\ p \in RowsIn(a[m])
    BY DEF RowsBacked
  <2>1. PICK m \in DOMAIN q : m <= n + 1 /\ p \in RowsIn(q[m])
    BY <1>1 DEF RowsBacked
  <2>2. m # 1
    BY <1>1, <2>1
  <2>3. m - 1 \in DOMAIN a /\ a[m - 1] = q[m]
    BY <1>1, <2>2
  <2>4. m \in Nat /\ n \in Nat
    BY <1>1
  <2>5. m - 1 <= n
    BY <2>1, <2>4
  <2> QED BY <2>1, <2>3, <2>5
<1> QED BY <1>2, <1>3 DEF a

LEMMA BackedRowsMore ==
    ASSUME NEW q, NEW B, NEW C, RowsBacked(q, B), B \subseteq C
    PROVE  RowsBacked(q, C)
BY DEF RowsBacked

LEMMA FreeHasNoRows ==
    ASSUME NEW q, StatusFree(q), NEW B
    PROVE  RowsBacked(q, B) /\ NoBatch(q) /\ BatchFirst(q, B) /\ RowsOn(q) = {}
<1>1. \A n \in DOMAIN q : RowsIn(q[n]) = {}
  BY DEF StatusFree, IsStatus, RowsIn
<1>2. RowsOn(q) = {}
  BY <1>1, RowsOnDef
<1>3. NoBatch(q) /\ BatchFirst(q, B)
  BY DEF StatusFree, IsStatus, NoBatch, BatchFirst
<1> QED BY <1>1, <1>2, <1>3 DEF RowsBacked

LEMMA NoBatchFirst ==
    ASSUME NEW q, NoBatch(q), NEW L
    PROVE  BatchFirst(q, L)
BY DEF NoBatch, BatchFirst

LEMMA BatchAppend ==
    ASSUME NEW S, NEW q \in Seq(S), NEW f \in S, NEW L
    PROVE  /\ f.type # "statusReplay" /\ NoBatch(q) => NoBatch(Append(q, f))
           /\ f.type # "statusReplay" /\ BatchFirst(q, L) => BatchFirst(Append(q, f), L)
           /\ StatusFree(q) /\ (\A r \in f.rows : r \notin L) => BatchFirst(Append(q, f), L)
           /\ StatusFree(q) /\ ~IsStatus(f) => StatusFree(Append(q, f))
<1> DEFINE a == Append(q, f)
<1>1. /\ Len(q) \in Nat
      /\ \A n \in DOMAIN a : \/ n \in DOMAIN q /\ a[n] = q[n]
                             \/ n = Len(q) + 1 /\ a[n] = f
      /\ \A n \in DOMAIN q : n \in DOMAIN a /\ a[n] = q[n] /\ n \in Nat /\ n < Len(q) + 1
  BY AppendIndex
<1> HIDE DEF a
<1>2. f.type # "statusReplay" /\ NoBatch(q) => NoBatch(a)
  BY <1>1 DEF NoBatch
<1>3. ASSUME f.type # "statusReplay", BatchFirst(q, L) PROVE BatchFirst(a, L)
  <2> SUFFICES ASSUME NEW n \in DOMAIN a, a[n].type = "statusReplay"
               PROVE  /\ \A r \in a[n].rows : r \notin L
                      /\ \A m \in DOMAIN a : m < n => ~IsStatus(a[m])
    BY DEF BatchFirst
  <2>1. n \in DOMAIN q /\ a[n] = q[n]
    BY <1>1, <1>3
  <2>2. \A m \in DOMAIN a : m < n => m \in DOMAIN q /\ a[m] = q[m]
    BY <1>1, <2>1
  <2> QED BY <1>3, <2>1, <2>2 DEF BatchFirst
<1>4. ASSUME StatusFree(q), \A r \in f.rows : r \notin L PROVE BatchFirst(a, L)
  <2> SUFFICES ASSUME NEW n \in DOMAIN a, a[n].type = "statusReplay"
               PROVE  /\ \A r \in a[n].rows : r \notin L
                      /\ \A m \in DOMAIN a : m < n => ~IsStatus(a[m])
    BY DEF BatchFirst
  <2>1. n = Len(q) + 1 /\ a[n] = f
    BY <1>1, <1>4 DEF StatusFree, IsStatus
  <2>2. \A m \in DOMAIN a : m < n => m \in DOMAIN q /\ a[m] = q[m]
    BY <1>1, <2>1
  <2> QED BY <1>4, <2>1, <2>2 DEF StatusFree
<1>5. StatusFree(q) /\ ~IsStatus(f) => StatusFree(a)
  BY <1>1 DEF StatusFree
<1> QED BY <1>2, <1>3, <1>4, <1>5 DEF a

LEMMA BatchTail ==
    ASSUME NEW S, NEW q \in Seq(S), q # <<>>, NEW L
    PROVE  /\ StatusFree(q) => ~IsStatus(Head(q)) /\ StatusFree(Tail(q))
           /\ NoBatch(q) => NoBatch(Tail(q))
           /\ BatchFirst(q, L) => BatchFirst(Tail(q), L)
           /\ BatchFirst(q, L) /\ IsStatus(Head(q)) => NoBatch(Tail(q))
           /\ BatchFirst(q, L) /\ Head(q).type = "statusReplay" =>
                \A r \in Head(q).rows : r \notin L
<1> DEFINE a == Tail(q)
<1>1. /\ 1 \in DOMAIN q /\ q[1] = Head(q)
      /\ \A n \in DOMAIN a : n \in Nat /\ 1 <= n /\ n + 1 \in DOMAIN q /\ a[n] = q[n + 1]
  BY TailIndex
<1> HIDE DEF a
<1>2. StatusFree(q) => ~IsStatus(Head(q)) /\ StatusFree(a)
  BY <1>1 DEF StatusFree
<1>3. NoBatch(q) => NoBatch(a)
  BY <1>1 DEF NoBatch
<1>4. ASSUME BatchFirst(q, L) PROVE BatchFirst(a, L)
  <2> SUFFICES ASSUME NEW n \in DOMAIN a, a[n].type = "statusReplay"
               PROVE  /\ \A r \in a[n].rows : r \notin L
                      /\ \A m \in DOMAIN a : m < n => ~IsStatus(a[m])
    BY DEF BatchFirst
  <2>1. n + 1 \in DOMAIN q /\ a[n] = q[n + 1]
    BY <1>1
  <2>2. \A m \in DOMAIN a : m < n => m + 1 \in DOMAIN q /\ m + 1 < n + 1 /\ a[m] = q[m + 1]
    BY <1>1
  <2> QED BY <1>4, <2>1, <2>2 DEF BatchFirst
<1>5. ASSUME BatchFirst(q, L), IsStatus(Head(q)) PROVE NoBatch(a)
  <2> SUFFICES ASSUME NEW n \in DOMAIN a, a[n].type = "statusReplay" PROVE FALSE
    BY DEF NoBatch
  <2>1. n + 1 \in DOMAIN q /\ a[n] = q[n + 1] /\ 1 < n + 1
    BY <1>1
  <2> QED BY <1>1, <1>5, <2>1 DEF BatchFirst
<1>6. BatchFirst(q, L) /\ Head(q).type = "statusReplay" => \A r \in Head(q).rows : r \notin L
  BY <1>1 DEF BatchFirst
<1> QED BY <1>2, <1>3, <1>4, <1>5, <1>6 DEF a

-----------------------------------------------------------------------------
(* Facts about a state *)

LInv == TInv /\ RegistryInv /\ LogInv

LEMMA LogTypes ==
    ASSUME LInv
    PROVE  /\ c2s \in [Conns -> Seq(Frame)] /\ reply \in [Conns -> Reply]
           /\ broken \in [Conns -> BOOLEAN] /\ spc \in [Conns -> ServerPhase]
           /\ work \in [Conns -> [items : SUBSET Items, rows : SUBSET Nat]]
           /\ queue \in Seq(Msg) /\ statusLog \in SUBSET Nat
           /\ itemStatus \in [Items -> Nat]
           /\ log \in Seq([item : Items, status : Status])
           /\ DOMAIN log = 1 .. Len(log) /\ Len(log) \in Nat
           /\ latestRow \in Nat
           /\ cpc # "idle" => cur \in Conns
BY CurIsConn, LenProperties DEF LInv, TInv, TypeOK, Msg

(* While one handler is past LoadOrStore, the others have nothing in hand *)
(* and no status frame to take.                                           *)
LEMMA Alone ==
    ASSUME LInv, NEW k \in Conns, Registered(k), NEW l \in Conns, l # k
    PROVE  /\ spc[l] \in {"gone", "hello"} /\ work[l].rows = {}
           /\ Alive(l) => StatusFree(c2s[l]) /\ Early(l) /\ reply[l].type # "latest"
<1>1. spc[l] \in {"gone", "hello"}
  BY DEF LInv, RegistryInv, Registered
<1>2. work[l].rows = {}
  BY <1>1 DEF LInv, LogInv, WorkInv, WorkOK
<1>3. Alive(l) => Early(l)
  BY <1>1 DEF Alive, Early
<1>4. Early(l) => StatusFree(c2s[l]) /\ reply[l].type # "latest"
  BY DEF LInv, LogInv, PhaseInv
<1> QED BY <1>1, <1>2, <1>3, <1>4

(* A row that is not stored is later than every stored one. *)
LEMMA NewRowIsLater ==
    ASSUME StatusLogPrefix, statusLog \in SUBSET Nat, NEW r \in Nat \ {0}, r \notin statusLog,
           NEW p \in statusLog
    PROVE  p < r
<1>1. p \in Nat
  OBVIOUS
<1>2. ASSUME r <= p PROVE FALSE
  <2>1. r \in 1 .. p
    BY <1>1, <1>2
  <2> QED BY <2>1 DEF StatusLogPrefix
<1> QED BY <1>1, <1>2

-----------------------------------------------------------------------------
(* Steps that share an effect *)

(* Handlers end and connections break; the rest stays. *)
LEMMA FadeLog ==
    ASSUME LInv,
           UNCHANGED <<log, ingestMu, cpc, cur, latestRow, subscribed, queue, statusLog,
                       itemStatus, reply>>,
           \A l \in Conns : broken[l] => broken'[l],
           \A l \in Conns :
              \/ spc'[l] = spc[l] /\ work'[l] = work[l] /\ c2s'[l] = c2s[l]
              \/ /\ ~Alive(l)' /\ work'[l].rows = {}
                 /\ c2s'[l] = c2s[l] \/ c2s'[l] = <<>>
    PROVE  LogInv'
<1> USE DEF LInv, LogInv
<1>1. StatusLogPrefix' /\ ItemStatusFresh'
  BY DEF StatusLogPrefix, ItemStatusFresh, RowsOf
<1>2. RowInv'
  BY EmptyRows DEF RowInv
<1>3. \A l \in Conns : (Alive(l)' => Alive(l) /\ spc'[l] = spc[l] /\ work'[l] = work[l]
                                                /\ c2s'[l] = c2s[l])
                      /\ (Early(l)' => Early(l) /\ Alive(l)')
  BY DEF Alive, Early
<1>4. cpc # "idle" => cur \in Conns
  BY LogTypes
<1>5. PhaseInv'
  BY <1>3, <1>4 DEF PhaseInv
<1>6. \A l \in Conns : \A row : StillLatest(l, row) => StillLatest(l, row)'
  BY <1>3 DEF StillLatest
<1>7. LatestInv'
  BY <1>4, <1>6 DEF LatestInv
<1>8. WorkInv'
  <2> SUFFICES ASSUME NEW l \in Conns PROVE WorkOK(l)'
    BY DEF WorkInv
  <2>1. CASE spc'[l] = spc[l] /\ work'[l] = work[l]
    BY <2>1 DEF WorkInv, WorkOK, Held, RowsOf
  <2>2. CASE ~Alive(l)' /\ work'[l].rows = {}
    BY <2>2 DEF WorkOK, RowsOf, Alive
  <2> QED BY <2>1, <2>2
<1>9. RowFramesInv'
  BY <1>3 DEF RowFramesInv, Held
<1>10. RowQueueInv'
  <2> SUFFICES ASSUME cpc # "idle", Alive(cur)', ~broken'[cur]
               PROVE  /\ Alive(cur) /\ ~broken[cur] /\ c2s'[cur] = c2s[cur]
                      /\ Held(cur)' = Held(cur)
    BY DEF RowQueueInv
  <2> QED BY <1>3, <1>4 DEF Held
<1> QED BY <1>1, <1>2, <1>5, <1>7, <1>8, <1>9, <1>10

(* The registered handler k works: what it has and what is on its way to it *)
(* does not get less, and what it stores it stores in order.                *)
LEMMA HandlerRows ==
    ASSUME LInv, NEW k \in Conns,
           spc[k] \in {"run", "items", "logs"}, spc'[k] \in {"run", "items", "logs"},
           UNCHANGED <<log, ingestMu, cpc, cur, latestRow, subscribed, queue, reply, broken>>,
           \A l \in Conns \ {k} :
              spc'[l] = spc[l] /\ work'[l] = work[l] /\ c2s'[l] = c2s[l],
           statusLog \subseteq statusLog',
           Held(k) \cup RowsOn(c2s[k]) \subseteq Held(k)' \cup RowsOn(c2s'[k]),
           statusLog' \subseteq DOMAIN log, RowsOn(c2s'[k]) \subseteq DOMAIN log,
           work'[k].rows \subseteq DOMAIN log,
           spc[k] = "run" /\ StatusFree(c2s[k]) =>
              statusLog' = statusLog /\ spc'[k] = "run" /\ StatusFree(c2s'[k]),
           RowsBacked(c2s'[k], Held(k)'),
           BatchFirst(c2s'[k], statusLog'),
           spc'[k] # "run" => NoBatch(c2s'[k])
    PROVE  /\ RowInv' /\ PhaseInv' /\ LatestInv' /\ RowFramesInv' /\ RowQueueInv'
           /\ \A l \in Conns \ {k} : WorkOK(l)'
<1> USE DEF LInv, LogInv
<1>1. Registered(k)
  BY DEF Registered
<1>2. \A l \in Conns \ {k} :
        /\ spc[l] \in {"gone", "hello"} /\ work[l].rows = {}
        /\ Alive(l) => StatusFree(c2s[l]) /\ Early(l) /\ reply[l].type # "latest"
  BY <1>1, Alone
<1>3. cpc # "idle" => cur \in Conns
  BY LogTypes
<1>4. RowInv'
  BY DEF RowInv
<1>5. \A l \in Conns : Early(l)' => Early(l) /\ l # k
  BY DEF Early
<1>6. PhaseInv'
  BY <1>3, <1>5 DEF PhaseInv
<1>7. \A l \in Conns : \A row : StillLatest(l, row) /\ (l = k \/ ~Early(l)) => StillLatest(l, row)'
  <2> SUFFICES ASSUME NEW l \in Conns, NEW row, StillLatest(l, row), l = k \/ ~Early(l)
               PROVE  StillLatest(l, row)'
    OBVIOUS
  <2>1. \A p \in 1 .. row : p \in statusLog'
    BY DEF StillLatest
  <2>2. CASE l = k
    BY <2>1, <2>2 DEF StillLatest, Alive
  <2>3. CASE l # k
    BY <1>2, <2>1, <2>3 DEF StillLatest, Alive
  <2> QED BY <2>2, <2>3
<1>8. LatestInv'
  <2>1. ASSUME NEW l \in Conns, reply[l].type = "latest" PROVE StillLatest(l, reply[l].row)'
    <3>1. StillLatest(l, reply[l].row) /\ ~Early(l)
      BY <2>1 DEF LatestInv, PhaseInv
    <3>2. StillLatest(l, reply[l].row)'
      BY <1>7, <3>1
    <3> QED BY <3>2
  <2>2. ASSUME cpc \in {"lock", "replay"} PROVE StillLatest(cur, latestRow)'
    <3>1. StillLatest(cur, latestRow) /\ ~Early(cur) /\ cur \in Conns
      BY <1>3, <2>2 DEF LatestInv, PhaseInv
    <3>2. StillLatest(cur, latestRow)'
      BY <1>7, <3>1
    <3> QED BY <3>2
  <2> QED BY <2>1, <2>2 DEF LatestInv
<1>9. RowFramesInv'
  <2> SUFFICES ASSUME NEW l \in Conns \ {k}, Alive(l)'
               PROVE  /\ RowsBacked(c2s'[l], Held(l)') /\ BatchFirst(c2s'[l], statusLog')
                      /\ NoBatch(c2s'[l])
    BY DEF RowFramesInv
  <2>1. StatusFree(c2s'[l])
    BY <1>2 DEF Alive
  <2> QED BY <2>1, FreeHasNoRows
<1>10. RowQueueInv'
  <2> SUFFICES ASSUME cpc # "idle", Alive(cur)', ~broken[cur]
               PROVE  /\ cpc = "subscribe" => DOMAIN log \subseteq Held(cur)' \cup RowsOn(c2s'[cur])
                      /\ subscribed => DOMAIN log \subseteq Held(cur)' \cup RowsOn(c2s'[cur])
                                                             \cup RowsOn(queue)
                      /\ cpc = "realtime" => RowsBacked(queue, Held(cur)' \cup RowsOn(c2s'[cur]))
    BY DEF RowQueueInv
  <2>1. Alive(cur) /\ cur \in Conns
    BY <1>3 DEF Alive
  <2>2. Held(cur) \cup RowsOn(c2s[cur]) \subseteq Held(cur)' \cup RowsOn(c2s'[cur])
    <3>1. CASE cur = k
      BY <3>1
    <3>2. CASE cur # k
      BY <2>1, <3>2 DEF Held
    <3> QED BY <3>1, <3>2
  <2>3. /\ cpc = "subscribe" => DOMAIN log \subseteq Held(cur) \cup RowsOn(c2s[cur])
        /\ subscribed => DOMAIN log \subseteq Held(cur) \cup RowsOn(c2s[cur]) \cup RowsOn(queue)
        /\ cpc = "realtime" => RowsBacked(queue, Held(cur) \cup RowsOn(c2s[cur]))
    BY <2>1 DEF RowQueueInv
  <2>4. cpc = "realtime" => RowsBacked(queue, Held(cur)' \cup RowsOn(c2s'[cur]))
    BY <2>2, <2>3, BackedRowsMore
  <2> QED BY <2>2, <2>3, <2>4
<1>11. ASSUME NEW l \in Conns \ {k} PROVE WorkOK(l)'
  <2>1. /\ spc'[l] # "logs" /\ work'[l].rows = {}
    BY <1>2
  <2> QED BY <2>1 DEF WorkOK, RowsOf
<1> QED BY <1>4, <1>6, <1>8, <1>9, <1>10, <1>11

-----------------------------------------------------------------------------
(* The handler *)

LEMMA DataLog == ASSUME LInv, NEW k \in Conns, handleDataBatch(k) PROVE LogInv'
<1> USE DEF LInv, LogInv
<1> DEFINE q == c2s[k]
<1>1. /\ spc[k] = "run" /\ q # <<>> /\ Head(q).type = "data"
      /\ c2s' = [c2s EXCEPT ![k] = Tail(@)]
      /\ UNCHANGED <<log, ingestMu, cpc, cur, latestRow, subscribed, queue, reply, broken,
                     spc, work, statusLog>>
      /\ itemStatus' = [itemStatus EXCEPT ![Head(q).item] =
                            IF Head(q).item \in GpioItems /\ ~Head(q).replay THEN 0 ELSE @]
  BY DEF handleDataBatch, Receives, stationDB, session, subscriber, handler
<1>2. /\ q \in Seq(Frame) /\ c2s'[k] = Tail(q)
      /\ \A l \in Conns \ {k} : c2s'[l] = c2s[l]
  BY <1>1, LogTypes
<1>3. RowsIn(Head(q)) = {} /\ ~IsStatus(Head(q))
  BY <1>1 DEF RowsIn, IsStatus
<1>4. RowsOn(c2s'[k]) = RowsOn(q)
  BY <1>1, <1>2, <1>3, RowsTail
<1>5. RowsBacked(q, Held(k)) /\ BatchFirst(q, statusLog)
  BY <1>1 DEF RowFramesInv, Alive
<1>6. RowsBacked(Tail(q), Held(k) \cup RowsIn(Head(q)))
  BY <1>1, <1>2, <1>5, BackedRowsTail
<1>7. Held(k)' = Held(k) /\ Held(k) \cup RowsIn(Head(q)) = Held(k)
  BY <1>1, <1>3 DEF Held
<1>8. RowsBacked(c2s'[k], Held(k)')
  BY <1>2, <1>6, <1>7
<1>9. BatchFirst(c2s'[k], statusLog) /\ (StatusFree(q) => StatusFree(c2s'[k]))
  BY <1>1, <1>2, <1>5, BatchTail
<1>10. RowsOn(q) \subseteq DOMAIN log /\ statusLog \subseteq DOMAIN log /\ work[k].rows \subseteq DOMAIN log
  BY DEF RowInv
<1>11. /\ RowInv' /\ PhaseInv' /\ LatestInv' /\ RowFramesInv' /\ RowQueueInv'
       /\ \A l \in Conns \ {k} : WorkOK(l)'
  BY <1>1, <1>2, <1>4, <1>7, <1>8, <1>9, <1>10, HandlerRows
<1>12. WorkOK(k)'
  BY <1>1 DEF WorkOK, WorkInv, RowsOf
<1>13. StatusLogPrefix'
  BY <1>1 DEF StatusLogPrefix
<1>14. ItemStatusFresh'
  <2> SUFFICES ASSUME NEW i \in Items, NEW r \in RowsOf(i, statusLog) PROVE r <= itemStatus'[i]
    BY <1>1 DEF ItemStatusFresh, RowsOf
  <2>1. i \notin GpioItems
    BY DEF RowsOf, RowInv
  <2>2. itemStatus'[i] = itemStatus[i]
    BY <1>1, <2>1, LogTypes
  <2> QED BY <2>2 DEF ItemStatusFresh
<1> QED BY <1>11, <1>12, <1>13, <1>14 DEF WorkInv

LEMMA StatusLog == ASSUME LInv, NEW k \in Conns, handleItemStatus(k) PROVE LogInv'
<1> USE DEF LInv, LogInv
<1> DEFINE q == c2s[k]
           row == Head(q).row
<1>1. /\ spc[k] = "run" /\ q # <<>> /\ Head(q).type = "status"
      /\ c2s' = [c2s EXCEPT ![k] = Tail(@)]
      /\ statusLog' = statusLog \cup {row}
      /\ UNCHANGED <<log, ingestMu, cpc, cur, latestRow, subscribed, queue, reply, broken,
                     spc, work>>
      /\ itemStatus' = [itemStatus EXCEPT ![log[row].item] =
                            IF row \in statusLog THEN @ ELSE row]
  BY DEF handleItemStatus, Receives, stationDB, session, subscriber, handler
<1>2. /\ q \in Seq(Frame) /\ c2s'[k] = Tail(q)
      /\ \A l \in Conns \ {k} : c2s'[l] = c2s[l]
  BY <1>1, LogTypes
<1>3. RowsIn(Head(q)) = {row} /\ IsStatus(Head(q))
  BY <1>1 DEF RowsIn, IsStatus
<1>4. RowsOn(q) = RowsOn(c2s'[k]) \cup {row}
  BY <1>1, <1>2, <1>3, RowsTail
<1>5. RowsBacked(q, Held(k)) /\ BatchFirst(q, statusLog)
  BY <1>1 DEF RowFramesInv, Alive
<1>6. /\ \A p \in 1 .. row : p \in Held(k) \cup {row}
      /\ RowsBacked(Tail(q), Held(k) \cup {row})
  BY <1>1, <1>2, <1>3, <1>5, BackedRowsTail
<1>7. work[k].rows = {} /\ Held(k) = statusLog /\ Held(k)' = statusLog \cup {row}
  BY <1>1 DEF Held, WorkInv, WorkOK
<1>8. RowsBacked(c2s'[k], Held(k)')
  BY <1>2, <1>6, <1>7
<1>9. NoBatch(c2s'[k]) /\ BatchFirst(c2s'[k], statusLog')
  BY <1>1, <1>2, <1>3, <1>5, BatchTail, NoBatchFirst
<1>10. ~StatusFree(q)
  BY <1>1, <1>2, <1>3, BatchTail
<1>11. RowsOn(q) \subseteq DOMAIN log /\ statusLog \subseteq DOMAIN log
  BY DEF RowInv
<1>12. /\ RowInv' /\ PhaseInv' /\ LatestInv' /\ RowFramesInv' /\ RowQueueInv'
       /\ \A l \in Conns \ {k} : WorkOK(l)'
  BY <1>1, <1>2, <1>4, <1>7, <1>8, <1>9, <1>10, <1>11, HandlerRows
<1>13. WorkOK(k)'
  BY <1>1, <1>7 DEF WorkOK, RowsOf
<1>14. StatusLogPrefix'
  BY <1>1, <1>6, <1>7 DEF StatusLogPrefix
<1>15. ItemStatusFresh'
  <2> SUFFICES ASSUME NEW i \in Items, NEW r \in RowsOf(i, statusLog \cup {row})
               PROVE  r <= itemStatus'[i]
    BY <1>1 DEF ItemStatusFresh, RowsOf
  <2>1. /\ row \in Nat \ {0} /\ log[row].item \in Items /\ statusLog \in SUBSET Nat
        /\ itemStatus \in [Items -> Nat]
    <3>1. row \in 1 .. Len(log) /\ Len(log) \in Nat
      BY <1>4, <1>11, LogTypes
    <3>2. log[row] \in [item : Items, status : Status]
      BY <3>1, LogTypes, ElementOfSeq
    <3> QED BY <3>1, <3>2, LogTypes, SMTT(30)
  <2>2. CASE i # log[row].item
    BY <1>1, <2>1, <2>2 DEF ItemStatusFresh, RowsOf
  <2>3. CASE i = log[row].item /\ row \in statusLog
    BY <1>1, <2>1, <2>3 DEF ItemStatusFresh, RowsOf
  <2>4. CASE i = log[row].item /\ row \notin statusLog
    <3>1. itemStatus'[i] = row
      BY <1>1, <2>1, <2>4
    <3>2. r = row \/ r \in statusLog
      BY DEF RowsOf
    <3>3. r \in statusLog => r < row /\ r \in Nat
      BY <2>1, <2>4, NewRowIsLater
    <3> QED BY <2>1, <3>1, <3>2, <3>3
  <2> QED BY <2>2, <2>3, <2>4
<1> QED BY <1>12, <1>13, <1>14, <1>15 DEF WorkInv

LEMMA ReplayedLog == ASSUME LInv, NEW k \in Conns, handleStatusReplay(k) PROVE LogInv'
<1> USE DEF LInv, LogInv
<1> DEFINE q == c2s[k]
           rows == Head(q).rows
<1>1. /\ spc[k] = "run" /\ q # <<>> /\ Head(q).type = "statusReplay"
      /\ c2s' = [c2s EXCEPT ![k] = Tail(@)]
      /\ spc' = [spc EXCEPT ![k] = "items"]
      /\ work' = [work EXCEPT ![k] =
                     [items |-> {i \in Items : RowsOf(i, rows) # {}}, rows |-> rows]]
      /\ UNCHANGED <<log, ingestMu, cpc, cur, latestRow, subscribed, queue, reply, broken,
                     statusLog, itemStatus>>
  BY DEF handleStatusReplay, Receives, stationDB, session, subscriber, serverDB
<1>2. /\ q \in Seq(Frame) /\ c2s'[k] = Tail(q) /\ spc'[k] = "items"
      /\ work'[k].rows = rows /\ work'[k].items = {i \in Items : RowsOf(i, rows) # {}}
      /\ \A l \in Conns \ {k} : c2s'[l] = c2s[l] /\ spc'[l] = spc[l] /\ work'[l] = work[l]
  BY <1>1, LogTypes
<1>3. RowsIn(Head(q)) = rows /\ IsStatus(Head(q))
  BY <1>1 DEF RowsIn, IsStatus
<1>4. RowsOn(q) = RowsOn(c2s'[k]) \cup rows
  BY <1>1, <1>2, <1>3, RowsTail
<1>5. RowsBacked(q, Held(k)) /\ BatchFirst(q, statusLog)
  BY <1>1 DEF RowFramesInv, Alive
<1>6. /\ \A r \in rows : \A p \in 1 .. r : p \in Held(k) \cup rows
      /\ RowsBacked(Tail(q), Held(k) \cup rows)
  <2>1. /\ \A r \in RowsIn(Head(q)) : \A p \in 1 .. r : p \in Held(k) \cup RowsIn(Head(q))
        /\ RowsBacked(Tail(q), Held(k) \cup RowsIn(Head(q)))
    BY <1>1, <1>2, <1>5, BackedRowsTail
  <2> QED BY <1>3, <2>1
<1>7. Held(k) = statusLog /\ Held(k)' = statusLog \cup rows
  BY <1>1, <1>2 DEF Held, WorkInv, WorkOK
<1>8. RowsBacked(c2s'[k], Held(k)')
  BY <1>2, <1>6, <1>7
<1>9. /\ NoBatch(c2s'[k]) /\ BatchFirst(c2s'[k], statusLog')
      /\ \A r \in rows : r \notin statusLog
  BY <1>1, <1>2, <1>3, <1>5, BatchTail, NoBatchFirst
<1>10. ~StatusFree(q)
  BY <1>1, <1>2, <1>3, BatchTail
<1>11. RowsOn(q) \subseteq DOMAIN log /\ statusLog \subseteq DOMAIN log
  BY DEF RowInv
<1>12. /\ RowInv' /\ PhaseInv' /\ LatestInv' /\ RowFramesInv' /\ RowQueueInv'
       /\ \A l \in Conns \ {k} : WorkOK(l)'
  BY <1>1, <1>2, <1>4, <1>7, <1>8, <1>9, <1>10, <1>11, HandlerRows
<1>13. WorkOK(k)'
  <2>1. \A i \in Items \ work'[k].items : RowsOf(i, work[k].rows)' = {}
    BY <1>1, <1>2 DEF RowsOf
  <2>2. \A r \in work'[k].rows : \A p \in 1 .. r : p \in Held(k)'
    BY <1>2, <1>6, <1>7
  <2> QED BY <1>1, <1>2, <1>9, <2>1, <2>2 DEF WorkOK
<1>14. StatusLogPrefix' /\ ItemStatusFresh'
  BY <1>1 DEF StatusLogPrefix, ItemStatusFresh, RowsOf
<1> QED BY <1>12, <1>13, <1>14 DEF WorkInv

(* The handler works on a replayed batch: c2s stays as it is, and the rows  *)
(* it has stored or in hand are the same.                                   *)
LEMMA BatchStep ==
    ASSUME LInv, NEW k \in Conns, spc[k] \in {"items", "logs"},
           spc'[k] \in {"run", "items", "logs"},
           UNCHANGED <<log, ingestMu, cpc, cur, latestRow, subscribed, queue, reply, broken, c2s>>,
           \A l \in Conns \ {k} : spc'[l] = spc[l] /\ work'[l] = work[l],
           Held(k)' = Held(k), statusLog \subseteq statusLog', work'[k].rows \subseteq work[k].rows
    PROVE  /\ RowInv' /\ PhaseInv' /\ LatestInv' /\ RowFramesInv' /\ RowQueueInv'
           /\ \A l \in Conns \ {k} : WorkOK(l)'
<1> USE DEF LInv, LogInv
<1>1. RowsBacked(c2s[k], Held(k)) /\ NoBatch(c2s[k])
  BY DEF RowFramesInv, Alive
<1>2. BatchFirst(c2s[k], statusLog')
  BY <1>1, NoBatchFirst
<1>3. /\ statusLog \subseteq DOMAIN log /\ work[k].rows \subseteq DOMAIN log
      /\ RowsOn(c2s[k]) \subseteq DOMAIN log
  BY DEF RowInv
<1>4. statusLog' \subseteq DOMAIN log /\ work'[k].rows \subseteq DOMAIN log
  BY <1>3 DEF Held
<1> QED BY <1>1, <1>2, <1>3, <1>4, HandlerRows

LEMMA UpdateItemLog ==
    ASSUME LInv, NEW k \in Conns, NEW i \in Items, UpdateReplayedItem(k, i)
    PROVE  LogInv'
<1> USE DEF LInv, LogInv
<1>1. PICK r \in work[k].rows : /\ IsLatest(r, RowsOf(i, work[k].rows))
                                /\ itemStatus' = [itemStatus EXCEPT ![i] = r]
  BY DEF UpdateReplayedItem
<1>2. /\ spc[k] = "items" /\ i \in work[k].items
      /\ work' = [work EXCEPT ![k] = [items |-> @.items \ {i}, rows |-> @.rows]]
      /\ UNCHANGED <<log, ingestMu, cpc, cur, latestRow, subscribed, queue, reply, broken, c2s,
                     spc, statusLog>>
  BY DEF UpdateReplayedItem, stationDB, session, subscriber, network
<1>3. /\ work'[k].rows = work[k].rows /\ work'[k].items = work[k].items \ {i}
      /\ \A l \in Conns \ {k} : work'[l] = work[l]
  BY <1>2, LogTypes
<1>4. /\ RowInv' /\ PhaseInv' /\ LatestInv' /\ RowFramesInv' /\ RowQueueInv'
      /\ \A l \in Conns \ {k} : WorkOK(l)'
  <2>1. Held(k)' = Held(k)
    BY <1>2, <1>3 DEF Held
  <2> QED BY <1>2, <1>3, <2>1, BatchStep
<1>5. /\ itemStatus'[i] = r /\ \A j \in Items \ {i} : itemStatus'[j] = itemStatus[j]
  BY <1>1, LogTypes
<1>6. /\ r \in Nat \ {0} /\ statusLog \in SUBSET Nat /\ work[k].rows \in SUBSET Nat
      /\ r \notin statusLog
  BY LogTypes DEF RowInv, WorkInv, WorkOK
<1>7. \A p \in RowsOf(i, work[k].rows) : p <= r
  BY <1>1 DEF IsLatest
<1>8. WorkOK(k)'
  <2>1. \A j \in Items \ work'[k].items :
          \A p \in RowsOf(j, work[k].rows) : p <= itemStatus'[j]
    BY <1>3, <1>5, <1>7 DEF WorkInv, WorkOK
  <2>2. \A j \in Items : RowsOf(j, work[k].rows)' = RowsOf(j, work[k].rows)
    BY <1>2, <1>3 DEF RowsOf
  <2>3. Held(k)' = Held(k)
    BY <1>2, <1>3 DEF Held
  <2> QED BY <1>2, <1>3, <2>1, <2>2, <2>3 DEF WorkInv, WorkOK
<1>9. StatusLogPrefix'
  BY <1>2 DEF StatusLogPrefix
<1>10. ItemStatusFresh'
  <2> SUFFICES ASSUME NEW j \in Items, NEW p \in RowsOf(j, statusLog) PROVE p <= itemStatus'[j]
    BY <1>2 DEF ItemStatusFresh, RowsOf
  <2>1. p \in statusLog
    BY DEF RowsOf
  <2>2. p < r /\ p \in Nat
    BY <1>6, <2>1, NewRowIsLater
  <2> QED BY <1>5, <1>6, <2>2 DEF ItemStatusFresh
<1> QED BY <1>4, <1>8, <1>9, <1>10 DEF WorkInv

LEMMA BatchDoneLog ==
    ASSUME LInv, NEW k \in Conns, ReplayedItemsDone(k) \/ ReplayedLogsDone(k)
    PROVE  LogInv'
<1> USE DEF LInv, LogInv
<1>1. /\ UNCHANGED <<log, ingestMu, cpc, cur, latestRow, subscribed, queue, reply, broken, c2s,
                     work, statusLog, itemStatus>>
      /\ \/ /\ spc[k] = "items" /\ work[k].items = {}
            /\ spc' = [spc EXCEPT ![k] = "logs"]
         \/ /\ spc[k] = "logs" /\ work[k].rows = {}
            /\ spc' = [spc EXCEPT ![k] = "run"]
  BY DEF ReplayedItemsDone, ReplayedLogsDone, stationDB, session, subscriber, network, serverDB
<1>2. /\ \/ spc'[k] = "logs" /\ work[k].items = {} /\ spc[k] = "items"
         \/ spc'[k] = "run" /\ work[k].rows = {} /\ spc[k] = "logs"
      /\ \A l \in Conns \ {k} : spc'[l] = spc[l]
  BY <1>1, LogTypes
<1>3. /\ RowInv' /\ PhaseInv' /\ LatestInv' /\ RowFramesInv' /\ RowQueueInv'
      /\ \A l \in Conns \ {k} : WorkOK(l)'
  <2>1. Held(k)' = Held(k)
    BY <1>1 DEF Held
  <2> QED BY <1>1, <1>2, <2>1, BatchStep
<1>4. WorkOK(k)'
  BY <1>1, <1>2 DEF WorkInv, WorkOK, Held, RowsOf
<1>5. StatusLogPrefix' /\ ItemStatusFresh'
  BY <1>1 DEF StatusLogPrefix, ItemStatusFresh, RowsOf
<1> QED BY <1>3, <1>4, <1>5 DEF WorkInv

LEMMA SaveLog == ASSUME LInv, NEW k \in Conns, SaveReplayedLog(k) PROVE LogInv'
<1> USE DEF LInv, LogInv
<1>1. PICK r \in work[k].rows :
        /\ NextRow(r, work[k].rows) /\ statusLog' = statusLog \cup {r}
        /\ work' = [work EXCEPT ![k] = [items |-> {}, rows |-> @.rows \ {r}]]
  BY DEF SaveReplayedLog
<1>2. /\ spc[k] = "logs"
      /\ UNCHANGED <<log, ingestMu, cpc, cur, latestRow, subscribed, queue, reply, broken, c2s,
                     spc, itemStatus>>
  BY DEF SaveReplayedLog, stationDB, session, subscriber, network
<1>3. /\ work'[k].rows = work[k].rows \ {r} /\ work'[k].items = {}
      /\ \A l \in Conns \ {k} : work'[l] = work[l]
  BY <1>1, LogTypes
<1>4. Held(k)' = Held(k)
  BY <1>1, <1>3 DEF Held
<1>5. /\ RowInv' /\ PhaseInv' /\ LatestInv' /\ RowFramesInv' /\ RowQueueInv'
      /\ \A l \in Conns \ {k} : WorkOK(l)'
  BY <1>1, <1>2, <1>3, <1>4, BatchStep
<1>6. work[k].items = {} /\ WorkOK(k)
  BY <1>2 DEF WorkInv, WorkOK
<1>7. WorkOK(k)'
  <2>1. \A j \in Items : RowsOf(j, work[k].rows)' \subseteq RowsOf(j, work[k].rows)
    BY <1>2, <1>3 DEF RowsOf
  <2>2. \A p \in work'[k].rows : p \in work[k].rows /\ p \notin statusLog'
    BY <1>1, <1>3, <1>6 DEF WorkOK
  <2> QED BY <1>2, <1>3, <1>4, <1>6, <2>1, <2>2 DEF WorkOK
<1>8. StatusLogPrefix'
  <2>1. ASSUME NEW p \in 1 .. r PROVE p \in statusLog'
    <3>1. p \in statusLog \/ p \in work[k].rows
      BY <1>6 DEF WorkOK, Held
    <3>2. r \in Nat /\ (p \in work[k].rows => r <= p)
      BY <1>1, LogTypes DEF NextRow
    <3> QED BY <1>1, <3>1, <3>2
  <2> QED BY <1>1, <2>1 DEF StatusLogPrefix
<1>9. ItemStatusFresh'
  <2> SUFFICES ASSUME NEW j \in Items, NEW p \in RowsOf(j, statusLog \cup {r})
               PROVE  p <= itemStatus[j]
    BY <1>1, <1>2 DEF ItemStatusFresh, RowsOf
  <2>1. p \in RowsOf(j, statusLog) \/ p \in RowsOf(j, work[k].rows)
    BY DEF RowsOf
  <2> QED BY <1>6, <2>1 DEF ItemStatusFresh, WorkOK
<1> QED BY <1>5, <1>7, <1>8, <1>9 DEF WorkInv

LEMMA LatestSentLog == ASSUME LInv, NEW k \in Conns, SendLatest(k) PROVE LogInv'
<1> USE DEF LInv, LogInv
<1>1. PICK ts \in [Items -> 0 .. now], row \in 0 .. Len(log) :
        /\ IsLatest(row, statusLog)
        /\ reply' = [reply EXCEPT ![k] = [type |-> "latest", ts |-> ts, row |-> row]]
  BY DEF SendLatest
<1>2. /\ spc[k] = "sync" /\ spc' = [spc EXCEPT ![k] = "run"]
      /\ UNCHANGED <<log, ingestMu, cpc, cur, latestRow, subscribed, queue, broken, c2s,
                     work, statusLog, itemStatus>>
  BY DEF SendLatest, stationDB, session, subscriber, serverDB
<1>3. /\ spc'[k] = "run" /\ reply'[k].type = "latest" /\ reply'[k].row = row
      /\ \A l \in Conns \ {k} : spc'[l] = spc[l] /\ reply'[l] = reply[l]
  BY <1>1, <1>2, LogTypes
<1>4. Early(k) /\ StatusFree(c2s[k]) /\ cpc # "idle" => cur \in Conns
  BY <1>2, LogTypes DEF Early, PhaseInv
<1>5. /\ Early(k) /\ Alive(k) /\ ~Early(k)' /\ Alive(k)'
      /\ \A l \in Conns \ {k} : (Early(l)' <=> Early(l)) /\ (Alive(l)' <=> Alive(l))
  BY <1>2, <1>3 DEF Early, Alive
<1>6. StatusFree(c2s[k]) /\ (cpc # "idle" => cur \in Conns)
  BY <1>5, LogTypes DEF PhaseInv
<1>7. cpc \in {"lock", "replay", "subscribe", "realtime"} => cur # k /\ ~Early(cur)
  BY <1>5 DEF PhaseInv
<1>8. StatusLogPrefix' /\ ItemStatusFresh' /\ RowInv'
  BY <1>2 DEF StatusLogPrefix, ItemStatusFresh, RowsOf, RowInv
<1>9. PhaseInv'
  BY <1>2, <1>3, <1>5, <1>6, <1>7 DEF PhaseInv
<1>10. \A l \in Conns \ {k} : \A n : StillLatest(l, n) => StillLatest(l, n)'
  BY <1>2, <1>3, <1>5 DEF StillLatest
<1>11. StillLatest(k, row)'
  <2>1. \A p \in 1 .. row : p \in statusLog
    <3>1. row \in Nat
      BY LogTypes
    <3>2. row \in statusLog \/ row = 0
      BY <1>1 DEF IsLatest
    <3> QED BY <3>1, <3>2 DEF StatusLogPrefix
  <2>2. \A p \in statusLog : p <= row
    BY <1>1 DEF IsLatest
  <2> QED BY <1>2, <1>3, <1>6, <2>1, <2>2 DEF StillLatest
<1>12. LatestInv'
  <2>1. \A l \in Conns : reply'[l].type = "latest" => StillLatest(l, reply[l].row)'
    BY <1>3, <1>10, <1>11 DEF LatestInv, StillLatest
  <2>2. cpc' \in {"lock", "replay"} => StillLatest(cur, latestRow)'
    BY <1>2, <1>6, <1>7, <1>10 DEF LatestInv, StillLatest
  <2> QED BY <2>1, <2>2 DEF LatestInv
<1>13. WorkInv'
  <2>1. ASSUME NEW l \in Conns PROVE WorkOK(l)'
    BY <1>2, <1>3 DEF WorkInv, WorkOK, Held, RowsOf
  <2> QED BY <2>1 DEF WorkInv
<1>14. RowFramesInv'
  <2>1. ASSUME NEW l \in Conns \ {k} PROVE Held(l)' = Held(l)
    BY <1>2 DEF Held
  <2>2. \A B : RowsBacked(c2s[k], B) /\ BatchFirst(c2s[k], B)
    BY <1>6, FreeHasNoRows
  <2> QED BY <1>2, <1>3, <1>5, <2>1, <2>2 DEF RowFramesInv
<1>15. RowQueueInv'
  <2> SUFFICES ASSUME cpc # "idle", Alive(cur)', ~broken[cur]
               PROVE  /\ cpc = "subscribe" => DOMAIN log \subseteq Held(cur)' \cup RowsOn(c2s[cur])
                      /\ subscribed => DOMAIN log \subseteq Held(cur)' \cup RowsOn(c2s[cur])
                                                             \cup RowsOn(queue)
                      /\ cpc = "realtime" => RowsBacked(queue, Held(cur)' \cup RowsOn(c2s[cur]))
    BY <1>2 DEF RowQueueInv
  <2>1. Held(cur)' = Held(cur) /\ cur \in Conns /\ Alive(cur)
    BY <1>2, <1>5, <1>6 DEF Held
  <2> QED BY <2>1 DEF RowQueueInv
<1> QED BY <1>8, <1>9, <1>12, <1>13, <1>14, <1>15

LEMMA HandshakeLog ==
    ASSUME LInv, NEW k \in Conns, recvHello(k) \/ recvStationInfo(k)
    PROVE  LogInv'
<1> USE DEF LInv, LogInv
<1>1. CASE recvHello(k) /\ ~LoadOrStoreStores
  <2>1. /\ spc' = [spc EXCEPT ![k] = "gone"] /\ broken' = [broken EXCEPT ![k] = TRUE]
        /\ c2s' = [c2s EXCEPT ![k] = <<>>] /\ spc[k] = "hello"
        /\ UNCHANGED <<log, ingestMu, cpc, cur, latestRow, subscribed, queue, statusLog,
                       itemStatus, reply, work>>
    BY <1>1 DEF recvHello, stationDB, session, subscriber, serverDB
  <2>2. work[k].rows = {}
    BY <2>1 DEF WorkInv, WorkOK
  <2>3. /\ spc'[k] = "gone" /\ c2s'[k] = <<>>
        /\ \A l \in Conns \ {k} : spc'[l] = spc[l] /\ c2s'[l] = c2s[l]
        /\ \A l \in Conns : broken[l] => broken'[l]
    BY <2>1, LogTypes
  <2>4. \A l \in Conns :
          \/ spc'[l] = spc[l] /\ work'[l] = work[l] /\ c2s'[l] = c2s[l]
          \/ ~Alive(l)' /\ work'[l].rows = {} /\ (c2s'[l] = c2s[l] \/ c2s'[l] = <<>>)
    BY <2>1, <2>2, <2>3 DEF Alive
  <2> QED BY <2>1, <2>3, <2>4, FadeLog
<1>2. CASE (recvHello(k) /\ LoadOrStoreStores) \/ recvStationInfo(k)
  <2>1. /\ spc[k] \in {"hello", "info"} /\ c2s[k] # <<>>
        /\ ~IsStatus(Head(c2s[k]))
        /\ \E ph \in {"info", "sync"} : spc' = [spc EXCEPT ![k] = ph]
        /\ \/ reply' = reply
           \/ reply' = [reply EXCEPT ![k] = [type |-> "server_hello"]]
        /\ c2s' = [c2s EXCEPT ![k] = Tail(@)]
        /\ UNCHANGED <<log, ingestMu, cpc, cur, latestRow, subscribed, queue, broken, work,
                       statusLog, itemStatus>>
    BY <1>2 DEF recvHello, recvStationInfo, Receives, IsStatus, stationDB, session,
       subscriber, serverDB
  <2>2. /\ spc'[k] \in {"info", "sync"} /\ c2s'[k] = Tail(c2s[k])
        /\ c2s[k] \in Seq(Frame)
        /\ reply'[k] = reply[k] \/ reply'[k].type # "latest"
        /\ \A l \in Conns \ {k} : /\ spc'[l] = spc[l] /\ c2s'[l] = c2s[l]
                                 /\ reply'[l] = reply[l]
        /\ cpc # "idle" => cur \in Conns
    BY <2>1, LogTypes
  <2>3. StatusFree(c2s[k]) /\ reply[k].type # "latest" /\ Early(k)
    BY <2>1 DEF PhaseInv, Early
  <2>4. StatusFree(c2s'[k]) /\ reply'[k].type # "latest"
    <3>1. StatusFree(Tail(c2s[k]))
      BY <2>1, <2>2, <2>3, BatchTail
    <3> QED BY <2>2, <2>3, <3>1
  <2>5. RowsOn(c2s'[k]) = {} /\ RowsOn(c2s[k]) = {}
    BY <2>3, <2>4, FreeHasNoRows
  <2>6. \A l \in Conns : (Early(l)' <=> Early(l)) /\ (Alive(l)' <=> Alive(l))
    BY <2>1, <2>2 DEF Early, Alive
  <2>7. StatusLogPrefix' /\ ItemStatusFresh' /\ RowInv'
    BY <2>1, <2>2, <2>5 DEF StatusLogPrefix, ItemStatusFresh, RowsOf, RowInv
  <2>8. PhaseInv'
    <3>1. \A l \in Conns : Early(l)' => StatusFree(c2s'[l]) /\ reply'[l].type # "latest"
      BY <2>2, <2>4, <2>6 DEF PhaseInv
    <3>2. cpc \in {"lock", "replay", "subscribe", "realtime"} =>
             ~Early(cur)' /\ reply'[cur].type # "latest"
      BY <2>1, <2>2, <2>4, <2>6 DEF PhaseInv, Early
    <3> QED BY <2>1, <3>1, <3>2 DEF PhaseInv
  <2>9. LatestInv'
    <3>1. \A l \in Conns \ {k} : \A n : StillLatest(l, n) => StillLatest(l, n)'
      BY <2>1, <2>2, <2>6 DEF StillLatest
    <3>2. \A l \in Conns : reply'[l].type = "latest" =>
             StillLatest(l, reply[l].row) /\ l # k /\ reply'[l] = reply[l]
      BY <2>2, <2>4 DEF LatestInv
    <3>3. \A l \in Conns : reply'[l].type = "latest" => StillLatest(l, reply[l].row)'
      BY <3>1, <3>2 DEF StillLatest
    <3>4. cpc \in {"lock", "replay"} => cur # k /\ StillLatest(cur, latestRow)
      BY <2>3 DEF LatestInv, PhaseInv
    <3>5. cpc' \in {"lock", "replay"} => StillLatest(cur, latestRow)'
      BY <2>1, <2>2, <3>1, <3>4 DEF StillLatest
    <3> QED BY <3>3, <3>5 DEF LatestInv
  <2>10. WorkInv'
    <3>1. ASSUME NEW l \in Conns PROVE WorkOK(l)'
      BY <2>1, <2>2 DEF WorkInv, WorkOK, Held, RowsOf
    <3> QED BY <3>1 DEF WorkInv
  <2>11. \A l \in Conns : Held(l)' = Held(l)
    BY <2>1 DEF Held
  <2>12. RowFramesInv'
    <3>1. \A B : RowsBacked(c2s'[k], B) /\ BatchFirst(c2s'[k], B) /\ NoBatch(c2s'[k])
      BY <2>4, FreeHasNoRows
    <3> QED BY <2>1, <2>2, <2>6, <2>11, <3>1 DEF RowFramesInv
  <2>13. RowQueueInv'
    <3> SUFFICES ASSUME cpc # "idle", Alive(cur)', ~broken[cur]
                 PROVE  /\ Alive(cur) /\ Held(cur)' = Held(cur)
                        /\ RowsOn(c2s'[cur]) = RowsOn(c2s[cur])
      BY <2>1 DEF RowQueueInv
    <3> QED BY <2>1, <2>2, <2>5, <2>6, <2>11 DEF Alive, Held
  <2> QED BY <2>7, <2>8, <2>9, <2>10, <2>12, <2>13
<1> QED BY <1>1, <1>2 DEF LoadOrStoreStores

LEMMA HandlerEndLog ==
    ASSUME LInv,
           ServerRestart \/ \E k \in Conns : \/ Break(k) \/ StreamStationFails(k)
                                             \/ DeferredDisconnect(k) \/ DeferredDelete(k)
    PROVE  LogInv'
<1> USE DEF LInv, LogInv
<1>1. UNCHANGED <<log, ingestMu, cpc, cur, latestRow, subscribed, queue, statusLog,
                  itemStatus, reply>>
  BY DEF ServerRestart, Break, StreamStationFails, DeferredDisconnect, DeferredDelete,
     stationDB, session, subscriber, serverDB, network
<1>2. \A l \in Conns : broken[l] => broken'[l]
  BY LogTypes DEF ServerRestart, Break, StreamStationFails, DeferredDisconnect,
     DeferredDelete, network
<1>3. \A l \in Conns :
        \/ spc'[l] = spc[l] /\ work'[l] = work[l] /\ c2s'[l] = c2s[l]
        \/ ~Alive(l)' /\ work'[l].rows = {} /\ (c2s'[l] = c2s[l] \/ c2s'[l] = <<>>)
  <2>1. \A l \in Conns : spc[l] \in {"closing", "delete"} => work[l].rows = {}
    BY DEF WorkInv, WorkOK
  <2>2. CASE ServerRestart
    BY <2>2 DEF ServerRestart, Alive, NoWork
  <2>3. ASSUME NEW k \in Conns, Break(k) PROVE <1>3!:
    BY <2>3 DEF Break, handler
  <2>4. ASSUME NEW k \in Conns, StreamStationFails(k) PROVE <1>3!:
    BY <2>4, LogTypes DEF StreamStationFails, Alive, NoWork, ReturnPhase
  <2>5. ASSUME NEW k \in Conns, DeferredDisconnect(k) PROVE <1>3!:
    BY <2>1, <2>5, LogTypes DEF DeferredDisconnect, Alive, network
  <2>6. ASSUME NEW k \in Conns, DeferredDelete(k) PROVE <1>3!:
    BY <2>1, <2>6, LogTypes DEF DeferredDelete, Alive
  <2> QED BY <2>2, <2>3, <2>4, <2>5, <2>6
<1> QED BY <1>1, <1>2, <1>3, FadeLog

-----------------------------------------------------------------------------
(* The session *)

LEMMA ServerSame ==
    ASSUME LInv, UNCHANGED <<log, spc, work, statusLog, itemStatus>>
    PROVE  /\ StatusLogPrefix' /\ ItemStatusFresh' /\ WorkInv'
           /\ \A l \in Conns : /\ Held(l)' = Held(l)
                               /\ (Alive(l)' <=> Alive(l)) /\ (Early(l)' <=> Early(l))
<1>1. \A l \in Conns : WorkOK(l)'
  BY DEF LInv, LogInv, WorkInv, WorkOK, Held, RowsOf
<1> QED BY <1>1 DEF LInv, LogInv, StatusLogPrefix, ItemStatusFresh, WorkInv, RowsOf, Held,
           Alive, Early

(* The session writes frame f to its connection. *)
LEMMA SentRows ==
    ASSUME LInv, cpc # "idle", NEW f \in Frame, c2s' = Arrives(cur, f),
           UNCHANGED <<log, spc, work, statusLog, itemStatus>>,
           RowsIn(f) \subseteq DOMAIN log,
           ~broken[cur] /\ Alive(cur) =>
              /\ \A r \in RowsIn(f) : \A p \in 1 .. r :
                    p \in Held(cur) \cup RowsOn(c2s[cur]) \cup RowsIn(f)
              /\ \/ f.type # "statusReplay"
                 \/ /\ spc[cur] = "run" /\ StatusFree(c2s[cur])
                    /\ \A r \in f.rows : r \notin statusLog
    PROVE  /\ cur \in Conns
           /\ \A l \in Conns : l # cur \/ broken[cur] => c2s'[l] = c2s[l]
           /\ ~broken[cur] => RowsOn(c2s'[cur]) = RowsOn(c2s[cur]) \cup RowsIn(f)
           /\ ~IsStatus(f) => \A l \in Conns : StatusFree(c2s[l]) => StatusFree(c2s'[l])
           /\ \A l \in Conns : RowsOn(c2s'[l]) \subseteq DOMAIN log
           /\ RowFramesInv'
<1> USE DEF LInv, LogInv
<1>1. cur \in Conns /\ c2s \in [Conns -> Seq(Frame)]
  BY LogTypes
<1>2. /\ \A l \in Conns : l # cur \/ broken[cur] => c2s'[l] = c2s[l]
      /\ ~broken[cur] => c2s'[cur] = Append(c2s[cur], f)
      /\ c2s[cur] \in Seq(Frame)
  BY <1>1 DEF Arrives
<1>3. ~broken[cur] => RowsOn(c2s'[cur]) = RowsOn(c2s[cur]) \cup RowsIn(f)
  <2>1. RowsOn(Append(c2s[cur], f)) = RowsOn(c2s[cur]) \cup RowsIn(f)
    BY <1>2, RowsAppend
  <2> QED BY <1>2, <2>1
<1>4. ~IsStatus(f) => \A l \in Conns : StatusFree(c2s[l]) => StatusFree(c2s'[l])
  <2> SUFFICES ASSUME ~IsStatus(f), NEW l \in Conns, StatusFree(c2s[l])
               PROVE  StatusFree(c2s'[l])
    OBVIOUS
  <2>1. CASE l # cur \/ broken[cur]
    BY <1>2, <2>1
  <2>2. CASE l = cur /\ ~broken[cur]
    <3>1. StatusFree(Append(c2s[cur], f))
      BY <1>2, <2>2, BatchAppend
    <3> QED BY <1>2, <2>2, <3>1
  <2> QED BY <2>1, <2>2
<1>5. \A l \in Conns : RowsOn(c2s'[l]) \subseteq DOMAIN log
  BY <1>1, <1>2, <1>3 DEF RowInv
<1>6. RowFramesInv'
  <2> SUFFICES ASSUME NEW l \in Conns, Alive(l)
               PROVE  /\ RowsBacked(c2s'[l], Held(l))
                      /\ BatchFirst(c2s'[l], statusLog)
                      /\ spc[l] # "run" => NoBatch(c2s'[l])
    BY ServerSame DEF RowFramesInv
  <2>1. /\ RowsBacked(c2s[l], Held(l)) /\ BatchFirst(c2s[l], statusLog)
        /\ spc[l] # "run" => NoBatch(c2s[l])
    BY DEF RowFramesInv
  <2>2. CASE l # cur \/ broken[cur]
    BY <1>2, <2>1, <2>2
  <2>3. CASE l = cur /\ ~broken[cur]
    <3> DEFINE q == c2s[cur]
               B == Held(cur)
    <3>1. RowsBacked(q, B) /\ \A r \in RowsIn(f) : \A p \in 1 .. r : p \in B \cup RowsOn(q) \cup RowsIn(f)
      BY <2>1, <2>3
    <3>2. q \in Seq(Frame) /\ c2s'[l] = Append(q, f)
      BY <1>2, <2>3
    <3> HIDE DEF q, B
    <3>3. RowsBacked(Append(q, f), B)
      BY <3>1, <3>2, BackedRowsAppend
    <3>4. BatchFirst(Append(q, f), statusLog) /\ (spc[cur] # "run" => NoBatch(Append(q, f)))
      <4>1. CASE f.type # "statusReplay"
        BY <2>1, <2>3, <3>2, <4>1, BatchAppend DEF q
      <4>2. CASE f.type = "statusReplay"
        <5>1. spc[cur] = "run" /\ StatusFree(q) /\ \A r \in f.rows : r \notin statusLog
          BY <2>3, <4>2 DEF q
        <5> QED BY <3>2, <5>1, BatchAppend
      <4> QED BY <4>1, <4>2
    <3> QED BY <2>3, <3>2, <3>3, <3>4 DEF B
  <2> QED BY <2>2, <2>3
<1> QED BY <1>1, <1>2, <1>3, <1>4, <1>5, <1>6

LEMMA ConnectLog == ASSUME LInv, NEW k \in Conns, Connect(k) PROVE LogInv'
<1> USE DEF LInv, LogInv
<1>1. /\ cpc = "idle" /\ spc[k] = "gone" /\ cpc' = "hello" /\ cur' = k
      /\ spc' = [spc EXCEPT ![k] = "hello"]
      /\ c2s' = [c2s EXCEPT ![k] = <<[type |-> "hello"]>>]
      /\ reply' = [reply EXCEPT ![k] = NoReply]
      /\ UNCHANGED <<log, ingestMu, latestRow, subscribed, queue, work, statusLog, itemStatus>>
  BY DEF Connect, stationDB, subscriber, serverDB
<1>2. /\ spc'[k] = "hello" /\ c2s'[k] = <<[type |-> "hello"]>> /\ reply'[k].type = "none"
      /\ \A l \in Conns \ {k} : spc'[l] = spc[l] /\ c2s'[l] = c2s[l] /\ reply'[l] = reply[l]
  BY <1>1, LogTypes DEF NoReply
<1>3. StatusFree(c2s'[k])
  BY <1>2 DEF StatusFree, IsStatus
<1>4. \A B : RowsBacked(c2s'[k], B) /\ BatchFirst(c2s'[k], B) /\ NoBatch(c2s'[k])
             /\ RowsOn(c2s'[k]) = {}
  BY <1>3, FreeHasNoRows
<1>5. \A l \in Conns \ {k} : /\ Held(l)' = Held(l) /\ (Alive(l)' <=> Alive(l))
                             /\ (Early(l)' <=> Early(l))
  BY <1>1, <1>2 DEF Held, Alive, Early
<1>6. StatusLogPrefix' /\ ItemStatusFresh'
  BY <1>1 DEF StatusLogPrefix, ItemStatusFresh, RowsOf
<1>7. RowInv'
  BY <1>1, <1>2, <1>4 DEF RowInv
<1>8. ~subscribed
  BY <1>1 DEF PhaseInv
<1>9. PhaseInv'
  BY <1>1, <1>2, <1>3, <1>5, <1>8 DEF PhaseInv
<1>10. LatestInv'
  <2>1. \A l \in Conns \ {k} : \A n : StillLatest(l, n) => StillLatest(l, n)'
    BY <1>1, <1>2, <1>5 DEF StillLatest
  <2>2. \A l \in Conns : reply'[l].type = "latest" =>
           l # k /\ reply'[l] = reply[l] /\ StillLatest(l, reply[l].row)
    BY <1>2 DEF LatestInv
  <2>3. \A l \in Conns : reply'[l].type = "latest" => StillLatest(l, reply[l].row)'
    BY <2>1, <2>2 DEF StillLatest
  <2> QED BY <1>1, <2>3 DEF LatestInv
<1>11. WorkInv'
  <2>1. \A l \in Conns : WorkOK(l)'
    BY <1>1, <1>2 DEF WorkInv, WorkOK, Held, RowsOf
  <2> QED BY <2>1 DEF WorkInv
<1>12. RowFramesInv'
  BY <1>1, <1>2, <1>4, <1>5 DEF RowFramesInv
<1>13. RowQueueInv'
  BY <1>1, <1>8 DEF RowQueueInv
<1> QED BY <1>6, <1>7, <1>9, <1>10, <1>11, <1>12, <1>13

LEMMA HelloLog == ASSUME LInv, RecvServerHello PROVE LogInv'
<1> USE DEF LInv, LogInv
<1> DEFINE f == [type |-> "info"]
<1>1. /\ cpc = "hello" /\ cpc' = "latest" /\ c2s' = Arrives(cur, f)
      /\ reply' = [reply EXCEPT ![cur] = NoReply]
      /\ UNCHANGED <<log, ingestMu, cur, latestRow, subscribed, queue, broken, spc, work,
                     statusLog, itemStatus>>
  BY DEF RecvServerHello, stationDB, subscriber, handler, serverDB
<1>2. f \in Frame /\ RowsIn(f) = {} /\ ~IsStatus(f) /\ f.type # "statusReplay"
  BY DEF Frame, RowsIn, IsStatus
<1> HIDE DEF f
<1>3. /\ cur \in Conns
      /\ \A l \in Conns : StatusFree(c2s[l]) => StatusFree(c2s'[l])
      /\ \A l \in Conns : RowsOn(c2s'[l]) \subseteq DOMAIN log
      /\ RowFramesInv'
  BY <1>1, <1>2, SentRows
<1>4. \A l \in Conns : reply'[l].type = "latest" => reply'[l] = reply[l]
  BY <1>1, <1>3, LogTypes DEF NoReply
<1>5. /\ StatusLogPrefix' /\ ItemStatusFresh' /\ WorkInv'
      /\ \A l \in Conns : /\ Held(l)' = Held(l)
                          /\ (Alive(l)' <=> Alive(l)) /\ (Early(l)' <=> Early(l))
  BY <1>1, ServerSame
<1>6. RowInv'
  BY <1>1, <1>3 DEF RowInv
<1>7. ~subscribed
  BY <1>1 DEF PhaseInv
<1>8. PhaseInv'
  BY <1>1, <1>3, <1>4, <1>5, <1>7 DEF PhaseInv
<1>9. LatestInv'
  <2>1. \A l \in Conns : \A n : StillLatest(l, n) => StillLatest(l, n)'
    BY <1>1, <1>3, <1>5 DEF StillLatest
  <2>2. \A l \in Conns : reply'[l].type = "latest" => StillLatest(l, reply[l].row)'
    BY <1>4, <2>1 DEF LatestInv, StillLatest
  <2> QED BY <1>1, <2>2 DEF LatestInv
<1>10. RowQueueInv'
  BY <1>1, <1>7 DEF RowQueueInv
<1> QED BY <1>3, <1>5, <1>6, <1>8, <1>9, <1>10

LEMMA LatestLog == ASSUME LInv, recvLatestFrames PROVE LogInv'
<1> USE DEF LInv, LogInv
<1>1. /\ cpc = "latest" /\ cpc' = "lock" /\ reply[cur].type = "latest"
      /\ latestRow' = reply[cur].row
      /\ reply' = [reply EXCEPT ![cur] = NoReply]
      /\ UNCHANGED <<log, ingestMu, cur, subscribed, queue, c2s, broken, spc, work,
                     statusLog, itemStatus>>
  BY DEF recvLatestFrames, stationDB, subscriber, handler, serverDB
<1>2. cur \in Conns /\ reply'[cur].type = "none"
      /\ \A l \in Conns \ {cur} : reply'[l] = reply[l]
  BY <1>1, LogTypes DEF NoReply
<1>3. /\ StatusLogPrefix' /\ ItemStatusFresh' /\ WorkInv'
      /\ \A l \in Conns : /\ Held(l)' = Held(l)
                          /\ (Alive(l)' <=> Alive(l)) /\ (Early(l)' <=> Early(l))
  BY <1>1, ServerSame
<1>4. RowInv'
  BY <1>1 DEF RowInv
<1>5. ~subscribed /\ ~Early(cur)
  BY <1>1, <1>2 DEF PhaseInv
<1>6. PhaseInv'
  <2>1. ~Early(cur)'
    BY <1>1, <1>5 DEF Early
  <2> QED BY <1>1, <1>2, <1>3, <1>5, <2>1 DEF PhaseInv
<1>7. LatestInv'
  <2>1. \A l \in Conns : \A n : StillLatest(l, n) => StillLatest(l, n)'
    BY <1>1, <1>3 DEF StillLatest
  <2>2. \A l \in Conns : reply'[l].type = "latest" => StillLatest(l, reply[l].row)'
    BY <1>2, <2>1 DEF LatestInv, StillLatest
  <2>3. StillLatest(cur, reply[cur].row)
    BY <1>1, <1>2 DEF LatestInv
  <2>4. StillLatest(cur, latestRow)'
    BY <1>1, <2>3 DEF StillLatest, Alive
  <2> QED BY <2>2, <2>4 DEF LatestInv
<1>8. RowFramesInv'
  BY <1>1, <1>3 DEF RowFramesInv
<1>9. RowQueueInv'
  BY <1>1, <1>5 DEF RowQueueInv
<1> QED BY <1>3, <1>4, <1>6, <1>7, <1>8, <1>9

LEMMA LockLog == ASSUME LInv, LockIngest PROVE LogInv'
<1> USE DEF LInv, LogInv
<1>1. /\ cpc = "lock" /\ cpc' = "replay" /\ ingestMu' = TRUE
      /\ UNCHANGED <<log, cur, latestRow, subscribed, queue, c2s, reply, broken, spc, work,
                     statusLog, itemStatus>>
  BY DEF LockIngest, stationDB, subscriber, network, handler, serverDB
<1>2. StatusLogPrefix' /\ ItemStatusFresh' /\ WorkInv'
  BY <1>1, ServerSame
<1>3. RowInv' /\ PhaseInv'
  BY <1>1 DEF RowInv, PhaseInv, Early
<1>4. LatestInv'
  BY <1>1 DEF LatestInv, StillLatest, Alive
<1>5. RowFramesInv'
  BY <1>1 DEF RowFramesInv, Alive, Held
<1>6. RowQueueInv'
  BY <1>1 DEF RowQueueInv, PhaseInv
<1> QED BY <1>2, <1>3, <1>4, <1>5, <1>6

LEMMA ReplayLog ==
    ASSUME LInv, NEW i \in Items, NEW t \in hist[i], sendReplayData(i, t)
    PROVE  LogInv'
<1> USE DEF LInv, LogInv
<1> DEFINE f == [type |-> "data", item |-> i, ts |-> t, replay |-> TRUE]
<1>1. /\ cpc = "replay" /\ c2s' = Arrives(cur, f)
      /\ UNCHANGED <<log, ingestMu, cpc, cur, latestRow, subscribed, queue, reply, broken, spc,
                     work, statusLog, itemStatus>>
  BY DEF sendReplayData, stationDB, subscriber, handler, serverDB
<1>2. t \in Nat
  BY DEF TInv, TypeOK
<1>3. f \in Frame
  BY <1>2, Zenon DEF Frame, DataMsg
<1>4. RowsIn(f) = {} /\ ~IsStatus(f) /\ f.type # "statusReplay"
  BY DEF RowsIn, IsStatus
<1> HIDE DEF f
<1>5. /\ cur \in Conns
      /\ \A l \in Conns : StatusFree(c2s[l]) => StatusFree(c2s'[l])
      /\ \A l \in Conns : RowsOn(c2s'[l]) \subseteq DOMAIN log
      /\ RowFramesInv'
  BY <1>1, <1>3, <1>4, SentRows
<1>6. /\ StatusLogPrefix' /\ ItemStatusFresh' /\ WorkInv'
      /\ \A l \in Conns : /\ (Alive(l)' <=> Alive(l)) /\ (Early(l)' <=> Early(l))
  BY <1>1, ServerSame
<1>7. RowInv'
  BY <1>1, <1>5 DEF RowInv
<1>8. PhaseInv'
  BY <1>1, <1>5, <1>6 DEF PhaseInv, Early
<1>9. LatestInv'
  BY <1>1, <1>5, <1>6 DEF LatestInv, StillLatest, Alive
<1>10. RowQueueInv'
  BY <1>1 DEF RowQueueInv, PhaseInv
<1> QED BY <1>5, <1>6, <1>7, <1>8, <1>9, <1>10

LEMMA ReplayStatusLog == ASSUME LInv, sendReplayStatus PROVE LogInv'
<1> USE DEF LInv, LogInv
<1> DEFINE rows == {r \in DOMAIN log : r > latestRow}
           f == [type |-> "statusReplay", rows |-> rows]
<1>1. /\ cpc = "replay" /\ cpc' = "subscribe"
      /\ c2s' = IF rows = {} THEN c2s ELSE Arrives(cur, f)
      /\ UNCHANGED <<log, ingestMu, cur, latestRow, subscribed, queue, reply, broken, spc,
                     work, statusLog, itemStatus>>
  BY DEF sendReplayStatus, stationDB, subscriber, handler, serverDB
<1>2. /\ StillLatest(cur, latestRow) /\ ~subscribed /\ ~Early(cur)
      /\ reply[cur].type # "latest" /\ ingestMu /\ cur \in Conns
  BY <1>1, LogTypes DEF LatestInv, PhaseInv
<1>3. rows \in SUBSET Nat /\ rows \subseteq DOMAIN log
  BY LogTypes
<1>4. \A p \in DOMAIN log : p \in statusLog \/ p \in rows
  <2> SUFFICES ASSUME NEW p \in DOMAIN log, p \notin rows PROVE p \in statusLog
    OBVIOUS
  <2>1. p \in 1 .. latestRow
    BY LogTypes
  <2> QED BY <1>2, <2>1 DEF StillLatest
<1>5. Alive(cur) => /\ spc[cur] = "run" /\ StatusFree(c2s[cur])
                    /\ \A r \in rows : r \notin statusLog
  <2>1. ASSUME Alive(cur), NEW r \in rows PROVE r \notin statusLog
    <3>1. \A p \in statusLog : p <= latestRow
      BY <1>2, <2>1 DEF StillLatest
    <3>2. r > latestRow /\ r \in Nat /\ latestRow \in Nat
      BY <1>3, LogTypes
    <3> QED BY <3>1, <3>2
  <2> QED BY <1>2, <2>1 DEF StillLatest
<1>6. \A r \in rows : \A p \in 1 .. r : p \in DOMAIN log
  BY <1>3, LogTypes
<1> HIDE DEF rows
<1>7. f \in Frame /\ RowsIn(f) = rows /\ f.rows = rows
  BY <1>3 DEF Frame, RowsIn
<1> HIDE DEF f
<1>8. ASSUME rows # {}
      PROVE  /\ \A l \in Conns : l # cur \/ broken[cur] => c2s'[l] = c2s[l]
             /\ ~broken[cur] => RowsOn(c2s'[cur]) = RowsOn(c2s[cur]) \cup rows
             /\ \A l \in Conns : RowsOn(c2s'[l]) \subseteq DOMAIN log
             /\ RowFramesInv'
  <2>1. \A r \in rows : \A p \in 1 .. r : p \in Held(cur) \cup RowsOn(c2s[cur]) \cup rows
    BY <1>4, <1>6 DEF Held
  <2>2. c2s' = Arrives(cur, f) /\ cpc # "idle"
    BY <1>1, <1>8
  <2> QED BY <1>1, <1>3, <1>5, <1>7, <2>1, <2>2, SentRows
<1>9. /\ StatusLogPrefix' /\ ItemStatusFresh' /\ WorkInv'
      /\ \A l \in Conns : /\ Held(l)' = Held(l)
                          /\ (Alive(l)' <=> Alive(l)) /\ (Early(l)' <=> Early(l))
  BY <1>1, ServerSame
<1>10. RowFramesInv' /\ \A l \in Conns : RowsOn(c2s'[l]) \subseteq DOMAIN log
  <2>1. CASE rows = {}
    BY <1>1, <1>9, <2>1 DEF RowFramesInv, RowInv
  <2> QED BY <1>8, <2>1
<1>11. \A l \in Conns \ {cur} : c2s'[l] = c2s[l]
  BY <1>1, <1>8
<1>12. RowInv'
  BY <1>1, <1>10 DEF RowInv
<1>13. PhaseInv'
  <2>1. ~Early(cur)'
    BY <1>1, <1>2 DEF Early
  <2> QED BY <1>1, <1>2, <1>9, <1>11, <2>1 DEF PhaseInv
<1>14. LatestInv'
  <2>1. \A l \in Conns : reply[l].type = "latest" => l # cur /\ StillLatest(l, reply[l].row)
    BY <1>2 DEF LatestInv
  <2>2. \A l \in Conns : reply'[l].type = "latest" => StillLatest(l, reply[l].row)'
    BY <1>1, <1>9, <1>11, <2>1 DEF StillLatest
  <2> QED BY <1>1, <2>2 DEF LatestInv
<1>15. RowQueueInv'
  <2> SUFFICES ASSUME ~broken[cur]
               PROVE  DOMAIN log \subseteq Held(cur) \cup RowsOn(c2s'[cur])
    <3>1. Held(cur)' = Held(cur)
      BY <1>1 DEF Held
    <3> QED BY <1>1, <1>2, <3>1 DEF RowQueueInv
  <2>1. rows \subseteq RowsOn(c2s'[cur])
    BY <1>8
  <2> QED BY <1>4, <2>1 DEF Held
<1> QED BY <1>9, <1>10, <1>12, <1>13, <1>14, <1>15

LEMMA SubscribeLog == ASSUME LInv, SubscribeAndUnlock PROVE LogInv'
<1> USE DEF LInv, LogInv
<1>1. /\ cpc = "subscribe" /\ cpc' = "realtime" /\ subscribed' = TRUE /\ queue' = <<>>
      /\ UNCHANGED <<log, cur, latestRow, c2s, reply, broken, spc, work, statusLog, itemStatus>>
  BY DEF SubscribeAndUnlock, stationDB, network, handler, serverDB
<1>2. StatusLogPrefix' /\ ItemStatusFresh' /\ WorkInv'
  BY <1>1, ServerSame
<1>3. RowInv'
  BY <1>1, EmptyRows DEF RowInv
<1>4. PhaseInv'
  BY <1>1 DEF PhaseInv, Early
<1>5. LatestInv'
  BY <1>1 DEF LatestInv, StillLatest, Alive
<1>6. RowFramesInv'
  BY <1>1 DEF RowFramesInv, Alive, Held
<1>7. RowQueueInv'
  BY <1>1, EmptyRows DEF RowQueueInv, Alive, Held
<1> QED BY <1>2, <1>3, <1>4, <1>5, <1>6, <1>7

LEMMA ForwardLog == ASSUME LInv, forwardRealtimeData PROVE LogInv'
<1> USE DEF LInv, LogInv
<1> DEFINE f == Head(queue)
           B == Held(cur) \cup RowsOn(c2s[cur])
<1>1. /\ cpc = "realtime" /\ queue # <<>> /\ queue' = Tail(queue) /\ c2s' = Arrives(cur, f)
      /\ UNCHANGED <<log, ingestMu, cpc, cur, latestRow, subscribed, reply, broken, spc,
                     work, statusLog, itemStatus>>
  BY DEF forwardRealtimeData, stationDB, session, handler, serverDB
<1>2. queue \in Seq(Msg) /\ cur \in Conns /\ ~Early(cur) /\ reply[cur].type # "latest"
  BY <1>1, LogTypes DEF PhaseInv
<1>3. f \in Msg
  BY <1>1, <1>2, HeadTailProperties
<1>4. f \in Frame /\ f.type # "statusReplay"
  BY <1>3 DEF Msg, Frame, DataMsg, StatusMsg
<1>5. RowsOn(queue) = RowsOn(queue') \cup RowsIn(f)
  BY <1>1, <1>2, RowsTail
<1>6. RowsOn(queue) \subseteq DOMAIN log
  BY DEF RowInv
<1>7. ~broken[cur] /\ Alive(cur) =>
        /\ \A r \in RowsIn(f) : \A p \in 1 .. r : p \in B \cup RowsIn(f)
        /\ RowsBacked(queue', B \cup RowsIn(f))
  <2> SUFFICES ASSUME ~broken[cur], Alive(cur)
               PROVE  /\ \A r \in RowsIn(f) : \A p \in 1 .. r : p \in B \cup RowsIn(f)
                      /\ RowsBacked(queue', B \cup RowsIn(f))
    OBVIOUS
  <2>1. RowsBacked(queue, B)
    BY <1>1 DEF RowQueueInv
  <2> HIDE DEF B
  <2> QED BY <1>1, <1>2, <2>1, BackedRowsTail
<1> HIDE DEF f
<1>8. /\ \A l \in Conns : l # cur \/ broken[cur] => c2s'[l] = c2s[l]
      /\ ~broken[cur] => RowsOn(c2s'[cur]) = RowsOn(c2s[cur]) \cup RowsIn(f)
      /\ \A l \in Conns : RowsOn(c2s'[l]) \subseteq DOMAIN log
      /\ RowFramesInv'
  BY <1>1, <1>4, <1>5, <1>6, <1>7, SentRows
<1>9. /\ StatusLogPrefix' /\ ItemStatusFresh' /\ WorkInv'
      /\ \A l \in Conns : /\ Held(l)' = Held(l)
                          /\ (Alive(l)' <=> Alive(l)) /\ (Early(l)' <=> Early(l))
  BY <1>1, ServerSame
<1>10. RowInv'
  BY <1>1, <1>5, <1>6, <1>8 DEF RowInv
<1>11. PhaseInv'
  <2>1. ~Early(cur)'
    BY <1>1, <1>2 DEF Early
  <2> QED BY <1>1, <1>2, <1>8, <1>9, <2>1 DEF PhaseInv
<1>12. LatestInv'
  <2>1. \A l \in Conns : reply[l].type = "latest" => l # cur /\ StillLatest(l, reply[l].row)
    BY <1>2 DEF LatestInv
  <2>2. \A l \in Conns : reply'[l].type = "latest" => StillLatest(l, reply[l].row)'
    BY <1>1, <1>8, <1>9, <2>1 DEF StillLatest
  <2> QED BY <1>1, <2>2 DEF LatestInv
<1>13. RowQueueInv'
  <2> SUFFICES ASSUME ~broken[cur], Alive(cur)
               PROVE  /\ subscribed => DOMAIN log \subseteq
                           Held(cur) \cup RowsOn(c2s'[cur]) \cup RowsOn(queue')
                      /\ RowsBacked(queue', Held(cur) \cup RowsOn(c2s'[cur]))
    BY <1>1, <1>2, <1>9 DEF RowQueueInv, Alive, Held
  <2>1. Held(cur) \cup RowsOn(c2s'[cur]) = B \cup RowsIn(f)
    BY <1>8
  <2>2. subscribed => DOMAIN log \subseteq B \cup RowsOn(queue)
    BY <1>1 DEF RowQueueInv
  <2> HIDE DEF B
  <2> QED BY <1>5, <1>7, <2>1, <2>2
<1> QED BY <1>8, <1>9, <1>10, <1>11, <1>12, <1>13

LEMMA SessionEndLog == ASSUME LInv, runOnConnReturns \/ StationRestart PROVE LogInv'
<1> USE DEF LInv, LogInv
<1>1. /\ cpc' = "idle" /\ subscribed' = FALSE /\ queue' = <<>>
      /\ UNCHANGED <<log, c2s, reply, spc, work, statusLog, itemStatus>>
  BY DEF runOnConnReturns, StationRestart, stationDB, handler, serverDB
<1>2. StatusLogPrefix' /\ ItemStatusFresh' /\ WorkInv'
  BY <1>1, ServerSame
<1>3. RowInv'
  BY <1>1, EmptyRows DEF RowInv
<1>4. PhaseInv'
  BY <1>1 DEF PhaseInv, Early
<1>5. LatestInv'
  BY <1>1 DEF LatestInv, StillLatest, Alive
<1>6. RowFramesInv'
  BY <1>1 DEF RowFramesInv, Alive, Held
<1>7. RowQueueInv'
  BY <1>1 DEF RowQueueInv
<1> QED BY <1>2, <1>3, <1>4, <1>5, <1>6, <1>7

-----------------------------------------------------------------------------
(* Readings *)

(* A clipped channel carries no more than the whole. *)
LEMMA RowsClip ==
    ASSUME NEW S, NEW q \in Seq(S), NEW n \in Nat, n <= Len(q)
    PROVE  RowsOn(SubSeq(q, 1, n)) \subseteq RowsOn(q)
<1> DEFINE c == SubSeq(q, 1, n)
<1>1. \A j \in 1 .. n : q[j] \in S
  BY ElementOfSeq
<1>2. c \in Seq(S) /\ Len(c) = n /\ \A j \in 1 .. n : c[j] = q[j]
  BY <1>1, SubSeqProperties
<1>3. DOMAIN c = 1 .. n /\ DOMAIN c \subseteq DOMAIN q
  BY <1>2, LenProperties
<1> HIDE DEF c
<1>4. \A j \in DOMAIN c : j \in DOMAIN q /\ c[j] = q[j]
  BY <1>2, <1>3
<1>5. \A r : r \in RowsOn(c) => r \in RowsOn(q)
  BY <1>4, RowsOnDef
<1> QED BY <1>5 DEF c

LEMMA IngestLog ==
    ASSUME LInv, NEW i \in Items, NEW hasValue \in BOOLEAN,
           NEW logSaved \in BOOLEAN, NEW dataSaved \in BOOLEAN, NEW t \in Timestamps,
           receiveData(i, hasValue, t, logSaved, dataSaved)
    PROVE  LogInv'
<1> USE DEF LInv, LogInv
<1> DEFINE status == IF hasValue THEN "Normal" ELSE "Abnormal"
           flips  == i \notin GpioItems /\ itemsStatus[i] # status
           a == [type |-> "status", row |-> Len(log) + 1]
           b == [type |-> "data", item |-> i, ts |-> t, replay |-> FALSE]
           e == [item |-> i, status |-> status]
           change == IF flips /\ logSaved THEN <<a>> ELSE <<>>
           point  == IF hasValue THEN <<b>> ELSE <<>>
           msgs   == change \o point
<1>1. /\ ~ingestMu /\ Publish(msgs)
      /\ log' = IF flips /\ logSaved THEN Append(log, e) ELSE log
      /\ UNCHANGED <<ingestMu, cpc, cur, latestRow, c2s, reply, spc, work, statusLog, itemStatus>>
  BY DEF receiveData, IngestLockFree, session, serverDB, handler
<1>2. /\ log \in Seq([item : Items, status : Status]) /\ queue \in Seq(Msg)
      /\ DOMAIN log = 1 .. Len(log) /\ Len(log) \in Nat
      /\ broken \in [Conns -> BOOLEAN] /\ subscribed \in BOOLEAN
      /\ cpc # "idle" => cur \in Conns
  BY LogTypes DEF TInv, TypeOK
<1>3. a \in Msg /\ RowsIn(a) = {Len(log) + 1} /\ a.type = "status"
  BY <1>2 DEF Msg, StatusMsg, RowsIn
<1>4. b \in Msg
  <2>1. t \in Nat
    BY DEF Timestamps, TInv, TypeOK
  <2> QED BY <2>1, Zenon DEF Msg, DataMsg
<1>5. RowsIn(b) = {}
  BY DEF RowsIn
<1>6. e \in [item : Items, status : Status] /\ e.item = i
  BY DEF Status
(* The log grows at its end. *)
<1>7. /\ DOMAIN log \subseteq DOMAIN log' /\ \A r \in DOMAIN log : log'[r] = log[r]
      /\ \A r \in DOMAIN log' : r \in DOMAIN log \/ (r = Len(log) + 1 /\ flips /\ logSaved
                                                    /\ log'[r].item = i /\ i \notin GpioItems)
      /\ flips /\ logSaved => Len(log) + 1 \in DOMAIN log'
  <2>1. CASE flips /\ logSaved
    <3>1. log' = Append(log, e)
      BY <1>1, <2>1
    <3> HIDE DEF e
    <3>2. /\ \A n \in DOMAIN Append(log, e) :
                \/ n \in DOMAIN log /\ Append(log, e)[n] = log[n]
                \/ n = Len(log) + 1 /\ Append(log, e)[n] = e
          /\ \A n \in DOMAIN log : n \in DOMAIN Append(log, e) /\ Append(log, e)[n] = log[n]
          /\ Len(log) + 1 \in DOMAIN Append(log, e)
      BY <1>2, <1>6, AppendIndex
    <3> QED BY <1>6, <2>1, <3>1, <3>2
  <2>2. CASE ~(flips /\ logSaved)
    BY <1>1, <2>2
  <2> QED BY <2>1, <2>2
<1> HIDE DEF a, b, e, flips
(* What is published. *)
<1> DEFINE q1 == IF flips /\ logSaved THEN Append(queue, a) ELSE queue
           q2 == IF hasValue THEN Append(q1, b) ELSE q1
<1>8. q1 \in Seq(Msg) /\ q2 \in Seq(Msg)
  BY <1>2, <1>3, <1>4, AppendProperties
<1>9. queue \o msgs = q2 /\ msgs \in Seq(Msg)
  <2>1. change \in Seq(Msg) /\ point \in Seq(Msg)
    BY <1>3, <1>4, EmptySeq, SingletonSeq
  <2>2. queue \o change = q1
    BY <1>2, <1>3, AppendIsConcat, ConcatEmptySeq
  <2>3. q1 \o point = q2
    BY <1>4, <1>8, AppendIsConcat, ConcatEmptySeq
  <2> HIDE DEF change, point, q1, q2
  <2>4. (queue \o change) \o point = queue \o (change \o point)
    BY <1>2, <2>1, ConcatAssociative, SMTT(30)
  <2> QED BY <2>1, <2>2, <2>3, <2>4, ConcatProperties
<1> HIDE DEF change, point, msgs
<1>10. /\ RowsOn(q1) = RowsOn(queue) \cup (IF flips /\ logSaved THEN {Len(log) + 1} ELSE {})
       /\ RowsOn(q2) = RowsOn(q1)
  <2>1. RowsOn(Append(queue, a)) = RowsOn(queue) \cup RowsIn(a)
    BY <1>2, <1>3, RowsAppend
  <2>2. RowsOn(q1) = RowsOn(queue) \cup (IF flips /\ logSaved THEN {Len(log) + 1} ELSE {})
    BY <1>3, <2>1
  <2> HIDE DEF q1
  <2>3. RowsOn(Append(q1, b)) = RowsOn(q1) \cup RowsIn(b)
    BY <1>4, <1>8, RowsAppend
  <2> QED BY <1>5, <2>2, <2>3
<1> HIDE DEF q1
<1>11. \/ queue' = queue /\ broken' = broken /\ subscribed' = subscribed /\ ~subscribed
       \/ queue' = q2 /\ broken' = broken /\ subscribed' = subscribed /\ subscribed
       \/ /\ subscribed /\ subscribed' = FALSE
          /\ Len(queue) + Len(msgs) > QueueCap
          /\ queue' = SubSeq(q2, 1, QueueCap)
          /\ broken' = [broken EXCEPT ![cur] = TRUE]
  BY <1>1, <1>9, Zenon DEF Publish, subscriber
<1> HIDE DEF q2
<1>12. RowsOn(queue') \subseteq RowsOn(q2)
  <2>1. RowsOn(queue) \subseteq RowsOn(q2)
    BY <1>10
  <2>2. Len(queue) + Len(msgs) > QueueCap => RowsOn(SubSeq(q2, 1, QueueCap)) \subseteq RowsOn(q2)
    <3>1. Len(q2) = Len(queue) + Len(msgs)
      BY <1>2, <1>9, ConcatProperties
    <3>2. Len(q2) \in Nat /\ QueueCap \in Nat
      BY <1>8, LenProperties, ConstantsAssumption
    <3>3. Len(queue) + Len(msgs) > QueueCap => QueueCap <= Len(q2)
      BY <3>1, <3>2
    <3> QED BY <1>8, <3>2, <3>3, RowsClip
  <2> QED BY <1>11, <2>1, <2>2
<1>13. /\ statusLog \subseteq DOMAIN log /\ RowsOn(queue) \subseteq DOMAIN log
       /\ \A k \in Conns : RowsOn(c2s[k]) \subseteq DOMAIN log /\ work[k].rows \subseteq DOMAIN log
       /\ \A r \in DOMAIN log : log[r].item \notin GpioItems
  BY DEF RowInv
<1>14. RowInv'
  <2>1. RowsOn(queue') \subseteq DOMAIN log'
    BY <1>7, <1>10, <1>12, <1>13
  <2>2. \A r \in DOMAIN log' : log'[r].item \notin GpioItems
    BY <1>7, <1>13
  <2> QED BY <1>1, <1>7, <1>13, <2>1, <2>2 DEF RowInv
<1>15. \A j \in Items : /\ RowsOf(j, statusLog)' = RowsOf(j, statusLog)
                         /\ \A k \in Conns : RowsOf(j, work[k].rows)' = RowsOf(j, work[k].rows)
  BY <1>1, <1>7, <1>13 DEF RowsOf
<1>16. StatusLogPrefix' /\ ItemStatusFresh'
  BY <1>1, <1>15 DEF StatusLogPrefix, ItemStatusFresh
<1>17. WorkInv'
  <2>1. ASSUME NEW k \in Conns PROVE WorkOK(k)'
    BY <1>1, <1>15 DEF WorkInv, WorkOK, Held
  <2> QED BY <2>1 DEF WorkInv
<1>18. PhaseInv'
  <2>1. subscribed' => subscribed
    BY <1>11
  <2> QED BY <1>1, <2>1 DEF PhaseInv, Early
<1>19. LatestInv' /\ RowFramesInv'
  BY <1>1 DEF LatestInv, StillLatest, RowFramesInv, Alive, Held
<1>20. RowQueueInv'
  <2> DEFINE B == Held(cur) \cup RowsOn(c2s[cur])
  <2> SUFFICES ASSUME cpc # "idle", Alive(cur), ~broken'[cur]
               PROVE  /\ cpc # "subscribe"
                      /\ subscribed' => DOMAIN log' \subseteq B \cup RowsOn(queue')
                      /\ cpc = "realtime" => RowsBacked(queue', B)
    BY <1>1 DEF RowQueueInv, Alive, Held
  <2>1. cpc # "subscribe"
    BY <1>1 DEF PhaseInv
  <2>2. [broken EXCEPT ![cur] = TRUE][cur] = TRUE
    BY <1>2
  <2>3. /\ broken' = broken
        /\ \/ queue' = queue /\ subscribed' = subscribed /\ ~subscribed
           \/ queue' = q2 /\ subscribed' = subscribed /\ subscribed
    BY <1>11, <2>2
  <2>4. /\ subscribed => DOMAIN log \subseteq B \cup RowsOn(queue)
        /\ cpc = "realtime" => RowsBacked(queue, B)
    BY <2>3 DEF RowQueueInv
  <2>5. CASE ~subscribed
    BY <2>1, <2>3, <2>4, <2>5
  <2>6. CASE subscribed
    <3> HIDE DEF B
    <3>1. queue' = q2 /\ cpc = "realtime"
      BY <2>3, <2>6 DEF PhaseInv
    <3>2. DOMAIN log' \subseteq B \cup RowsOn(q2)
      BY <1>7, <1>10, <2>4, <2>6
    <3>3. \A r \in RowsIn(a) : \A p \in 1 .. r : p \in B \cup RowsOn(queue) \cup RowsIn(a)
      <4> SUFFICES ASSUME NEW p \in 1 .. Len(log) + 1
                   PROVE  p \in B \cup RowsOn(queue) \cup {Len(log) + 1}
        BY <1>3
      <4>1. p \in DOMAIN log \/ p = Len(log) + 1
        BY <1>2
      <4> QED BY <2>4, <2>6, <4>1
    <3>4. RowsBacked(Append(queue, a), B)
      BY <1>2, <1>3, <2>4, <3>1, <3>3, BackedRowsAppend
    <3>5. RowsBacked(q1, B)
      BY <2>4, <3>1, <3>4 DEF q1
    <3>6. RowsBacked(Append(q1, b), B)
      BY <1>4, <1>5, <1>8, <3>5, BackedRowsAppend
    <3>7. RowsBacked(q2, B)
      BY <3>5, <3>6 DEF q2
    <3> QED BY <2>1, <3>1, <3>2, <3>7
  <2> QED BY <2>5, <2>6
<1> QED BY <1>14, <1>16, <1>17, <1>18, <1>19, <1>20

-----------------------------------------------------------------------------
LEMMA LogInductive == LInv /\ [Next]_vars => LInv'
<1> SUFFICES ASSUME LInv, [Next]_vars PROVE LInv'
  OBVIOUS
<1>1. TInv' /\ RegistryInv'
  BY TypeInductive, RegistryInductive DEF LInv
<1>2. LogInv'
  <2>1. CASE Ingest
    BY <2>1, IngestLog DEF Ingest
  <2>2. CASE SessionStep
    BY <2>2, HelloLog, LatestLog, LockLog, ReplayLog, ReplayStatusLog, SubscribeLog,
       ForwardLog DEF SessionStep
  <2>3. ASSUME NEW k \in Conns, HandlerStep(k) PROVE LogInv'
    BY <2>3, HandshakeLog, LatestSentLog, DataLog, StatusLog, ReplayedLog, UpdateItemLog,
       BatchDoneLog, SaveLog, HandlerEndLog DEF HandlerStep
  <2>4. CASE UNCHANGED vars
    BY <2>4, FadeLog DEF vars, stationDB, session, subscriber, network, handler, serverDB
  <2>5. CASE Quiescent
    BY <2>4, <2>5 DEF Quiescent
  <2> QED BY <2>1, <2>2, <2>3, <2>4, <2>5, ConnectLog, SessionEndLog, HandlerEndLog DEF Next
<1> QED BY <1>1, <1>2 DEF LInv

LEMMA LogHolds == Spec => []LogInv
<1>1. Init => LInv
  <2> SUFFICES ASSUME Init PROVE LInv
    OBVIOUS
  <2>1. TInv
    BY InitType DEF TInv, CurInv, Init
  <2>2. RegistryInv
    BY ConstantsAssumption DEF Init, RegistryInv, Registered, ServedIsNormal, Serving
  <2>3. /\ log = <<>> /\ cpc = "idle" /\ subscribed = FALSE /\ queue = <<>> /\ statusLog = {}
        /\ \A k \in Conns : /\ c2s[k] = <<>> /\ reply[k].type = "none" /\ spc[k] = "gone"
                            /\ work[k].rows = {}
    BY DEF Init, NoReply, NoWork
  <2>4. StatusLogPrefix /\ ItemStatusFresh /\ PhaseInv /\ LatestInv
    BY <2>3, EmptyRows DEF StatusLogPrefix, ItemStatusFresh, RowsOf, PhaseInv, LatestInv
  <2>5. RowInv
    BY <2>3, EmptyRows DEF RowInv
  <2>6. WorkInv /\ RowFramesInv /\ RowQueueInv
    BY <2>3 DEF WorkInv, WorkOK, RowsOf, RowFramesInv, RowQueueInv, Alive
  <2> QED BY <2>1, <2>2, <2>4, <2>5, <2>6 DEF LInv, LogInv
<1>2. LInv => LogInv
  BY DEF LInv
<1> QED BY <1>1, <1>2, LogInductive, PTL DEF Spec

(* Whatever breaks between the rows of a batch, and whichever of two        *)
(* sessions carries them, the server's status log has no hole: a hole would *)
(* never be filled, since only rows after the latest are replayed.  No      *)
(* assumption on the clock is needed.                                       *)
THEOREM LogIsPrefix == Spec => []StatusLogPrefix
<1>1. LogInv => StatusLogPrefix
  BY DEF LogInv
<1> QED BY <1>1, LogHolds, PTL

(* The items of a replayed batch are updated before its rows are saved, so  *)
(* a failure in between never leaves a row without the status it set.       *)
THEOREM StatusIsFresh == Spec => []ItemStatusFresh
<1>1. LogInv => ItemStatusFresh
  BY DEF LogInv
<1> QED BY <1>1, LogHolds, PTL
=============================================================================
