--------------------------- MODULE DeviceBusProofs ---------------------------
(***************************************************************************)
(* What DeviceBus keeps for any number of jobs, port handles, goroutines   *)
(* and faults: the types, whose answer a job reads, and which port is      *)
(* open.                                                                   *)
(***************************************************************************)
EXTENDS DeviceBus, TLAPS

(* A job holds the bus from Lock to the unlock, and no other holds it. *)
Exchanging == {"quiet", "reset", "write", "read", "failed"}
OwnerInv == \A j \in Jobs : pc[j] \in Exchanging <=> owner = j

(* A job that will write has a command left. *)
CommandInv ==
    \A j \in Jobs : pc[j] \in {"idle", "lock", "quiet", "reset", "write"} => cmds[j] < MaxCommands

(* What is on the line or in the buffer is the owner's or late; after the   *)
(* quiet time the line is empty, and from the reset on the late ones are    *)
(* gone from the buffer too.                                                *)
LineInv ==
    /\ coming \cup input \subseteq {owner, Late}
    /\ \A j \in Jobs :
          /\ pc[j] = "reset" => coming = {}
          /\ pc[j] \in {"write", "read"} => coming \cup input \subseteq {j}

(* At most one goroutine has won the CompareAndSwap and not yet returned;  *)
(* between its close and its open no port is open.                         *)
Reopening == {"close", "open", "done"}
ReopenInv ==
    /\ \A g \in Reopeners : rpc[g] \in Reopening => inReconnect
    /\ \A g, h \in Reopeners : rpc[g] \in Reopening /\ rpc[h] \in Reopening => g = h
    /\ \A g \in Reopeners : rpc[g] = "open" => \A p \in Ports : port[p] = "closed"

JobInv == OwnerInv /\ CommandInv /\ LineInv /\ OwnAnswer
PortInv == ReopenInv /\ NoPortLeftOpen
Inv == TypeOK /\ JobInv /\ PortInv

-----------------------------------------------------------------------------
(* The initial states: no job has the bus, the line is empty, every port is *)
(* closed and one goroutine is about to open the first.                     *)
LEMMA InitInv == Init => Inv
<1> SUFFICES ASSUME Init PROVE Inv
  OBVIOUS
<1> USE BusAssumption DEF Init
<1>1. TypeOK
  <2>1. rpc \in [Reopeners -> {"none", "start", "close", "open", "done"}]
    OBVIOUS
  <2>2. cmds \in [Jobs -> 0 .. MaxCommands] /\ received \in 0 .. ReceiveCap /\ faults \in Nat
    OBVIOUS
  <2> QED BY <2>1, <2>2 DEF TypeOK, Operations
<1>2. JobInv
  BY DEF JobInv, OwnerInv, CommandInv, LineInv, OwnAnswer, Exchanging
<1>3. PortInv
  BY DEF PortInv, ReopenInv, NoPortLeftOpen, Reopening
<1> QED BY <1>1, <1>2, <1>3 DEF Inv

(* The steps of a job keep the types. *)
LEMMA JobType ==
    ASSUME Inv, NEW j \in Jobs,
           AddCronJob(j) \/ Lock(j) \/ Exchange(j) \/ SendData(j)
    PROVE  TypeOK'
<1> USE BusAssumption DEF Inv, TypeOK, Operations
<1>1. CASE AddCronJob(j)
  BY <1>1 DEF AddCronJob, line, ports, reopen
<1>2. CASE Lock(j)
  BY <1>2 DEF Lock, line, ports, reopen
<1>3. CASE Quiet(j)
  BY <1>3 DEF Quiet, line, ports, reopen
<1>4. CASE loadConn(j)
  BY <1>4 DEF loadConn, line, ports, reopen
<1>5. CASE ResetInputBuffer(j)
  BY <1>5 DEF ResetInputBuffer, GoesOn, ports, reopen
<1>6. CASE Write(j)
  <2>1. cmds' \in [Jobs -> 0 .. MaxCommands]
    BY <1>6 DEF Write, On, JobInv, CommandInv
  <2>2. coming' \subseteq Answers
    BY <1>6 DEF Write, Answers
  <2> QED BY <1>6, <2>1, <2>2 DEF Write, GoesOn, ports, reopen
<1>7. CASE Read(j)
  <2> PICK a \in input : Read(j)!(a)
    BY <1>7 DEF Read
  <2> QED BY DEF GoesOn, Leave, Answers, ports, reopen
<1>8. CASE GetData(j)
  BY <1>8 DEF GetData, GoesOn, Answers, ports, reopen
<1>9. CASE ConcurrentMeasurement(j)
  <2> PICK a \in input : ConcurrentMeasurement(j)!(a)
    BY <1>9 DEF ConcurrentMeasurement
  <2> QED BY DEF GoesOn, Leave, Answers, ports, reopen
<1>10. CASE Timeout(j)
  BY <1>10 DEF Timeout, GoesOn, line, ports, reopen
<1>11. CASE Fails(j)
  BY <1>11 DEF Fails, handleErr, GoesOn, line, ports
<1>12. CASE unlockBus(j)
  BY <1>12 DEF unlockBus, Unlocked, Leave, Answers, ports, reopen
<1>13. CASE SendData(j)
  BY <1>13 DEF SendData, HasRoom, line, ports, reopen
<1> QED BY <1>1, <1>2, <1>3, <1>4, <1>5, <1>6, <1>7, <1>8, <1>9, <1>10, <1>11, <1>12, <1>13
        DEF Exchange

(* The other steps keep the types. *)
LEMMA PortType ==
    ASSUME Inv,
           \/ ReceiveData \/ Unplug \/ Plug
           \/ \E g \in Reopeners : reopenUntilSuccess(g)
           \/ \E a \in Answers : Arrive(a)
    PROVE  TypeOK'
<1> USE BusAssumption DEF Inv, TypeOK, Operations
<1>1. CASE ReceiveData
  BY <1>1 DEF ReceiveData, jobs, line, ports, reopen
<1>2. CASE Unplug
  <2>1. port' \in [Ports -> {"open", "dead", "closed"}]
    BY <1>2 DEF Unplug
  <2>2. faults' \in Nat
    BY <1>2 DEF Unplug
  <2>3. plugged' = FALSE /\ coming' = {}
    BY <1>2 DEF Unplug
  <2>4. UNCHANGED <<pc, held, cmds, got, owner, input, conn, inReconnect, rpc, received>>
    BY <1>2 DEF Unplug, jobs, reopen
  <2> QED BY <2>1, <2>2, <2>3, <2>4
<1>3. CASE Plug
  BY <1>3 DEF Plug, jobs, line, ports, reopen
<1>4. ASSUME NEW g \in Reopeners, CompareAndSwap(g) PROVE TypeOK'
  BY <1>4 DEF CompareAndSwap, jobs, line, ports
<1>5. ASSUME NEW g \in Reopeners, ClosePort(g) PROVE TypeOK'
  BY <1>5 DEF ClosePort, jobs
<1>6. ASSUME NEW g \in Reopeners, NEW p \in Ports, OpenPort(g, p) PROVE TypeOK'
  BY <1>6 DEF OpenPort, jobs, line
<1>7. ASSUME NEW g \in Reopeners, ReopenReturns(g) PROVE TypeOK'
  BY <1>7 DEF ReopenReturns, ReconnectDone, jobs, line, ports
<1>8. ASSUME NEW a \in Answers, Arrive(a) PROVE TypeOK'
  BY <1>8 DEF Arrive, jobs, ports, reopen
<1> QED BY <1>1, <1>2, <1>3, <1>4, <1>5, <1>6, <1>7, <1>8 DEF reopenUntilSuccess

-----------------------------------------------------------------------------
(* A job's own steps keep the bus in one hand and the answers apart: what   *)
(* it leaves behind when it gives the bus up is late for everybody.         *)
LEMMA JobKeepsJobInv ==
    ASSUME Inv, NEW j \in Jobs,
           AddCronJob(j) \/ Lock(j) \/ Exchange(j) \/ SendData(j)
    PROVE  JobInv'
<1> USE BusAssumption
    DEF Inv, TypeOK, JobInv, OwnerInv, CommandInv, LineInv, OwnAnswer, Exchanging, Operations
<1>1. CASE AddCronJob(j)
  BY <1>1 DEF AddCronJob, line
<1>2. CASE Lock(j)
  BY <1>2 DEF Lock, Answers, line
<1>3. CASE Quiet(j)
  BY <1>3 DEF Quiet, QuietOver, line
<1>4. CASE loadConn(j)
  BY <1>4 DEF loadConn, line
<1>5. CASE ResetInputBuffer(j)
  BY <1>5 DEF ResetInputBuffer, On, GoesOn
<1>6. CASE Write(j)
  BY <1>6 DEF Write, On, GoesOn
<1>7. CASE Read(j)
  BY <1>7 DEF Read, On, GoesOn, Leave
<1>8. CASE GetData(j)
  BY <1>8 DEF GetData, On, GoesOn
<1>9. CASE ConcurrentMeasurement(j)
  BY <1>9 DEF ConcurrentMeasurement, On, GoesOn, Leave
<1>10. CASE Timeout(j)
  BY <1>10 DEF Timeout, On, GoesOn, line
<1>11. CASE Fails(j)
  BY <1>11 DEF Fails, handleErr, GoesOn, line
<1>12. CASE unlockBus(j)
  BY <1>12 DEF unlockBus, Unlocked, Leave
<1>13. CASE SendData(j)
  BY <1>13 DEF SendData, line
<1> QED BY <1>1, <1>2, <1>3, <1>4, <1>5, <1>6, <1>7, <1>8, <1>9, <1>10, <1>11, <1>12, <1>13
        DEF Exchange

(* The port may be closed, opened or lost in the middle of an exchange:     *)
(* answers are dropped or arrive, and none becomes another job's.           *)
LEMMA PortKeepsJobInv ==
    ASSUME Inv,
           \/ ReceiveData \/ Unplug \/ Plug
           \/ \E g \in Reopeners : reopenUntilSuccess(g)
           \/ \E a \in Answers : Arrive(a)
    PROVE  JobInv'
<1>1. UNCHANGED <<jobs, owner>> /\ coming' \subseteq coming /\ input' \subseteq input \cup coming
  BY DEF ReceiveData, Unplug, Plug, reopenUntilSuccess, CompareAndSwap, ClosePort, OpenPort,
         ReopenReturns, Arrive, line
<1> QED BY <1>1 DEF Inv, JobInv, OwnerInv, CommandInv, LineInv, OwnAnswer, jobs

(* A job at most starts a goroutine. *)
LEMMA JobKeepsPortInv ==
    ASSUME Inv, NEW j \in Jobs,
           AddCronJob(j) \/ Lock(j) \/ Exchange(j) \/ SendData(j)
    PROVE  PortInv'
<1> USE DEF Inv, TypeOK, PortInv, ReopenInv, NoPortLeftOpen, Reopening
<1>1. CASE Fails(j)
  BY <1>1 DEF Fails, handleErr, ports
<1>2. CASE ~Fails(j)
  <2>1. UNCHANGED <<ports, reopen>>
    BY <1>2 DEF AddCronJob, Lock, Exchange, SendData, Quiet, loadConn, ResetInputBuffer, Write, Read,
         GetData, ConcurrentMeasurement, Timeout, unlockBus
  <2> QED BY <2>1 DEF ports, reopen
<1> QED BY <1>1, <1>2

(* The goroutines: the port in use is closed before another is opened.      *)
LEMMA PortKeepsPortInv ==
    ASSUME Inv,
           \/ ReceiveData \/ Unplug \/ Plug
           \/ \E g \in Reopeners : reopenUntilSuccess(g)
           \/ \E a \in Answers : Arrive(a)
    PROVE  PortInv'
<1> USE BusAssumption DEF Inv, TypeOK, PortInv, ReopenInv, NoPortLeftOpen, Reopening
<1>1. CASE ReceiveData
  BY <1>1 DEF ReceiveData, ports, reopen
<1>2. CASE Unplug
  BY <1>2 DEF Unplug, reopen
<1>3. CASE Plug
  BY <1>3 DEF Plug, ports, reopen
<1>4. ASSUME NEW g \in Reopeners, CompareAndSwap(g) PROVE PortInv'
  BY <1>4 DEF CompareAndSwap, SwapsReconnect, ports
<1>5. ASSUME NEW g \in Reopeners, ClosePort(g) PROVE PortInv'
  BY <1>5 DEF ClosePort
<1>6. ASSUME NEW g \in Reopeners, NEW p \in Ports, OpenPort(g, p) PROVE PortInv'
  BY <1>6 DEF OpenPort
<1>7. ASSUME NEW g \in Reopeners, ReopenReturns(g) PROVE PortInv'
  BY <1>7 DEF ReopenReturns, ReconnectDone, ports
<1>8. ASSUME NEW a \in Answers, Arrive(a) PROVE PortInv'
  BY <1>8 DEF Arrive, ports, reopen
<1> QED BY <1>1, <1>2, <1>3, <1>4, <1>5, <1>6, <1>7, <1>8 DEF reopenUntilSuccess

-----------------------------------------------------------------------------
(* Every step keeps the invariant. *)
LEMMA NextInv == Inv /\ [Next]_vars => Inv'
<1> SUFFICES ASSUME Inv, [Next]_vars PROVE Inv'
  OBVIOUS
<1>1. ASSUME NEW j \in Jobs, AddCronJob(j) \/ Lock(j) \/ Exchange(j) \/ SendData(j)
      PROVE  Inv'
  BY <1>1, JobType, JobKeepsJobInv, JobKeepsPortInv DEF Inv
<1>2. ASSUME \/ ReceiveData \/ Unplug \/ Plug
             \/ \E g \in Reopeners : reopenUntilSuccess(g)
             \/ \E a \in Answers : Arrive(a)
      PROVE  Inv'
  BY <1>2, PortType, PortKeepsJobInv, PortKeepsPortInv DEF Inv
<1>3. CASE UNCHANGED vars
  BY <1>3 DEF Inv, TypeOK, JobInv, OwnerInv, CommandInv, LineInv, OwnAnswer, PortInv, ReopenInv,
              NoPortLeftOpen, vars, jobs, line, ports, reopen
<1> QED BY <1>1, <1>2, <1>3 DEF Next

LEMMA SpecInv == Spec => []Inv
BY InitInv, NextInv, PTL DEF Spec

(* Types; DataReceive never holds more than its capacity. *)
THEOREM TypeCorrect == Spec => []TypeOK
BY SpecInv, PTL DEF Inv

(* A job reads the answer to its own request or none, however the jobs that *)
(* share the bus, their time-outs and the replacement of the port           *)
(* interleave.                                                              *)
THEOREM AnswersAreOwn == Spec => []OwnAnswer
<1>1. Inv => OwnAnswer
  BY DEF Inv, JobInv
<1> QED BY SpecInv, <1>1, PTL

(* Reopening leaves no port open but the one in use, however many errors    *)
(* start a goroutine.                                                       *)
THEOREM OnePortOpen == Spec => []NoPortLeftOpen
<1>1. Inv => NoPortLeftOpen
  BY DEF Inv, PortInv
<1> QED BY SpecInv, <1>1, PTL
=============================================================================
