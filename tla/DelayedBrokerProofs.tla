------------------------- MODULE DelayedBrokerProofs -------------------------
(***************************************************************************)
(* DelayedBroker implements DelayQueue, for any delay and any number of    *)
(* publishers.                                                             *)
(***************************************************************************)
EXTENDS DelayedBroker, SequenceTheorems, TLAPS

Taken == [msg : 1 .. MaxCalls, left : {0}]

(* mu is held between LockQueue and AppendAndUnlock. *)
MuInv == \A p \in Publishers : ppc[p] \in {"wake", "append"} <=> mu = p

(* A publisher that appends to an empty queue has woken the loop, which    *)
(* then waits for mu.                                                      *)
WakeInv ==
    \A p \in Publishers :
        /\ ppc[p] = "wake" => scheduledQueue = <<>>
        /\ ppc[p] = "append" => scheduledQueue # <<>> \/ dpc = "lock"

(* What a publisher and the loop have in hand. *)
HandInv ==
    /\ \A p \in Publishers :
          /\ ppc[p] # "idle" => msg[p] \in 1 .. MaxCalls
          /\ ppc[p] = "direct" => delay = 0
    /\ IF dpc = "publish" THEN \E e \in Taken : nextMessage = <<e>> ELSE nextMessage = <<>>

(* The loop takes a message when its timer is at zero. *)
PopInv == dpc = "pop" => timer = 0

Inv == TypeOK /\ MuInv /\ WakeInv /\ HandInv /\ PopInv /\ NoOversleep

-----------------------------------------------------------------------------
LEMMA OlderType ==
    ASSUME NEW q \in Seq(Scheduled)
    PROVE  /\ Older(q) \in Seq(Scheduled) /\ Len(Older(q)) = Len(q)
           /\ \A j \in 1 .. Len(q) :
                Older(q)[j] = [msg |-> q[j].msg, left |-> Less(q[j].left)]
<1>1. Len(q) \in Nat /\ DOMAIN q = 1 .. Len(q)
  BY LenProperties
<1>2. \A j \in 1 .. Len(q) : q[j] \in Scheduled
  BY ElementOfSeq
<1>3. \A j \in 1 .. Len(q) : [msg |-> q[j].msg, left |-> Less(q[j].left)] \in Scheduled
  BY <1>2, DelayAssumption DEF Scheduled, Less
<1> DEFINE o == Older(q)
<1>4. o = [j \in 1 .. Len(q) |-> [msg |-> q[j].msg, left |-> Less(q[j].left)]]
  BY <1>1 DEF Older
<1>5. o \in Seq(Scheduled)
  BY <1>1, <1>3, <1>4, IsASeq
<1>6. DOMAIN o = 1 .. Len(q)
  BY <1>4
<1>7. Len(o) = Len(q)
  BY <1>1, <1>5, <1>6, LenProperties
<1> QED BY <1>4, <1>5, <1>7

LEMMA HeadLeft ==
    ASSUME NEW q \in Seq(Scheduled), q # <<>>
    PROVE  /\ Head(q) \in Scheduled
           /\ Older(q) # <<>> /\ Head(Older(q)).left = Less(Head(q).left)
<1>1. Len(q) \in Nat /\ Len(q) >= 1 /\ Head(q) = q[1]
  BY LenProperties, EmptySeq
<1>2. /\ Older(q) \in Seq(Scheduled) /\ Len(Older(q)) = Len(q)
      /\ Older(q)[1] = [msg |-> q[1].msg, left |-> Less(q[1].left)]
  BY <1>1, OlderType
<1>3. Older(q) # <<>> /\ Head(Older(q)) = Older(q)[1]
  BY <1>1, <1>2, EmptySeq
<1>4. Head(q) \in Scheduled
  BY HeadTailProperties
<1> QED BY <1>1, <1>2, <1>3, <1>4

LEMMA InitInv == Init => Inv
BY DelayAssumption, EmptySeq DEF Init, Inv, TypeOK, MuInv, WakeInv, HandInv, PopInv, NoOversleep

LEMMA PublisherInv ==
    ASSUME Inv, NEW p \in Publishers, Call(p) \/ PublisherStep(p)
    PROVE  Inv'
<1> USE DelayAssumption DEF Inv, TypeOK, MuInv, WakeInv, HandInv, PopInv, NoOversleep
<1>1. CASE Call(p)
  BY <1>1 DEF Call, PublishesDirectly
<1>2. CASE PublishDirectly(p)
  <2>1. delivered' \in Seq(1 .. MaxCalls)
    BY <1>2, AppendProperties DEF PublishDirectly
  <2> QED BY <1>2, <2>1 DEF PublishDirectly
<1>3. CASE LockQueue(p)
  BY <1>3 DEF LockQueue, NeedsWake
<1>4. CASE Wake(p)
  BY <1>4 DEF Wake
<1>5. CASE AppendAndUnlock(p)
  <2> DEFINE e == [msg |-> msg[p], left |-> delay]
  <2>1. /\ ppc[p] = "append" /\ scheduledQueue' = Append(scheduledQueue, e) /\ mu' = NoOne
        /\ ppc' = [ppc EXCEPT ![p] = "idle"]
        /\ UNCHANGED <<delay, msg, timer, dpc, nextMessage, delivered, calls>>
    BY <1>5 DEF AppendAndUnlock, Schedule
  <2>2. e \in Scheduled
    BY <2>1 DEF Scheduled
  <2> HIDE DEF e
  <2>3. /\ scheduledQueue' \in Seq(Scheduled) /\ scheduledQueue' # <<>>
        /\ scheduledQueue # <<>> => Head(scheduledQueue') = Head(scheduledQueue)
    BY <2>1, <2>2, AppendProperties, HeadTailAppend
  <2>4. TypeOK'
    BY <2>1, <2>3
  <2>5. MuInv' /\ WakeInv' /\ HandInv' /\ PopInv'
    BY <2>1, <2>3
  <2>6. NoOversleep'
    BY <2>1, <2>3
  <2> QED BY <2>4, <2>5, <2>6
<1> QED BY <1>1, <1>2, <1>3, <1>4, <1>5 DEF PublisherStep

LEMMA LoopInv ==
    ASSUME Inv, dispatchLoop
    PROVE  Inv'
<1> USE DelayAssumption DEF Inv, TypeOK, MuInv, WakeInv, HandInv, PopInv, NoOversleep
<1>1. CASE ResetTimer
  <2>1. scheduledQueue # <<>> => Head(scheduledQueue) \in Scheduled
    BY HeadLeft
  <2>2. timer' \in Nat
    BY <1>1, <2>1 DEF ResetTimer, TimerReset, Scheduled
  <2> QED BY <1>1, <2>2 DEF ResetTimer, TimerReset
<1>2. CASE TimerFires
  BY <1>2 DEF TimerFires
<1>3. CASE TakeNext
  <2>1. CASE scheduledQueue = <<>>
    BY <1>3, <2>1 DEF TakeNext
  <2>2. CASE scheduledQueue # <<>>
    <3> DEFINE e == Head(scheduledQueue)
    <3>1. /\ dpc = "pop" /\ mu = NoOne /\ dpc' = "publish" /\ nextMessage' = <<e>>
          /\ scheduledQueue' = Tail(scheduledQueue)
          /\ UNCHANGED <<delay, mu, ppc, msg, timer, delivered, calls>>
      BY <1>3, <2>2 DEF TakeNext
    <3>2. e \in Scheduled /\ Tail(scheduledQueue) \in Seq(Scheduled)
      BY <2>2, HeadTailProperties
    <3>3. e \in Taken
      BY <2>2, <3>1, <3>2 DEF Scheduled, Taken
    <3> HIDE DEF e
    <3>4. nextMessage' \in Seq(Taken)
      BY <3>1, <3>3
    <3>5. TypeOK'
      BY <3>1, <3>2, <3>4 DEF Taken
    <3> QED BY <3>1, <3>3, <3>5
  <2> QED BY <2>1, <2>2
<1>4. CASE PublishNext
  <2>1. PICK e \in Taken : nextMessage = <<e>>
    BY <1>4 DEF PublishNext
  <2>2. Head(nextMessage).msg \in 1 .. MaxCalls
    BY <2>1 DEF Taken
  <2>3. delivered' \in Seq(1 .. MaxCalls)
    BY <1>4, <2>2, AppendProperties DEF PublishNext
  <2> QED BY <1>4, <2>3 DEF PublishNext
<1> QED BY <1>1, <1>2, <1>3, <1>4 DEF dispatchLoop

LEMMA TickInv == ASSUME Inv, Tick PROVE Inv'
<1> USE DEF Inv, TypeOK, MuInv, WakeInv, HandInv, PopInv, NoOversleep
<1>1. /\ scheduledQueue' \in Seq(Scheduled)
      /\ scheduledQueue' = <<>> <=> scheduledQueue = <<>>
  <2>1. Len(scheduledQueue') = Len(scheduledQueue) /\ scheduledQueue' \in Seq(Scheduled)
    BY OlderType DEF Tick
  <2> QED BY <2>1, EmptySeq
<1>2. timer' \in Nat /\ (timer = 0 => timer' = 0)
  BY DEF Tick, Less
<1>3. NoOversleep'
  BY <1>1, HeadLeft DEF Tick
<1> QED BY <1>1, <1>2, <1>3 DEF Tick

LEMMA Inductive == Inv /\ [Next]_vars => Inv'
<1> SUFFICES ASSUME Inv, [Next]_vars PROVE Inv'
  OBVIOUS
<1>1. CASE UNCHANGED vars
  BY <1>1 DEF vars, Inv, TypeOK, MuInv, WakeInv, HandInv, PopInv, NoOversleep
<1> QED BY <1>1, PublisherInv, LoopInv, TickInv DEF Next

(* dispatchLoop never sleeps on the idle timer, or on a stale one, while a  *)
(* message is queued.                                                       *)
THEOREM LoopServesQueue == Spec => []NoOversleep
<1>1. Inv => NoOversleep
  BY DEF Inv
<1> QED BY <1>1, InitInv, Inductive, PTL DEF Spec

(* The timer and the delays left are never negative, and dispatchLoop holds *)
(* no message in hand before its delay is over.                             *)
THEOREM TypeCorrect == Spec => []TypeOK
<1>1. Inv => TypeOK
  BY DEF Inv
<1> QED BY <1>1, InitInv, Inductive, PTL DEF Spec

-----------------------------------------------------------------------------
(* The refinement *)

LEMMA SingletonSeq ==
    ASSUME NEW S, NEW e \in S
    PROVE  <<e>> \in Seq(S)
OBVIOUS

(* Sequences with one element in front. *)
LEMMA InFront ==
    ASSUME NEW S, NEW e \in S, NEW q \in Seq(S)
    PROVE  /\ <<e>> \o q \in Seq(S) /\ <<e>> \o q # <<>>
           /\ Head(<<e>> \o q) = e /\ Tail(<<e>> \o q) = q
<1>1. <<e>> \in Seq(S) /\ Len(<<e>>) = 1 /\ <<e>>[1] = e /\ Len(q) \in Nat
  BY LenProperties
<1> DEFINE c == <<e>> \o q
<1>2. /\ c \in Seq(S) /\ Len(c) = 1 + Len(q)
      /\ \A j \in 1 .. 1 + Len(q) : c[j] = IF j <= 1 THEN <<e>>[j] ELSE q[j - 1]
  BY <1>1, ConcatProperties
<1> HIDE DEF c
<1>3. c # <<>> /\ c[1] = e
  BY <1>1, <1>2
<1>4. Head(c) = e
  BY <1>2, <1>3
<1>5. /\ Tail(c) \in Seq(S) /\ Len(Tail(c)) = Len(q)
      /\ \A j \in 1 .. Len(q) : Tail(c)[j] = c[j + 1]
  BY <1>1, <1>2, <1>3, HeadTailProperties
<1>6. \A j \in 1 .. Len(q) : Tail(c)[j] = q[j]
  BY <1>1, <1>2, <1>5
<1>7. Tail(c) = q
  BY <1>5, <1>6, SeqEqual
<1> QED BY <1>2, <1>3, <1>4, <1>7 DEF c

LEMMA InFrontAt ==
    ASSUME NEW S, NEW e \in S, NEW t \in Seq(S)
    PROVE  /\ <<e>> \o t \in Seq(S) /\ Len(<<e>> \o t) = 1 + Len(t) /\ (<<e>> \o t)[1] = e
           /\ \A j \in 2 .. 1 + Len(t) : (<<e>> \o t)[j] = t[j - 1]
<1>1. <<e>> \in Seq(S) /\ Len(<<e>>) = 1 /\ <<e>>[1] = e /\ Len(t) \in Nat
  BY LenProperties
<1> QED BY <1>1, ConcatProperties

LEMMA HeadThenTail ==
    ASSUME NEW S, NEW q \in Seq(S), q # <<>>
    PROVE  <<Head(q)>> \o Tail(q) = q
<1>1. /\ Head(q) \in S /\ Tail(q) \in Seq(S) /\ Len(Tail(q)) = Len(q) - 1
      /\ \A j \in 1 .. Len(Tail(q)) : Tail(q)[j] = q[j + 1]
      /\ Head(q) = q[1] /\ Len(q) \in Nat \ {0}
  BY HeadTailProperties, LenProperties, EmptySeq
<1> DEFINE c == <<Head(q)>> \o Tail(q)
<1>2. /\ c \in Seq(S) /\ Len(c) = 1 + Len(Tail(q)) /\ c[1] = Head(q)
      /\ \A j \in 2 .. 1 + Len(Tail(q)) : c[j] = Tail(q)[j - 1]
  BY <1>1, InFrontAt
<1> HIDE DEF c
<1>3. Len(c) = Len(q) /\ \A j \in 1 .. Len(q) : c[j] = q[j]
  BY <1>1, <1>2
<1>4. c = q
  BY <1>2, <1>3, SeqEqual
<1> QED BY <1>4 DEF c

(* A message whose time is over does not age. *)
LEMMA OlderInFront ==
    ASSUME NEW e \in Taken, e \in Scheduled, NEW q \in Seq(Scheduled)
    PROVE  Older(<<e>> \o q) = <<e>> \o Older(q)
<1> DEFINE c == <<e>> \o q
           d == <<e>> \o Older(q)
<1>1. /\ Older(q) \in Seq(Scheduled) /\ Len(Older(q)) = Len(q) /\ Len(q) \in Nat
      /\ \A j \in 1 .. Len(q) : Older(q)[j] = [msg |-> q[j].msg, left |-> Less(q[j].left)]
  BY OlderType, LenProperties
<1>2. <<e>> \in Seq(Scheduled) /\ Len(<<e>>) = 1 /\ <<e>>[1] = e
  OBVIOUS
<1>3. /\ c \in Seq(Scheduled) /\ Len(c) = 1 + Len(q) /\ c[1] = e
      /\ \A j \in 2 .. 1 + Len(q) : c[j] = q[j - 1]
  BY <1>1, <1>2, ConcatProperties
<1>4. /\ d \in Seq(Scheduled) /\ Len(d) = 1 + Len(q) /\ d[1] = e
      /\ \A j \in 2 .. 1 + Len(q) : d[j] = Older(q)[j - 1]
  BY <1>1, <1>2, ConcatProperties
<1> HIDE DEF c, d
<1>5. /\ Older(c) \in Seq(Scheduled) /\ Len(Older(c)) = Len(c)
      /\ \A j \in 1 .. Len(c) : Older(c)[j] = [msg |-> c[j].msg, left |-> Less(c[j].left)]
  BY <1>3, OlderType
<1>6. [msg |-> e.msg, left |-> Less(e.left)] = e
  BY DEF Taken, Less
<1> DEFINE o == Older(c)
<1>7. /\ 1 \in 1 .. Len(c)
      /\ \A j \in 2 .. 1 + Len(q) : j \in 1 .. Len(c) /\ j - 1 \in 1 .. Len(q)
      /\ \A j \in 1 .. Len(d) : j = 1 \/ j \in 2 .. 1 + Len(q)
  BY <1>1, <1>3, <1>4
<1>8. o[1] = d[1] /\ \A j \in 2 .. 1 + Len(q) : o[j] = d[j]
  <2>1. o[1] = [msg |-> c[1].msg, left |-> Less(c[1].left)]
    BY <1>5, <1>7
  <2>2. ASSUME NEW j \in 2 .. 1 + Len(q) PROVE o[j] = d[j]
    <3>1. o[j] = [msg |-> c[j].msg, left |-> Less(c[j].left)] /\ c[j] = q[j - 1]
      BY <1>3, <1>5, <1>7
    <3>2. d[j] = [msg |-> q[j - 1].msg, left |-> Less(q[j - 1].left)]
      BY <1>1, <1>4, <1>7
    <3> QED BY <3>1, <3>2
  <2>3. c[1] = e /\ d[1] = e
    BY <1>3, <1>4
  <2>4. o[1] = e
    BY <1>6, <2>1, <2>3
  <2> QED BY <2>2, <2>3, <2>4
<1> HIDE DEF o
<1>9. \A j \in 1 .. Len(d) : o[j] = d[j]
  BY <1>7, <1>8
<1>10. Older(c) = d
  BY <1>3, <1>4, <1>5, <1>9, SeqEqual DEF o
<1> QED BY <1>10 DEF c, d

pending == nextMessage \o scheduledQueue

(* The queue of the abstract broker, by the place of the loop. *)
LEMMA Pending ==
    ASSUME Inv
    PROVE  /\ scheduledQueue \in Seq(Scheduled)
           /\ dpc # "publish" => nextMessage = <<>> /\ pending = scheduledQueue
           /\ dpc = "publish" => \E e \in Taken : /\ e \in Scheduled
                                                  /\ nextMessage = <<e>>
                                                  /\ pending = <<e>> \o scheduledQueue
<1>1. Taken \subseteq Scheduled
  BY DelayAssumption DEF Taken, Scheduled
<1> QED BY <1>1, ConcatEmptySeq DEF Inv, TypeOK, HandInv, pending

LEMMA StepRefines ==
    ASSUME Inv, Inv', Next
    PROVE  [Queue!Next]_(Queue!vars)
<1> USE DEF Queue!Next, Queue!vars
<1>1. ASSUME NEW p \in Publishers, Call(p) \/ LockQueue(p) \/ Wake(p)
      PROVE  UNCHANGED <<delay, pending, delivered>>
  BY <1>1 DEF Call, LockQueue, Wake, pending
<1>2. ASSUME NEW p \in Publishers, PublishDirectly(p)
      PROVE  \E m \in 1 .. MaxCalls : Queue!PassOn(m)
  BY <1>2 DEF PublishDirectly, Inv, HandInv, Queue!PassOn
<1>3. ASSUME NEW p \in Publishers, AppendAndUnlock(p)
      PROVE  \E m \in 1 .. MaxCalls : Queue!Accept(m)
  <2> DEFINE e == [msg |-> msg[p], left |-> delay]
  <2>1. /\ ppc[p] = "append" /\ scheduledQueue' = Append(scheduledQueue, e)
        /\ UNCHANGED <<delay, nextMessage, delivered>>
    BY <1>3 DEF AppendAndUnlock, Schedule
  <2>2. msg[p] \in 1 .. MaxCalls
    BY <2>1 DEF Inv, HandInv
  <2>3. e \in Scheduled
    BY <2>2, DelayAssumption DEF Scheduled, Inv, TypeOK
  <2>4. nextMessage \in Seq(Scheduled) /\ scheduledQueue \in Seq(Scheduled)
    BY Pending, SingletonSeq, EmptySeq
  <2> HIDE DEF e
  <2>5. nextMessage \o Append(scheduledQueue, e) = Append(nextMessage \o scheduledQueue, e)
    <3>1. Append(scheduledQueue, e) = scheduledQueue \o <<e>>
      BY <2>3, <2>4, AppendIsConcat
    <3>2. nextMessage \o scheduledQueue \in Seq(Scheduled) /\ <<e>> \in Seq(Scheduled)
      BY <2>3, <2>4, ConcatProperties, SingletonSeq
    <3>3. Append(nextMessage \o scheduledQueue, e) = (nextMessage \o scheduledQueue) \o <<e>>
      BY <2>3, <3>2, AppendIsConcat
    <3> QED BY <2>4, <3>1, <3>2, <3>3, ConcatAssociative
  <2>6. Queue!Accept(msg[p])
    BY <2>1, <2>5 DEF Queue!Accept, e
  <2> QED BY <2>2, <2>6
<1>4. CASE ResetTimer \/ TimerFires
  BY <1>4 DEF ResetTimer, TimerFires, pending
<1>5. CASE TakeNext
  <2>1. CASE scheduledQueue = <<>>
    BY <1>5, <2>1 DEF TakeNext
  <2>2. CASE scheduledQueue # <<>>
    <3>1. /\ dpc = "pop" /\ nextMessage' = <<Head(scheduledQueue)>>
          /\ scheduledQueue' = Tail(scheduledQueue) /\ UNCHANGED <<delay, delivered>>
      BY <1>5, <2>2 DEF TakeNext
    <3>2. scheduledQueue \in Seq(Scheduled) /\ nextMessage \o scheduledQueue = scheduledQueue
      BY <3>1, Pending DEF pending
    <3>3. <<Head(scheduledQueue)>> \o Tail(scheduledQueue) = scheduledQueue
      BY <2>2, <3>2, HeadThenTail
    <3>4. nextMessage' \o scheduledQueue' = nextMessage \o scheduledQueue
      BY <3>1, <3>2, <3>3
    <3> QED BY <3>1, <3>4
  <2> QED BY <2>1, <2>2
<1>6. CASE PublishNext
  <2>1. /\ dpc = "publish" /\ dpc' = "lock" /\ scheduledQueue' = scheduledQueue
        /\ delivered' = Append(delivered, Head(nextMessage).msg) /\ nextMessage' = <<>>
        /\ delay' = delay
    BY <1>6 DEF PublishNext
  <2>2. PICK e \in Taken : /\ e \in Scheduled /\ nextMessage = <<e>>
                           /\ nextMessage \o scheduledQueue = <<e>> \o scheduledQueue
    BY <2>1, Pending DEF pending
  <2>3. scheduledQueue \in Seq(Scheduled)
    BY Pending
  <2> DEFINE c == nextMessage \o scheduledQueue
  <2>4. c # <<>> /\ Head(c) = e /\ Tail(c) = scheduledQueue
    BY <2>2, <2>3, InFront
  <2>5. nextMessage' \o scheduledQueue' = Tail(c)
    BY <2>1, <2>3, <2>4, ConcatEmptySeq
  <2>6. e.left = 0 /\ Head(nextMessage) = e
    BY <2>2 DEF Taken
  <2>7. Queue!Deliver
    BY <2>1, <2>4, <2>5, <2>6 DEF Queue!Deliver
  <2> QED BY <2>7
<1>7. CASE Tick
  <2>1. UNCHANGED <<delay, nextMessage, delivered, dpc>> /\ scheduledQueue' = Older(scheduledQueue)
    BY <1>7 DEF Tick
  <2>2. \A q : Queue!Older(q) = Older(q)
    BY DEF Older, Less, Queue!Older, Queue!Less
  <2>3. scheduledQueue \in Seq(Scheduled) /\ Older(scheduledQueue) \in Seq(Scheduled)
    BY Pending, OlderType
  <2>4. CASE dpc # "publish"
    <3>1. nextMessage = <<>> /\ nextMessage \o scheduledQueue = scheduledQueue
      BY <2>4, Pending DEF pending
    <3>2. nextMessage' \o scheduledQueue' = Older(scheduledQueue)
      BY <2>1, <2>3, <3>1, ConcatEmptySeq
    <3>3. Queue!Tick
      BY <2>1, <2>2, <3>1, <3>2 DEF Queue!Tick
    <3> QED BY <3>3
  <2>5. CASE dpc = "publish"
    <3>1. PICK e \in Taken : /\ e \in Scheduled /\ nextMessage = <<e>>
                             /\ nextMessage \o scheduledQueue = <<e>> \o scheduledQueue
      BY <2>5, Pending DEF pending
    <3>2. Older(<<e>> \o scheduledQueue) = <<e>> \o Older(scheduledQueue)
      BY <2>3, <3>1, OlderInFront
    <3>3. Queue!Tick
      BY <2>1, <2>2, <3>1, <3>2 DEF Queue!Tick
    <3> QED BY <3>3
  <2> QED BY <2>4, <2>5
<1> QED BY <1>1, <1>2, <1>3, <1>4, <1>5, <1>6, <1>7 DEF Next, PublisherStep, dispatchLoop, pending

(* Whatever the publishers and the loop do, in any interleaving and even    *)
(* when they wait for each other for ever, the messages that are handed on  *)
(* are those that were scheduled, in that order, each once and after its    *)
(* delay.                                                                   *)
THEOREM DelaysOnly == Spec => ImplementsDelayQueue
<1>1. Init => Queue!Init
  BY ConcatEmptySeq, EmptySeq DEF Init, Queue!Init
<1>2. Inv /\ Inv' /\ [Next]_vars => [Queue!Next]_(Queue!vars)
  <2>1. UNCHANGED vars => UNCHANGED Queue!vars
    BY DEF vars, Queue!vars
  <2> QED BY <2>1, StepRefines
<1> QED BY <1>1, <1>2, InitInv, Inductive, PTL DEF Spec, ImplementsDelayQueue, Queue!Spec
=============================================================================
