---------------------------- MODULE DelayedBroker ----------------------------
(***************************************************************************)
(* DelayedBroker of pkg/pubsub: publishers append to scheduledQueue under  *)
(* mu, one goroutine hands the messages on when their delay is over.       *)
(*                                                                         *)
(* Time is counted in ticks and kept as the time that is left, so that it  *)
(* needs no bound.  A message is the number of its Publish call.           *)
(***************************************************************************)
EXTENDS Integers, Sequences

CONSTANTS
    Publishers,   \* goroutines that call Publish: one per station connection
    NoOne,        \* mu is free
    Delays,       \* what DataDelaySec may be
    IdleTimeout,  \* the timer of an empty queue: 100000 h in the code
    MaxCalls      \* bound on the calls of Publish

ASSUME DelayAssumption ==
    /\ NoOne \notin Publishers
    /\ Delays \subseteq Nat
    /\ IdleTimeout \in Nat \ {0}
    /\ MaxCalls \in Nat

VARIABLES
    delay,           \* DataDelaySec
    mu,              \* the publisher that holds mu; dispatchLoop only within a step
    ppc,             \* publisher -> where it is in Publish
    msg,             \* publisher -> the message it publishes
    scheduledQueue,  \* messages and the time they have left
    timer,           \* time left until timer.C fires
    dpc,             \* where dispatchLoop is
    nextMessage,     \* the message it has taken from the queue, as a sequence
    delivered,       \* messages handed to Broker.Publish, in order
    calls            \* calls of Publish so far

vars ==
    <<delay, mu, ppc, msg, scheduledQueue, timer, dpc, nextMessage, delivered, calls>>

Scheduled == [msg : 1 .. MaxCalls, left : Nat]

(* Every variable stays in its type; a message in hand has no time left. *)
TypeOK ==
    /\ delay \in Delays
    /\ mu \in Publishers \cup {NoOne}
    /\ ppc \in [Publishers -> {"idle", "direct", "lock", "wake", "append"}]
    /\ msg \in [Publishers -> 0 .. MaxCalls]
    /\ scheduledQueue \in Seq(Scheduled)
    /\ timer \in Nat
    /\ dpc \in {"lock", "select", "pop", "publish"}
    /\ nextMessage \in Seq([msg : 1 .. MaxCalls, left : {0}])
    /\ delivered \in Seq(1 .. MaxCalls)
    /\ calls \in 0 .. MaxCalls

Init ==
    /\ delay \in Delays
    /\ mu = NoOne
    /\ ppc = [p \in Publishers |-> "idle"]
    /\ msg = [p \in Publishers |-> 0]
    /\ scheduledQueue = <<>>
    /\ timer = IdleTimeout
    /\ dpc = "lock"
    /\ nextMessage = <<>>
    /\ delivered = <<>>
    /\ calls = 0

-----------------------------------------------------------------------------
(* Publish *)

PublishesDirectly == delay = 0

Call(p) ==
    /\ ppc[p] = "idle"
    /\ calls < MaxCalls
    /\ calls' = calls + 1
    /\ msg' = [msg EXCEPT ![p] = calls + 1]
    /\ ppc' = [ppc EXCEPT ![p] = IF PublishesDirectly THEN "direct" ELSE "lock"]
    /\ UNCHANGED <<delay, mu, scheduledQueue, timer, dpc, nextMessage, delivered>>

PublishDirectly(p) ==
    /\ ppc[p] = "direct"
    /\ delivered' = Append(delivered, msg[p])
    /\ ppc' = [ppc EXCEPT ![p] = "idle"]
    /\ UNCHANGED <<delay, mu, msg, scheduledQueue, timer, dpc, nextMessage, calls>>

(* Mutant: the loop is left to its timer. *)
NeedsWake_Never == FALSE

(* The loop sleeps on the idle timer, if it sleeps. *)
NeedsWake == scheduledQueue = <<>>

LockQueue(p) ==
    /\ ppc[p] = "lock"
    /\ mu = NoOne
    /\ mu' = p
    /\ ppc' = [ppc EXCEPT ![p] = IF NeedsWake THEN "wake" ELSE "append"]
    /\ UNCHANGED <<delay, msg, scheduledQueue, timer, dpc, nextMessage, delivered, calls>>

(* wakeCh is unbuffered: the publisher waits, with mu held, until the loop  *)
(* is in its select.  The loop stops its timer.                             *)
Wake(p) ==
    /\ ppc[p] = "wake"
    /\ dpc = "select"
    /\ ppc' = [ppc EXCEPT ![p] = "append"]
    /\ dpc' = "lock"
    /\ UNCHANGED <<delay, mu, msg, scheduledQueue, timer, nextMessage, delivered, calls>>

(* Mutant: an urgent message is put in front of the queue. *)
Schedule_InFront(m) == <<[msg |-> m, left |-> delay]>> \o scheduledQueue

Schedule(m) == Append(scheduledQueue, [msg |-> m, left |-> delay])

AppendAndUnlock(p) ==
    /\ ppc[p] = "append"
    /\ scheduledQueue' = Schedule(msg[p])
    /\ mu' = NoOne
    /\ ppc' = [ppc EXCEPT ![p] = "idle"]
    /\ UNCHANGED <<delay, msg, timer, dpc, nextMessage, delivered, calls>>

-----------------------------------------------------------------------------
(* dispatchLoop *)

(* Mutant: the timer of the message in front is not set. *)
TimerReset_Missing == timer

(* What the timer is reset to. *)
TimerReset == IF scheduledQueue = <<>> THEN IdleTimeout ELSE Head(scheduledQueue).left

ResetTimer ==
    /\ dpc = "lock"
    /\ mu = NoOne
    /\ timer' = TimerReset
    /\ dpc' = "select"
    /\ UNCHANGED <<delay, mu, ppc, msg, scheduledQueue, nextMessage, delivered, calls>>

TimerFires ==
    /\ dpc = "select"
    /\ timer = 0
    /\ dpc' = "pop"
    /\ UNCHANGED <<delay, mu, ppc, msg, scheduledQueue, timer, nextMessage, delivered, calls>>

(* Under mu: the first message is taken, if there is one. *)
TakeNext ==
    /\ dpc = "pop"
    /\ mu = NoOne
    /\ \/ /\ scheduledQueue = <<>>
          /\ dpc' = "lock"
          /\ UNCHANGED <<scheduledQueue, nextMessage>>
       \/ /\ scheduledQueue # <<>>
          /\ dpc' = "publish"
          /\ nextMessage' = <<Head(scheduledQueue)>>
          /\ scheduledQueue' = Tail(scheduledQueue)
    /\ UNCHANGED <<delay, mu, ppc, msg, timer, delivered, calls>>

PublishNext ==
    /\ dpc = "publish"
    /\ delivered' = Append(delivered, Head(nextMessage).msg)
    /\ nextMessage' = <<>>
    /\ dpc' = "lock"
    /\ UNCHANGED <<delay, mu, ppc, msg, scheduledQueue, timer, calls>>

(* Time passes. *)
Less(n) == IF n = 0 THEN 0 ELSE n - 1
Older(q) == [j \in DOMAIN q |-> [msg |-> q[j].msg, left |-> Less(q[j].left)]]

Tick ==
    /\ timer' = Less(timer)
    /\ scheduledQueue' = Older(scheduledQueue)
    /\ UNCHANGED <<delay, mu, ppc, msg, dpc, nextMessage, delivered, calls>>

-----------------------------------------------------------------------------
PublisherStep(p) ==
    PublishDirectly(p) \/ LockQueue(p) \/ Wake(p) \/ AppendAndUnlock(p)

dispatchLoop == ResetTimer \/ TimerFires \/ TakeNext \/ PublishNext

Next ==
    \/ \E p \in Publishers : Call(p) \/ PublisherStep(p)
    \/ dispatchLoop
    \/ Tick

Spec == Init /\ [][Next]_vars

(* Goroutines that can run do, the mutex lets every waiter in, and time passes. *)
Fairness ==
    /\ \A p \in Publishers : SF_vars(PublisherStep(p))
    /\ SF_vars(dispatchLoop)
    /\ WF_vars(Tick)

FairSpec == Spec /\ Fairness

-----------------------------------------------------------------------------
Queue == INSTANCE DelayQueue
         WITH pending <- nextMessage \o scheduledQueue, Messages <- 1 .. MaxCalls

(* DelayedBroker delays and does nothing else: each message is handed on    *)
(* once, in the order in which it was scheduled, when its delay is over.    *)
ImplementsDelayQueue == Queue!Spec

(* dispatchLoop never sleeps past the first message: when it waits with a   *)
(* message in the queue, its timer is that message's and not the idle one.  *)
NoOversleep ==
    dpc \in {"select", "pop"} /\ scheduledQueue # <<>> =>
        timer = Head(scheduledQueue).left

(* A message given to Publish is handed on. *)
EventuallyPublished ==
    \A m \in 1 .. MaxCalls :
        (calls >= m) ~> (\E j \in DOMAIN delivered : delivered[j] = m)
=============================================================================
