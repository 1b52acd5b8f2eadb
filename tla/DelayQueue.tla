------------------------------ MODULE DelayQueue ------------------------------
(***************************************************************************)
(* What a DelayedBroker promises: every message it accepts is handed on    *)
(* once, in the order of acceptance, and not before its delay is over.     *)
(***************************************************************************)
EXTENDS Integers, Sequences

CONSTANTS
    Delays,      \* in ticks
    Messages

VARIABLES
    delay,       \* of this queue, chosen once
    pending,     \* accepted messages: the message and the time it has left
    delivered    \* messages handed on

vars == <<delay, pending, delivered>>

(* Time passes: n is one less, and never below zero. *)
Less(n) == IF n = 0 THEN 0 ELSE n - 1
Older(q) == [j \in DOMAIN q |-> [msg |-> q[j].msg, left |-> Less(q[j].left)]]

Init == delay \in Delays /\ pending = <<>> /\ delivered = <<>>

Accept(m) ==
    /\ pending' = Append(pending, [msg |-> m, left |-> delay])
    /\ UNCHANGED <<delay, delivered>>

Deliver ==
    /\ pending # <<>>
    /\ Head(pending).left = 0
    /\ delivered' = Append(delivered, Head(pending).msg)
    /\ pending' = Tail(pending)
    /\ UNCHANGED delay

(* A broker without delay. *)
PassOn(m) ==
    /\ delay = 0
    /\ delivered' = Append(delivered, m)
    /\ UNCHANGED <<delay, pending>>

Tick == pending' = Older(pending) /\ UNCHANGED <<delay, delivered>>

Next == Deliver \/ Tick \/ \E m \in Messages : Accept(m) \/ PassOn(m)

Spec == Init /\ [][Next]_vars
=============================================================================
