------------------------------ MODULE DeviceBus ------------------------------
(***************************************************************************)
(* The devices of a station on one bus: the cron jobs that poll them, the  *)
(* lock of the bus, the port it is on, and the goroutines that reopen the  *)
(* port after an error.                                                    *)
(*                                                                         *)
(* Every device has one job.  An answer is the job whose request it        *)
(* answers; the bytes it is made of are left out.  An answer that comes    *)
(* when its exchange is over is a Late one.  What arrives on the line goes *)
(* to the input buffer of the port that is open.  uart.go and tcp.go are   *)
(* alike in this, but that a TCP port notices only in Read, and not at     *)
(* once, that its peer is gone.                                            *)
(***************************************************************************)
EXTENDS Integers

CONSTANTS
    Jobs,         \* cron jobs, one per device
    Late,         \* an answer nobody waits for
    None,         \* no job, no answer, no port
    Ports,        \* port handles; a closed one nobody holds is used again
    Reopeners,    \* goroutines of handleErr; bounds how many there are at a time
    MaxCommands,  \* bound on the commands of a job (C! and D0! to D9! in SDI-12)
    ReceiveCap,   \* capacity of DataReceive (2000 in the code)
    MaxFaults     \* bound on the times the port fails

ASSUME BusAssumption ==
    /\ {Late, None} \cap Jobs = {} /\ Late # None /\ None \notin Ports
    /\ MaxCommands \in Nat \ {0}
    /\ ReceiveCap \in Nat \ {0}
    /\ MaxFaults \in Nat

VARIABLES
    pc,           \* job -> where it is
    held,         \* job -> the port its operation has loaded
    cmds,         \* job -> commands it has sent
    got,          \* job -> the answer it has read
    owner,        \* the job that holds the bus
    coming,       \* answers on the line
    input,        \* answers in the input buffer of the port
    port,         \* port -> its state
    conn,         \* the port in use
    inReconnect,
    rpc,          \* goroutine -> where it is in reopenUntilSuccess
    plugged,      \* can the port be opened?
    received,     \* readings in DataReceive
    faults        \* faults so far

jobs   == <<pc, held, cmds, got>>
line   == <<coming, input>>
ports  == <<port, conn>>
reopen == <<inReconnect, rpc>>
vars   == <<jobs, owner, line, ports, reopen, plugged, received, faults>>

Answers == Jobs \cup {Late}

(* The operations of an exchange on the port, in their order. *)
Operations == {"reset", "write", "read"}

(* Every variable stays in its type; DataReceive within its capacity. *)
TypeOK ==
    /\ pc \in [Jobs -> {"idle", "lock", "quiet", "failed", "send"} \cup Operations]
    /\ held \in [Jobs -> Ports \cup {None}]
    /\ cmds \in [Jobs -> 0 .. MaxCommands]
    /\ got \in [Jobs -> Answers \cup {None}]
    /\ owner \in Jobs \cup {None}
    /\ coming \subseteq Answers
    /\ input \subseteq Answers
    /\ port \in [Ports -> {"open", "dead", "closed"}]
    /\ conn \in Ports \cup {None}
    /\ inReconnect \in BOOLEAN
    /\ rpc \in [Reopeners -> {"none", "start", "close", "open", "done"}]
    /\ plugged \in BOOLEAN
    /\ received \in 0 .. ReceiveCap
    /\ faults \in Nat

(* StartUart starts the first goroutine. *)
Init ==
    /\ pc = [j \in Jobs |-> "idle"]
    /\ held = [j \in Jobs |-> None]
    /\ cmds = [j \in Jobs |-> 0]
    /\ got = [j \in Jobs |-> None]
    /\ owner = None
    /\ coming = {} /\ input = {}
    /\ port = [p \in Ports |-> "closed"]
    /\ conn = None
    /\ inReconnect = FALSE
    /\ rpc \in [Reopeners -> {"none", "start"}]
    /\ \E g \in Reopeners : \A h \in Reopeners : rpc[h] = "start" <=> h = g
    /\ plugged = TRUE
    /\ received = 0
    /\ faults = 0

-----------------------------------------------------------------------------
(* A job *)

(* The job's cron entry fires; while inQuery is set it does nothing. *)
AddCronJob(j) ==
    /\ pc[j] = "idle"
    /\ pc' = [pc EXCEPT ![j] = "lock"]
    /\ UNCHANGED <<held, cmds, got, owner, line, ports, reopen, plugged, received, faults>>

Lock(j) ==
    /\ pc[j] = "lock"
    /\ owner = None
    /\ owner' = j
    /\ pc' = [pc EXCEPT ![j] = "quiet"]
    /\ UNCHANGED <<held, cmds, got, line, ports, reopen, plugged, received, faults>>

(* Mutant: the next request is written at once. *)
QuietOver_AtOnce == TRUE

(* Bus.Write sleeps for quietTime; by then an answer of the exchange before *)
(* has arrived.                                                             *)
QuietOver == coming = {}

Quiet(j) ==
    /\ pc[j] = "quiet"
    /\ QuietOver
    /\ pc' = [pc EXCEPT ![j] = "reset"]
    /\ UNCHANGED <<held, cmds, got, owner, line, ports, reopen, plugged, received, faults>>

(* An operation loads the port it works on.  Without one it fails, and      *)
(* nothing is reopened.                                                     *)
loadConn(j) ==
    /\ pc[j] \in Operations
    /\ held[j] = None
    /\ \/ /\ conn # None
          /\ held' = [held EXCEPT ![j] = conn]
          /\ UNCHANGED pc
       \/ /\ conn = None
          /\ pc' = [pc EXCEPT ![j] = "failed"]
          /\ UNCHANGED held
    /\ UNCHANGED <<cmds, got, owner, line, ports, reopen, plugged, received, faults>>

(* Job j has loaded a port for operation op, and it is in one of the states. *)
On(j, op, states) == pc[j] = op /\ held[j] # None /\ port[held[j]] \in states

(* The operation is done with the port; the job goes on at p. *)
GoesOn(j, p) ==
    /\ pc' = [pc EXCEPT ![j] = p]
    /\ held' = [held EXCEPT ![j] = None]

ResetInputBuffer(j) ==
    /\ On(j, "reset", {"open", "dead"})
    /\ GoesOn(j, "write")
    /\ input' = {}
    /\ UNCHANGED <<cmds, got, owner, coming, ports, reopen, plugged, received, faults>>

(* The device answers, or it does not. *)
Write(j) ==
    /\ On(j, "write", {"open", "dead"})
    /\ GoesOn(j, "read")
    /\ cmds' = [cmds EXCEPT ![j] = @ + 1]
    /\ \/ coming' = coming
       \/ port[held[j]] = "open" /\ coming' = coming \cup {j}
    /\ UNCHANGED <<got, owner, input, ports, reopen, plugged, received, faults>>

(* What is left of job j's answer when it gives the bus up is late. *)
Leave(j, answers) == {IF a = j THEN Late ELSE a : a \in answers}

(* The job has sent its last command and takes the answer with it. *)
Read(j) ==
    \E a \in input :
        /\ On(j, "read", {"open"})
        /\ GoesOn(j, "send")
        /\ got' = [got EXCEPT ![j] = a]
        /\ input' = Leave(j, input \ {a})
        /\ coming' = Leave(j, coming)
        /\ owner' = None
        /\ UNCHANGED <<cmds, ports, reopen, plugged, received, faults>>

(* GetData: the next command of the job, with the bus held. *)
GetData(j) ==
    \E a \in input :
        /\ On(j, "read", {"open"})
        /\ cmds[j] < MaxCommands
        /\ GoesOn(j, "quiet")
        /\ got' = [got EXCEPT ![j] = a]
        /\ input' = input \ {a}
        /\ UNCHANGED <<cmds, owner, coming, ports, reopen, plugged, received, faults>>

(* ConcurrentMeasurement: the job gives the bus up and takes it again for   *)
(* its next command.                                                        *)
ConcurrentMeasurement(j) ==
    \E a \in input :
        /\ On(j, "read", {"open"})
        /\ cmds[j] < MaxCommands
        /\ GoesOn(j, "lock")
        /\ got' = [got EXCEPT ![j] = a]
        /\ input' = Leave(j, input \ {a})
        /\ coming' = Leave(j, coming)
        /\ owner' = None
        /\ UNCHANGED <<cmds, ports, reopen, plugged, received, faults>>

(* Read times out, or what it returns cannot be parsed. *)
Timeout(j) ==
    /\ On(j, "read", {"open", "dead"})
    /\ GoesOn(j, "failed")
    /\ UNCHANGED <<cmds, got, owner, line, ports, reopen, plugged, received, faults>>

(* An error of the port itself starts a goroutine that reopens it. *)
handleErr(j, g) ==
    /\ pc[j] \in Operations
    /\ held[j] # None
    /\ port[held[j]] # "open"
    /\ GoesOn(j, "failed")
    /\ rpc[g] = "none"
    /\ rpc' = [rpc EXCEPT ![g] = "start"]
    /\ UNCHANGED <<cmds, got, owner, line, ports, inReconnect, plugged, received, faults>>

(* Mutant: an exchange that failed keeps the bus. *)
Unlocked_Never == owner

Unlocked == None

(* The exchange failed: the job has no value. *)
unlockBus(j) ==
    /\ pc[j] = "failed"
    /\ owner' = Unlocked
    /\ pc' = [pc EXCEPT ![j] = "send"]
    /\ got' = [got EXCEPT ![j] = None]
    /\ input' = Leave(j, input)
    /\ coming' = Leave(j, coming)
    /\ UNCHANGED <<held, cmds, ports, reopen, plugged, received, faults>>

(* Mutant: the channel has no limit. *)
HasRoom_Always == TRUE

HasRoom == received < ReceiveCap

(* The reading goes to DataReceive, with or without a value. *)
SendData(j) ==
    /\ pc[j] = "send"
    /\ HasRoom
    /\ received' = received + 1
    /\ pc' = [pc EXCEPT ![j] = "idle"]
    /\ cmds' = [cmds EXCEPT ![j] = 0]
    /\ got' = [got EXCEPT ![j] = None]
    /\ UNCHANGED <<held, owner, line, ports, reopen, plugged, faults>>

(* receiveData takes a reading. *)
ReceiveData ==
    /\ received > 0
    /\ received' = received - 1
    /\ UNCHANGED <<jobs, owner, line, ports, reopen, plugged, faults>>

-----------------------------------------------------------------------------
(* reopenUntilSuccess *)

(* Mutant: inReconnect is not looked at. *)
SwapsReconnect_Always == TRUE

SwapsReconnect == ~inReconnect

(* CompareAndSwap: one goroutine reopens, the others return. *)
CompareAndSwap(g) ==
    /\ rpc[g] = "start"
    /\ rpc' = [rpc EXCEPT ![g] = IF SwapsReconnect THEN "close" ELSE "none"]
    /\ inReconnect' = TRUE
    /\ UNCHANGED <<jobs, owner, line, ports, plugged, received, faults>>

(* The port in use is closed, whatever its state, and stays in use. *)
ClosePort(g) ==
    /\ rpc[g] = "close"
    /\ rpc' = [rpc EXCEPT ![g] = "open"]
    /\ port' = [p \in Ports |-> IF p = conn THEN "closed" ELSE port[p]]
    /\ input' = {}
    /\ UNCHANGED <<jobs, owner, coming, conn, inReconnect, plugged, received, faults>>

(* A handle that nobody has. *)
Unused(p) == port[p] = "closed" /\ p # conn /\ \A j \in Jobs : held[j] # p

(* open succeeds and stores the port.  Until then it is tried every 10 s.  *)
(* The handles are alike: the first free one is taken.                     *)
OpenPort(g, p) ==
    /\ rpc[g] = "open"
    /\ plugged
    /\ Unused(p) /\ p = CHOOSE free \in Ports : Unused(free)
    /\ rpc' = [rpc EXCEPT ![g] = "done"]
    /\ port' = [port EXCEPT ![p] = "open"]
    /\ conn' = p
    /\ UNCHANGED <<jobs, owner, line, inReconnect, plugged, received, faults>>

(* Mutant: the deferred Store is missing. *)
ReconnectDone_Missing == inReconnect

ReconnectDone == FALSE

ReopenReturns(g) ==
    /\ rpc[g] = "done"
    /\ rpc' = [rpc EXCEPT ![g] = "none"]
    /\ inReconnect' = ReconnectDone
    /\ UNCHANGED <<jobs, owner, line, ports, plugged, received, faults>>

-----------------------------------------------------------------------------
(* The devices and the line *)

(* The port in use works. *)
Working == conn # None /\ port[conn] = "open"

Arrive(a) ==
    /\ a \in coming
    /\ coming' = coming \ {a}
    /\ input' = IF Working THEN input \cup {a} ELSE input
    /\ UNCHANGED <<jobs, owner, ports, reopen, plugged, received, faults>>

(* The adapter or the network of the port fails ... *)
Unplug ==
    /\ faults < MaxFaults
    /\ faults' = faults + 1
    /\ plugged
    /\ plugged' = FALSE
    /\ port' = [p \in Ports |-> IF port[p] = "open" THEN "dead" ELSE port[p]]
    /\ coming' = {}
    /\ UNCHANGED <<jobs, owner, input, conn, reopen, received>>

(* ... and comes back. *)
Plug ==
    /\ ~plugged
    /\ plugged' = TRUE
    /\ UNCHANGED <<jobs, owner, line, ports, reopen, received, faults>>

-----------------------------------------------------------------------------
Fails(j) == \E g \in Reopeners : handleErr(j, g)

Exchange(j) ==
    \/ Quiet(j)
    \/ loadConn(j)
    \/ ResetInputBuffer(j)
    \/ Write(j)
    \/ Read(j) \/ GetData(j) \/ ConcurrentMeasurement(j)
    \/ Timeout(j)
    \/ Fails(j)
    \/ unlockBus(j)

reopenUntilSuccess(g) ==
    \/ CompareAndSwap(g)
    \/ ClosePort(g)
    \/ \E p \in Ports : OpenPort(g, p)
    \/ ReopenReturns(g)

Next ==
    \/ \E j \in Jobs : AddCronJob(j) \/ Lock(j) \/ Exchange(j) \/ SendData(j)
    \/ ReceiveData
    \/ \E g \in Reopeners : reopenUntilSuccess(g)
    \/ \E a \in Answers : Arrive(a)
    \/ Unplug
    \/ Plug

Spec == Init /\ [][Next]_vars

(* Cron fires again and again, goroutines that can run do, the mutex of the *)
(* bus and the channel let every waiter in, readings are taken (StationSync *)
(* shows that ingest resumes), Read does not time out for ever on a port    *)
(* that is dead (keep-alive), and a port that failed can be opened again    *)
(* some time.                                                               *)
Fairness ==
    /\ \A j \in Jobs :
          /\ WF_vars(AddCronJob(j) \/ Exchange(j))
          /\ SF_vars(Lock(j) \/ SendData(j))
          /\ SF_vars(Fails(j))
    /\ WF_vars(ReceiveData)
    /\ \A g \in Reopeners : WF_vars(reopenUntilSuccess(g))
    /\ WF_vars(\E a \in Answers : Arrive(a))
    /\ WF_vars(Plug)

FairSpec == Spec /\ Fairness

-----------------------------------------------------------------------------
(* A job reads the answer to its own request: never that of another device, *)
(* nor one that was on its way when the exchange before it was given up,    *)
(* although the port may be replaced in the middle.                         *)
OwnAnswer == \A j \in Jobs : got[j] \in {j, None}

(* Only the port in use is open: reopening never leaves one behind, which   *)
(* would keep the serial line busy for the next one.                        *)
NoPortLeftOpen == \A p \in Ports : port[p] # "closed" => p = conn

(* After a failure the port is opened again, also when an error comes while *)
(* inReconnect is still set and is dropped.                                 *)
PortReturns == ~Working ~> Working

(* A job that has been started delivers a reading, with or without a value: *)
(* no failure leaves the bus locked.                                        *)
JobEnds == \A j \in Jobs : (pc[j] # "idle") ~> (pc[j] = "idle")
=============================================================================
