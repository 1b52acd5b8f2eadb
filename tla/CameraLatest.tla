----------------------------- MODULE CameraLatest -----------------------------
(***************************************************************************)
(* CameraLatestSnapShot for a camera of an upstream's station: snapshots   *)
(* are fetched from the upstream through the shared client (UpstreamAuth), *)
(* kept in a directory, and answered from there together with the new      *)
(* ones.  Nothing keeps two requests for a camera apart.                   *)
(*                                                                         *)
(* A snapshot is the number it was taken as; the names in the directory    *)
(* sort in that order.  Both servers keep Count snapshots.  The camera has *)
(* one upstream.                                                           *)
(***************************************************************************)
EXTENDS UpstreamAuth, FiniteSets

CONSTANTS
    Requests,     \* requests for the camera at a time
    Dial,         \* the sync loop's dial, which shares the client
    Count,        \* LatestSnapshotCount
    MaxShots,     \* bound on the snapshots the camera takes
    MaxCalls      \* bound on the requests and dials

ASSUME CameraAssumption ==
    /\ Callers = Requests \cup {Dial}
    /\ Dial \notin Requests
    /\ Count \in Nat \ {0}
    /\ MaxShots \in Nat
    /\ MaxCalls \in Nat

VARIABLES
    shots,        \* the upstream: snapshots taken
    cache,        \* the directory
    at,           \* request -> where it is
    after,        \* request -> what the browser has
    dirs,         \* request -> cachedDirs
    imgs,         \* request -> imgsFromUp
    todo,         \* request -> files to write, to remove or to read
    reply,        \* request -> imgsReturn
    due,          \* request -> what the upstream itself would have answered
    alone,        \* the requests no other has run beside
    torn,         \* has a write failed?
    calls

cameraVars == <<shots, cache, at, after, dirs, imgs, todo, reply, due, alone, torn, calls>>
vars == <<authVars, cameraVars>>

Highest(set) == {i \in set : \A j \in set : j <= i}
Lowest(set) == {i \in set : \A j \in set : i <= j}
Newest(k, set) == {i \in set : Cardinality({j \in set : j > i}) < k}
Oldest(k, set) == {i \in set : Cardinality({j \in set : j < i}) < k}

\* What a server answers for a camera of its own: of the last Count files,
\* newest first, those the browser does not have.
LocalAnswer(have) == {i \in Newest(Count, 1..shots) : i > have}

Init ==
    /\ AuthInit
    /\ shots = 0
    /\ cache = {}
    /\ at = [q \in Requests |-> "idle"]
    /\ after = [q \in Requests |-> 0]
    /\ dirs = [q \in Requests |-> {}]
    /\ imgs = [q \in Requests |-> {}]
    /\ todo = [q \in Requests |-> {}]
    /\ reply = [q \in Requests |-> {}]
    /\ due = [q \in Requests |-> {}]
    /\ alone = {}
    /\ torn = FALSE
    /\ calls = 0

Call == calls < MaxCalls /\ calls' = calls + 1

Snapshot ==
    /\ shots < MaxShots
    /\ shots' = shots + 1
    /\ UNCHANGED <<authVars, cache, at, after, dirs, imgs, todo, reply, due, alone,
                   torn, calls>>

-----------------------------------------------------------------------------
Step(q, label) == at' = [at EXCEPT ![q] = label]

\* A request: the directory is read.
ReadDir(q, have) ==
    /\ at[q] = "idle"
    /\ Call
    /\ after' = [after EXCEPT ![q] = have]
    /\ dirs' = [dirs EXCEPT ![q] = cache]
    /\ alone' = IF \A p \in Requests : at[p] = "idle" THEN {q} ELSE {}
    /\ DoWithAuth(q)
    /\ Step(q, "fetch")
    /\ UNCHANGED <<shots, cache, imgs, todo, reply, due, torn>>

\* The upstream is asked for what came after the last file.  due is what the
\* upstream would have answered the browser at that moment.
Fetch(q) ==
    /\ at[q] = "fetch"
    /\ phase[q] = "answered"
    /\ TakeAnswer(q)
    /\ imgs' = [imgs EXCEPT ![q] = {i \in LocalAnswer(0) : \A d \in dirs[q] : d < i}]
    /\ todo' = [todo EXCEPT ![q] = imgs'[q]]
    /\ due' = [due EXCEPT ![q] = LocalAnswer(after[q])]
    /\ Step(q, "write")
    /\ UNCHANGED <<shots, cache, after, dirs, reply, alone, torn, calls>>

End(q) ==
    /\ Step(q, "idle")
    /\ after' = [after EXCEPT ![q] = 0]
    /\ dirs' = [dirs EXCEPT ![q] = {}]
    /\ imgs' = [imgs EXCEPT ![q] = {}]
    /\ todo' = [todo EXCEPT ![q] = {}]
    /\ reply' = [reply EXCEPT ![q] = {}]
    /\ due' = [due EXCEPT ![q] = {}]
    /\ alone' = alone \ {q}

\* Without an answer from the upstream there is none for the browser.
FetchFails(q) ==
    /\ at[q] = "fetch"
    /\ phase[q] = "failed"
    /\ TakeAnswer(q)
    /\ End(q)
    /\ UNCHANGED <<shots, cache, torn, calls>>

\* The files are written newest first.
WriteFile(q) ==
    /\ at[q] = "write"
    /\ \E i \in Highest(todo[q]) :
          /\ cache' = cache \cup {i}
          /\ todo' = [todo EXCEPT ![q] = @ \ {i}]
    /\ UNCHANGED <<authVars, shots, at, after, dirs, imgs, reply, due, alone, torn,
                   calls>>

\* A failed write ends the request; the older files are not written.
WriteFails(q) ==
    /\ at[q] = "write"
    /\ todo[q] # {}
    /\ Fault
    /\ torn' = TRUE
    /\ End(q)
    /\ UNCHANGED <<token, tokenMu, phase, held, issued, valid, refused, shots, cache,
                   calls>>

\* Mutant: the files just written are not counted.
Surplus_Old(q) == Cardinality(dirs[q]) - Count

\* How many files are too many.
Surplus(q) == Cardinality(dirs[q]) + Cardinality(imgs[q]) - Count

Written(q) ==
    /\ at[q] = "write"
    /\ todo[q] = {}
    /\ todo' = [todo EXCEPT ![q] = Oldest(Surplus(q), dirs[q])]
    /\ Step(q, "remove")
    /\ UNCHANGED <<authVars, shots, cache, after, dirs, imgs, reply, due, alone, torn,
                   calls>>

\* The oldest of the files it saw are removed; one that is gone is no error.
RemoveFile(q) ==
    /\ at[q] = "remove"
    /\ \E i \in Lowest(todo[q]) :
          /\ cache' = cache \ {i}
          /\ todo' = [todo EXCEPT ![q] = @ \ {i}]
    /\ UNCHANGED <<authVars, shots, at, after, dirs, imgs, reply, due, alone, torn,
                   calls>>

\* Mutant: only what came from the upstream is returned.
FromCache_None(q) == {}

\* The files that fill the answer up.
FromCache(q) ==
    IF \A i \in imgs[q] : i > after[q]
    THEN {i \in Newest(Count - Cardinality(imgs[q]), dirs[q]) : i > after[q]}
    ELSE {}

Removed(q) ==
    /\ at[q] = "remove"
    /\ todo[q] = {}
    /\ reply' = [reply EXCEPT ![q] = {i \in imgs[q] : i > after[q]}]
    /\ todo' = [todo EXCEPT ![q] = FromCache(q)]
    /\ Step(q, "read")
    /\ UNCHANGED <<authVars, shots, cache, after, dirs, imgs, due, alone, torn, calls>>

ReadFile(q) ==
    /\ at[q] = "read"
    /\ \E i \in Highest(todo[q]) :
          /\ i \in cache
          /\ reply' = [reply EXCEPT ![q] = @ \cup {i}]
          /\ todo' = [todo EXCEPT ![q] = @ \ {i}]
    /\ UNCHANGED <<authVars, shots, cache, at, after, dirs, imgs, due, alone, torn,
                   calls>>

\* Another request has removed the file: there is no answer.
ReadFails(q) ==
    /\ at[q] = "read"
    /\ \E i \in Highest(todo[q]) : i \notin cache
    /\ End(q)
    /\ UNCHANGED <<authVars, shots, cache, torn, calls>>

Answered(q) == at[q] = "read" /\ todo[q] = {}

WriteResponse(q) ==
    /\ Answered(q)
    /\ End(q)
    /\ UNCHANGED <<authVars, shots, cache, torn, calls>>

\* The sync loop dials with the same client.
DialUpstream ==
    /\ \/ Call /\ DoWithAuth(Dial)
       \/ TakeAnswer(Dial) /\ UNCHANGED calls
    /\ UNCHANGED <<shots, cache, at, after, dirs, imgs, todo, reply, due, alone, torn>>

Client ==
    /\ \/ \E c \in Callers : AuthStep(c)
       \/ Expire
    /\ UNCHANGED cameraVars

Next ==
    \/ Snapshot
    \/ \E q \in Requests :
          \/ \E have \in 0..shots : ReadDir(q, have)
          \/ Fetch(q) \/ FetchFails(q)
          \/ WriteFile(q) \/ WriteFails(q) \/ Written(q)
          \/ RemoveFile(q) \/ Removed(q)
          \/ ReadFile(q) \/ ReadFails(q) \/ WriteResponse(q)
    \/ DialUpstream
    \/ Client

Spec == Init /\ [][Next]_vars

-----------------------------------------------------------------------------
\* Types, the client's included; a lock is held by a caller that logs in.
TypeOK ==
    /\ AuthTypeOK
    /\ tokenMu # NoCaller => phase[tokenMu] \in {"login", "relogin"}
    /\ shots \in 0..MaxShots
    /\ cache \subseteq 1..shots
    /\ at \in [Requests -> {"idle", "fetch", "write", "remove", "read"}]
    /\ after \in [Requests -> 0..shots]
    /\ \A f \in {dirs, imgs, todo, reply, due} : f \in [Requests -> SUBSET (1..shots)]
    /\ alone \subseteq Requests
    /\ torn \in BOOLEAN
    /\ calls \in 0..MaxCalls

\* A request that ran without another beside it answers what the upstream
\* itself would have answered, although the files it answers from were left
\* by requests that overlapped, fetched different snapshots and removed each
\* other's.  A failed write leaves a hole, because the newest is written first.
AnswerComplete ==
    \A q \in alone : Answered(q) /\ ~torn => reply[q] = due[q]

\* It also leaves no more than Count files behind, however many were left
\* by requests that overlapped.
CacheTrimmed ==
    \A q \in alone : at[q] = "read" => Cardinality(cache) <= Count
=============================================================================
