------------------------------ MODULE Upstreams ------------------------------
(***************************************************************************)
(* The upstreams of a server: administrators add, edit and delete them,    *)
(* and every one is served by a goroutine (startSync) that dials, syncs    *)
(* the stations the upstream offers, and dials again.                      *)
(*                                                                         *)
(* A loop is one run of startSync.  recvConnections knows one loop of an   *)
(* upstream; a loop that is cancelled ends at its next look at its         *)
(* context.  A station stands for its row, its devices and its items:      *)
(* RelayConfig has their writes one by one.  EditUpstream and DelUpstream  *)
(* hold editMu, the full synchronisation of a new connection does not, so  *)
(* DelUpstream's transaction is two steps: what it reads, and its commit.  *)
(***************************************************************************)
EXTENDS Integers, FiniteSets

CONSTANTS
    Stations,
    MaxUps,       \* bound on the ids of upstreams
    MaxLoops,     \* bound on the runs of startSync that exist at a time
    MaxEdits,     \* bound on what administrators do, here and upstream
    MaxFaults     \* bound on failures, and on changes of reach

ASSUME UpstreamsAssumption ==
    /\ MaxUps \in Nat
    /\ MaxLoops \in Nat
    /\ MaxEdits \in Nat
    /\ MaxFaults \in Nat

Ups == 1..MaxUps
Loops == 1..MaxLoops
NoUp == 0
NoLoop == 0

VARIABLES
    v2,           \* SyncV2.Enabled
    \* PostgreSQL.
    rows,         \* upstreams
    conf,         \* upstream -> the version of its settings
    stations,     \* stations that came from an upstream
    links,        \* upstream_stations
    avail,        \* station -> the upstreams its items are available from
    \* The controller.
    registry,     \* recvConnections
    del,          \* what DelUpstream is at
    \* The loops.
    pc,
    of,           \* loop -> its upstream ...
    settings,     \* ... and the settings it was started with
    cancelled,    \* the loops whose context is cancelled
    \* The upstreams.
    offers,       \* upstream -> the stations it offers
    reach,        \* the upstreams that answer
    \* The environment.
    lastId,       \* the id the sequence gave out last
    edits,
    faults

dbVars == <<rows, conf, stations, links, avail>>
loopVars == <<pc, of, settings, cancelled>>
envVars == <<offers, reach, lastId, edits, faults>>
vars == <<v2, dbVars, registry, del, loopVars, envVars>>

Idle == [phase |-> "idle", up |-> NoUp, stations |-> {}]
Connected == {"available", "config", "run"}

Edit == edits < MaxEdits /\ edits' = edits + 1
Fault == faults < MaxFaults /\ faults' = faults + 1

-----------------------------------------------------------------------------
(* What the steps are made of. *)

\* The first loop that has not started, or has returned and is not in
\* recvConnections any more.
IsFree(l) == pc[l] = "unused" /\ \A u \in Ups : registry[u] # l
IsNextFree(l) == IsFree(l) /\ \A k \in Loops : IsFree(k) => l <= k

\* go startSync
Spawn(l, u, version) ==
    /\ pc' = [pc EXCEPT ![l] = "starting"]
    /\ of' = [of EXCEPT ![l] = u]
    /\ settings' = [settings EXCEPT ![l] = version]

Goto(l, label) ==
    /\ pc' = [pc EXCEPT ![l] = label]
    /\ UNCHANGED <<of, settings, cancelled>>

Return(l) ==
    /\ pc' = [pc EXCEPT ![l] = "unused"]
    /\ of' = [of EXCEPT ![l] = NoUp]
    /\ settings' = [settings EXCEPT ![l] = 0]
    /\ cancelled' = cancelled \ {l}

\* The loop recvConnections knows, unless it has returned.
Registered(u) == {l \in Loops : registry[u] = l /\ pc[l] # "unused"}

Linked(u) == {s \in Stations : <<u, s>> \in links}
Unlinked(known, linked) == {s \in known : \A u \in Ups : <<u, s>> \notin linked}

\* Rows a transaction has deleted and not yet committed make others wait.
NotLocked(known) == known \cap del.stations = {}

EditMuFree == del.phase = "idle"

-----------------------------------------------------------------------------
Init ==
    /\ v2 \in BOOLEAN
    /\ rows = {}
    /\ conf = [u \in Ups |-> 0]
    /\ stations = {} /\ links = {}
    /\ avail = [s \in Stations |-> {}]
    /\ registry = [u \in Ups |-> NoLoop]
    /\ del = Idle
    /\ pc = [l \in Loops |-> "unused"]
    /\ of = [l \in Loops |-> NoUp]
    /\ settings = [l \in Loops |-> 0]
    /\ cancelled = {}
    /\ offers = [u \in Ups |-> Stations]
    /\ reach = Ups
    /\ lastId = 0
    /\ edits = 0 /\ faults = 0

-----------------------------------------------------------------------------
(* Administrators. *)

\* EditUpstream without an id.
AddUpstream(u, l) ==
    /\ EditMuFree
    /\ u = lastId + 1
    /\ lastId' = u
    /\ rows' = rows \cup {u}
    /\ conf' = [conf EXCEPT ![u] = 1]
    /\ Spawn(l, u, 1)
    /\ UNCHANGED <<v2, stations, links, avail, registry, del, cancelled, offers, reach,
                   edits, faults>>

\* Mutant: the loop recvConnections knows is cancelled when the new one has
\* stored itself.
EditUpstream_StartsFirst(u, l) ==
    /\ EditMuFree
    /\ u <= lastId
    /\ Edit
    /\ conf' = IF u \in rows THEN [conf EXCEPT ![u] = @ + 1] ELSE conf
    /\ pc' = [pc EXCEPT ![l] = "dial"]
    /\ of' = [of EXCEPT ![l] = u]
    /\ settings' = [settings EXCEPT ![l] = conf'[u]]
    /\ registry' = [registry EXCEPT ![u] = l]
    /\ cancelled' = cancelled \cup {registry'[u]}
    /\ UNCHANGED <<v2, rows, stations, links, avail, del, offers, reach, lastId, faults>>

\* EditUpstream with an id, also of an upstream that is no longer there: the
\* loop recvConnections knows is cancelled, and a new one is started.
EditUpstream(u, l) ==
    /\ EditMuFree
    /\ u <= lastId
    /\ Edit
    /\ conf' = IF u \in rows THEN [conf EXCEPT ![u] = @ + 1] ELSE conf
    /\ cancelled' = cancelled \cup Registered(u)
    /\ Spawn(l, u, conf'[u])
    /\ UNCHANGED <<v2, rows, stations, links, avail, registry, del, offers, reach,
                   lastId, faults>>

\* Mutant: only the stations of this upstream are looked at.
Deletes_Own(u) ==
    {s \in Linked(u) : \A w \in Ups \ {u} : <<w, s>> \notin links}

\* The stations no other upstream has.
Deletes(u) == Unlinked(stations, links \ ({u} \X Stations))

\* db.DelUpstream, also of an upstream that is gone, deletes the links and
\* the stations that have no other, ...
DelUpstream(u) ==
    /\ EditMuFree
    /\ u <= lastId
    /\ Edit
    /\ del' = [phase |-> "tx", up |-> u, stations |-> Deletes(u)]
    /\ UNCHANGED <<v2, dbVars, registry, loopVars, offers, reach, lastId, faults>>

\* ... then the upstream, which takes along the links made meanwhile, and
\* commits.
DelUpstreamCommit ==
    /\ del.phase = "tx"
    /\ rows' = rows \ {del.up}
    /\ stations' = stations \ del.stations
    /\ links' = {k \in links : k[1] # del.up /\ k[2] \notin del.stations}
    /\ avail' = [s \in Stations |-> IF s \in del.stations THEN {} ELSE avail[s]]
    /\ del' = [del EXCEPT !.phase = "cancel", !.stations = {}]
    /\ UNCHANGED <<v2, conf, registry, loopVars, envVars>>

\* The loop that recvConnections knows is cancelled last.
DelUpstreamCancel ==
    /\ del.phase = "cancel"
    /\ cancelled' = cancelled \cup Registered(del.up)
    /\ registry' = [registry EXCEPT ![del.up] = NoLoop]
    /\ del' = Idle
    /\ UNCHANGED <<v2, dbVars, pc, of, settings, envVars>>

-----------------------------------------------------------------------------
(* startSync *)

\* store first
startSync(l) ==
    /\ pc[l] = "starting"
    /\ registry' = [registry EXCEPT ![of[l]] = l]
    /\ Goto(l, "dial")
    /\ UNCHANGED <<v2, dbVars, del, envVars>>

\* DoWithAuth and the upgrade, under the loop's context.
DialSucceeds(l) ==
    /\ pc[l] = "dial"
    /\ of[l] \in reach /\ l \notin cancelled
    /\ Goto(l, IF v2 THEN "available" ELSE "config")
    /\ UNCHANGED <<v2, dbVars, registry, del, envVars>>

\* Mutant: what follows a failed dial in v1, in v2 as well.
AfterDial_Waits == "dial"

\* Where a loop goes on when it could not connect: only v2 cleans up; v1
\* just pauses and dials again.
AfterDial == IF v2 THEN "cleanup" ELSE "dial"

DialFails(l) ==
    /\ pc[l] = "dial"
    /\ l \notin cancelled
    /\ IF of[l] \in reach THEN Fault ELSE UNCHANGED faults
    /\ Goto(l, AfterDial)
    /\ UNCHANGED <<v2, dbVars, registry, del, offers, reach, lastId, edits>>

\* The list of available items.  v2 applies it first, and without editMu; v1
\* after the full configuration, with it.  Items are marked whether or not
\* the station is linked to the upstream.
UpdateAvailableItems(l) ==
    LET u == of[l]
    IN  /\ pc[l] = "available"
        /\ v2 \/ EditMuFree
        /\ NotLocked(offers[u] \cup Linked(u))
        /\ avail' = [s \in Stations |->
                       IF s \in offers[u] \cap stations THEN avail[s] \cup {u}
                       ELSE IF s \in Linked(u) THEN avail[s] \ {u} ELSE avail[s]]
        /\ Goto(l, IF v2 THEN "config" ELSE "run")
        /\ UNCHANGED <<v2, rows, conf, stations, links, registry, del, envVars>>

\* Mutant: without the foreign key.
Store_Unchecked(u, s) ==
    /\ NotLocked({s})
    /\ stations' = stations \cup {s}
    /\ links' = links \cup {<<u, s>>}
    /\ UNCHANGED avail

\* SyncStation: the station and its link in one transaction, which the
\* foreign key refuses when the upstream is gone.
Store(u, s) ==
    /\ u \in rows
    /\ NotLocked({s})
    /\ stations' = stations \cup {s}
    /\ links' = links \cup {<<u, s>>}
    /\ UNCHANGED avail

\* DelUpstreamStation: the station goes with its last link; one that stays
\* keeps its availability.
Remove(u, s) ==
    /\ NotLocked({s})
    /\ links' = links \ {<<u, s>>}
    /\ stations' = stations \ ({s} \cap Unlinked(stations, links'))
    /\ avail' = [avail EXCEPT ![s] = IF s \in stations' THEN @ ELSE {}]

\* One write of applyFullConfig, or of fullSyncConfigClient: not under editMu.
FullConfig(l, s) ==
    /\ pc[l] = "config"
    /\ \/ s \in offers[of[l]] \ Linked(of[l]) /\ Store(of[l], s)
       \/ s \in Linked(of[l]) \ offers[of[l]] /\ Remove(of[l], s)
    /\ UNCHANGED <<v2, rows, conf, registry, del, loopVars, envVars>>

FullConfigDone(l) ==
    /\ pc[l] = "config"
    /\ Linked(of[l]) = offers[of[l]]
    /\ Goto(l, IF v2 THEN "run" ELSE "available")
    /\ UNCHANGED <<v2, dbVars, registry, del, envVars>>

\* An event that follows, under editMu.
ConfigEvent(l, s) ==
    /\ pc[l] = "run"
    /\ EditMuFree
    /\ \/ s \in offers[of[l]] \ Linked(of[l]) /\ Store(of[l], s)
       \/ s \in Linked(of[l]) \ offers[of[l]] /\ Remove(of[l], s)
    /\ UNCHANGED <<v2, rows, conf, registry, del, loopVars, envVars>>

\* What ends a connection by itself: v2 closes the stream when the context
\* is cancelled, v1 does not look; a write the foreign key refuses ends the
\* full configuration, and in v1 an event as well.
Ends(l) ==
    \/ of[l] \notin reach
    \/ v2 /\ l \in cancelled
    \/ /\ of[l] \notin rows
       /\ ~ offers[of[l]] \subseteq Linked(of[l])
       /\ pc[l] = "config" \/ (~v2 /\ pc[l] = "run")

\* v2 returns without the clean-up when the context is cancelled; v1 has it
\* deferred.
Disconnect(l) ==
    /\ pc[l] \in Connected
    /\ IF Ends(l) THEN UNCHANGED faults ELSE Fault
    /\ IF v2 /\ l \in cancelled THEN Return(l) ELSE Goto(l, "cleanup")
    /\ UNCHANGED <<v2, dbVars, registry, del, offers, reach, lastId, edits>>

\* RemoveAvailableByUpstreamId: an error is only logged.
Cleanup(l) ==
    /\ pc[l] = "cleanup"
    /\ \/ /\ NotLocked(Linked(of[l]))
          /\ avail' = [s \in Stations |->
                         IF s \in Linked(of[l]) THEN avail[s] \ {of[l]} ELSE avail[s]]
          /\ UNCHANGED faults
       \/ Fault /\ UNCHANGED avail
    /\ Goto(l, "dial")
    /\ UNCHANGED <<v2, rows, conf, stations, links, registry, del, offers, reach,
                   lastId, edits>>

\* The loop ends in its pause of ten seconds, or instead of it.
LoopReturns(l) ==
    /\ pc[l] = "dial"
    /\ l \in cancelled
    /\ Return(l)
    /\ UNCHANGED <<v2, dbVars, registry, del, envVars>>

-----------------------------------------------------------------------------
(* The upstreams, and a crash of this server. *)

\* An upstream gets a station, or loses one.
Offer(u, s) ==
    /\ Edit
    /\ offers' = [offers EXCEPT ![u] = IF s \in @ THEN @ \ {s} ELSE @ \cup {s}]
    /\ UNCHANGED <<v2, dbVars, registry, del, loopVars, reach, lastId, faults>>

Reach(u) ==
    /\ Fault
    /\ reach' = IF u \in reach THEN reach \ {u} ELSE reach \cup {u}
    /\ UNCHANGED <<v2, dbVars, registry, del, loopVars, offers, lastId, edits>>

\* The process dies and starts again: nothing is available, and a loop is
\* started for every upstream.
Restart ==
    LET runs(l) == l <= Cardinality(rows)
        up(l) == CHOOSE u \in rows : Cardinality({w \in rows : w <= u}) = l
    IN  /\ Fault
        /\ avail' = [s \in Stations |-> {}]
        /\ registry' = [u \in Ups |-> NoLoop]
        /\ del' = Idle
        /\ pc' = [l \in Loops |-> IF runs(l) THEN "starting" ELSE "unused"]
        /\ of' = [l \in Loops |-> IF runs(l) THEN up(l) ELSE NoUp]
        /\ settings' = [l \in Loops |-> IF runs(l) THEN conf[up(l)] ELSE 0]
        /\ cancelled' = {}
        /\ UNCHANGED <<v2, rows, conf, stations, links, offers, reach, lastId, edits>>

-----------------------------------------------------------------------------
LoopStep(l) ==
    \/ startSync(l)
    \/ DialSucceeds(l) \/ DialFails(l)
    \/ UpdateAvailableItems(l)
    \/ \E s \in Stations : FullConfig(l, s) \/ ConfigEvent(l, s)
    \/ FullConfigDone(l)
    \/ Disconnect(l)
    \/ Cleanup(l)
    \/ LoopReturns(l)

Next ==
    \/ \E u \in Ups, l \in Loops :
          IsNextFree(l) /\ (AddUpstream(u, l) \/ EditUpstream(u, l))
    \/ \E u \in Ups : DelUpstream(u)
    \/ DelUpstreamCommit \/ DelUpstreamCancel
    \/ \E l \in Loops : LoopStep(l)
    \/ \E u \in Ups : Reach(u) \/ \E s \in Stations : Offer(u, s)
    \/ Restart

Spec == Init /\ [][Next]_vars

\* The goroutines and the handler run; a connection that has ended is noticed.
Fairness ==
    /\ WF_vars(DelUpstreamCommit) /\ WF_vars(DelUpstreamCancel)
    /\ \A l \in Loops :
          /\ WF_vars(LoopStep(l) /\ pc[l] \notin Connected)
          /\ WF_vars(Disconnect(l) /\ Ends(l))

FairSpec == Spec /\ Fairness

-----------------------------------------------------------------------------
\* Types, and the foreign keys of upstream_stations; items are only
\* available with their station.
TypeOK ==
    /\ v2 \in BOOLEAN
    /\ rows \subseteq Ups
    /\ conf \in [Ups -> Nat]
    /\ stations \subseteq Stations
    /\ links \subseteq rows \X stations
    /\ avail \in [Stations -> SUBSET Ups]
    /\ \A s \in Stations \ stations : avail[s] = {}
    /\ registry \in [Ups -> Loops \cup {NoLoop}]
    /\ del \in [phase : {"idle", "tx", "cancel"}, up : Ups \cup {NoUp},
                stations : SUBSET Stations]
    /\ pc \in [Loops -> {"unused", "starting", "dial", "cleanup"} \cup Connected]
    /\ of \in [Loops -> Ups \cup {NoUp}]
    /\ settings \in [Loops -> Nat]
    /\ cancelled \subseteq Loops
    /\ offers \in [Ups -> SUBSET Stations]
    /\ reach \subseteq Ups
    /\ lastId \in Nat
    /\ edits \in 0..MaxEdits
    /\ faults \in 0..MaxFaults

\* Every upstream has a loop with its current settings that is not
\* cancelled, although EditUpstream cancels the loop recvConnections knows,
\* which need not be the latest, and the new one stores itself later.
Served ==
    \A u \in rows : \E l \in Loops \ cancelled :
        pc[l] # "unused" /\ of[l] = u /\ settings[l] = conf[u]

\* Stations without an upstream do not pile up.  One that is stored while
\* its upstream is being deleted stays behind; the next DelUpstream, of
\* whichever upstream, removes it.
OrphansSwept ==
    [][del.phase = "tx" /\ del'.phase = "cancel"
       => Unlinked(stations', links') \subseteq {s \in Stations : s \notin del.stations
                                                    /\ <<del.up, s>> \in links}]_vars

\* In v2, nothing stays available from an upstream that is away for good of
\* the stations linked to it: a cancelled loop leaves without the clean-up,
\* and a clean-up can fail, but one follows every dial that fails.
\* RemoveAvailableByUpstreamId does not look at other stations.  Those may
\* stay available from this upstream: v2 marks items before the station is
\* linked, and Remove leaves the mark of a station that has another upstream.
LinkedUnavailable ==
    v2 => \A u \in Ups :
             <>[](u \in rows \ reach)
             => <>[](\A s \in Linked(u) : u \notin avail[s])
=============================================================================
