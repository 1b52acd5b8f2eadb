--------------------------- MODULE UpstreamsProofs ---------------------------
(***************************************************************************)
(* What Upstreams keeps for any number of stations, upstreams, loops,      *)
(* edits and faults.                                                       *)
(***************************************************************************)
EXTENDS Upstreams, FiniteSetTheorems, FunctionTheorems, TLAPS

(* A loop that runs has an upstream, and the one recvConnections knows for *)
(* an upstream is a loop of that upstream; a loop that has returned is not *)
(* cancelled, so that it can be started again.                             *)
LoopInv ==
    /\ \A l \in Loops : IF pc[l] = "unused" THEN l \notin cancelled ELSE of[l] \in Ups
    /\ \A u \in Ups, l \in Loops : registry[u] = l /\ pc[l] # "unused" => of[l] = u

(* While DelUpstream's transaction runs, the stations it does not delete   *)
(* have a link: one that loses its last link is deleted with it.  When it  *)
(* has committed the upstream is gone, and editMu keeps it away.           *)
DelInv ==
    /\ del.phase = "tx" =>
          \A s \in stations \ del.stations : \E u \in Ups : <<u, s>> \in links
    /\ del.phase # "idle" => del.up \in Ups
    /\ del.phase = "cancel" => del.up \notin rows

Inv == TypeOK /\ LoopInv /\ DelInv /\ Served

-----------------------------------------------------------------------------
(* Ranks: the loops of a restart *)

Rank(S, u) == Cardinality({w \in S : w <= u})

(* The rank numbers the members of a finite set of numbers from 1. *)
LEMMA RankNumbers ==
    ASSUME NEW S \in SUBSET Nat, IsFiniteSet(S)
    PROVE  /\ Cardinality(S) \in Nat
           /\ \A u \in S : Rank(S, u) \in 1..Cardinality(S)
           /\ \A u, w \in S : Rank(S, u) = Rank(S, w) => u = w
           /\ \A n \in 1..Cardinality(S) : \E u \in S : Rank(S, u) = n
<1>1. Cardinality(S) \in Nat
  BY FS_CardinalityType
<1>2. ASSUME NEW u \in S
      PROVE  IsFiniteSet({w \in S : w <= u}) /\ Rank(S, u) \in 1..Cardinality(S)
  <2>1. {w \in S : w <= u} \in SUBSET S /\ u \in {w \in S : w <= u}
    OBVIOUS
  <2>2. /\ IsFiniteSet({w \in S : w <= u})
        /\ Cardinality({w \in S : w <= u}) <= Cardinality(S)
        /\ Cardinality({w \in S : w <= u}) \in Nat
    BY <2>1, FS_Subset, FS_CardinalityType
  <2>3. Cardinality({w \in S : w <= u}) # 0
    BY <2>1, <2>2, FS_EmptySet
  <2> QED BY <1>1, <2>2, <2>3 DEF Rank
<1>3. ASSUME NEW u \in S, NEW w \in S, u < w PROVE Rank(S, u) # Rank(S, w)
  <2>1. {x \in S : x <= u} \in SUBSET {x \in S : x <= w}
    <3>1. \A x \in S : x <= u => x <= w
      BY <1>3
    <3> QED BY <3>1
  <2>2. w \in {x \in S : x <= w} /\ w \notin {x \in S : x <= u}
    BY <1>3
  <2>3. IsFiniteSet({x \in S : x <= w})
    BY <1>2
  <2>4. Cardinality({x \in S : x <= w}) # Cardinality({x \in S : x <= u})
    BY <2>1, <2>2, <2>3, FS_Subset
  <2> QED BY <2>4 DEF Rank
<1>4. \A u, w \in S : Rank(S, u) = Rank(S, w) => u = w
  BY <1>3
<1>5. \A n \in 1..Cardinality(S) : \E u \in S : Rank(S, u) = n
  <2> DEFINE f == [u \in S |-> Rank(S, u)]
             T == 1..Cardinality(S)
  <2>1. f \in [S -> T] /\ \A u, w \in S : f[u] = f[w] => u = w
    BY <1>2, <1>4
  <2>2. f \in Injection(S, T)
    BY <2>1, Fun_IsInj
  <2>3. IsFiniteSet(T) /\ Cardinality(T) = Cardinality(S)
    BY <1>1, FS_Interval
  <2>4. f \in Surjection(S, T)
    BY <2>2, <2>3, FS_Injection
  <2>5. \A n \in T : \E u \in S : f[u] = n
    BY <2>4 DEF Surjection
  <2> QED BY <2>5
<1> QED BY <1>1, <1>2, <1>4, <1>5

UpOf(l) == CHOOSE u \in rows : Rank(rows, u) = l

(* A restart has a loop for every upstream: there were as many before. *)
LEMMA RestartCovers ==
    ASSUME TypeOK, Served
    PROVE  /\ Cardinality(rows) \in Nat
           /\ \A l \in Loops : l <= Cardinality(rows) => UpOf(l) \in rows
           /\ \A u \in rows : \E l \in Loops : l <= Cardinality(rows) /\ UpOf(l) = u
<1>1. rows \in SUBSET Nat /\ IsFiniteSet(rows)
  <2>1. IsFiniteSet(Ups)
    BY FS_Interval, UpstreamsAssumption DEF Ups
  <2>2. rows \in SUBSET Ups /\ Ups \subseteq Nat
    BY DEF TypeOK, Ups
  <2> QED BY <2>1, <2>2, FS_Subset
<1>2. /\ Cardinality(rows) \in Nat
      /\ \A u \in rows : Rank(rows, u) \in 1..Cardinality(rows)
      /\ \A u, w \in rows : Rank(rows, u) = Rank(rows, w) => u = w
      /\ \A n \in 1..Cardinality(rows) : \E u \in rows : Rank(rows, u) = n
  BY <1>1, RankNumbers
<1>3. \A l \in 1..Cardinality(rows) : UpOf(l) \in rows /\ Rank(rows, UpOf(l)) = l
  BY <1>2 DEF UpOf
<1>4. \A l \in Loops : l <= Cardinality(rows) => UpOf(l) \in rows
  BY <1>2, <1>3, UpstreamsAssumption DEF Loops
<1>5. Cardinality(rows) <= MaxLoops
  <2> DEFINE g == [u \in rows |-> CHOOSE l \in Loops : of[l] = u]
  <2>1. \A u \in rows : g[u] \in Loops /\ of[g[u]] = u
    BY DEF Served
  <2>2. g \in [rows -> Loops] /\ \A u, w \in rows : g[u] = g[w] => u = w
    BY <2>1
  <2>3. g \in Injection(rows, Loops)
    BY <2>2, Fun_IsInj
  <2>4. IsFiniteSet(Loops) /\ Cardinality(Loops) = MaxLoops
    BY FS_Interval, UpstreamsAssumption DEF Loops
  <2> QED BY <2>3, <2>4, FS_Injection
<1>6. ASSUME NEW u \in rows PROVE \E l \in Loops : l <= Cardinality(rows) /\ UpOf(l) = u
  <2>1. Rank(rows, u) \in Loops /\ Rank(rows, u) <= Cardinality(rows)
    BY <1>2, <1>5, UpstreamsAssumption DEF Loops
  <2>2. UpOf(Rank(rows, u)) = u
    BY <1>2, <1>3
  <2> QED BY <2>1, <2>2
<1> QED BY <1>2, <1>4, <1>6

-----------------------------------------------------------------------------
(* Administrators *)

LEMMA SpawnInv ==
    ASSUME Inv, NEW u \in Ups, NEW l \in Loops, IsNextFree(l), AddUpstream(u, l) \/ EditUpstream(u, l)
    PROVE  Inv'
<1> USE UpstreamsAssumption DEF Inv
<1>0. /\ u \in Nat /\ pc[l] = "unused" /\ l \notin cancelled /\ \A w \in Ups : registry[w] # l
  BY DEF IsNextFree, IsFree, LoopInv, Ups
<1>1. /\ conf' \in [Ups -> Nat] /\ \A w \in Ups \ {u} : conf'[w] = conf[w]
      /\ Spawn(l, u, conf'[u])
      /\ rows' \subseteq rows \cup {u} /\ rows \subseteq rows'
      /\ cancelled \subseteq cancelled' /\ cancelled' \subseteq cancelled \cup Registered(u)
      /\ UNCHANGED <<v2, stations, links, avail, registry, del, offers, reach, faults>>
      /\ lastId' \in Nat /\ edits' \in 0..MaxEdits
      /\ EditMuFree
  <2>1. CASE AddUpstream(u, l)
    BY <1>0, <2>1 DEF AddUpstream, TypeOK
  <2>2. CASE EditUpstream(u, l)
    BY <1>0, <2>2 DEF EditUpstream, Edit, TypeOK
  <2> QED BY <2>1, <2>2
<1>2. /\ pc' = [pc EXCEPT ![l] = "starting"]
      /\ of' = [of EXCEPT ![l] = u]
      /\ settings' = [settings EXCEPT ![l] = conf'[u]]
  BY <1>1 DEF Spawn
<1>3. Registered(u) \subseteq Loops /\ l \notin Registered(u)
  BY <1>0 DEF Registered
<1>4. TypeOK'
  BY <1>0, <1>1, <1>2, <1>3 DEF TypeOK
<1>5. LoopInv'
  BY <1>0, <1>1, <1>2 DEF LoopInv, TypeOK, Registered
<1>6. DelInv'
  BY <1>1 DEF DelInv, EditMuFree
<1>7. ASSUME NEW w \in rows'
      PROVE  \E k \in Loops \ cancelled' : pc'[k] # "unused" /\ of'[k] = w /\ settings'[k] = conf'[w]
  <2>1. CASE w = u
    <3>1. l \in Loops \ cancelled'
      BY <1>0, <1>1, <1>3
    <3>2. pc'[l] # "unused" /\ of'[l] = u /\ settings'[l] = conf'[u]
      BY <1>2 DEF TypeOK
    <3> QED BY <2>1, <3>1, <3>2
  <2>2. CASE w # u
    <3>1. PICK k \in Loops \ cancelled : pc[k] # "unused" /\ of[k] = w /\ settings[k] = conf[w]
      BY <1>1, <1>7, <2>2 DEF Served
    <3>2. k # l /\ k \notin Registered(u)
      BY <1>0, <2>2, <3>1 DEF Registered, LoopInv
    <3>3. k \in Loops \ cancelled'
      BY <1>1, <3>1, <3>2
    <3>4. pc'[k] # "unused" /\ of'[k] = w /\ settings'[k] = conf'[w]
      BY <1>1, <1>2, <1>7, <2>2, <3>1, <3>2 DEF TypeOK
    <3> QED BY <3>3, <3>4
  <2> QED BY <2>1, <2>2
<1> QED BY <1>4, <1>5, <1>6, <1>7 DEF Served

(* What leaves the loops, the rows and the registry alone leaves Served    *)
(* and LoopInv alone.                                                      *)
LEMMA SameLoops ==
    ASSUME Inv, UNCHANGED <<conf, registry, loopVars>>, rows' \subseteq rows
    PROVE  LoopInv' /\ Served'
BY DEF Inv, LoopInv, Served, loopVars

LEMMA DelUpstreamInv ==
    ASSUME Inv, NEW u \in Ups, DelUpstream(u)
    PROVE  Inv'
<1> USE UpstreamsAssumption DEF Inv
<1>1. UNCHANGED <<v2, dbVars, registry, loopVars, offers, reach, lastId, faults>>
  BY DEF DelUpstream
<1>2. del' = [phase |-> "tx", up |-> u, stations |-> Deletes(u)] /\ Deletes(u) \subseteq stations
  BY DEF DelUpstream, Deletes, Unlinked
<1>3. edits' \in 0..MaxEdits
  BY DEF DelUpstream, Edit, TypeOK
<1>4. TypeOK'
  BY <1>1, <1>2, <1>3 DEF TypeOK, dbVars, loopVars
<1>5. LoopInv' /\ Served'
  BY <1>1, SameLoops DEF dbVars
<1>6. \A s \in stations \ Deletes(u) : \E w \in Ups : <<w, s>> \in links
  BY DEF Deletes, Unlinked
<1>7. DelInv'
  BY <1>1, <1>2, <1>6 DEF DelInv, dbVars
<1> QED BY <1>4, <1>5, <1>7

LEMMA CommitInv ==
    ASSUME Inv, DelUpstreamCommit
    PROVE  Inv'
<1> USE UpstreamsAssumption DEF Inv
<1>1. /\ del' = [del EXCEPT !.phase = "cancel", !.stations = {}]
      /\ rows' = rows \ {del.up} /\ stations' = stations \ del.stations
      /\ links' = {k \in links : k[1] # del.up /\ k[2] \notin del.stations}
      /\ avail' = [s \in Stations |-> IF s \in del.stations THEN {} ELSE avail[s]]
      /\ UNCHANGED <<v2, conf, registry, loopVars, envVars>>
  BY DEF DelUpstreamCommit
<1>2. links' \subseteq rows' \X stations'
  BY <1>1 DEF TypeOK
<1>3. /\ del' \in [phase : {"idle", "tx", "cancel"}, up : Ups \cup {NoUp}, stations : SUBSET Stations]
      /\ del'.phase = "cancel" /\ del'.up = del.up /\ del.up \in Ups
  BY <1>1 DEF TypeOK, DelInv, DelUpstreamCommit
<1>4. avail' \in [Stations -> SUBSET Ups] /\ \A s \in Stations \ stations' : avail'[s] = {}
  BY <1>1 DEF TypeOK
<1>5. TypeOK'
  BY <1>1, <1>2, <1>3, <1>4 DEF TypeOK, loopVars, envVars
<1>6. LoopInv' /\ Served'
  BY <1>1, SameLoops
<1>7. DelInv'
  BY <1>1, <1>3 DEF DelInv
<1> QED BY <1>5, <1>6, <1>7

LEMMA CancelInv ==
    ASSUME Inv, DelUpstreamCancel
    PROVE  Inv'
<1> USE UpstreamsAssumption DEF Inv
<1>1. /\ del.phase = "cancel"
      /\ cancelled' = cancelled \cup Registered(del.up)
      /\ registry' = [registry EXCEPT ![del.up] = NoLoop]
      /\ del' = Idle
      /\ UNCHANGED <<v2, dbVars, pc, of, settings, envVars>>
  BY DEF DelUpstreamCancel
<1>2. TypeOK'
  BY <1>1 DEF TypeOK, dbVars, envVars, Registered, Idle, NoUp, NoLoop
<1>3. LoopInv'
  BY <1>1 DEF LoopInv, TypeOK, Registered, NoLoop, Loops
<1>4. DelInv'
  BY <1>1 DEF DelInv, Idle
<1>5. ASSUME NEW u \in rows'
      PROVE  \E l \in Loops \ cancelled' : pc'[l] # "unused" /\ of'[l] = u /\ settings'[l] = conf'[u]
  <2>1. PICK l \in Loops \ cancelled : pc[l] # "unused" /\ of[l] = u /\ settings[l] = conf[u]
    BY <1>1, <1>5 DEF Served, dbVars
  <2>2. l \notin Registered(del.up)
    <3>1. u # del.up /\ del.up \in Ups
      BY <1>1, <1>5 DEF DelInv, dbVars
    <3> QED BY <2>1, <3>1 DEF LoopInv, Registered
  <2> QED BY <1>1, <2>1, <2>2 DEF dbVars
<1> QED BY <1>2, <1>3, <1>4, <1>5 DEF Served

-----------------------------------------------------------------------------
(* startSync *)

(* A loop that goes on keeps its upstream served. *)
LEMMA GotoKeeps ==
    ASSUME Inv, NEW l \in Loops, pc[l] # "unused",
           NEW label \in {"starting", "dial", "cleanup"} \cup Connected, Goto(l, label),
           UNCHANGED <<rows, conf, registry>>
    PROVE  /\ pc' \in [Loops -> {"unused", "starting", "dial", "cleanup"} \cup Connected]
           /\ UNCHANGED <<of, settings, cancelled>>
           /\ LoopInv' /\ Served'
<1> USE DEF Inv
<1>1. pc' = [pc EXCEPT ![l] = label] /\ UNCHANGED <<of, settings, cancelled>>
  BY DEF Goto
<1>2. label # "unused"
  BY DEF Connected
<1>3. \A k \in Loops : pc'[k] = "unused" <=> pc[k] = "unused"
  BY <1>1, <1>2 DEF TypeOK
<1>4. LoopInv'
  BY <1>1, <1>3 DEF LoopInv
<1>5. Served'
  BY <1>1, <1>3 DEF Served
<1>6. pc' \in [Loops -> {"unused", "starting", "dial", "cleanup"} \cup Connected]
  BY <1>1 DEF TypeOK
<1> QED BY <1>1, <1>4, <1>5, <1>6

(* A loop returns only when it is cancelled, and then serves nobody. *)
LEMMA ReturnKeeps ==
    ASSUME Inv, NEW l \in Loops, l \in cancelled, Return(l), UNCHANGED <<rows, conf, registry>>
    PROVE  /\ pc' \in [Loops -> {"unused", "starting", "dial", "cleanup"} \cup Connected]
           /\ of' \in [Loops -> Ups \cup {NoUp}] /\ settings' \in [Loops -> Nat]
           /\ cancelled' \subseteq Loops
           /\ LoopInv' /\ Served'
<1> USE DEF Inv
<1>1. /\ pc' = [pc EXCEPT ![l] = "unused"]
      /\ of' = [of EXCEPT ![l] = NoUp]
      /\ settings' = [settings EXCEPT ![l] = 0]
      /\ cancelled' = cancelled \ {l}
  BY DEF Return
<1>2. /\ pc' \in [Loops -> {"unused", "starting", "dial", "cleanup"} \cup Connected]
      /\ of' \in [Loops -> Ups \cup {NoUp}] /\ settings' \in [Loops -> Nat]
      /\ cancelled' \subseteq Loops
  BY <1>1 DEF TypeOK
<1>3. LoopInv'
  BY <1>1 DEF LoopInv, TypeOK
<1>4. Served'
  BY <1>1 DEF Served, TypeOK
<1> QED BY <1>2, <1>3, <1>4

(* Storing a station, or removing one that is not offered any more, keeps  *)
(* the foreign keys, and what DelUpstream's transaction has seen.          *)
LEMMA StoreRemove ==
    ASSUME Inv, NEW u \in Ups, NEW s \in Stations, Store(u, s) \/ Remove(u, s), UNCHANGED <<rows, del>>
    PROVE  /\ stations' \subseteq Stations /\ links' \subseteq rows' \X stations'
           /\ avail' \in [Stations -> SUBSET Ups] /\ \A t \in Stations \ stations' : avail'[t] = {}
           /\ DelInv'
<1> USE DEF Inv
<1>1. CASE Store(u, s)
  <2>1. /\ u \in rows /\ stations' = stations \cup {s} /\ links' = links \cup {<<u, s>>} /\ avail' = avail
    BY <1>1 DEF Store
  <2>2. /\ stations' \subseteq Stations /\ links' \subseteq rows' \X stations'
        /\ avail' \in [Stations -> SUBSET Ups] /\ \A t \in Stations \ stations' : avail'[t] = {}
    BY <2>1 DEF TypeOK
  <2>3. DelInv'
    BY <2>1 DEF DelInv
  <2> QED BY <2>2, <2>3
<1>2. CASE Remove(u, s)
  <2>1. /\ s \notin del.stations
        /\ links' = links \ {<<u, s>>}
        /\ stations' = stations \ ({s} \cap Unlinked(stations, links'))
        /\ avail' = [avail EXCEPT ![s] = IF s \in stations' THEN @ ELSE {}]
    BY <1>2 DEF Remove, NotLocked
  <2>2. \A t \in stations : t # s => t \in stations' /\ \A w \in Ups : <<w, t>> \in links => <<w, t>> \in links'
    BY <2>1
  <2>3. s \in stations' => \E w \in Ups : <<w, s>> \in links'
    BY <2>1 DEF Unlinked
  <2>4. s \notin stations' => \A w \in Ups : <<w, s>> \notin links'
    BY <2>1 DEF Unlinked, TypeOK
  <2>5. links' \subseteq rows' \X stations'
    <3>1. ASSUME NEW k \in links' PROVE k \in rows' \X stations'
      <4>1. PICK w \in rows, t \in stations : k = <<w, t>>
        BY <2>1, <3>1 DEF TypeOK
      <4>2. w \in Ups
        BY DEF TypeOK
      <4> QED BY <2>2, <2>4, <3>1, <4>1, <4>2
    <3> QED BY <3>1
  <2>6. stations' \subseteq stations /\ \A t \in stations \ stations' : t = s
    BY <2>1
  <2>7. avail' \in [Stations -> SUBSET Ups] /\ \A t \in Stations \ stations' : avail'[t] = {}
    BY <2>1, <2>6, ZenonT(30) DEF TypeOK
  <2>8. DelInv'
    BY <2>2, <2>3, <2>6 DEF DelInv
  <2> QED BY <2>5, <2>6, <2>7, <2>8 DEF TypeOK
<1> QED BY <1>1, <1>2

LEMMA LoopStepInv ==
    ASSUME Inv, NEW l \in Loops, LoopStep(l)
    PROVE  Inv'
<1> USE UpstreamsAssumption DEF Inv
<1>0. pc[l] # "unused" /\ of[l] \in Ups
  BY DEF LoopStep, startSync, DialSucceeds, DialFails, UpdateAvailableItems, FullConfig, ConfigEvent,
         FullConfigDone, Disconnect, Cleanup, LoopReturns, LoopInv, Connected
<1>1. CASE startSync(l)
  <2>1. /\ registry' = [registry EXCEPT ![of[l]] = l]
        /\ pc' = [pc EXCEPT ![l] = "dial"]
        /\ UNCHANGED <<of, settings, cancelled, v2, dbVars, del, envVars>>
    BY <1>1 DEF startSync, Goto
  <2>2. TypeOK'
    BY <2>1 DEF TypeOK, dbVars, envVars
  <2>3. \A k \in Loops : pc'[k] = "unused" <=> pc[k] = "unused"
    BY <1>0, <2>1 DEF TypeOK
  <2>4. LoopInv'
    BY <1>0, <2>1, <2>3 DEF LoopInv, TypeOK
  <2>5. Served' /\ DelInv'
    BY <2>1, <2>3 DEF Served, DelInv, dbVars
  <2> QED BY <2>2, <2>4, <2>5
<1>2. CASE DialSucceeds(l) \/ FullConfigDone(l)
  <2>1. PICK label \in Connected : Goto(l, label)
    BY <1>2 DEF DialSucceeds, FullConfigDone, Connected
  <2>2. UNCHANGED <<v2, dbVars, registry, del, envVars>>
    BY <1>2 DEF DialSucceeds, FullConfigDone
  <2>3. /\ pc' \in [Loops -> {"unused", "starting", "dial", "cleanup"} \cup Connected]
        /\ UNCHANGED <<of, settings, cancelled>> /\ LoopInv' /\ Served'
    BY <1>0, <2>1, <2>2, GotoKeeps DEF dbVars
  <2>4. TypeOK' /\ DelInv'
    BY <2>2, <2>3 DEF TypeOK, DelInv, dbVars, envVars
  <2> QED BY <2>3, <2>4
<1>3. CASE DialFails(l)
  <2>1. PICK label \in {"dial", "cleanup"} : Goto(l, label)
    BY <1>3 DEF DialFails, AfterDial
  <2>2. UNCHANGED <<v2, dbVars, registry, del, offers, reach, lastId, edits>> /\ faults' \in 0..MaxFaults
    BY <1>3 DEF DialFails, Fault, TypeOK
  <2>3. /\ pc' \in [Loops -> {"unused", "starting", "dial", "cleanup"} \cup Connected]
        /\ UNCHANGED <<of, settings, cancelled>> /\ LoopInv' /\ Served'
    BY <1>0, <2>1, <2>2, GotoKeeps DEF dbVars
  <2>4. TypeOK' /\ DelInv'
    BY <2>2, <2>3 DEF TypeOK, DelInv, dbVars
  <2> QED BY <2>3, <2>4
<1>4. CASE UpdateAvailableItems(l)
  <2>1. PICK label \in Connected : Goto(l, label)
    BY <1>4 DEF UpdateAvailableItems, Connected
  <2>2. /\ UNCHANGED <<v2, rows, conf, stations, links, registry, del, envVars>>
        /\ avail' = [s \in Stations |->
                       IF s \in offers[of[l]] \cap stations THEN avail[s] \cup {of[l]}
                       ELSE IF s \in Linked(of[l]) THEN avail[s] \ {of[l]} ELSE avail[s]]
    BY <1>4 DEF UpdateAvailableItems
  <2>3. /\ pc' \in [Loops -> {"unused", "starting", "dial", "cleanup"} \cup Connected]
        /\ UNCHANGED <<of, settings, cancelled>> /\ LoopInv' /\ Served'
    BY <1>0, <2>1, <2>2, GotoKeeps
  <2>4. avail' \in [Stations -> SUBSET Ups] /\ \A s \in Stations \ stations : avail'[s] = {}
    BY <1>0, <2>2 DEF TypeOK
  <2>5. TypeOK' /\ DelInv'
    BY <2>2, <2>3, <2>4 DEF TypeOK, DelInv, envVars
  <2> QED BY <2>3, <2>5
<1>5. ASSUME NEW s \in Stations, FullConfig(l, s) \/ ConfigEvent(l, s) PROVE Inv'
  <2>1. Store(of[l], s) \/ Remove(of[l], s)
    BY <1>5 DEF FullConfig, ConfigEvent
  <2>2. UNCHANGED <<v2, rows, conf, registry, del, loopVars, envVars>>
    BY <1>5 DEF FullConfig, ConfigEvent
  <2>3. /\ stations' \subseteq Stations /\ links' \subseteq rows' \X stations'
        /\ avail' \in [Stations -> SUBSET Ups] /\ \A t \in Stations \ stations' : avail'[t] = {}
        /\ DelInv'
    BY <1>0, <2>1, <2>2, StoreRemove
  <2>4. TypeOK'
    BY <2>2, <2>3 DEF TypeOK, loopVars, envVars
  <2>5. LoopInv' /\ Served'
    BY <2>2, SameLoops
  <2> QED BY <2>3, <2>4, <2>5
<1>6. CASE Disconnect(l)
  <2>1. UNCHANGED <<v2, dbVars, registry, del, offers, reach, lastId, edits>> /\ faults' \in 0..MaxFaults
    BY <1>6 DEF Disconnect, Fault, TypeOK
  <2>2. /\ pc' \in [Loops -> {"unused", "starting", "dial", "cleanup"} \cup Connected]
        /\ of' \in [Loops -> Ups \cup {NoUp}] /\ settings' \in [Loops -> Nat] /\ cancelled' \subseteq Loops
        /\ LoopInv' /\ Served'
    <3>1. CASE l \in cancelled /\ Return(l)
      BY <2>1, <3>1, ReturnKeeps DEF dbVars
    <3>2. CASE Goto(l, "cleanup")
      BY <1>0, <2>1, <3>2, GotoKeeps DEF dbVars, TypeOK
    <3> QED BY <1>6, <3>1, <3>2 DEF Disconnect
  <2>3. TypeOK' /\ DelInv'
    BY <2>1, <2>2 DEF TypeOK, DelInv, dbVars
  <2> QED BY <2>2, <2>3
<1>7. CASE Cleanup(l)
  <2>1. Goto(l, "dial")
    BY <1>7 DEF Cleanup
  <2>2. /\ UNCHANGED <<v2, rows, conf, stations, links, registry, del, offers, reach, lastId, edits>>
        /\ faults' \in 0..MaxFaults
    BY <1>7 DEF Cleanup, Fault, TypeOK
  <2>3. /\ pc' \in [Loops -> {"unused", "starting", "dial", "cleanup"} \cup Connected]
        /\ UNCHANGED <<of, settings, cancelled>> /\ LoopInv' /\ Served'
    BY <1>0, <2>1, <2>2, GotoKeeps
  <2>4. avail' \in [Stations -> SUBSET Ups] /\ \A s \in Stations \ stations : avail'[s] = {}
    BY <1>7 DEF Cleanup, TypeOK
  <2>5. TypeOK' /\ DelInv'
    BY <2>2, <2>3, <2>4 DEF TypeOK, DelInv
  <2> QED BY <2>3, <2>5
<1>8. CASE LoopReturns(l)
  <2>1. l \in cancelled /\ Return(l) /\ UNCHANGED <<v2, dbVars, registry, del, envVars>>
    BY <1>8 DEF LoopReturns
  <2>2. /\ pc' \in [Loops -> {"unused", "starting", "dial", "cleanup"} \cup Connected]
        /\ of' \in [Loops -> Ups \cup {NoUp}] /\ settings' \in [Loops -> Nat] /\ cancelled' \subseteq Loops
        /\ LoopInv' /\ Served'
    BY <2>1, ReturnKeeps DEF dbVars
  <2>3. TypeOK' /\ DelInv'
    BY <2>1, <2>2 DEF TypeOK, DelInv, dbVars, envVars
  <2> QED BY <2>2, <2>3
<1> QED BY <1>1, <1>2, <1>3, <1>4, <1>5, <1>6, <1>7, <1>8 DEF LoopStep

-----------------------------------------------------------------------------
(* The environment, and the invariant *)

LEMMA EnvInv ==
    ASSUME Inv, NEW u \in Ups, Reach(u) \/ \E s \in Stations : Offer(u, s)
    PROVE  Inv'
<1> USE UpstreamsAssumption DEF Inv
<1>1. UNCHANGED <<v2, dbVars, registry, del, loopVars, lastId>>
  BY DEF Reach, Offer
<1>2. offers' \in [Ups -> SUBSET Stations] /\ reach' \subseteq Ups
  BY DEF Reach, Offer, TypeOK
<1>3. edits' \in 0..MaxEdits /\ faults' \in 0..MaxFaults
  BY DEF Reach, Offer, Edit, Fault, TypeOK
<1>4. TypeOK' /\ DelInv'
  BY <1>1, <1>2, <1>3 DEF TypeOK, DelInv, dbVars, loopVars
<1>5. LoopInv' /\ Served'
  BY <1>1, SameLoops DEF dbVars
<1> QED BY <1>4, <1>5

LEMMA RestartInv ==
    ASSUME Inv, Restart
    PROVE  Inv'
<1> USE UpstreamsAssumption DEF Inv
<1>1. /\ avail' = [s \in Stations |-> {}]
      /\ registry' = [u \in Ups |-> NoLoop]
      /\ del' = Idle
      /\ pc' = [l \in Loops |-> IF l <= Cardinality(rows) THEN "starting" ELSE "unused"]
      /\ of' = [l \in Loops |-> IF l <= Cardinality(rows) THEN UpOf(l) ELSE NoUp]
      /\ settings' = [l \in Loops |-> IF l <= Cardinality(rows) THEN conf[UpOf(l)] ELSE 0]
      /\ cancelled' = {}
      /\ UNCHANGED <<v2, rows, conf, stations, links, offers, reach, lastId, edits>>
  BY DEF Restart, UpOf, Rank
<1>2. faults' \in 0..MaxFaults
  BY DEF Restart, Fault, TypeOK
<1>3. /\ \A l \in Loops : l <= Cardinality(rows) => UpOf(l) \in rows
      /\ \A u \in rows : \E l \in Loops : l <= Cardinality(rows) /\ UpOf(l) = u
  BY RestartCovers
<1>4. /\ pc' \in [Loops -> {"unused", "starting", "dial", "cleanup"} \cup Connected]
      /\ of' \in [Loops -> Ups \cup {NoUp}] /\ settings' \in [Loops -> Nat]
  BY <1>1, <1>3 DEF TypeOK
<1>5. TypeOK'
  BY <1>1, <1>2, <1>4 DEF TypeOK, Idle
<1>6. LoopInv'
  BY <1>1, <1>3 DEF LoopInv, TypeOK, NoLoop, Loops
<1>7. DelInv'
  BY <1>1 DEF DelInv, Idle
<1>8. Served'
  BY <1>1, <1>3 DEF Served
<1> QED BY <1>5, <1>6, <1>7, <1>8

LEMMA InitInv == Init => Inv
<1> SUFFICES ASSUME Init PROVE Inv
  OBVIOUS
<1>1. TypeOK
  BY UpstreamsAssumption DEF Init, TypeOK, Idle
<1>2. LoopInv /\ DelInv /\ Served
  BY DEF Init, LoopInv, DelInv, Served, Idle
<1> QED BY <1>1, <1>2 DEF Inv

LEMMA NextInv == Inv /\ [Next]_vars => Inv'
<1> SUFFICES ASSUME Inv, [Next]_vars PROVE Inv'
  OBVIOUS
<1>1. ASSUME NEW u \in Ups, NEW l \in Loops, IsNextFree(l), AddUpstream(u, l) \/ EditUpstream(u, l)
      PROVE  Inv'
  BY <1>1, SpawnInv
<1>2. ASSUME NEW u \in Ups, DelUpstream(u) PROVE Inv'
  BY <1>2, DelUpstreamInv
<1>3. CASE DelUpstreamCommit \/ DelUpstreamCancel
  BY <1>3, CommitInv, CancelInv
<1>4. ASSUME NEW l \in Loops, LoopStep(l) PROVE Inv'
  BY <1>4, LoopStepInv
<1>5. ASSUME NEW u \in Ups, Reach(u) \/ \E s \in Stations : Offer(u, s) PROVE Inv'
  BY <1>5, EnvInv
<1>6. CASE Restart
  BY <1>6, RestartInv
<1>7. CASE UNCHANGED vars
  <2>1. TypeOK'
    BY <1>7 DEF Inv, TypeOK, vars, dbVars, loopVars, envVars
  <2>2. LoopInv' /\ Served'
    BY <1>7, SameLoops DEF vars, dbVars
  <2>3. DelInv'
    BY <1>7 DEF Inv, DelInv, vars, dbVars
  <2> QED BY <2>1, <2>2, <2>3 DEF Inv
<1> QED BY <1>1, <1>2, <1>3, <1>4, <1>5, <1>6, <1>7 DEF Next

LEMMA SpecInv == Spec => []Inv
BY InitInv, NextInv, PTL DEF Spec

(* Types and foreign keys: a link is one of an upstream and a station that *)
(* are there, and only items of stations that are there are available.     *)
THEOREM TypeCorrect == Spec => []TypeOK
<1>1. Inv => TypeOK
  BY DEF Inv
<1> QED BY <1>1, SpecInv, PTL

(* Every upstream has a loop that runs with its settings: EditUpstream     *)
(* cancels only a loop of its upstream and starts another, a loop returns  *)
(* only when it is cancelled, and a restart starts one for each.           *)
THEOREM EveryUpstreamServed == Spec => []Served
<1>1. Inv => Served
  BY DEF Inv
<1> QED BY <1>1, SpecInv, PTL

(* The commit of DelUpstream leaves no station without an upstream but one *)
(* that a full configuration linked to that upstream meanwhile.            *)
THEOREM DelUpstreamSweeps == Spec => OrphansSwept
<1> DEFINE Swept == del.phase = "tx" /\ del'.phase = "cancel"
             => Unlinked(stations', links') \subseteq {s \in Stations : s \notin del.stations
                                                          /\ <<del.up, s>> \in links}
<1>1. ASSUME Inv, [Next]_vars PROVE [Swept]_vars
  <2> SUFFICES ASSUME del.phase = "tx", del'.phase = "cancel",
                      NEW s \in Unlinked(stations', links')
               PROVE  s \in Stations /\ s \notin del.stations /\ <<del.up, s>> \in links
    OBVIOUS
  <2>1. DelUpstreamCommit
    <3>1. ASSUME NEW u \in Ups, NEW l \in Loops, AddUpstream(u, l) \/ EditUpstream(u, l) PROVE del' = del
      BY <3>1 DEF AddUpstream, EditUpstream
    <3>2. ASSUME NEW u \in Ups, DelUpstream(u) PROVE del'.phase = "tx"
      BY <3>2 DEF DelUpstream
    <3>3. ASSUME DelUpstreamCancel \/ Restart PROVE del'.phase = "idle"
      BY <3>3 DEF DelUpstreamCancel, Restart, Idle
    <3>4. ASSUME NEW l \in Loops, LoopStep(l) PROVE del' = del
      BY <3>4 DEF LoopStep, startSync, DialSucceeds, DialFails, UpdateAvailableItems, FullConfig, ConfigEvent,
                  FullConfigDone, Disconnect, Cleanup, LoopReturns
    <3>5. ASSUME NEW u \in Ups, Reach(u) \/ \E t \in Stations : Offer(u, t) PROVE del' = del
      BY <3>5 DEF Reach, Offer
    <3>6. ASSUME UNCHANGED vars PROVE del' = del
      BY <3>6 DEF vars
    <3> QED BY <1>1, <3>1, <3>2, <3>3, <3>4, <3>5, <3>6 DEF Next
  <2>2. s \in stations \ del.stations /\ \A u \in Ups : <<u, s>> \notin links'
    BY <2>1 DEF DelUpstreamCommit, Unlinked
  <2>3. PICK u \in Ups : <<u, s>> \in links
    BY <1>1, <2>2 DEF Inv, DelInv
  <2>4. u = del.up
    BY <2>1, <2>2, <2>3 DEF DelUpstreamCommit
  <2> QED BY <1>1, <2>2, <2>3, <2>4 DEF Inv, TypeOK
<1> QED BY <1>1, SpecInv, PTL DEF Spec, OrphansSwept
=============================================================================
