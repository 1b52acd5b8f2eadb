--------------------------- MODULE RelaySyncProofs ---------------------------
(***************************************************************************)
(* What RelaySync keeps for any number of items, points, rows and faults:  *)
(* the types, that the downstream's points have no gap, that its status    *)
(* log is a prefix of the upstream's, and that the status it shows never   *)
(* goes back.                                                              *)
(*                                                                         *)
(* The points of an item and the rows of the status log are both a series  *)
(* of numbers: the upstream saves them in increasing order, a part of them *)
(* waits to be published, a part is in the relay's queue, a part is on its *)
(* way in live frames, a part in frames with what the downstream missed.   *)
(***************************************************************************)
EXTENDS RelaySync, SequenceTheorems, WellFoundedInduction, TLAPS

RowSeries == <<>>
Series    == {RowSeries} \cup (IF ReplayMayOvertake THEN {} ELSE {<<i>> : i \in Items})

(* What frame m carries of series x, live or as something missed; what the  *)
(* frames of q carry; in which increasing order.                            *)
In(m, k, x) ==
    IF k = "live"
    THEN IF m.type = "data" /\ x = <<m.item>> THEN {m.ts}
         ELSE IF m.type = "status" /\ x = RowSeries THEN {m.row} ELSE {}
    ELSE IF m.type = "missData" /\ x = <<m.item>> THEN m.points
         ELSE IF m.type = "missStatus" /\ x = RowSeries THEN m.rows ELSE {}
On(q, k, x) == UNION {In(q[n], k, x) : n \in DOMAIN q}
Before(A, C) == \A a \in A, c \in C : a < c
Asc(q, k, x) == \A m, n \in DOMAIN q : m < n => Before(In(q[m], k, x), In(q[n], k, x))

(* What is saved upstream, what the downstream has and what it was refused. *)
(* A downstream with an empty status log still asks for all of it, from 0.  *)
Saved(x)   == IF x = RowSeries THEN 1 .. Len(uLog) ELSE uStored[x[1]]
Has(x)     == IF x = RowSeries THEN dLog \cup {0} ELSE dStored[x[1]]
Refusals(x) == IF x = RowSeries THEN skipped.rows ELSE skipped.points

(* Its frames, its queue, and what is still to be published. *)
MissWire(x) == Stream(IF x = RowSeries THEN "missStatus" ELSE "missData")
LiveWire(x) == Stream(IF x = RowSeries THEN "status" ELSE "data")
Queue(x)    == IF x = RowSeries THEN "config" ELSE "data"
Pending(x)  == On(delayed, "live", x) \cup On(unpublished, "live", x)
Missing(x)  == On(u2d[MissWire(x)], "miss", x)
Live(x)     == On(u2d[LiveWire(x)], "live", x)

(* What is queued reaches the downstream; what is published is queued.      *)
Flows(x) ==
    /\ ~broken /\ subscribed[Queue(x)]
    /\ version = 1 /\ x # RowSeries => d2u.type # "open"
Queued(x) == IF Flows(x) THEN On(sub[Queue(x)], "live", x) ELSE {}
Open(x)   == Flows(x) /\ ~closed[Queue(x)]

(* The frames of q include one of type ty; none of types tys comes after it. *)
Carries(q, ty)     == \E n \in DOMAIN q : q[n].type = ty
Closes(q, ty, tys) == \A m, n \in DOMAIN q : m < n /\ q[m].type = ty => q[n].type \notin tys

InFlight(ty)  == Carries(u2d[Stream(ty)], ty)
Ends(ty, tys) == Closes(u2d[Stream(ty)], ty, tys)

(* What the downstream missed of x has been sent, or will never be. *)
Sent(x) ==
    IF x = RowSeries
    THEN \/ ~broken /\ upc \notin {"gone", "hello", "status"}
         \/ InFlight("missStatus")
         \/ dpc \in {"open", "miss", "run"}
    ELSE \/ ~broken /\ (upc = "run" \/ (upc = "history" /\ x[1] \notin missItems))
         \/ InFlight("end")
         \/ dpc = "run"

(* No gap opens when what is in the five places goes on its way: H is saved,*)
(* B the downstream has, K was refused, P is on its way as missed, L live,  *)
(* W is queued, D to be published.                                          *)
Between(u, f, t) == f < u /\ u < t
Places(H, B, P, L, W, D) ==
    H \subseteq Nat \ {0} /\ B \subseteq H \cup {0} /\ P \cup L \cup W \cup D \subseteq H
NoGap(H, B, K)      == \A f \in B, t \in B, u \in H : Between(u, f, t) => u \in B \cup K
MissNoGap(H, B, K, P) ==
    \A f \in B \cup P, t \in P, u \in H : Between(u, f, t) => u \in B \cup K \cup P
LiveNoGap(H, L, W)  ==
    \A f \in L \cup W, t \in L \cup W, u \in H : Between(u, f, t) => u \in L \cup W
Joined(H, B, K, P, L, W) ==
    \A f \in B \cup P, t \in L \cup W, u \in H :
        Between(u, f, t) => u \in B \cup K \cup P \cup L \cup W
Rest(H, D)          == \A t \in D, u \in H : t < u => u \in D
LiveRest(H, L, W, D) == \A f \in L \cup W, u \in H : f < u => u \in L \cup W \cup D
AllRest(H, B, K, P, L, W, D) ==
    \A f \in B \cup P, u \in H : f < u => u \in B \cup K \cup P \cup L \cup W \cup D
Low(B, P, L, W, D)  ==
    /\ \A t \in P \cup L \cup W \cup D, g \in B : \E f \in B : f <= t
    /\ P # {} => B # {}
InOrder(L, W, D)    == Before(L, W) /\ Before(L \cup W, D)
GapFree(H, B, K, P, L, W, D, sent, open) ==
    /\ Places(H, B, P, L, W, D)
    /\ NoGap(H, B, K) /\ MissNoGap(H, B, K, P) /\ LiveNoGap(H, L, W)
    /\ sent => Joined(H, B, K, P, L, W)
    /\ Rest(H, D)
    /\ open => LiveRest(H, L, W, D)
    /\ open /\ sent => AllRest(H, B, K, P, L, W, D)
    /\ Low(B, P, L, W, D) /\ InOrder(L, W, D)

(* What is on the wires, and what waits, comes in increasing order; what     *)
(* nothing flows to has been read.                                          *)
WiresOrdered(x) == Asc(u2d[MissWire(x)], "miss", x) /\ Asc(u2d[LiveWire(x)], "live", x)
QueueOrdered(x) ==
    /\ Asc(sub[Queue(x)], "live", x) /\ On(sub[Queue(x)], "live", x) \subseteq Saved(x)
    /\ Before(On(sub[Queue(x)], "live", x), Pending(x))
FeedOrdered(x) ==
    /\ Asc(delayed, "live", x)
    /\ Before(On(delayed, "live", x), On(unpublished, "live", x))
RoundRead(x) == ~broken /\ ~Flows(x) => Live(x) = {}

SeriesGapFree(x) ==
    GapFree(Saved(x), Has(x), Refusals(x), Missing(x), Live(x), Queued(x), Pending(x),
            Sent(x), Open(x))
SeriesOK(x) ==
    /\ SeriesGapFree(x)
    /\ WiresOrdered(x) /\ QueueOrdered(x) /\ FeedOrdered(x) /\ RoundRead(x)
    /\ x # RowSeries => 0 \notin Has(x)

(* A point that is published at once has none of its item waiting before it. *)
DirectInv ==
    /\ \A i \in Items : uStored[i] \subseteq 1 .. now
    /\ ~DataDelay => delayed = <<>>
    /\ ~ReplayMayOvertake => \A m \in DOMAIN unpublished :
          unpublished[m].type = "data" /\ (unpublished[m].replay \/ ~DataDelay)
          => \A n \in DOMAIN delayed : delayed[n].item # unpublished[m].item

(* What may be in flight in each phase of the downstream. *)
FlightInv ==
    /\ version = 2 => /\ upc # "accept" /\ dpc # "open" /\ d2u.type # "open"
                      /\ ~InFlight("permissions")
    /\ dpc = "idle" => broken /\ u2d = NoFrames
    /\ upc = "gone" => broken
    /\ dpc \in {"boot", "status", "open", "run"} => ~InFlight("missData") /\ ~InFlight("end")
    /\ dpc \in {"boot", "open", "miss", "run"} => ~InFlight("missStatus")
    /\ Ends("end", {"missData", "end"})
    /\ Ends("missStatus", {"missStatus"})
    /\ Ends("permissions", {"permissions"})

(* Where the two ends of a connection that is not broken can be. *)
Stages ==
    {<<"hello", "boot">>, <<"status", "boot">>, <<"status", "status">>,
     <<"accept", "status">>, <<"data", "status">>, <<"accept", "open">>, <<"data", "open">>,
     <<"run", "open">>, <<"data", "miss">>, <<"history", "miss">>, <<"run", "miss">>,
     <<"run", "run">>}
StageInv ==
    ~broken =>
        /\ <<upc, dpc>> \in Stages
        /\ version = 1 /\ dpc = "status" => upc # "data"
        /\ upc = "hello" => u2d = NoFrames /\ ~subscribed["config"]
        /\ upc = "status" => ~InFlight("missStatus")
        /\ upc \in {"data", "history"} => ~InFlight("end")
        /\ upc = "data" => ~InFlight("missData")
        /\ InFlight("permissions") => upc = "data" /\ dpc = "open"
        /\ version = 1 /\ subscribed["data"] => upc \in {"data", "history", "run"}
        /\ upc \in {"accept", "run"} /\ dpc = "open" <=> d2u.type = "open"

(* No batch of missed points of q is of item i. *)
NoneOf(q, i) == \A n \in DOMAIN q : q[n].type = "missData" => q[n].item # i

(* The latest row and timestamps the upstream was told are still the latest. *)
LatestInv ==
    ~broken =>
        /\ d2u.type = "statusLatest" =>
              upc = "status" /\ dpc = "status" /\ IsLatest(d2u.row, dLog)
        /\ d2u.type = "itemsLatest" =>
              /\ upc = "data" /\ dpc = "miss"
              /\ \A i \in Items : IsLatest(d2u.ts[i], dStored[i])
        /\ upc = "history" => \A i \in missItems :
              /\ asked[i] # 0 /\ IsLatest(asked[i], dStored[i])
              /\ NoneOf(u2d[Stream("missData")], i)

(* A queue nothing is published to is empty. *)
EmptyInv == \A q \in Queues : ~subscribed[q] => sub[q] = <<>>

Phase    == FlightInv /\ StageInv /\ LatestInv
PhaseInv == DirectInv /\ EmptyInv /\ Phase
Inv == TypeOK /\ PhaseInv /\ \A x \in Series : SeriesOK(x)

-----------------------------------------------------------------------------
(* Types *)

LEMMA StreamIs == \A ty : Stream(ty) \in 1 .. 4
BY Zenon, SMT DEF Stream

(* The queues as a function on their names. *)
LEMMA SubParts ==
    ASSUME NEW s
    PROVE  s \in [config : Seq(Row), data : Seq(Point)]
           <=> /\ s \in [Queues -> Seq(Row) \cup Seq(Point)]
               /\ s["config"] \in Seq(Row) /\ s["data"] \in Seq(Point)
BY DEF Queues

(* The type of a frame tells what it is. *)
LEMMA FrameKinds ==
    ASSUME NEW m \in Frame
    PROVE  /\ m.type = "data" => m \in Point
           /\ m.type = "status" => m \in Row
           /\ m.type = "missData" => /\ m.item \in Items /\ m.points \in SUBSET Nat
                                     /\ m = MissData(m.item, m.points)
           /\ m.type = "missStatus" => /\ m.rows \in SUBSET Nat /\ m.shown \in SUBSET Nat
                                       /\ m = MissStatus(m.rows, m.shown)
BY DEF Frame, Point, Row, MissData, MissStatus

LEMMA PointFields ==
    ASSUME NEW m \in Point
    PROVE  m.type = "data" /\ m.item \in Items /\ m.ts \in Nat /\ m \in Frame
BY DEF Point, Frame

LEMMA RowFields ==
    ASSUME NEW m \in Row
    PROVE  m.type = "status" /\ m.row \in Nat /\ m \in Frame
BY DEF Row, Frame

LEMMA RequestKinds ==
    ASSUME NEW m \in Request
    PROVE  /\ m.type = "statusLatest" => m.row \in Nat
           /\ m.type = "itemsLatest" => m.ts \in [Items -> Nat]
BY DEF Request

LEMMA ArrivesType ==
    ASSUME TypeOK, NEW m \in Frame
    PROVE  Arrives(m) \in [1 .. 4 -> Seq(Frame)]
BY StreamIs DEF TypeOK, Arrives

LEMMA TakenType ==
    ASSUME TypeOK, NEW ty, Receives(ty)
    PROVE  /\ Taken(ty) \in [1 .. 4 -> Seq(Frame)]
           /\ u2d[Stream(ty)] \in Seq(Frame) /\ u2d[Stream(ty)] # <<>>
           /\ Head(u2d[Stream(ty)]) \in Frame /\ Head(u2d[Stream(ty)]).type = ty
           /\ u2d[Stream(ty)][1] = Head(u2d[Stream(ty)])
<1>1. u2d[Stream(ty)] \in Seq(Frame) /\ u2d[Stream(ty)] # <<>>
  BY StreamIs DEF TypeOK, Receives
<1>2. Tail(u2d[Stream(ty)]) \in Seq(Frame) /\ Head(u2d[Stream(ty)]) \in Frame
  BY <1>1, HeadTailProperties
<1>3. Taken(ty) \in [1 .. 4 -> Seq(Frame)]
  BY <1>2, StreamIs DEF TypeOK, Taken
<1> QED BY <1>1, <1>2, <1>3 DEF Receives

(* The first frame of a stream replaced. *)
LEMMA ReplacedType ==
    ASSUME TypeOK, NEW ty, Receives(ty), NEW m \in Frame
    PROVE  [u2d EXCEPT ![Stream(ty)] = [@ EXCEPT ![1] = m]] \in [1 .. 4 -> Seq(Frame)]
<1>1. u2d[Stream(ty)] \in Seq(Frame) /\ 1 \in 1 .. Len(u2d[Stream(ty)])
  BY TakenType, LenProperties, EmptySeq
<1>2. [u2d[Stream(ty)] EXCEPT ![1] = m] \in Seq(Frame)
  BY <1>1, ExceptSeq
<1> QED BY <1>2, StreamIs DEF TypeOK

LEMMA NoFramesType == NoFrames \in [1 .. 4 -> Seq(Frame)]
BY DEF NoFrames

LEMMA EmptyType ==
    /\ Empty \in [config : Seq(Row), data : Seq(Point)]
    /\ \A q \in DOMAIN Empty : Len(Empty[q]) <= QueueCap
    /\ None \in [Queues -> BOOLEAN]
<1>1. Empty \in [Queues -> Seq(Row) \cup Seq(Point)] /\ \A q \in Queues : Empty[q] = <<>>
  BY DEF Empty
<1>2. Empty \in [config : Seq(Row), data : Seq(Point)]
  BY <1>1, SubParts DEF Queues
<1>3. \A q \in DOMAIN Empty : Len(Empty[q]) <= QueueCap
  BY <1>1, RelayAssumption, EmptySeq DEF Empty
<1> QED BY <1>2, <1>3, Zenon DEF None

(* The queues stay in their types, whatever the brokers do. *)
QueuesOK ==
    /\ subscribed \in [Queues -> BOOLEAN]
    /\ sub \in [config : Seq(Row), data : Seq(Point)]
    /\ \A q \in DOMAIN sub : Len(sub[q]) <= QueueCap
    /\ closed \in [Queues -> BOOLEAN]

LEMMA QueueTypes ==
    ASSUME QueuesOK
    PROVE  /\ sub \in [Queues -> Seq(Row) \cup Seq(Point)] /\ DOMAIN sub = Queues
           /\ sub["config"] \in Seq(Row) /\ sub["data"] \in Seq(Point)
           /\ \A q \in Queues : Len(sub[q]) \in Nat
<1>1. /\ sub \in [Queues -> Seq(Row) \cup Seq(Point)]
      /\ sub["config"] \in Seq(Row) /\ sub["data"] \in Seq(Point)
  BY SubParts DEF QueuesOK
<1>2. \A q \in Queues : Len(sub[q]) \in Nat
  BY <1>1, LenProperties DEF Queues
<1> QED BY <1>1, <1>2

(* A queue of sub replaced by another one that fits. *)
LEMMA QueueReplaced ==
    ASSUME QueuesOK, NEW q \in Queues, NEW s \in Seq(Row) \cup Seq(Point),
           q = "config" => s \in Seq(Row), q = "data" => s \in Seq(Point),
           Len(s) <= QueueCap
    PROVE  /\ [sub EXCEPT ![q] = s] \in [config : Seq(Row), data : Seq(Point)]
           /\ \A p \in DOMAIN [sub EXCEPT ![q] = s] : Len([sub EXCEPT ![q] = s][p]) <= QueueCap
<1> DEFINE new == [sub EXCEPT ![q] = s]
<1>1. new \in [Queues -> Seq(Row) \cup Seq(Point)] /\ DOMAIN new = Queues
  BY QueueTypes
<1>2. \A p \in Queues : new[p] = IF p = q THEN s ELSE sub[p]
  BY QueueTypes
<1>3. new["config"] \in Seq(Row) /\ new["data"] \in Seq(Point)
  BY <1>2, QueueTypes DEF Queues
<1>4. new \in [config : Seq(Row), data : Seq(Point)]
  <2> HIDE DEF new
  <2> QED BY <1>1, <1>3, SubParts
<1>5. \A p \in DOMAIN new : Len(new[p]) <= QueueCap
  BY <1>1, <1>2, QueueTypes DEF QueuesOK
<1> QED BY <1>4, <1>5

LEMMA PublishType ==
    ASSUME QueuesOK, NEW m, m.type = "data" => m \in Point, m.type # "data" => m \in Row,
           Publish(m)
    PROVE  QueuesOK'
<1> DEFINE q == QueueOf(m)
<1>q. q \in Queues /\ (q = "config" => m \in Row) /\ (q = "data" => m \in Point)
  BY DEF QueueOf, Queues
<1>1. CASE UNCHANGED queues
  BY <1>1, Zenon DEF QueuesOK, queues
<1>2. CASE /\ Len(sub[q]) < QueueCap /\ sub' = [sub EXCEPT ![q] = Append(@, m)]
           /\ UNCHANGED <<subscribed, closed>>
  <2> DEFINE s == Append(sub[q], m)
  <2>1. /\ q = "config" => s \in Seq(Row) /\ Len(s) = Len(sub[q]) + 1
        /\ q = "data" => s \in Seq(Point) /\ Len(s) = Len(sub[q]) + 1
    BY <1>q, QueueTypes, AppendProperties
  <2>2. s \in Seq(Row) \cup Seq(Point) /\ Len(s) <= QueueCap
    BY <2>1, <1>q, <1>2, QueueTypes, RelayAssumption DEF Queues
  <2>3. sub' = [sub EXCEPT ![q] = s]
    BY <1>2
  <2>4. /\ [sub EXCEPT ![q] = s] \in [config : Seq(Row), data : Seq(Point)]
        /\ \A p \in DOMAIN [sub EXCEPT ![q] = s] : Len([sub EXCEPT ![q] = s][p]) <= QueueCap
    <3> HIDE DEF s, q
    <3> QED BY <2>1, <2>2, <1>q, QueueReplaced
  <2> HIDE DEF s, q
  <2>5. sub' \in [config : Seq(Row), data : Seq(Point)] /\ \A p \in DOMAIN sub' : Len(sub'[p]) <= QueueCap
    BY <2>3, <2>4, Zenon
  <2>6. subscribed' \in [Queues -> BOOLEAN] /\ closed' \in [Queues -> BOOLEAN]
    BY <1>2, Zenon DEF QueuesOK
  <2> QED BY <2>5, <2>6, Zenon DEF QueuesOK
<1>3. CASE closed' = [closed EXCEPT ![q] = TRUE] /\ UNCHANGED <<subscribed, sub>>
  <2>1. closed' \in [Queues -> BOOLEAN]
    <3> HIDE DEF q
    <3> QED BY <1>3, Zenon DEF QueuesOK
  <2> QED BY <2>1, <1>3, Zenon DEF QueuesOK
<1> QED BY <1>1, <1>2, <1>3, Zenon DEF Publish

LEMMA SubscribeType ==
    ASSUME QueuesOK, NEW p, NEW qs \in SUBSET Queues, Subscribe(p, qs)
    PROVE  QueuesOK'
<1>1. CASE SubscribesAt(p)
  <2>1. /\ subscribed' = [q \in Queues |-> q \in qs \/ subscribed[q]]
        /\ sub' = [q \in Queues |-> IF q \in qs THEN <<>> ELSE sub[q]]
        /\ closed' = [q \in Queues |-> q \notin qs /\ closed[q]]
    BY <1>1, Zenon DEF Subscribe
  <2>2. subscribed' \in [Queues -> BOOLEAN] /\ closed' \in [Queues -> BOOLEAN]
    BY <2>1, Zenon DEF QueuesOK
  <2>3. sub' \in [Queues -> Seq(Row) \cup Seq(Point)] /\ DOMAIN sub' = Queues
    BY <2>1, QueueTypes
  <2>4. sub'["config"] \in Seq(Row) /\ sub'["data"] \in Seq(Point)
    BY <2>1, QueueTypes DEF Queues
  <2>5. sub' \in [config : Seq(Row), data : Seq(Point)]
    BY <2>3, <2>4, SubParts
  <2>6. \A q \in DOMAIN sub' : Len(sub'[q]) <= QueueCap
    BY <2>1, <2>3, QueueTypes, RelayAssumption, EmptySeq DEF QueuesOK
  <2> QED BY <2>2, <2>5, <2>6, Zenon DEF QueuesOK
<1>2. CASE ~SubscribesAt(p)
  BY <1>2, Zenon DEF Subscribe, queues, QueuesOK
<1> QED BY <1>1, <1>2

LEMMA EmptiedType ==
    ASSUME subscribed' = None, sub' = Empty, closed' = None
    PROVE  QueuesOK'
BY EmptyType, Zenon DEF QueuesOK

(* The rest of the types, a part for each part of the state. *)
FeedOK ==
    /\ uStored \in [Items -> SUBSET Nat]
    /\ uLog \in Seq(Items)
    /\ unpublished \in Seq(Point \cup Row) /\ Len(unpublished) <= 1
    /\ delayed \in Seq(Point)
UpstreamOK ==
    /\ version \in Versions
    /\ upc \in {"gone", "hello", "status", "accept", "data", "history", "run"}
    /\ asked \in [Items -> Nat]
    /\ missItems \subseteq Items
NetworkOK ==
    /\ u2d \in [1 .. 4 -> Seq(Frame)]
    /\ d2u \in Request
    /\ broken \in BOOLEAN
DownOK ==
    /\ dpc \in {"idle", "boot", "status", "open", "miss", "run"}
    /\ dStored \in [Items -> SUBSET Nat]
    /\ dLog \subseteq Nat
    /\ dItem \in [Items -> Nat]
    /\ skipped \in [points : SUBSET Nat, rows : SUBSET Nat]
EnvOK == now \in Nat /\ faults \in Nat

LEMMA TypeParts == TypeOK <=> FeedOK /\ UpstreamOK /\ QueuesOK /\ NetworkOK /\ DownOK /\ EnvOK
BY Zenon DEF TypeOK, FeedOK, UpstreamOK, QueuesOK, NetworkOK, DownOK, EnvOK

LEMMA TypePartsNext ==
    FeedOK' /\ UpstreamOK' /\ QueuesOK' /\ NetworkOK' /\ DownOK' /\ EnvOK' => TypeOK'
BY Zenon DEF TypeOK, FeedOK, UpstreamOK, QueuesOK, NetworkOK, DownOK, EnvOK

(* A part whose variables do not change stays as it is. *)
LEMMA Kept ==
    /\ FeedOK /\ UNCHANGED <<upstreamDB, feed>> => FeedOK'
    /\ UpstreamOK /\ UNCHANGED <<version, upstream>> => UpstreamOK'
    /\ QueuesOK /\ UNCHANGED queues => QueuesOK'
    /\ NetworkOK /\ UNCHANGED network => NetworkOK'
    /\ DownOK /\ UNCHANGED <<dpc, downDB>> => DownOK'
    /\ EnvOK /\ UNCHANGED <<now, faults>> => EnvOK'
BY Zenon DEF FeedOK, UpstreamOK, QueuesOK, NetworkOK, DownOK, EnvOK, upstreamDB, feed,
             upstream, queues, network, downDB

LEMMA FaultType == ASSUME EnvOK, Fault \/ UNCHANGED faults, UNCHANGED now PROVE EnvOK'
BY DEF EnvOK, Fault

LEMMA FeedType ==
    ASSUME FeedOK, EnvOK,
           \/ \E i \in Items, replay \in BOOLEAN : StorePoint(i, replay)
           \/ \E i \in Items : StoreRow(i)
    PROVE  FeedOK' /\ EnvOK'
<1>1. ASSUME NEW i \in Items, NEW replay \in BOOLEAN, StorePoint(i, replay)
      PROVE  FeedOK' /\ EnvOK'
  <2>1. now + 1 \in Nat
    BY DEF EnvOK
  <2>2. uStored' = [uStored EXCEPT ![i] = @ \cup {now + 1}]
    BY <1>1 DEF StorePoint
  <2>3. uStored' \in [Items -> SUBSET Nat]
    BY <2>1, <2>2 DEF FeedOK
  <2> DEFINE m == [type |-> "data", item |-> i, ts |-> now + 1, replay |-> replay]
  <2>4. unpublished' = <<m>> /\ m \in Point
    BY <1>1, <2>1 DEF StorePoint, Point
  <2>5. unpublished' \in Seq(Point \cup Row) /\ Len(unpublished') = 1
    <3> HIDE DEF m
    <3> QED BY <2>4
  <2>6. UNCHANGED <<uLog, delayed, faults>> /\ now' = now + 1
    BY <1>1 DEF StorePoint
  <2> QED BY <2>1, <2>3, <2>5, <2>6 DEF FeedOK, EnvOK
<1>2. ASSUME NEW i \in Items, StoreRow(i)
      PROVE  FeedOK' /\ EnvOK'
  <2> DEFINE m == [type |-> "status", row |-> Len(uLog) + 1]
  <2>1. uLog' = Append(uLog, i) /\ unpublished' = <<m>> /\ UNCHANGED <<uStored, delayed, now, faults>>
    BY <1>2 DEF StoreRow
  <2>2. m \in Row /\ uLog' \in Seq(Items)
    BY <2>1, LenProperties, AppendProperties DEF FeedOK, Row
  <2>3. unpublished' \in Seq(Point \cup Row) /\ Len(unpublished') = 1
    <3> HIDE DEF m
    <3> QED BY <2>1, <2>2
  <2> QED BY <2>1, <2>2, <2>3 DEF FeedOK, EnvOK
<1> QED BY <1>1, <1>2

(* What is published: a point or a row. *)
LEMMA SavedKind ==
    ASSUME FeedOK, unpublished # <<>>
    PROVE  /\ Head(unpublished) \in Point \cup Row
           /\ Head(unpublished).type = "data" => Head(unpublished) \in Point
           /\ Head(unpublished).type # "data" => Head(unpublished) \in Row
           /\ unpublished = <<Head(unpublished)>>
<1>1. Head(unpublished) \in Point \cup Row
  BY HeadTailProperties DEF FeedOK
<1>2. unpublished = <<Head(unpublished)>>
  <2> DEFINE S == Point \cup Row
  <2>1. unpublished \in Seq(S) /\ Len(unpublished) <= 1
    BY Zenon DEF FeedOK
  <2> HIDE DEF S
  <2>2. Len(unpublished) \in Nat \ {0}
    BY <2>1, EmptySeq
  <2>3. \A n \in Nat \ {0} : n <= 1 => n = 1
    OBVIOUS
  <2>4. Len(unpublished) = 1
    BY <2>1, <2>2, <2>3, Zenon
  <2> QED BY <2>1, <2>4
<1> QED BY <1>1, <1>2, PointFields, RowFields

LEMMA PublishSavedType == ASSUME FeedOK, QueuesOK, PublishSaved PROVE FeedOK' /\ QueuesOK'
<1> DEFINE m == Head(unpublished)
<1>1. unpublished # <<>> /\ unpublished' = <<>> /\ UNCHANGED <<uStored, uLog>>
  BY Zenon DEF PublishSaved, upstreamDB
<1>2. m \in Point \cup Row /\ (m.type = "data" => m \in Point) /\ (m.type # "data" => m \in Row)
  BY <1>1, SavedKind
<1>3. \/ m.type = "data" /\ delayed' = Append(delayed, m) /\ UNCHANGED queues
      \/ Publish(m) /\ UNCHANGED delayed
  BY Zenon DEF PublishSaved
<1>4. delayed' \in Seq(Point)
  <2> HIDE DEF m
  <2>1. delayed \in Seq(Point) /\ (m \in Point => Append(delayed, m) \in Seq(Point))
    BY AppendProperties DEF FeedOK
  <2> QED BY <1>2, <1>3, <2>1, Zenon
<1>5. unpublished' \in Seq(Point \cup Row) /\ Len(unpublished') <= 1
  BY <1>1, EmptySeq
<1>6. FeedOK'
  BY <1>1, <1>4, <1>5, Zenon DEF FeedOK
<1>7. QueuesOK'
  <2> HIDE DEF m
  <2> QED BY <1>2, <1>3, PublishType, Kept
<1> QED BY <1>6, <1>7

LEMMA PublishDelayedType == ASSUME FeedOK, QueuesOK, PublishDelayed PROVE FeedOK' /\ QueuesOK'
<1>1. delayed # <<>> /\ delayed' = Tail(delayed) /\ Publish(Head(delayed))
      /\ UNCHANGED <<uStored, uLog, unpublished>>
  BY Zenon DEF PublishDelayed, upstreamDB
<1>2. delayed' \in Seq(Point) /\ Head(delayed) \in Point
  BY <1>1, HeadTailProperties DEF FeedOK
<1>3. QueuesOK'
  BY <1>1, <1>2, PublishType, PointFields
<1> QED BY <1>1, <1>2, <1>3, Zenon DEF FeedOK

LEMMA RequestTypes ==
    /\ NoRequest \in Request /\ [type |-> "hello"] \in Request /\ [type |-> "open"] \in Request
    /\ \A r \in Nat : [type |-> "statusLatest", row |-> r] \in Request
    /\ \A ts \in [Items -> Nat] : [type |-> "itemsLatest", ts |-> ts] \in Request
BY DEF Request, NoRequest

LEMMA FrameTypes ==
    /\ [type |-> "config"] \in Frame /\ [type |-> "permissions"] \in Frame
    /\ [type |-> "end"] \in Frame
    /\ \A S \in SUBSET Nat, T \in SUBSET Nat : MissStatus(S, T) \in Frame
    /\ \A i \in Items, S \in SUBSET Nat : MissData(i, S) \in Frame
BY DEF Frame, MissStatus, MissData

LEMMA ServeType ==
    ASSUME TypeOK, NEW qs \in SUBSET Queues, Serve(qs)
    PROVE  UpstreamOK' /\ QueuesOK' /\ NetworkOK'
<1>1. /\ upc' = "status" /\ Subscribe("status", qs) /\ d2u' = NoRequest
      /\ u2d' = Arrives([type |-> "config"]) /\ UNCHANGED <<version, asked, missItems, broken>>
  BY Zenon DEF Serve
<1>2. QueuesOK'
  BY <1>1, TypeParts, SubscribeType
<1>3. u2d' \in [1 .. 4 -> Seq(Frame)] /\ d2u' \in Request
  BY <1>1, ArrivesType, FrameTypes, RequestTypes
<1> QED BY <1>1, <1>2, <1>3, TypeParts DEF UpstreamOK, NetworkOK

LEMMA SendMissStatusType ==
    ASSUME TypeOK, NEW next \in {"data", "accept"}, SendMissStatus(next)
    PROVE  UpstreamOK' /\ NetworkOK'
<1> DEFINE S == {r \in DOMAIN uLog : r > d2u.row}
<1>1. /\ upc' = next /\ d2u' = NoRequest /\ UNCHANGED <<version, asked, missItems, broken>>
      /\ u2d' = Arrives(MissStatus(S, {}))
  BY Zenon DEF SendMissStatus
<1>2. S \in SUBSET Nat
  <2>1. DOMAIN uLog = 1 .. Len(uLog) /\ Len(uLog) \in Nat
    BY LenProperties DEF TypeOK
  <2>2. DOMAIN uLog \subseteq Nat
    BY <2>1
  <2> QED BY <2>2, Zenon
<1>3. MissStatus(S, {}) \in Frame
  BY <1>2, FrameTypes
<1>4. u2d' \in [1 .. 4 -> Seq(Frame)] /\ d2u' \in Request
  BY <1>1, <1>3, ArrivesType, RequestTypes
<1> QED BY <1>1, <1>4, TypeParts DEF UpstreamOK, NetworkOK

LEMMA RoundType ==
    ASSUME TypeOK, syncDataServer PROVE UpstreamOK' /\ QueuesOK' /\ NetworkOK'
<1>1. /\ upc' = "data" /\ Subscribe("data", {"data"}) /\ d2u' = NoRequest
      /\ u2d' = Arrives([type |-> "permissions"])
      /\ UNCHANGED <<version, asked, missItems, broken>>
  BY Zenon DEF syncDataServer
<1>2. QueuesOK'
  <2>1. {"data"} \in SUBSET Queues
    BY DEF Queues
  <2> QED BY <1>1, <2>1, TypeParts, SubscribeType
<1>3. u2d' \in [1 .. 4 -> Seq(Frame)] /\ d2u' \in Request
  BY <1>1, ArrivesType, FrameTypes, RequestTypes
<1> QED BY <1>1, <1>2, <1>3, TypeParts DEF UpstreamOK, NetworkOK

LEMMA RoundEndType ==
    ASSUME TypeOK, syncDataServerReturns PROVE UpstreamOK' /\ QueuesOK' /\ NetworkOK'
<1>1. /\ upc' = "accept" /\ UNCHANGED <<version, asked, missItems, network>>
      /\ subscribed' = [subscribed EXCEPT !.data = FALSE]
      /\ sub' = [sub EXCEPT !["data"] = <<>>]
      /\ closed' = [closed EXCEPT !.data = FALSE]
  BY DEF syncDataServerReturns
<1>2. subscribed' \in [Queues -> BOOLEAN] /\ closed' \in [Queues -> BOOLEAN]
  BY <1>1, Zenon DEF TypeOK
<1>3. sub' \in [config : Seq(Row), data : Seq(Point)] /\ \A q \in DOMAIN sub' : Len(sub'[q]) <= QueueCap
  <2>1. "data" \in Queues /\ <<>> \in Seq(Row) \cup Seq(Point) /\ <<>> \in Seq(Row)
        /\ <<>> \in Seq(Point) /\ Len(<<>>) <= QueueCap
    BY EmptySeq, RelayAssumption DEF Queues
  <2>2. QueuesOK
    BY TypeParts
  <2>3. /\ [sub EXCEPT !["data"] = <<>>] \in [config : Seq(Row), data : Seq(Point)]
        /\ \A p \in DOMAIN [sub EXCEPT !["data"] = <<>>] :
              Len([sub EXCEPT !["data"] = <<>>][p]) <= QueueCap
    BY <2>1, <2>2, QueueReplaced, Zenon
  <2> QED BY <1>1, <2>3, Zenon
<1>4. QueuesOK'
  BY <1>2, <1>3, Zenon DEF QueuesOK
<1> QED BY <1>1, <1>4, TypeParts, Kept DEF UpstreamOK

LEMMA SendMissDataType ==
    ASSUME TypeOK, SendMissData PROVE UpstreamOK' /\ QueuesOK' /\ NetworkOK'
<1>1. CASE RecvItemsLatest
  <2>1. /\ upc' = "history" /\ d2u' = NoRequest /\ asked' = d2u.ts
        /\ missItems' \subseteq Items /\ d2u.type = "itemsLatest"
        /\ UNCHANGED <<version, queues, u2d, broken>>
    BY <1>1, Zenon DEF RecvItemsLatest
  <2>2. asked' \in [Items -> Nat]
    BY <2>1, RequestKinds DEF TypeOK
  <2> QED BY <2>1, <2>2, TypeParts, Kept, RequestTypes DEF UpstreamOK, NetworkOK
<1>2. ASSUME NEW i \in Items, SendHistory(i) PROVE UpstreamOK' /\ QueuesOK' /\ NetworkOK'
  <2> DEFINE S == HistoryAfter(i)
  <2>1. /\ missItems' = missItems \ {i} /\ UNCHANGED <<version, upc, asked, queues, d2u, broken>>
        /\ u2d' = IF S = {} THEN u2d
                  ELSE Arrives(MissData(i, S))
    BY <1>2, Zenon DEF SendHistory
  <2>2. S \in SUBSET Nat
    BY DEF TypeOK, HistoryAfter
  <2>3. u2d' \in [1 .. 4 -> Seq(Frame)]
    <3>1. MissData(i, S) \in Frame
      BY <2>2, FrameTypes
    <3>2. Arrives(MissData(i, S)) \in [1 .. 4 -> Seq(Frame)]
      BY <3>1, ArrivesType
    <3> QED BY <2>1, <3>2, Zenon DEF TypeOK
  <2> QED BY <2>1, <2>3, TypeParts, Kept DEF UpstreamOK, NetworkOK
<1>3. CASE SendHistoryEnd
  <2>1. /\ upc' = "run" /\ Subscribe("run", Queues) /\ u2d' = Arrives([type |-> "end"])
        /\ UNCHANGED <<version, asked, missItems, d2u, broken>>
    BY <1>3, Zenon DEF SendHistoryEnd
  <2>2. QueuesOK' /\ u2d' \in [1 .. 4 -> Seq(Frame)]
    BY <2>1, TypeParts, SubscribeType, ArrivesType, FrameTypes
  <2> QED BY <2>1, <2>2, TypeParts DEF UpstreamOK, NetworkOK
<1> QED BY <1>1, <1>2, <1>3, Zenon DEF SendMissData

LEMMA ForwardType ==
    ASSUME TypeOK, NEW q \in Queues, forwardIncremental(q)
    PROVE  /\ QueuesOK' /\ NetworkOK'
           /\ Head(sub[q]) \in Frame /\ Head(sub[q]) \in (IF q = "data" THEN Point ELSE Row)
<1>1. /\ sub[q] # <<>> /\ sub' = [sub EXCEPT ![q] = Tail(sub[q])] /\ u2d' = Arrives(Head(sub[q]))
      /\ UNCHANGED <<subscribed, closed, d2u, broken>>
  BY DEF forwardIncremental
<1>2. QueuesOK
  BY TypeParts
<1>3. /\ q = "config" => Head(sub[q]) \in Row /\ Tail(sub[q]) \in Seq(Row)
      /\ q = "data" => Head(sub[q]) \in Point /\ Tail(sub[q]) \in Seq(Point)
      /\ Len(Tail(sub[q])) = Len(sub[q]) - 1
  <2>1. CASE q = "config"
    BY <1>1, <1>2, <2>1, QueueTypes, HeadTailProperties
  <2>2. CASE q = "data"
    BY <1>1, <1>2, <2>2, QueueTypes, HeadTailProperties
  <2> QED BY <2>1, <2>2 DEF Queues
<1>4. Len(Tail(sub[q])) <= QueueCap
  BY <1>2, <1>3, QueueTypes, RelayAssumption DEF QueuesOK
<1>5. Head(sub[q]) \in Frame /\ Head(sub[q]) \in (IF q = "data" THEN Point ELSE Row)
  BY <1>3, PointFields, RowFields DEF Queues
<1>6. sub' \in [config : Seq(Row), data : Seq(Point)] /\ \A p \in DOMAIN sub' : Len(sub'[p]) <= QueueCap
  <2> DEFINE s == Tail(sub[q])
  <2>1. /\ s \in Seq(Row) \cup Seq(Point) /\ (q = "config" => s \in Seq(Row))
        /\ (q = "data" => s \in Seq(Point)) /\ Len(s) <= QueueCap
    BY <1>3, <1>4 DEF Queues
  <2> HIDE DEF s
  <2>2. /\ [sub EXCEPT ![q] = s] \in [config : Seq(Row), data : Seq(Point)]
        /\ \A p \in DOMAIN [sub EXCEPT ![q] = s] : Len([sub EXCEPT ![q] = s][p]) <= QueueCap
    BY <1>2, <2>1, QueueReplaced
  <2> QED BY <1>1, <2>2, Zenon DEF s
<1>7. u2d' \in [1 .. 4 -> Seq(Frame)]
  BY <1>1, <1>5, ArrivesType
<1> QED BY <1>1, <1>5, <1>6, <1>7, TypeParts, Zenon DEF QueuesOK, NetworkOK

LEMMA GoneType ==
    ASSUME TypeOK, StreamRelayReturns \/ UpstreamRestart
    PROVE  FeedOK' /\ UpstreamOK' /\ QueuesOK' /\ NetworkOK' /\ EnvOK'
<1>1. /\ upc' = "gone" /\ subscribed' = None /\ sub' = Empty /\ closed' = None /\ broken' = TRUE
      /\ UNCHANGED <<version, upstreamDB, asked, missItems, u2d, d2u, now>>
      /\ (Fault \/ UNCHANGED faults)
  BY Zenon DEF StreamRelayReturns, UpstreamRestart
<1>2. UNCHANGED feed \/ (unpublished' = <<>> /\ delayed' = <<>>)
  BY Zenon DEF StreamRelayReturns, UpstreamRestart
<1>3. FeedOK'
  <2>1. <<>> \in Seq(Point \cup Row) /\ Len(<<>>) <= 1 /\ <<>> \in Seq(Point)
    BY EmptySeq
  <2> QED BY <1>1, <1>2, <2>1, Zenon DEF TypeOK, FeedOK, feed, upstreamDB
<1>4. QueuesOK' /\ EnvOK'
  BY <1>1, EmptiedType, TypeParts, FaultType
<1>5. UpstreamOK' /\ NetworkOK'
  BY <1>1, Zenon DEF TypeOK, UpstreamOK, NetworkOK
<1> QED BY <1>3, <1>4, <1>5

LEMMA DialType ==
    ASSUME TypeOK, openDownstreamStream PROVE TypeOK'
<1>1. /\ dpc' = "boot" /\ upc' = "hello" /\ subscribed' = None /\ sub' = Empty /\ closed' = None
      /\ u2d' = NoFrames /\ d2u' = [type |-> "hello"] /\ broken' = FALSE
      /\ UNCHANGED <<version, upstreamDB, feed, asked, missItems, downDB, now, faults>>
  BY Zenon DEF openDownstreamStream
<1>2. QueuesOK' /\ u2d' \in [1 .. 4 -> Seq(Frame)] /\ d2u' \in Request
  BY <1>1, EmptiedType, NoFramesType, RequestTypes
<1>3. UpstreamOK' /\ NetworkOK' /\ DownOK'
  BY <1>1, <1>2, Zenon DEF TypeOK, UpstreamOK, NetworkOK, DownOK, downDB
<1> QED BY <1>1, <1>2, <1>3, TypeParts, Kept, TypePartsNext DEF upstreamDB, feed

LEMMA RecvFullConfigType ==
    ASSUME TypeOK, RecvFullConfig PROVE NetworkOK' /\ DownOK'
<1>1. /\ Receives("config") /\ dpc' = "status" /\ u2d' = Taken("config")
      /\ UNCHANGED <<broken, downDB>>
      /\ \E row \in dLog \cup {0} : d2u' = [type |-> "statusLatest", row |-> row]
  BY Zenon DEF RecvFullConfig
<1>2. u2d' \in [1 .. 4 -> Seq(Frame)]
  BY <1>1, TakenType
<1>3. d2u' \in Request
  <2>1. PICK row \in dLog \cup {0} : d2u' = [type |-> "statusLatest", row |-> row]
    BY <1>1, Zenon
  <2>2. row \in Nat
    BY DEF TypeOK
  <2> QED BY <2>1, <2>2, RequestTypes
<1> QED BY <1>1, <1>2, <1>3, Zenon DEF TypeOK, NetworkOK, DownOK, downDB

LEMMA SkippedType ==
    ASSUME TypeOK, NEW kind \in {"points", "rows"}, NEW n \in Nat, Refused(kind, n)
    PROVE  skipped' \in [points : SUBSET Nat, rows : SUBSET Nat]
<1>1. skipped' = [skipped EXCEPT ![kind] = @ \cup {n}]
  BY Zenon DEF Refused
<1>2. skipped \in [points : SUBSET Nat, rows : SUBSET Nat]
  BY Zenon DEF TypeOK
<1>3. CASE kind = "points"
  BY <1>1, <1>2, <1>3
<1>4. CASE kind = "rows"
  BY <1>1, <1>2, <1>4
<1> QED BY <1>3, <1>4

(* The batch of missed rows at the head of its stream. *)
LEMMA MissStatusHead ==
    ASSUME TypeOK, Receives("missStatus")
    PROVE  LET b == Head(u2d[Stream("missStatus")])
           IN  /\ b \in Frame /\ b.type = "missStatus"
               /\ b.rows \in SUBSET Nat /\ b.shown \in SUBSET Nat
BY TakenType, FrameKinds

LEMMA RowOfLog ==
    ASSUME TypeOK, NEW r \in DOMAIN uLog PROVE r \in Nat \ {0} /\ uLog[r] \in Items
<1>1. r \in 1 .. Len(uLog) /\ Len(uLog) \in Nat
  BY LenProperties DEF TypeOK
<1>2. r \in Nat \ {0}
  BY <1>1
<1>3. uLog[r] \in Items
  BY <1>1, ElementOfSeq DEF TypeOK
<1> QED BY <1>2, <1>3

LEMMA HeadReplaced ==
    ASSUME TypeOK, NEW ty, Receives(ty), NEW m \in Frame
    PROVE  [u2d EXCEPT ![Stream(ty)][1] = m] \in [1 .. 4 -> Seq(Frame)]
BY ReplacedType

LEMMA ShowMissStatusType ==
    ASSUME TypeOK, NEW r \in DOMAIN uLog, ShowMissStatus(r)
    PROVE  NetworkOK' /\ DownOK' /\ EnvOK'
<1> DEFINE s == Stream("missStatus")
           b == Head(u2d[s])
<1>1. /\ Receives("missStatus") /\ UNCHANGED <<d2u, broken, dpc, dStored, dLog, now>>
      /\ \/ /\ dItem' = [dItem EXCEPT ![uLog[r]] = r]
            /\ u2d' = [u2d EXCEPT ![s][1] = MissStatus(b.rows, b.shown \cup {r})]
            /\ UNCHANGED <<skipped, faults>>
         \/ /\ Refused("rows", r)
            /\ u2d' = [u2d EXCEPT ![s][1] = MissStatus(b.rows \ {r}, b.shown)]
            /\ UNCHANGED dItem
  BY Zenon DEF ShowMissStatus
<1>2. r \in Nat /\ uLog[r] \in Items
  BY RowOfLog
<1>3. u2d' \in [1 .. 4 -> Seq(Frame)]
  <2>1. /\ b.rows \in SUBSET Nat /\ b.rows \ {r} \in SUBSET Nat
        /\ b.shown \in SUBSET Nat /\ b.shown \cup {r} \in SUBSET Nat
    BY <1>1, <1>2, MissStatusHead
  <2>2. /\ MissStatus(b.rows, b.shown \cup {r}) \in Frame
        /\ MissStatus(b.rows \ {r}, b.shown) \in Frame
    BY <2>1, FrameTypes
  <2>3. PICK m \in Frame : u2d' = [u2d EXCEPT ![s][1] = m]
    BY <1>1, <2>2, Zenon
  <2>4. [u2d EXCEPT ![s][1] = m] \in [1 .. 4 -> Seq(Frame)]
    BY <1>1, HeadReplaced
  <2> QED BY <2>3, <2>4, Zenon
<1>4. dItem' \in [Items -> Nat]
  <2>1. dItem \in [Items -> Nat]
    BY Zenon DEF TypeOK
  <2> QED BY <1>1, <1>2, <2>1
<1>5. skipped' \in [points : SUBSET Nat, rows : SUBSET Nat] /\ EnvOK'
  BY <1>1, <1>2, SkippedType, TypeParts, FaultType DEF Refused, DownOK
<1> QED BY <1>1, <1>3, <1>4, <1>5, Zenon DEF TypeOK, NetworkOK, DownOK

LEMMA SaveMissStatusType ==
    ASSUME TypeOK, NEW r \in DOMAIN uLog, SaveMissStatus(r)
    PROVE  NetworkOK' /\ DownOK' /\ EnvOK'
<1> DEFINE s == Stream("missStatus")
           b == Head(u2d[s])
<1>1. /\ Receives("missStatus") /\ UNCHANGED <<d2u, broken, dpc, dStored, dItem, now>>
      /\ \/ dLog' = dLog \cup {r} /\ UNCHANGED <<skipped, faults>>
         \/ Refused("rows", r) /\ UNCHANGED dLog
      /\ u2d' = [u2d EXCEPT ![s][1] = MissStatus(b.rows \ {r}, b.shown \ {r})]
  BY Zenon DEF SaveMissStatus
<1>2. r \in Nat
  BY RowOfLog
<1>3. u2d' \in [1 .. 4 -> Seq(Frame)]
  <2>1. b.rows \ {r} \in SUBSET Nat /\ b.shown \ {r} \in SUBSET Nat
    BY <1>1, MissStatusHead
  <2>2. MissStatus(b.rows \ {r}, b.shown \ {r}) \in Frame
    BY <2>1, FrameTypes
  <2>3. PICK m \in Frame : u2d' = [u2d EXCEPT ![s][1] = m]
    BY <1>1, <2>2, Zenon
  <2>4. [u2d EXCEPT ![s][1] = m] \in [1 .. 4 -> Seq(Frame)]
    BY <1>1, HeadReplaced
  <2> QED BY <2>3, <2>4, Zenon
<1>4. dLog' \subseteq Nat
  BY <1>1, <1>2 DEF TypeOK
<1>5. skipped' \in [points : SUBSET Nat, rows : SUBSET Nat] /\ EnvOK'
  BY <1>1, <1>2, SkippedType, TypeParts, FaultType DEF Refused, DownOK
<1> QED BY <1>1, <1>3, <1>4, <1>5, Zenon DEF TypeOK, NetworkOK, DownOK

LEMMA TakeType ==
    ASSUME TypeOK, NEW ty, Receives(ty), u2d' = Taken(ty), d2u' \in Request,
           UNCHANGED broken
    PROVE  NetworkOK'
BY TakenType, Zenon DEF NetworkOK, TypeOK

LEMMA OpenType == ASSUME TypeOK, fullSyncConfigClientReturns PROVE NetworkOK' /\ DownOK'
<1>1. /\ Receives("missStatus") /\ u2d' = Taken("missStatus") /\ d2u' = [type |-> "open"]
      /\ dpc' = "open" /\ UNCHANGED <<broken, downDB>>
  BY Zenon DEF fullSyncConfigClientReturns
<1>2. NetworkOK'
  BY <1>1, TakeType, RequestTypes
<1> QED BY <1>1, <1>2, Zenon DEF TypeOK, DownOK, downDB

LEMMA SendItemsLatestType == ASSUME TypeOK, SendItemsLatest PROVE NetworkOK' /\ DownOK'
<1>1. /\ ReadyForData /\ dpc' = "miss" /\ UNCHANGED <<broken, downDB>>
      /\ \E ts \in [Items -> 0 .. now] : d2u' = [type |-> "itemsLatest", ts |-> ts]
  BY Zenon DEF SendItemsLatest
<1>2. d2u' \in Request
  <2>1. PICK ts \in [Items -> 0 .. now] : d2u' = [type |-> "itemsLatest", ts |-> ts]
    BY <1>1, Zenon
  <2>2. ts \in [Items -> Nat]
    BY DEF TypeOK
  <2> QED BY <2>1, <2>2, RequestTypes
<1>3. NetworkOK'
  BY <1>1, <1>2, TakeType, Zenon DEF ReadyForData
<1> QED BY <1>1, <1>3, Zenon DEF TypeOK, DownOK, downDB

(* The batch of missed points at the head of its stream. *)
LEMMA MissDataHead ==
    ASSUME TypeOK, Receives("missData")
    PROVE  LET b == Head(u2d[Stream("missData")])
           IN  /\ b \in Frame /\ b.type = "missData"
               /\ b.item \in Items /\ b.points \in SUBSET Nat
               /\ b = MissData(b.item, b.points)
BY TakenType, FrameKinds

LEMMA SaveMissDataType ==
    ASSUME TypeOK, NEW t \in 1 .. now, SaveMissData(t) PROVE NetworkOK' /\ DownOK'
<1> DEFINE s == Stream("missData")
           b == Head(u2d[s])
           left == b.points \ {t}
<1>1. /\ Receives("missData") /\ UNCHANGED <<d2u, broken, dpc, dLog, dItem, skipped>>
      /\ dStored' = [dStored EXCEPT ![b.item] = @ \cup {t}]
      /\ u2d' = Taken("missData") \/ u2d' = [u2d EXCEPT ![s][1] = MissData(b.item, left)]
  BY Zenon DEF SaveMissData
<1>2. t \in Nat
  BY DEF TypeOK
<1>3. MissData(b.item, left) \in Frame
  BY <1>1, MissDataHead, FrameTypes
<1>4. u2d' \in [1 .. 4 -> Seq(Frame)]
  <2>1. [u2d EXCEPT ![s][1] = MissData(b.item, left)] \in [1 .. 4 -> Seq(Frame)]
    BY <1>1, <1>3, HeadReplaced
  <2>2. Taken("missData") \in [1 .. 4 -> Seq(Frame)]
    BY <1>1, TakenType
  <2> QED BY <1>1, <2>1, <2>2, Zenon
<1>5. dStored' \in [Items -> SUBSET Nat]
  <2>1. b.item \in Items /\ dStored \in [Items -> SUBSET Nat]
    BY <1>1, MissDataHead DEF TypeOK
  <2> HIDE DEF b
  <2> QED BY <1>1, <1>2, <2>1
<1> QED BY <1>1, <1>4, <1>5, Zenon DEF TypeOK, NetworkOK, DownOK

LEMMA MissDataEndsType == ASSUME TypeOK, MissDataEnds PROVE NetworkOK' /\ DownOK'
<1>1. /\ Receives("end") /\ u2d' = Taken("end") /\ dpc' = "run" /\ UNCHANGED <<d2u, broken, downDB>>
  BY Zenon DEF MissDataEnds
<1>2. NetworkOK'
  BY <1>1, TakeType, Zenon DEF TypeOK
<1> QED BY <1>1, <1>2, Zenon DEF TypeOK, DownOK, downDB

(* The point or row at the head of its stream. *)
LEMMA PointHead ==
    ASSUME TypeOK, Receives("data") PROVE Head(u2d[Stream("data")]) \in Point
BY TakenType, FrameKinds

LEMMA RowHead ==
    ASSUME TypeOK, Receives("status") PROVE Head(u2d[Stream("status")]) \in Row
BY TakenType, FrameKinds

LEMMA SavePointType == ASSUME TypeOK, SavePoint PROVE NetworkOK' /\ DownOK' /\ EnvOK'
<1> DEFINE point == Head(u2d[Stream("data")])
<1>1. /\ Receives("data") /\ u2d' = Taken("data")
      /\ UNCHANGED <<d2u, broken, dpc, dLog, dItem, now>>
      /\ \/ /\ dStored' = [dStored EXCEPT ![point.item] = @ \cup {point.ts}]
            /\ UNCHANGED <<skipped, faults>>
         \/ Refused("points", point.ts) /\ UNCHANGED dStored
  BY Zenon DEF SavePoint
<1>2. point.item \in Items /\ point.ts \in Nat
  BY <1>1, PointHead, PointFields
<1>3. NetworkOK'
  BY <1>1, TakeType, Zenon DEF TypeOK
<1>4. dStored' \in [Items -> SUBSET Nat]
  <2>1. dStored \in [Items -> SUBSET Nat]
    BY Zenon DEF TypeOK
  <2> HIDE DEF point
  <2> QED BY <1>1, <1>2, <2>1
<1>5. skipped' \in [points : SUBSET Nat, rows : SUBSET Nat] /\ EnvOK'
  <2> HIDE DEF point
  <2> QED BY <1>1, <1>2, SkippedType, TypeParts, FaultType DEF Refused, DownOK
<1> QED BY <1>1, <1>3, <1>4, <1>5, Zenon DEF TypeOK, DownOK

LEMMA SaveRowType == ASSUME TypeOK, SaveRow PROVE NetworkOK' /\ DownOK' /\ EnvOK'
<1> DEFINE r == Head(u2d[1]).row
<1>0. Stream("status") = 1
  BY Zenon DEF Stream
<1>1. /\ Receives("status") /\ u2d' = Taken("status")
      /\ UNCHANGED <<d2u, broken, dpc, dStored, now>>
      /\ \/ /\ dLog' = dLog \cup {r}
            /\ dItem' = [dItem EXCEPT ![uLog[r]] = IF ShowsRow(r) THEN r ELSE @]
            /\ UNCHANGED <<skipped, faults>>
         \/ Refused("rows", r) /\ UNCHANGED <<dLog, dItem>>
  BY Zenon DEF SaveRow
<1>2. r \in Nat
  BY <1>0, <1>1, RowHead, RowFields
<1>3. NetworkOK'
  BY <1>1, TakeType, Zenon DEF TypeOK
<1>4. dLog' \subseteq Nat
  <2> HIDE DEF r
  <2> QED BY <1>1, <1>2 DEF TypeOK
<1>5. dItem' \in [Items -> Nat]
  <2>1. dItem \in [Items -> Nat]
    BY Zenon DEF TypeOK
  <2> HIDE DEF r
  <2> QED BY <1>1, <1>2, <2>1
<1>6. skipped' \in [points : SUBSET Nat, rows : SUBSET Nat] /\ EnvOK'
  <2> HIDE DEF r
  <2> QED BY <1>1, <1>2, SkippedType, TypeParts, FaultType DEF Refused, DownOK
<1> QED BY <1>1, <1>3, <1>4, <1>5, <1>6, Zenon DEF TypeOK, DownOK

LEMMA RoundReturnsType ==
    ASSUME TypeOK, syncDataClientReturns PROVE NetworkOK' /\ DownOK' /\ EnvOK'
<1>1. /\ dpc' = "open" /\ u2d' = [u2d EXCEPT ![3] = <<>>] /\ d2u' = [type |-> "open"]
      /\ UNCHANGED <<broken, downDB, now>> /\ (Fault \/ UNCHANGED faults)
  BY Zenon DEF syncDataClientReturns
<1>2. u2d' \in [1 .. 4 -> Seq(Frame)]
  <2>1. <<>> \in Seq(Frame) /\ u2d \in [1 .. 4 -> Seq(Frame)]
    BY EmptySeq DEF TypeOK
  <2> QED BY <1>1, <2>1
<1> QED BY <1>1, <1>2, TypeParts, FaultType, RequestTypes DEF NetworkOK, DownOK, downDB

LEMMA DownReturnsType ==
    ASSUME TypeOK, RunDownstreamReturns PROVE NetworkOK' /\ DownOK' /\ EnvOK'
<1>1. /\ dpc' = "idle" /\ broken' = TRUE /\ u2d' = NoFrames /\ d2u' = NoRequest
      /\ UNCHANGED <<downDB, now>> /\ (Fault \/ UNCHANGED faults)
  BY Zenon DEF RunDownstreamReturns
<1>2. NetworkOK'
  BY <1>1, NoFramesType, RequestTypes, Zenon DEF NetworkOK
<1>3. DownOK' /\ EnvOK'
  BY <1>1, TypeParts, FaultType DEF DownOK, downDB
<1> QED BY <1>2, <1>3


LEMMA InitType == Init => TypeOK
<1> SUFFICES ASSUME Init PROVE TypeOK
  OBVIOUS
<1>1. FeedOK
  <2>1. <<>> \in Seq(Point \cup Row) /\ Len(<<>>) <= 1 /\ <<>> \in Seq(Point) /\ <<>> \in Seq(Items)
    BY EmptySeq
  <2> QED BY <2>1 DEF Init, FeedOK
<1>2. QueuesOK
  BY EmptyType, Zenon DEF Init, QueuesOK
<1>3. UpstreamOK /\ DownOK /\ EnvOK
  BY DEF Init, UpstreamOK, DownOK, EnvOK
<1>4. NetworkOK
  BY NoFramesType, RequestTypes, Zenon DEF Init, NetworkOK
<1> QED BY <1>1, <1>2, <1>3, <1>4, TypeParts

LEMMA TypeStep == ASSUME TypeOK, [Next]_vars PROVE TypeOK'
<1> USE TypeParts, TypePartsNext, Kept
<1>1. CASE StationFeeds
  BY <1>1, FeedType, Zenon DEF StationFeeds, StorePoint, StoreRow
<1>2. CASE PublishSaved
  BY <1>2, PublishSavedType, Zenon DEF PublishSaved
<1>3. CASE PublishDelayed
  BY <1>3, PublishDelayedType, Zenon DEF PublishDelayed
<1>4. CASE RecvDownstreamHello \/ handleSyncServerConn
  <2>1. PICK qs \in SUBSET Queues : Serve(qs)
    BY <1>4 DEF RecvDownstreamHello, handleSyncServerConn, Queues
  <2>2. UNCHANGED <<upstreamDB, feed, dpc, downDB, now, faults>>
    BY <2>1, Zenon DEF Serve
  <2> QED BY <2>1, <2>2, ServeType, Zenon
<1>5. CASE handleMissStatusSync \/ fullSyncConfigServer
  <2>1. PICK next \in {"data", "accept"} : SendMissStatus(next)
    BY <1>5 DEF handleMissStatusSync, fullSyncConfigServer
  <2>2. UNCHANGED <<upstreamDB, feed, queues, dpc, downDB, now, faults>>
    BY <2>1, Zenon DEF SendMissStatus
  <2> QED BY <2>1, <2>2, SendMissStatusType, Zenon
<1>6. CASE handleMissDataSync \/ fillMissDataServer
  <2>1. SendMissData
    BY <1>6, Zenon DEF handleMissDataSync, fillMissDataServer
  <2>2. UNCHANGED <<upstreamDB, feed, dpc, downDB, now, faults>>
    BY <2>1, Zenon DEF SendMissData, RecvItemsLatest, SendHistory, SendHistoryEnd
  <2> QED BY <2>1, <2>2, SendMissDataType, Zenon
<1>7. CASE syncDataServer
  BY <1>7, RoundType, Zenon DEF syncDataServer
<1>8. CASE syncDataServerReturns
  BY <1>8, RoundEndType, Zenon DEF syncDataServerReturns
<1>9. ASSUME NEW q \in Queues, forwardIncremental(q) PROVE TypeOK'
  BY <1>9, ForwardType, Zenon DEF forwardIncremental
<1>10. CASE UpdatePermissions
  <2>1. /\ UNCHANGED <<version, upstreamDB, feed, upstream, subscribed, sub, network, dpc,
                      downDB, now>>
        /\ closed' = [closed EXCEPT !["data"] = TRUE] /\ Fault
    BY <1>10 DEF UpdatePermissions
  <2>2. closed' \in [Queues -> BOOLEAN]
    BY <2>1, Zenon DEF TypeOK
  <2>3. QueuesOK' /\ EnvOK'
    BY <2>1, <2>2, FaultType, Zenon DEF QueuesOK
  <2> QED BY <2>1, <2>3, Zenon
<1>11. CASE StreamRelayReturns \/ UpstreamRestart
  <2>1. UNCHANGED <<dpc, downDB>>
    BY <1>11, Zenon DEF StreamRelayReturns, UpstreamRestart
  <2> QED BY <1>11, <2>1, GoneType, Zenon
<1>12. CASE Break
  <2>1. /\ UNCHANGED <<version, upstreamDB, feed, upstream, queues, u2d, d2u, dpc, downDB, now>>
        /\ Fault /\ broken' = TRUE
    BY <1>12, Zenon DEF Break
  <2>2. NetworkOK' /\ EnvOK'
    BY <2>1, FaultType, Zenon DEF NetworkOK
  <2> QED BY <2>1, <2>2, Zenon
<1>13. CASE openDownstreamStream
  BY <1>13, DialType
<1>14. CASE syncMissStatus \/ fullSyncConfigClient
  <2>1. CASE RecvFullConfig
    BY <2>1, RecvFullConfigType, Zenon DEF RecvFullConfig
  <2>2. ASSUME NEW r \in DOMAIN uLog, ShowMissStatus(r) PROVE TypeOK'
    BY <2>2, ShowMissStatusType, Zenon DEF ShowMissStatus
  <2>3. ASSUME NEW r \in DOMAIN uLog, SaveMissStatus(r) PROVE TypeOK'
    BY <2>3, SaveMissStatusType, Zenon DEF SaveMissStatus
  <2>4. CASE fullSyncConfigClientReturns
    BY <2>4, OpenType, Zenon DEF fullSyncConfigClientReturns
  <2> QED BY <1>14, <2>1, <2>2, <2>3, <2>4, Zenon
             DEF syncMissStatus, fullSyncConfigClient, TakeMissStatus
<1>15. CASE syncMissData \/ fillMissDataClient
  <2>1. CASE SendItemsLatest
    BY <2>1, SendItemsLatestType, Zenon DEF SendItemsLatest
  <2>2. ASSUME NEW t \in 1 .. now, SaveMissData(t) PROVE TypeOK'
    BY <2>2, SaveMissDataType, Zenon DEF SaveMissData
  <2>3. CASE MissDataEnds
    BY <2>3, MissDataEndsType, Zenon DEF MissDataEnds
  <2> QED BY <1>15, <2>1, <2>2, <2>3, Zenon DEF syncMissData, fillMissDataClient, TakeMissData
<1>16. CASE applyDataBatch \/ syncDataClient
  <2>1. SavePoint
    BY <1>16, Zenon DEF applyDataBatch, syncDataClient
  <2> QED BY <2>1, SavePointType, Zenon DEF SavePoint
<1>17. CASE applyStatusEvent \/ handleSyncConfigMsg
  <2>1. SaveRow
    BY <1>17, Zenon DEF applyStatusEvent, handleSyncConfigMsg
  <2> QED BY <2>1, SaveRowType, Zenon DEF SaveRow
<1>18. CASE syncDataClientReturns
  BY <1>18, RoundReturnsType, Zenon DEF syncDataClientReturns
<1>19. CASE RunDownstreamReturns
  BY <1>19, DownReturnsType, Zenon DEF RunDownstreamReturns
<1>20. CASE Quiescent \/ UNCHANGED vars
  <2>1. UNCHANGED vars
    BY <1>20, Zenon DEF Quiescent
  <2> QED BY <2>1, Zenon DEF vars
<1> QED BY <1>1, <1>2, <1>3, <1>4, <1>5, <1>6, <1>7, <1>8, <1>9, <1>10, <1>11, <1>12, <1>13,
           <1>14, <1>15, <1>16, <1>17, <1>18, <1>19, <1>20, Zenon
        DEF Next, StreamRelay, RunDownstream

(* The state of both servers, the queues and the frames keep their types.  *)
THEOREM TypeCorrect == Spec => []TypeOK
BY InitType, TypeStep, PTL DEF Spec

-----------------------------------------------------------------------------
(* Sequences *)

LEMMA AppendIndex ==
    ASSUME NEW S, NEW q \in Seq(S), NEW f
    PROVE  /\ Len(q) \in Nat
           /\ \A n \in DOMAIN Append(q, f) :
                \/ n \in DOMAIN q /\ Append(q, f)[n] = q[n]
                \/ n = Len(q) + 1 /\ Append(q, f)[n] = f
           /\ \A n \in DOMAIN q : /\ n \in DOMAIN Append(q, f) /\ Append(q, f)[n] = q[n]
                                  /\ n \in Nat /\ n < Len(q) + 1
           /\ Len(q) + 1 \in DOMAIN Append(q, f) /\ Append(q, f)[Len(q) + 1] = f
<1> DEFINE a == Append(q, f)
           T == S \cup {f}
<1>0. q \in Seq(T) /\ f \in T
  BY SeqMonotonic
<1>1. /\ Len(a) = Len(q) + 1 /\ Len(q) \in Nat
      /\ DOMAIN a = 1 .. Len(a) /\ DOMAIN q = 1 .. Len(q)
      /\ \A n \in 1 .. Len(q) : a[n] = q[n]
      /\ a[Len(q) + 1] = f
  <2> HIDE DEF T
  <2> QED BY <1>0, AppendProperties, LenProperties
<1> HIDE DEF a
<1>2. /\ \A n \in DOMAIN a : \/ n \in DOMAIN q /\ a[n] = q[n]
                             \/ n = Len(q) + 1 /\ a[n] = f
      /\ \A n \in DOMAIN q : n \in DOMAIN a /\ a[n] = q[n] /\ n \in Nat /\ n < Len(q) + 1
      /\ Len(q) + 1 \in DOMAIN a /\ a[Len(q) + 1] = f
  BY <1>1
<1> QED BY <1>1, <1>2 DEF a

LEMMA TailIndex ==
    ASSUME NEW S, NEW q \in Seq(S), q # <<>>
    PROVE  /\ Head(q) \in S /\ Tail(q) \in Seq(S)
           /\ 1 \in DOMAIN q /\ q[1] = Head(q)
           /\ \A n \in DOMAIN q : n \in Nat /\ 1 <= n
           /\ \A n \in DOMAIN q : n = 1 \/ (n - 1 \in DOMAIN Tail(q) /\ Tail(q)[n - 1] = q[n])
           /\ \A n \in DOMAIN Tail(q) : /\ n \in Nat /\ 1 <= n
                                        /\ n + 1 \in DOMAIN q /\ Tail(q)[n] = q[n + 1]
<1> DEFINE a == Tail(q)
<1>1. /\ Len(q) \in Nat \ {0} /\ Len(a) = Len(q) - 1 /\ a \in Seq(S)
      /\ DOMAIN a = 1 .. Len(a) /\ DOMAIN q = 1 .. Len(q)
      /\ \A n \in 1 .. Len(a) : a[n] = q[n + 1]
      /\ Head(q) = q[1] /\ Head(q) \in S
  BY HeadTailProperties, LenProperties, EmptySeq
<1> HIDE DEF a
<1>2. /\ 1 \in DOMAIN q /\ \A n \in DOMAIN q : n \in Nat /\ 1 <= n
      /\ \A n \in DOMAIN q : n = 1 \/ (n - 1 \in DOMAIN a /\ a[n - 1] = q[n])
      /\ \A n \in DOMAIN a : n \in Nat /\ 1 <= n /\ n + 1 \in DOMAIN q /\ a[n] = q[n + 1]
  BY <1>1
<1> QED BY <1>1, <1>2 DEF a

LEMMA ReplacedIndex ==
    ASSUME NEW S, NEW q \in Seq(S), q # <<>>, NEW f
    PROVE  /\ DOMAIN [q EXCEPT ![1] = f] = DOMAIN q /\ 1 \in DOMAIN q /\ q[1] = Head(q)
           /\ [q EXCEPT ![1] = f][1] = f
           /\ \A n \in DOMAIN q : n # 1 => [q EXCEPT ![1] = f][n] = q[n]
           /\ \A n \in DOMAIN q : n \in Nat /\ 1 <= n
BY TailIndex

LEMMA CarriesDef ==
    ASSUME NEW q, NEW ty PROVE Carries(q, ty) <=> \E n \in DOMAIN q : q[n].type = ty
BY DEF Carries

LEMMA ClosesDef ==
    ASSUME NEW q, NEW ty, NEW tys
    PROVE  Closes(q, ty, tys) <=>
           \A m, n \in DOMAIN q : m < n /\ q[m].type = ty => q[n].type \notin tys
BY DEF Closes

LEMMA NoneCarried ==
    \A ty, tys : ~Carries(<<>>, ty) /\ Closes(<<>>, ty, tys)
BY DEF Carries, Closes

LEMMA CarriesAppend ==
    ASSUME NEW S, NEW q \in Seq(S), NEW f, NEW ty
    PROVE  Carries(Append(q, f), ty) <=> Carries(q, ty) \/ f.type = ty
<1>1. ASSUME Carries(Append(q, f), ty) PROVE Carries(q, ty) \/ f.type = ty
  <2>1. PICK n \in DOMAIN Append(q, f) : Append(q, f)[n].type = ty
    BY <1>1, CarriesDef
  <2> QED BY <2>1, AppendIndex DEF Carries
<1>2. ASSUME Carries(q, ty) PROVE Carries(Append(q, f), ty)
  <2>1. PICK n \in DOMAIN q : q[n].type = ty
    BY <1>2, CarriesDef
  <2>2. n \in DOMAIN Append(q, f) /\ Append(q, f)[n] = q[n]
    BY AppendIndex
  <2> QED BY <2>1, <2>2, CarriesDef
<1>3. ASSUME f.type = ty PROVE Carries(Append(q, f), ty)
  <2>1. Len(q) + 1 \in DOMAIN Append(q, f) /\ Append(q, f)[Len(q) + 1] = f
    BY AppendIndex
  <2> QED BY <1>3, <2>1, CarriesDef
<1> QED BY <1>1, <1>2, <1>3

LEMMA ClosesAppend ==
    ASSUME NEW S, NEW q \in Seq(S), NEW f, NEW ty, NEW tys, Closes(q, ty, tys),
           ~Carries(q, ty) \/ f.type \notin tys
    PROVE  Closes(Append(q, f), ty, tys)
<1> DEFINE a == Append(q, f)
<1> SUFFICES ASSUME NEW m \in DOMAIN a, NEW n \in DOMAIN a, m < n, a[m].type = ty
             PROVE  a[n].type \notin tys
  BY DEF Closes
<1>1. /\ (m \in DOMAIN q /\ a[m] = q[m]) \/ (m = Len(q) + 1 /\ a[m] = f)
      /\ (n \in DOMAIN q /\ a[n] = q[n]) \/ (n = Len(q) + 1 /\ a[n] = f)
      /\ Len(q) \in Nat /\ \A k \in DOMAIN q : k \in Nat /\ k < Len(q) + 1
  BY AppendIndex
<1> HIDE DEF a
<1>2. m \in DOMAIN q /\ a[m] = q[m]
  BY <1>1
<1>3. CASE n \in DOMAIN q /\ a[n] = q[n]
  BY <1>2, <1>3, ClosesDef
<1>4. CASE a[n] = f
  BY <1>2, <1>4, CarriesDef
<1> QED BY <1>1, <1>3, <1>4

LEMMA CarriesTail ==
    ASSUME NEW S, NEW q \in Seq(S), q # <<>>, NEW ty
    PROVE  /\ Carries(Tail(q), ty) => Carries(q, ty)
           /\ Carries(q, Head(q).type)
           /\ Carries(q, ty) /\ Head(q).type # ty => Carries(Tail(q), ty)
           /\ \A tys, u : Closes(q, ty, tys) /\ Head(q).type = ty /\ u \in tys
                          => ~Carries(Tail(q), u)
<1>1. Carries(Tail(q), ty) => Carries(q, ty)
  <2> SUFFICES ASSUME NEW n \in DOMAIN Tail(q), Tail(q)[n].type = ty PROVE Carries(q, ty)
    BY CarriesDef
  <2>1. n + 1 \in DOMAIN q /\ Tail(q)[n] = q[n + 1]
    BY TailIndex
  <2> QED BY <2>1, CarriesDef
<1>2. Carries(q, Head(q).type)
  BY TailIndex, CarriesDef
<1>3. ASSUME Carries(q, ty), Head(q).type # ty PROVE Carries(Tail(q), ty)
  <2>1. PICK n \in DOMAIN q : q[n].type = ty
    BY <1>3, CarriesDef
  <2>2. n - 1 \in DOMAIN Tail(q) /\ Tail(q)[n - 1] = q[n]
    BY <1>3, <2>1, TailIndex
  <2> QED BY <2>1, <2>2, CarriesDef
<1>4. ASSUME NEW tys, NEW u, Closes(q, ty, tys), Head(q).type = ty, u \in tys,
             Carries(Tail(q), u)
      PROVE  FALSE
  <2>1. PICK n \in DOMAIN Tail(q) : Tail(q)[n].type = u
    BY <1>4, CarriesDef
  <2>2. n + 1 \in DOMAIN q /\ Tail(q)[n] = q[n + 1] /\ 1 \in DOMAIN q /\ q[1] = Head(q)
    BY TailIndex
  <2>3. 1 < n + 1
    BY TailIndex
  <2> QED BY <1>4, <2>1, <2>2, <2>3, ClosesDef
<1> QED BY <1>1, <1>2, <1>3, <1>4

LEMMA ClosesTail ==
    ASSUME NEW S, NEW q \in Seq(S), q # <<>>, NEW ty, NEW tys, Closes(q, ty, tys)
    PROVE  Closes(Tail(q), ty, tys)
<1> SUFFICES ASSUME NEW m \in DOMAIN Tail(q), NEW n \in DOMAIN Tail(q), m < n,
                    Tail(q)[m].type = ty
             PROVE  Tail(q)[n].type \notin tys
  BY DEF Closes
<1>1. /\ m + 1 \in DOMAIN q /\ Tail(q)[m] = q[m + 1]
      /\ n + 1 \in DOMAIN q /\ Tail(q)[n] = q[n + 1]
      /\ m \in Nat /\ n \in Nat
  BY TailIndex
<1>2. m + 1 < n + 1
  BY <1>1
<1> QED BY <1>1, <1>2, ClosesDef

LEMMA CarriesReplaced ==
    ASSUME NEW S, NEW q \in Seq(S), q # <<>>, NEW f, f.type = Head(q).type, NEW ty, NEW tys
    PROVE  /\ Carries([q EXCEPT ![1] = f], ty) <=> Carries(q, ty)
           /\ Closes([q EXCEPT ![1] = f], ty, tys) <=> Closes(q, ty, tys)
<1> DEFINE a == [q EXCEPT ![1] = f]
<1>1. DOMAIN a = DOMAIN q /\ \A n \in DOMAIN q : a[n].type = q[n].type
  BY ReplacedIndex
<1> HIDE DEF a
<1>2. Carries(a, ty) <=> Carries(q, ty)
  BY <1>1, Zenon DEF Carries
<1>3. Closes(a, ty, tys) <=> Closes(q, ty, tys)
  BY <1>1, Zenon DEF Closes
<1> QED BY <1>2, <1>3 DEF a

-----------------------------------------------------------------------------
(* The frames in flight *)

LEMMA SameStream == ASSUME UNCHANGED version PROVE \A ty : Stream(ty)' = Stream(ty)
BY Zenon DEF Stream

LEMMA StreamSeq == ASSUME TypeOK PROVE \A ty : u2d[Stream(ty)] \in Seq(Frame)
BY StreamIs DEF TypeOK

LEMMA ArrivesAt ==
    ASSUME TypeOK, NEW m, NEW ty
    PROVE  Arrives(m)[Stream(ty)] =
           IF broken \/ Stream(ty) # Stream(m.type) THEN u2d[Stream(ty)]
           ELSE Append(u2d[Stream(ty)], m)
<1>1. u2d \in [1 .. 4 -> Seq(Frame)] /\ Stream(ty) \in 1 .. 4 /\ Stream(m.type) \in 1 .. 4
  BY StreamIs DEF TypeOK
<1> QED BY <1>1 DEF Arrives

LEMMA TakenAt ==
    ASSUME TypeOK, NEW ty, NEW u
    PROVE  Taken(ty)[Stream(u)] =
           IF Stream(u) = Stream(ty) THEN Tail(u2d[Stream(u)]) ELSE u2d[Stream(u)]
<1>1. u2d \in [1 .. 4 -> Seq(Frame)] /\ Stream(ty) \in 1 .. 4 /\ Stream(u) \in 1 .. 4
  BY StreamIs DEF TypeOK
<1> QED BY <1>1 DEF Taken

LEMMA ReplacedAt ==
    ASSUME TypeOK, NEW ty, NEW m, NEW u
    PROVE  [u2d EXCEPT ![Stream(ty)][1] = m][Stream(u)] =
           IF Stream(u) = Stream(ty) THEN [u2d[Stream(u)] EXCEPT ![1] = m]
           ELSE u2d[Stream(u)]
<1>1. u2d \in [1 .. 4 -> Seq(Frame)] /\ Stream(ty) \in 1 .. 4 /\ Stream(u) \in 1 .. 4
  BY StreamIs DEF TypeOK
<1> QED BY <1>1

LEMMA FlightKept ==
    ASSUME UNCHANGED <<version, u2d>>
    PROVE  /\ \A ty : InFlight(ty)' <=> InFlight(ty)
           /\ \A ty, tys : Ends(ty, tys)' <=> Ends(ty, tys)
<1>1. \A ty : u2d'[Stream(ty)'] = u2d[Stream(ty)]
  BY SameStream
<1> QED BY <1>1, Zenon DEF InFlight, Ends

LEMMA FlightArrives ==
    ASSUME TypeOK, UNCHANGED version, NEW m, u2d' = Arrives(m)
    PROVE  /\ \A ty : InFlight(ty)' <=> InFlight(ty) \/ (~broken /\ m.type = ty)
           /\ \A ty, tys : Ends(ty, tys) /\ (~InFlight(ty) \/ m.type \notin tys \/ broken)
                           => Ends(ty, tys)'
<1>1. ASSUME NEW ty PROVE InFlight(ty)' <=> InFlight(ty) \/ (~broken /\ m.type = ty)
  <2> DEFINE q == u2d[Stream(ty)]
  <2>1. /\ InFlight(ty) <=> Carries(q, ty)
        /\ InFlight(ty)' <=> Carries(Arrives(m)[Stream(ty)], ty)
    BY SameStream, Zenon DEF InFlight
  <2>2. Carries(Append(q, m), ty) <=> Carries(q, ty) \/ m.type = ty
    BY StreamSeq, CarriesAppend
  <2>3. CASE broken \/ Stream(ty) # Stream(m.type)
    <3>1. Arrives(m)[Stream(ty)] = q
      BY <2>3, ArrivesAt
    <3> QED BY <2>1, <2>3, <3>1, Zenon
  <2>4. CASE ~broken /\ Stream(ty) = Stream(m.type)
    <3>1. Arrives(m)[Stream(ty)] = Append(q, m)
      BY <2>4, ArrivesAt
    <3> QED BY <2>1, <2>2, <2>4, <3>1, Zenon
  <2> QED BY <2>3, <2>4, Zenon
<1>2. ASSUME NEW ty, NEW tys, Ends(ty, tys), ~InFlight(ty) \/ m.type \notin tys \/ broken
      PROVE  Ends(ty, tys)'
  <2> DEFINE q == u2d[Stream(ty)]
  <2>1. /\ Closes(q, ty, tys) /\ (InFlight(ty) <=> Carries(q, ty))
        /\ Ends(ty, tys)' <=> Closes(Arrives(m)[Stream(ty)], ty, tys)
    BY <1>2, SameStream, Zenon DEF Ends, InFlight
  <2>3. CASE broken \/ Stream(ty) # Stream(m.type)
    <3>1. Arrives(m)[Stream(ty)] = q
      BY <2>3, ArrivesAt
    <3> QED BY <2>1, <3>1, Zenon
  <2>4. CASE ~broken /\ Stream(ty) = Stream(m.type)
    <3>1. Arrives(m)[Stream(ty)] = Append(q, m)
      BY <2>4, ArrivesAt
    <3>2. Closes(Append(q, m), ty, tys)
      BY <1>2, <2>1, <2>4, StreamSeq, ClosesAppend
    <3> QED BY <2>1, <3>1, <3>2, Zenon
  <2> QED BY <2>3, <2>4, Zenon
<1> QED BY <1>1, <1>2

LEMMA FlightTaken ==
    ASSUME TypeOK, UNCHANGED version, NEW ty, Receives(ty), u2d' = Taken(ty)
    PROVE  /\ InFlight(ty)
           /\ \A u : InFlight(u)' => InFlight(u)
           /\ \A u : u # ty /\ InFlight(u) => InFlight(u)'
           /\ \A u, tys : Ends(u, tys) => Ends(u, tys)'
           /\ \A u, tys : Ends(ty, tys) /\ u \in tys /\ Stream(u) = Stream(ty) => ~InFlight(u)'
<1> DEFINE q(u) == u2d[Stream(u)]
<1>0. q(ty) # <<>> /\ Head(q(ty)).type = ty
  BY DEF Receives
<1>1. \A u : /\ InFlight(u) <=> Carries(q(u), u)
             /\ InFlight(u)' <=> Carries(Taken(ty)[Stream(u)], u)
             /\ \A tys : Ends(u, tys) <=> Closes(q(u), u, tys)
             /\ \A tys : Ends(u, tys)' <=> Closes(Taken(ty)[Stream(u)], u, tys)
  BY SameStream, Zenon DEF Ends, InFlight
<1>2. ASSUME NEW u, NEW tys
      PROVE  /\ Stream(u) # Stream(ty) => Taken(ty)[Stream(u)] = q(u)
             /\ Stream(u) = Stream(ty) =>
                   /\ Taken(ty)[Stream(u)] = Tail(q(u)) /\ q(u) # <<>>
                   /\ Head(q(u)).type = ty /\ q(u) = q(ty)
                   /\ Carries(Tail(q(u)), u) => Carries(q(u), u)
                   /\ Carries(q(u), u) /\ u # ty => Carries(Tail(q(u)), u)
                   /\ Closes(q(u), u, tys) => Closes(Tail(q(u)), u, tys)
                   /\ Closes(q(u), ty, tys) /\ u \in tys => ~Carries(Tail(q(u)), u)
  <2>1. CASE Stream(u) # Stream(ty)
    BY <2>1, TakenAt
  <2>2. CASE Stream(u) = Stream(ty)
    <3>1. q(u) \in Seq(Frame) /\ q(u) # <<>> /\ Head(q(u)).type = ty
      BY <1>0, <2>2, StreamSeq
    <3>2. Taken(ty)[Stream(u)] = Tail(q(u))
      BY <2>2, TakenAt
    <3> HIDE DEF q
    <3>3. Carries(Tail(q(u)), u) => Carries(q(u), u)
      BY <3>1, CarriesTail
    <3>4. Carries(q(u), u) /\ u # ty => Carries(Tail(q(u)), u)
      BY <3>1, CarriesTail
    <3>5. Closes(q(u), u, tys) => Closes(Tail(q(u)), u, tys)
      BY <3>1, ClosesTail
    <3>6. Closes(q(u), ty, tys) /\ u \in tys => ~Carries(Tail(q(u)), u)
      BY <3>1, CarriesTail
    <3>7. q(u) = q(ty)
      BY <2>2 DEF q
    <3> QED BY <2>2, <3>1, <3>2, <3>3, <3>4, <3>5, <3>6, <3>7, Zenon
  <2> QED BY <2>1, <2>2, Zenon
<1>3. InFlight(ty)
  BY <1>0, <1>1, StreamSeq, CarriesTail
<1> HIDE DEF q
<1>4. \A u : InFlight(u)' => InFlight(u)
  BY <1>1, <1>2, Zenon
<1>5. \A u : u # ty /\ InFlight(u) => InFlight(u)'
  BY <1>1, <1>2, Zenon
<1>6. ASSUME NEW u, NEW tys, Ends(u, tys) PROVE Ends(u, tys)'
  <2>1. Closes(q(u), u, tys)
    BY <1>1, <1>6, Zenon
  <2>2. Closes(Taken(ty)[Stream(u)], u, tys)
    <3>1. CASE Stream(u) # Stream(ty)
      BY <1>2, <2>1, <3>1, Zenon
    <3>2. CASE Stream(u) = Stream(ty)
      <4>1. Taken(ty)[Stream(u)] = Tail(q(u)) /\ (Closes(q(u), u, tys) => Closes(Tail(q(u)), u, tys))
        BY <1>2, <3>2, Zenon
      <4> QED BY <2>1, <4>1, Zenon
    <3> QED BY <3>1, <3>2
  <2> QED BY <1>1, <2>2, Zenon
<1>7. ASSUME NEW u, NEW tys, Ends(ty, tys), u \in tys, Stream(u) = Stream(ty)
      PROVE  ~InFlight(u)'
  <2>1. Closes(q(ty), ty, tys)
    BY <1>1, <1>7, Zenon
  <2>2. /\ Taken(ty)[Stream(u)] = Tail(q(u)) /\ q(u) = q(ty)
        /\ Closes(q(u), ty, tys) /\ u \in tys => ~Carries(Tail(q(u)), u)
    BY <1>2, <1>7, Zenon
  <2> QED BY <1>1, <1>7, <2>1, <2>2, Zenon
<1> QED BY <1>3, <1>4, <1>5, <1>6, <1>7

LEMMA FlightReplaced ==
    ASSUME TypeOK, UNCHANGED version, NEW ty, Receives(ty), NEW m, m.type = ty,
           u2d' = [u2d EXCEPT ![Stream(ty)][1] = m]
    PROVE  /\ InFlight(ty)
           /\ \A u : InFlight(u)' <=> InFlight(u)
           /\ \A u, tys : Ends(u, tys)' <=> Ends(u, tys)
<1> DEFINE q(u) == u2d[Stream(u)]
           a(u) == [u2d EXCEPT ![Stream(ty)][1] = m][Stream(u)]
<1>0. q(ty) # <<>> /\ Head(q(ty)).type = ty
  BY DEF Receives
<1>1. \A u : /\ InFlight(u) <=> Carries(q(u), u)
             /\ InFlight(u)' <=> Carries(a(u), u)
             /\ \A tys : Ends(u, tys) <=> Closes(q(u), u, tys)
             /\ \A tys : Ends(u, tys)' <=> Closes(a(u), u, tys)
  BY SameStream, Zenon DEF Ends, InFlight
<1>2. ASSUME NEW u, NEW tys
      PROVE  /\ Carries(a(u), u) <=> Carries(q(u), u)
             /\ Closes(a(u), u, tys) <=> Closes(q(u), u, tys)
  <2>1. CASE Stream(u) # Stream(ty)
    BY <2>1, ReplacedAt
  <2>2. CASE Stream(u) = Stream(ty)
    <3>1. q(u) \in Seq(Frame) /\ q(u) # <<>> /\ m.type = Head(q(u)).type
      BY <1>0, <2>2, StreamSeq
    <3>2. a(u) = [q(u) EXCEPT ![1] = m]
      BY <2>2, ReplacedAt
    <3> HIDE DEF q, a
    <3>3. /\ Carries([q(u) EXCEPT ![1] = m], u) <=> Carries(q(u), u)
          /\ Closes([q(u) EXCEPT ![1] = m], u, tys) <=> Closes(q(u), u, tys)
      BY <3>1, CarriesReplaced
    <3> QED BY <3>2, <3>3, Zenon
  <2> QED BY <2>1, <2>2, Zenon
<1>3. InFlight(ty)
  BY <1>0, <1>1, StreamSeq, CarriesTail
<1> HIDE DEF q, a
<1>4. ASSUME NEW u PROVE InFlight(u)' <=> InFlight(u)
  <2>1. Carries(a(u), u) <=> Carries(q(u), u)
    BY <1>2
  <2> QED BY <1>1, <2>1, Zenon
<1>5. ASSUME NEW u, NEW tys PROVE Ends(u, tys)' <=> Ends(u, tys)
  <2>1. Closes(a(u), u, tys) <=> Closes(q(u), u, tys)
    BY <1>2
  <2> QED BY <1>1, <2>1, Zenon
<1> QED BY <1>3, <1>4, <1>5

LEMMA FlightNone ==
    ASSUME UNCHANGED version, u2d' = NoFrames
    PROVE  \A ty : ~InFlight(ty)' /\ \A tys : Ends(ty, tys)'
<1>1. \A ty : u2d'[Stream(ty)'] = <<>>
  BY SameStream, StreamIs DEF NoFrames
<1> QED BY <1>1, NoneCarried, Zenon DEF InFlight, Ends

-----------------------------------------------------------------------------
(* The phases of the two ends *)

LEMMA EmptyStep == ASSUME TypeOK, EmptyInv, [Next]_vars PROVE EmptyInv'
<1> USE DEF EmptyInv
<1>0. QueuesOK
  BY TypeParts
<1>1. CASE UNCHANGED <<subscribed, sub>>
  BY <1>1, Zenon
<1>2. ASSUME NEW m, Publish(m) PROVE EmptyInv'
  <2>1. CASE UNCHANGED <<subscribed, sub>>
    BY <2>1, Zenon
  <2>2. CASE /\ subscribed[QueueOf(m)] /\ subscribed' = subscribed
             /\ sub' = [sub EXCEPT ![QueueOf(m)] = Append(@, m)]
    <3>1. \A q \in Queues : q # QueueOf(m) => sub'[q] = sub[q]
      BY <1>0, <2>2, QueueTypes
    <3> QED BY <2>2, <3>1, Zenon
  <2> QED BY <1>2, <2>1, <2>2, Zenon DEF Publish, queues
<1>3. ASSUME NEW p, NEW qs, Subscribe(p, qs) PROVE EmptyInv'
  <2>1. CASE SubscribesAt(p)
    <3>1. \A q \in Queues : /\ subscribed'[q] <=> q \in qs \/ subscribed[q]
                            /\ sub'[q] = IF q \in qs THEN <<>> ELSE sub[q]
      BY <1>3, <2>1, Zenon DEF Subscribe
    <3> QED BY <3>1, Zenon
  <2> QED BY <1>1, <1>3, <2>1, Zenon DEF Subscribe, queues
<1>4. CASE subscribed' = None /\ sub' = Empty
  BY <1>4, Zenon DEF Empty
<1>5. CASE syncDataServerReturns
  <2>1. /\ subscribed' = [subscribed EXCEPT !["data"] = FALSE]
        /\ sub' = [sub EXCEPT !["data"] = <<>>]
    BY <1>5 DEF syncDataServerReturns
  <2>2. /\ sub'["data"] = <<>>
        /\ \A q \in Queues : q # "data" => sub'[q] = sub[q] /\ (subscribed'[q] <=> subscribed[q])
    BY <1>0, <2>1, QueueTypes, Zenon DEF QueuesOK, Queues
  <2> QED BY <2>2, Zenon
<1>6. ASSUME NEW q \in Queues, forwardIncremental(q) PROVE EmptyInv'
  <2>1. sub[q] # <<>> /\ sub' = [sub EXCEPT ![q] = Tail(@)] /\ subscribed' = subscribed
    BY <1>6, Zenon DEF forwardIncremental
  <2>2. \A p \in Queues : p # q => sub'[p] = sub[p]
    BY <1>0, <2>1, QueueTypes
  <2> QED BY <2>1, <2>2, Zenon
<1>7. CASE StationFeeds \/ PublishSaved \/ PublishDelayed
  BY <1>1, <1>2, <1>7, Zenon
     DEF StationFeeds, StorePoint, StoreRow, PublishSaved, PublishDelayed, queues
<1>8. CASE StreamRelay
  BY <1>1, <1>3, <1>5, <1>8, Zenon
     DEF StreamRelay, RecvDownstreamHello, handleMissStatusSync, handleMissDataSync,
         handleSyncServerConn, fullSyncConfigServer, syncDataServer, fillMissDataServer,
         Serve, SendMissStatus, SendMissData, RecvItemsLatest, SendHistory, SendHistoryEnd,
         queues
<1>9. CASE UpdatePermissions \/ Break \/ RunDownstreamReturns \/ syncDataClientReturns
  BY <1>1, <1>9, Zenon
     DEF UpdatePermissions, Break, RunDownstreamReturns, syncDataClientReturns, queues
<1>10. CASE StreamRelayReturns \/ UpstreamRestart \/ openDownstreamStream
  BY <1>4, <1>10, Zenon DEF StreamRelayReturns, UpstreamRestart, openDownstreamStream
<1>11. CASE RunDownstream
  BY <1>1, <1>11, Zenon
     DEF RunDownstream, syncMissStatus, syncMissData, applyDataBatch, fullSyncConfigClient,
         fillMissDataClient, syncDataClient, RecvFullConfig, TakeMissStatus, ShowMissStatus,
         SaveMissStatus, fullSyncConfigClientReturns, TakeMissData, SendItemsLatest,
         SaveMissData, MissDataEnds, SavePoint, queues
<1>12. CASE applyStatusEvent \/ handleSyncConfigMsg
  BY <1>1, <1>12, Zenon DEF applyStatusEvent, handleSyncConfigMsg, SaveRow, queues
<1>13. CASE Quiescent \/ UNCHANGED vars
  BY <1>1, <1>13, Zenon DEF Quiescent, vars, queues
<1> QED BY <1>6, <1>7, <1>8, <1>9, <1>10, <1>11, <1>12, <1>13, Zenon DEF Next

LEMMA DirectInit == Init => DirectInv
<1> SUFFICES ASSUME Init PROVE DirectInv
  OBVIOUS
<1>1. \A i \in Items : uStored[i] = {}
  BY DEF Init
<1>2. delayed = <<>> /\ DOMAIN unpublished = {}
  BY DEF Init
<1> QED BY <1>1, <1>2, Zenon DEF DirectInv

LEMMA DirectStep == ASSUME TypeOK, DirectInv, [Next]_vars PROVE DirectInv'
<1> USE DEF DirectInv
<1>1. CASE UNCHANGED <<uStored, now, unpublished, delayed>>
  BY <1>1, Zenon
<1>2. ASSUME NEW i \in Items, NEW replay \in BOOLEAN, StorePoint(i, replay) PROVE DirectInv'
  <2> DEFINE m == [type |-> "data", item |-> i, ts |-> now + 1, replay |-> replay]
  <2>1. /\ now' = now + 1 /\ uStored' = [uStored EXCEPT ![i] = @ \cup {now + 1}]
        /\ unpublished' = <<m>> /\ delayed' = delayed
        /\ replay => ReplayMayOvertake \/ \A n \in DOMAIN delayed : delayed[n].item # i
    BY <1>2, Zenon DEF StorePoint
  <2>2. \A j \in Items : uStored'[j] \subseteq 1 .. now'
    <3>1. now \in Nat /\ uStored \in [Items -> SUBSET Nat]
      BY Zenon DEF TypeOK
    <3> QED BY <2>1, <3>1
  <2>3. ~ReplayMayOvertake /\ (m.replay \/ ~DataDelay) =>
        \A n \in DOMAIN delayed : delayed[n].item # m.item
    <3>1. DOMAIN <<>> = {}
      OBVIOUS
    <3> QED BY <2>1, <3>1
  <2>4. \A n \in DOMAIN unpublished' : unpublished'[n] = m
    <3> HIDE DEF m
    <3> QED BY <2>1
  <2> HIDE DEF m
  <2>5. ~ReplayMayOvertake => \A n \in DOMAIN unpublished' :
          unpublished'[n].type = "data" /\ (unpublished'[n].replay \/ ~DataDelay)
          => \A k \in DOMAIN delayed' : delayed'[k].item # unpublished'[n].item
    BY <2>1, <2>3, <2>4, Zenon
  <2> QED BY <2>1, <2>2, <2>5, Zenon
<1>3. ASSUME NEW i \in Items, StoreRow(i) PROVE DirectInv'
  <2> DEFINE m == [type |-> "status", row |-> Len(uLog) + 1]
  <2>1. UNCHANGED <<uStored, now, delayed>> /\ unpublished' = <<m>>
    BY <1>3, Zenon DEF StoreRow
  <2>2. m.type # "data"
    OBVIOUS
  <2>3. \A n \in DOMAIN unpublished' : unpublished'[n] = m
    <3> HIDE DEF m
    <3> QED BY <2>1
  <2> HIDE DEF m
  <2> QED BY <2>1, <2>2, <2>3, Zenon
<1>4. ASSUME UNCHANGED <<uStored, now>>, DOMAIN unpublished' = {},
             ~DataDelay => delayed' = <<>>
      PROVE  DirectInv'
  BY <1>4, Zenon
<1>5. CASE PublishSaved
  <2>1. DOMAIN unpublished' = {}
    BY <1>5 DEF PublishSaved
  <2>2. ~DataDelay => delayed' = <<>>
    BY <1>5, Zenon DEF PublishSaved
  <2> QED BY <1>4, <1>5, <2>1, <2>2, Zenon DEF PublishSaved, upstreamDB
<1>6. CASE PublishDelayed
  <2>1. delayed # <<>> /\ delayed' = Tail(delayed) /\ UNCHANGED <<uStored, now, unpublished>>
    BY <1>6, Zenon DEF PublishDelayed, upstreamDB
  <2>2. ASSUME NEW k \in DOMAIN delayed'
        PROVE  k + 1 \in DOMAIN delayed /\ delayed'[k] = delayed[k + 1]
    <3>1. delayed \in Seq(Point)
      BY Zenon DEF TypeOK
    <3> QED BY <2>1, <3>1, TailIndex
  <2>3. DataDelay
    BY <2>1
  <2>4. ASSUME ~ReplayMayOvertake, NEW m \in DOMAIN unpublished',
               unpublished'[m].type = "data" /\ (unpublished'[m].replay \/ ~DataDelay),
               NEW k \in DOMAIN delayed'
        PROVE  delayed'[k].item # unpublished'[m].item
    BY <2>1, <2>2, <2>4, Zenon
  <2> QED BY <2>1, <2>3, <2>4, Zenon
<1>7. CASE UpstreamRestart
  <2>1. DOMAIN unpublished' = {} /\ delayed' = <<>>
    BY <1>7 DEF UpstreamRestart
  <2> QED BY <1>4, <1>7, <2>1, Zenon DEF UpstreamRestart, upstreamDB
<1>8. CASE StreamRelay
  BY <1>1, <1>8, Zenon
     DEF StreamRelay, RecvDownstreamHello, handleMissStatusSync, handleMissDataSync,
         handleSyncServerConn, fullSyncConfigServer, syncDataServer, fillMissDataServer,
         Serve, SendMissStatus, SendMissData, RecvItemsLatest, SendHistory, SendHistoryEnd,
         syncDataServerReturns, upstreamDB, feed
<1>9. CASE \/ UpdatePermissions \/ Break \/ RunDownstreamReturns \/ syncDataClientReturns
           \/ StreamRelayReturns \/ openDownstreamStream \/ Quiescent \/ UNCHANGED vars
           \/ \E q \in Queues : forwardIncremental(q)
  BY <1>1, <1>9, Zenon
     DEF UpdatePermissions, Break, RunDownstreamReturns, syncDataClientReturns,
         StreamRelayReturns, openDownstreamStream, Quiescent, vars, forwardIncremental,
         upstreamDB, feed
<1>10. CASE RunDownstream \/ applyStatusEvent \/ handleSyncConfigMsg
  BY <1>1, <1>10, Zenon
     DEF RunDownstream, syncMissStatus, syncMissData, applyDataBatch, fullSyncConfigClient,
         fillMissDataClient, syncDataClient, RecvFullConfig, TakeMissStatus, ShowMissStatus,
         SaveMissStatus, fullSyncConfigClientReturns, TakeMissData, SendItemsLatest,
         SaveMissData, MissDataEnds, SavePoint, applyStatusEvent, handleSyncConfigMsg, SaveRow,
         upstreamDB, feed
<1> QED BY <1>2, <1>3, <1>5, <1>6, <1>7, <1>8, <1>9, <1>10, Zenon DEF Next, StationFeeds

LEMMA SameEnd == Stream("missData") = Stream("end")
BY Zenon DEF Stream

LEMMA PhaseKept ==
    ASSUME TypeOK, Phase,
           UNCHANGED <<version, upc, dpc, d2u, u2d, broken, subscribed, asked, missItems,
                       dLog, dStored>>
    PROVE  Phase'
<1>0. /\ \A ty : InFlight(ty)' <=> InFlight(ty)
      /\ \A ty, tys : Ends(ty, tys)' <=> Ends(ty, tys)
      /\ Stream("missData")' = Stream("missData")
  BY FlightKept, SameStream
<1>1. FlightInv'
  BY <1>0, Zenon DEF Phase, FlightInv
<1>2. StageInv'
  BY <1>0, Zenon DEF Phase, StageInv
<1>3. LatestInv'
  BY <1>0, Zenon DEF Phase, LatestInv, IsLatest, NoneOf
<1> QED BY <1>1, <1>2, <1>3, Zenon DEF Phase

LEMMA PhaseBroken ==
    ASSUME TypeOK, Phase, UNCHANGED <<version, dpc, d2u, u2d>>, broken' = TRUE,
           upc' \in {upc, "gone"}
    PROVE  Phase'
<1>0. /\ \A ty : InFlight(ty)' <=> InFlight(ty)
      /\ \A ty, tys : Ends(ty, tys)' <=> Ends(ty, tys)
  BY FlightKept
<1>1. FlightInv'
  BY <1>0 DEF Phase, FlightInv
<1>2. StageInv' /\ LatestInv'
  BY Zenon DEF StageInv, LatestInv
<1> QED BY <1>1, <1>2, Zenon DEF Phase

(* A frame of another type than those the phases are about. *)
LEMMA FlightOther ==
    ASSUME TypeOK, UNCHANGED version, NEW m, u2d' = Arrives(m),
           m.type \notin {"missStatus", "missData", "end", "permissions"}
    PROVE  /\ \A ty \in {"missStatus", "missData", "end", "permissions"} :
                 InFlight(ty)' <=> InFlight(ty)
           /\ Ends("end", {"missData", "end"}) => Ends("end", {"missData", "end"})'
           /\ Ends("missStatus", {"missStatus"}) => Ends("missStatus", {"missStatus"})'
           /\ Ends("permissions", {"permissions"}) => Ends("permissions", {"permissions"})'
<1>1. \A ty \in {"missStatus", "missData", "end", "permissions"} : m.type # ty
  OBVIOUS
<1>2. /\ m.type \notin {"missData", "end"} /\ m.type \notin {"missStatus"}
      /\ m.type \notin {"permissions"}
  OBVIOUS
<1> QED BY <1>1, <1>2, FlightArrives, Zenon

LEMMA PhaseServe ==
    ASSUME TypeOK, Phase, NEW qs \in SUBSET Queues, Serve(qs), version = 1 => "data" \notin qs
    PROVE  Phase'
<1> DEFINE m == [type |-> "config"]
<1>1. /\ upc = "hello" /\ upc' = "status" /\ d2u' = NoRequest /\ u2d' = Arrives(m)
      /\ UNCHANGED <<version, broken, dpc>> /\ Subscribe("status", qs)
  BY Zenon DEF Serve
<1>2. NoRequest.type = "none" /\ m.type = "config"
  BY DEF NoRequest
<1> HIDE DEF m
<1>3. /\ \A ty \in {"missStatus", "missData", "end", "permissions"} :
            InFlight(ty)' <=> InFlight(ty)
      /\ Ends("end", {"missData", "end"}) => Ends("end", {"missData", "end"})'
      /\ Ends("missStatus", {"missStatus"}) => Ends("missStatus", {"missStatus"})'
      /\ Ends("permissions", {"permissions"}) => Ends("permissions", {"permissions"})'
  BY <1>1, <1>2, FlightOther
<1>4. version = 1 => (subscribed'["data"] <=> subscribed["data"])
  <2>1. "data" \in Queues
    BY DEF Queues
  <2> QED BY <1>1, <2>1, Zenon DEF Subscribe, queues
<1>b. broken => u2d' = u2d
  BY <1>1 DEF Arrives
<1>5. FlightInv'
  BY <1>1, <1>2, <1>3, <1>b DEF Phase, FlightInv
<1>6. StageInv'
  <2> SUFFICES ASSUME ~broken PROVE StageInv'
    BY <1>1 DEF StageInv
  <2>1. /\ dpc = "boot" /\ ~InFlight("missStatus")
        /\ ~InFlight("permissions") /\ ~(version = 1 /\ subscribed["data"])
    BY <1>1 DEF Phase, FlightInv, StageInv, Stages
  <2> QED BY <1>1, <1>2, <1>3, <1>4, <2>1 DEF StageInv, Stages
<1>7. LatestInv'
  BY <1>1, <1>2 DEF LatestInv
<1> QED BY <1>5, <1>6, <1>7, Zenon DEF Phase

LEMMA PhaseMissStatus ==
    ASSUME TypeOK, Phase, NEW next \in {"data", "accept"}, SendMissStatus(next),
           next = "accept" <=> version = 1
    PROVE  Phase'
<1> DEFINE m == MissStatus({r \in DOMAIN uLog : r > d2u.row}, {})
<1>1. /\ upc = "status" /\ upc' = next /\ d2u.type = "statusLatest" /\ d2u' = NoRequest
      /\ u2d' = Arrives(m) /\ UNCHANGED <<version, broken, dpc, subscribed>>
  BY Zenon DEF SendMissStatus, queues
<1>2. NoRequest.type = "none" /\ m.type = "missStatus"
  BY DEF NoRequest, MissStatus
<1> HIDE DEF m
<1>v. version \in {1, 2}
  BY RelayAssumption DEF TypeOK
<1>3. ~broken => dpc = "status" /\ ~InFlight("missStatus") /\ ~InFlight("permissions")
                 /\ ~InFlight("end") /\ ~InFlight("missData")
  BY <1>1 DEF Phase, FlightInv, StageInv, LatestInv
<1>4. /\ \A ty \in {"missData", "end", "permissions"} : InFlight(ty)' <=> InFlight(ty)
      /\ broken => (InFlight("missStatus")' <=> InFlight("missStatus"))
      /\ Ends("end", {"missData", "end"}) => Ends("end", {"missData", "end"})'
      /\ Ends("missStatus", {"missStatus"}) => Ends("missStatus", {"missStatus"})'
      /\ Ends("permissions", {"permissions"}) => Ends("permissions", {"permissions"})'
  <2>1. \A ty \in {"missData", "end", "permissions"} : ty # "missStatus"
    OBVIOUS
  <2>2. "missStatus" \notin {"missData", "end"} /\ "missStatus" \notin {"permissions"}
    OBVIOUS
  <2> QED BY <1>1, <1>2, <1>3, <2>1, <2>2, FlightArrives, Zenon
<1>b. broken => u2d' = u2d
  BY <1>1 DEF Arrives
<1>5. FlightInv'
  BY <1>1, <1>2, <1>3, <1>4, <1>b, <1>v DEF Phase, FlightInv
<1>6. StageInv'
  <2> SUFFICES ASSUME ~broken PROVE StageInv'
    BY <1>1 DEF StageInv
  <2> QED BY <1>1, <1>2, <1>3, <1>4, <1>v DEF Phase, StageInv, Stages
<1>7. LatestInv'
  BY <1>1, <1>2 DEF LatestInv
<1> QED BY <1>5, <1>6, <1>7, Zenon DEF Phase

LEMMA PhaseRound == ASSUME TypeOK, Phase, syncDataServer PROVE Phase'
<1> DEFINE m == [type |-> "permissions"]
<1>1. /\ upc = "accept" /\ upc' = "data" /\ d2u.type = "open" /\ d2u' = NoRequest
      /\ u2d' = Arrives(m) /\ UNCHANGED <<version, broken, dpc>>
  BY Zenon DEF syncDataServer
<1>2. NoRequest.type = "none" /\ m.type = "permissions"
  BY DEF NoRequest
<1> HIDE DEF m
<1>3. ~broken => dpc = "open" /\ ~InFlight("permissions") /\ ~InFlight("end")
                 /\ ~InFlight("missData") /\ ~InFlight("missStatus")
  BY <1>1 DEF Phase, FlightInv, StageInv
<1>4. /\ \A ty \in {"missData", "end", "missStatus"} : InFlight(ty)' <=> InFlight(ty)
      /\ Ends("end", {"missData", "end"}) => Ends("end", {"missData", "end"})'
      /\ Ends("missStatus", {"missStatus"}) => Ends("missStatus", {"missStatus"})'
      /\ Ends("permissions", {"permissions"}) => Ends("permissions", {"permissions"})'
  <2>1. \A ty \in {"missData", "end", "missStatus"} : ty # "permissions"
    OBVIOUS
  <2>2. "permissions" \notin {"missData", "end"} /\ "permissions" \notin {"missStatus"}
    OBVIOUS
  <2> QED BY <1>1, <1>2, <1>3, <2>1, <2>2, FlightArrives, Zenon
<1>v. version = 1
  BY <1>1, RelayAssumption DEF Phase, FlightInv, TypeOK
<1>b. broken => u2d' = u2d
  BY <1>1 DEF Arrives
<1>5. FlightInv'
  BY <1>1, <1>2, <1>3, <1>4, <1>b, <1>v DEF Phase, FlightInv
<1>6. StageInv'
  <2> SUFFICES ASSUME ~broken PROVE StageInv'
    BY <1>1 DEF StageInv
  <2> QED BY <1>1, <1>2, <1>3, <1>4 DEF StageInv, Stages
<1>7. LatestInv'
  BY <1>1, <1>2 DEF LatestInv
<1> QED BY <1>5, <1>6, <1>7, Zenon DEF Phase

LEMMA PhaseRoundEnds == ASSUME TypeOK, Phase, syncDataServerReturns PROVE Phase'
<1>1. /\ upc = "run" /\ upc' = "accept" /\ d2u.type = "open"
      /\ UNCHANGED <<version, broken, dpc, d2u, u2d>>
      /\ subscribed' = [subscribed EXCEPT !["data"] = FALSE]
  BY DEF syncDataServerReturns, network
<1>2. ~subscribed'["data"]
  BY <1>1, Zenon DEF TypeOK, Queues
<1>3. /\ \A ty : InFlight(ty)' <=> InFlight(ty)
      /\ \A ty, tys : Ends(ty, tys)' <=> Ends(ty, tys)
  BY <1>1, FlightKept
<1>v. version = 1
  BY <1>1, RelayAssumption DEF Phase, FlightInv, TypeOK
<1>5. FlightInv'
  BY <1>1, <1>3, <1>v DEF Phase, FlightInv
<1>6. StageInv'
  <2> SUFFICES ASSUME ~broken PROVE StageInv'
    BY <1>1 DEF StageInv
  <2>1. dpc = "open" /\ ~InFlight("permissions")
    BY <1>1 DEF Phase, StageInv
  <2> QED BY <1>1, <1>2, <1>3, <2>1 DEF StageInv, Stages
<1>7. LatestInv'
  BY <1>1 DEF LatestInv
<1> QED BY <1>5, <1>6, <1>7, Zenon DEF Phase

LEMMA NoneOfAppend ==
    ASSUME NEW S, NEW q \in Seq(S), NEW f, NEW i, NoneOf(q, i), f.type = "missData" => f.item # i
    PROVE  NoneOf(Append(q, f), i)
<1> SUFFICES ASSUME NEW n \in DOMAIN Append(q, f), Append(q, f)[n].type = "missData"
             PROVE  Append(q, f)[n].item # i
  BY DEF NoneOf
<1> QED BY AppendIndex DEF NoneOf

LEMMA NoneOfTail ==
    ASSUME NEW S, NEW q \in Seq(S), q # <<>>, NEW i, NoneOf(q, i)
    PROVE  NoneOf(Tail(q), i) /\ (Head(q).type = "missData" => Head(q).item # i)
<1>1. ASSUME NEW n \in DOMAIN Tail(q), Tail(q)[n].type = "missData" PROVE Tail(q)[n].item # i
  <2>1. n + 1 \in DOMAIN q /\ Tail(q)[n] = q[n + 1]
    BY TailIndex
  <2> QED BY <1>1, <2>1 DEF NoneOf
<1>2. Head(q).type = "missData" => Head(q).item # i
  BY TailIndex DEF NoneOf
<1> QED BY <1>1, <1>2 DEF NoneOf

LEMMA NoneOfReplaced ==
    ASSUME NEW S, NEW q \in Seq(S), q # <<>>, NEW f, NEW i, NoneOf(q, i),
           f.type = "missData" => f.item # i
    PROVE  NoneOf([q EXCEPT ![1] = f], i)
<1> DEFINE a == [q EXCEPT ![1] = f]
<1>1. DOMAIN a = DOMAIN q /\ a[1] = f /\ \A n \in DOMAIN q : n # 1 => a[n] = q[n]
  BY ReplacedIndex
<1> HIDE DEF a
<1>2. NoneOf(a, i)
  BY <1>1, Zenon DEF NoneOf
<1> QED BY <1>2 DEF a

(* The batches of missed points after each change of the frames. *)
LEMMA NoneOfNext ==
    ASSUME TypeOK, UNCHANGED version, NEW i, NoneOf(u2d[Stream("missData")], i)
    PROVE  /\ \A m : u2d' = Arrives(m) /\ (m.type = "missData" => m.item # i)
                     => NoneOf(u2d'[Stream("missData")'], i)
           /\ \A ty : Receives(ty) /\ u2d' = Taken(ty) => NoneOf(u2d'[Stream("missData")'], i)
           /\ \A ty, m : /\ Receives(ty) /\ u2d' = [u2d EXCEPT ![Stream(ty)][1] = m]
                         /\ m.type = "missData" => m.item # i
                         => NoneOf(u2d'[Stream("missData")'], i)
<1> DEFINE q == u2d[Stream("missData")]
<1>0. q \in Seq(Frame) /\ Stream("missData")' = Stream("missData")
  BY StreamSeq, SameStream
<1>1. ASSUME NEW m, u2d' = Arrives(m), m.type = "missData" => m.item # i
      PROVE  NoneOf(u2d'[Stream("missData")], i)
  <2>1. u2d'[Stream("missData")] = q \/ u2d'[Stream("missData")] = Append(q, m)
    BY <1>1, ArrivesAt
  <2>2. NoneOf(Append(q, m), i)
    BY <1>0, <1>1, NoneOfAppend
  <2> QED BY <2>1, <2>2, Zenon
<1>2. ASSUME NEW ty, Receives(ty), u2d' = Taken(ty)
      PROVE  NoneOf(u2d'[Stream("missData")], i)
  <2>1. CASE Stream("missData") # Stream(ty)
    BY <1>2, <2>1, TakenAt
  <2>2. CASE Stream("missData") = Stream(ty)
    <3>1. q # <<>>
      BY <1>2, <2>2 DEF Receives
    <3>2. NoneOf(Tail(q), i)
      BY <1>0, <3>1, NoneOfTail
    <3> QED BY <1>2, <2>2, <3>2, TakenAt
  <2> QED BY <2>1, <2>2
<1>3. ASSUME NEW ty, NEW m, Receives(ty), u2d' = [u2d EXCEPT ![Stream(ty)][1] = m],
             m.type = "missData" => m.item # i
      PROVE  NoneOf(u2d'[Stream("missData")], i)
  <2>1. CASE Stream("missData") # Stream(ty)
    <3>1. u2d'[Stream("missData")] = q
      BY <1>3, <2>1, ReplacedAt
    <3> QED BY <3>1, Zenon
  <2>2. CASE Stream("missData") = Stream(ty)
    <3>1. q # <<>>
      BY <1>3, <2>2 DEF Receives
    <3>2. NoneOf([q EXCEPT ![1] = m], i)
      BY <1>0, <1>3, <3>1, NoneOfReplaced
    <3>3. u2d'[Stream("missData")] = [q EXCEPT ![1] = m]
      BY <1>3, <2>2, ReplacedAt
    <3> QED BY <3>2, <3>3, Zenon
  <2> QED BY <2>1, <2>2
<1> QED BY <1>0, <1>1, <1>2, <1>3, Zenon

LEMMA NoneInFlight ==
    ASSUME ~InFlight("missData") PROVE \A i : NoneOf(u2d[Stream("missData")], i)
BY Zenon DEF InFlight, Carries, NoneOf

LEMMA PhaseItemsLatest == ASSUME TypeOK, Phase, RecvItemsLatest PROVE Phase'
<1>1. /\ upc = "data" /\ upc' = "history" /\ d2u.type = "itemsLatest" /\ d2u' = NoRequest
      /\ asked' = d2u.ts /\ missItems' = {i \in Items : d2u.ts[i] > 0}
      /\ UNCHANGED <<version, u2d, broken, dpc, subscribed, dStored>>
  BY Zenon DEF RecvItemsLatest, queues, downDB
<1>2. NoRequest.type = "none"
  BY DEF NoRequest
<1>3. /\ \A ty : InFlight(ty)' <=> InFlight(ty)
      /\ \A ty, tys : Ends(ty, tys)' <=> Ends(ty, tys)
      /\ Stream("missData")' = Stream("missData")
  BY <1>1, FlightKept, SameStream
<1>5. FlightInv'
  BY <1>1, <1>2, <1>3 DEF Phase, FlightInv
<1>6. StageInv'
  <2> SUFFICES ASSUME ~broken PROVE StageInv'
    BY <1>1 DEF StageInv
  <2>1. dpc = "miss" /\ ~InFlight("permissions") /\ ~InFlight("end") /\ ~InFlight("missStatus")
    BY <1>1 DEF Phase, LatestInv, StageInv, FlightInv
  <2> QED BY <1>1, <1>2, <1>3, <2>1 DEF Phase, StageInv, Stages
<1>7. LatestInv'
  <2> SUFFICES ASSUME ~broken, NEW i \in missItems'
               PROVE  /\ asked'[i] # 0 /\ IsLatest(asked'[i], dStored[i])
                      /\ NoneOf(u2d[Stream("missData")], i)
    BY <1>1, <1>2, <1>3, Zenon DEF LatestInv, IsLatest, NoneOf
  <2>1. i \in Items /\ d2u.ts[i] > 0 /\ d2u.ts \in [Items -> Nat]
    BY <1>1, RequestKinds DEF TypeOK
  <2>2. IsLatest(d2u.ts[i], dStored[i])
    BY <1>1, <2>1, Zenon DEF Phase, LatestInv
  <2>3. NoneOf(u2d[Stream("missData")], i)
    BY <1>1, NoneInFlight, Zenon DEF Phase, StageInv
  <2>4. d2u.ts[i] # 0
    BY <2>1
  <2> QED BY <1>1, <2>2, <2>3, <2>4, Zenon
<1> QED BY <1>5, <1>6, <1>7, Zenon DEF Phase

LEMMA PhaseHistory ==
    ASSUME TypeOK, Phase, NEW i \in Items, SendHistory(i) PROVE Phase'
<1> DEFINE m == MissData(i, HistoryAfter(i))
<1>1. /\ upc = "history" /\ i \in missItems /\ missItems' = missItems \ {i}
      /\ u2d' = u2d \/ u2d' = Arrives(m)
      /\ UNCHANGED <<version, upc, asked, d2u, broken, dpc, subscribed, dStored, dLog>>
  BY Zenon DEF SendHistory, queues, downDB
<1>2. m.type = "missData" /\ m.item = i
  BY DEF MissData
<1> HIDE DEF m
<1>3. ~broken => dpc = "miss" /\ ~InFlight("permissions") /\ ~InFlight("end")
                 /\ ~InFlight("missStatus")
  BY <1>1 DEF Phase, StageInv, FlightInv, Stages
<1>4. /\ \A ty \in {"missStatus", "end", "permissions"} : InFlight(ty)' <=> InFlight(ty)
      /\ broken => (InFlight("missData")' <=> InFlight("missData"))
      /\ Ends("end", {"missData", "end"}) => Ends("end", {"missData", "end"})'
      /\ Ends("missStatus", {"missStatus"}) => Ends("missStatus", {"missStatus"})'
      /\ Ends("permissions", {"permissions"}) => Ends("permissions", {"permissions"})'
  <2>1. \A ty \in {"missStatus", "end", "permissions"} : ty # "missData"
    OBVIOUS
  <2>2. "missData" \notin {"missStatus"} /\ "missData" \notin {"permissions"}
    OBVIOUS
  <2>3. CASE u2d' = u2d
    BY <1>1, <2>3, FlightKept, Zenon
  <2>4. CASE u2d' = Arrives(m)
    BY <1>1, <1>2, <1>3, <2>1, <2>2, <2>4, FlightArrives, Zenon
  <2> QED BY <1>1, <2>3, <2>4
<1>b. broken => u2d' = u2d
  BY <1>1 DEF Arrives
<1>5. FlightInv'
  BY <1>1, <1>3, <1>4, <1>b DEF Phase, FlightInv
<1>6. StageInv'
  <2> SUFFICES ASSUME ~broken PROVE StageInv'
    BY <1>1 DEF StageInv
  <2> QED BY <1>1, <1>3, <1>4 DEF Phase, StageInv, Stages
<1>7. LatestInv'
  <2> SUFFICES ASSUME ~broken PROVE LatestInv'
    BY <1>1 DEF LatestInv
  <2>1. ASSUME NEW j \in missItems'
        PROVE  /\ asked'[j] # 0 /\ IsLatest(asked'[j], dStored'[j])
               /\ NoneOf(u2d'[Stream("missData")'], j)
    <3>1. j \in missItems /\ j # i
      BY <1>1, <2>1
    <3>2. /\ asked[j] # 0 /\ IsLatest(asked[j], dStored[j])
          /\ NoneOf(u2d[Stream("missData")], j)
      BY <1>1, <3>1, Zenon DEF Phase, LatestInv
    <3>3. NoneOf(u2d'[Stream("missData")'], j)
      <4>1. CASE u2d' = u2d
        BY <1>1, <3>2, <4>1, SameStream, Zenon
      <4>2. CASE u2d' = Arrives(m)
        BY <1>1, <1>2, <3>1, <3>2, <4>2, NoneOfNext, Zenon
      <4> QED BY <1>1, <4>1, <4>2
    <3> QED BY <1>1, <3>2, <3>3, Zenon
  <2>2. /\ d2u'.type # "statusLatest"
        /\ d2u'.type # "itemsLatest"
    BY <1>1 DEF Phase, LatestInv
  <2>3. \A j \in missItems' : /\ asked'[j] # 0 /\ IsLatest(asked[j], dStored[j])'
                              /\ NoneOf(u2d[Stream("missData")], j)'
    BY <2>1, Zenon DEF IsLatest, NoneOf
  <2> QED BY <2>2, <2>3, Zenon DEF LatestInv
<1> QED BY <1>5, <1>6, <1>7, Zenon DEF Phase

LEMMA PhaseHistoryEnd == ASSUME TypeOK, Phase, SendHistoryEnd PROVE Phase'
<1> DEFINE m == [type |-> "end"]
<1>1. /\ upc = "history" /\ upc' = "run" /\ u2d' = Arrives(m) /\ Subscribe("run", Queues)
      /\ UNCHANGED <<version, d2u, broken, dpc>>
  BY Zenon DEF SendHistoryEnd
<1>2. m.type = "end"
  OBVIOUS
<1> HIDE DEF m
<1>s. subscribed' = subscribed
  BY <1>1, Zenon DEF Subscribe, SubscribesAt, queues
<1>3. ~broken => /\ dpc = "miss" /\ ~InFlight("permissions") /\ ~InFlight("end")
                 /\ ~InFlight("missStatus")
                 /\ d2u.type \notin {"statusLatest", "itemsLatest", "open"}
  BY <1>1 DEF Phase, StageInv, FlightInv, LatestInv, Stages
<1>4. /\ \A ty \in {"missData", "missStatus", "permissions"} : InFlight(ty)' <=> InFlight(ty)
      /\ broken => (InFlight("end")' <=> InFlight("end"))
      /\ Ends("end", {"missData", "end"}) => Ends("end", {"missData", "end"})'
      /\ Ends("missStatus", {"missStatus"}) => Ends("missStatus", {"missStatus"})'
      /\ Ends("permissions", {"permissions"}) => Ends("permissions", {"permissions"})'
  <2>1. \A ty \in {"missData", "missStatus", "permissions"} : ty # "end"
    OBVIOUS
  <2>2. "end" \notin {"missStatus"} /\ "end" \notin {"permissions"}
    OBVIOUS
  <2> QED BY <1>1, <1>2, <1>3, <2>1, <2>2, FlightArrives, Zenon
<1>b. broken => u2d' = u2d
  BY <1>1 DEF Arrives
<1>5. FlightInv'
  BY <1>1, <1>3, <1>4, <1>b DEF Phase, FlightInv
<1>6. StageInv'
  <2> SUFFICES ASSUME ~broken PROVE StageInv'
    BY <1>1 DEF StageInv
  <2> QED BY <1>1, <1>s, <1>3, <1>4 DEF StageInv, Stages
<1>7. LatestInv'
  BY <1>1, <1>3 DEF LatestInv
<1> QED BY <1>5, <1>6, <1>7, Zenon DEF Phase

(* What the upstream was told stays the latest when the rows and the points *)
(* it was told about do not change.                                         *)
LEMMA LatestStep ==
    ASSUME TypeOK, LatestInv, UNCHANGED <<version, upc, d2u, broken, dpc, asked, missItems>>,
           ~broken /\ d2u.type = "statusLatest" => dLog' = dLog,
           ~broken /\ d2u.type = "itemsLatest" => dStored' = dStored,
           ~broken /\ upc = "history" => \A i \in missItems : dStored'[i] = dStored[i],
           \A i : NoneOf(u2d[Stream("missData")], i) => NoneOf(u2d'[Stream("missData")'], i)
    PROVE  LatestInv'
<1> SUFFICES ASSUME ~broken PROVE LatestInv'
  BY DEF LatestInv
<1>1. d2u'.type = "statusLatest" =>
        upc' = "status" /\ dpc' = "status" /\ IsLatest(d2u'.row, dLog')
  BY Zenon DEF LatestInv
<1>2. d2u'.type = "itemsLatest" =>
        upc' = "data" /\ dpc' = "miss" /\ \A i \in Items : IsLatest(d2u'.ts[i], dStored'[i])
  BY Zenon DEF LatestInv
<1>3. upc' = "history" => \A i \in missItems' :
         /\ asked'[i] # 0 /\ IsLatest(asked'[i], dStored'[i])
         /\ NoneOf(u2d'[Stream("missData")'], i)
  BY Zenon DEF LatestInv
<1>4. /\ d2u'.type = "statusLatest" => IsLatest(d2u.row, dLog)'
      /\ d2u'.type = "itemsLatest" => \A i \in Items : IsLatest(d2u.ts[i], dStored[i])'
      /\ upc' = "history" => \A i \in missItems' : /\ IsLatest(asked[i], dStored[i])'
                                                    /\ NoneOf(u2d[Stream("missData")], i)'
  BY <1>1, <1>2, <1>3, Zenon DEF IsLatest, NoneOf
<1> QED BY <1>1, <1>2, <1>3, <1>4, Zenon DEF LatestInv

LEMMA PhaseForward ==
    ASSUME TypeOK, EmptyInv, Phase, NEW q \in Queues, forwardIncremental(q) PROVE Phase'
<1> DEFINE m == Head(sub[q])
<1>1. /\ Forwards(q) /\ sub[q] # <<>> /\ u2d' = Arrives(m)
      /\ UNCHANGED <<version, upc, asked, missItems, d2u, broken, dpc, subscribed, dStored, dLog>>
  BY Zenon DEF forwardIncremental, upstream, downDB
<1>2. m.type \in {"data", "status"}
  <2>1. m \in IF q = "data" THEN Point ELSE Row
    BY ForwardType
  <2> HIDE DEF m
  <2> QED BY <2>1, PointFields, RowFields
<1> HIDE DEF m
<1>3. m.type \notin {"missStatus", "missData", "end", "permissions"} /\ m.type # "missData"
  BY <1>2
<1>4. /\ \A ty \in {"missStatus", "missData", "end", "permissions"} :
            InFlight(ty)' <=> InFlight(ty)
      /\ Ends("end", {"missData", "end"}) => Ends("end", {"missData", "end"})'
      /\ Ends("missStatus", {"missStatus"}) => Ends("missStatus", {"missStatus"})'
      /\ Ends("permissions", {"permissions"}) => Ends("permissions", {"permissions"})'
  BY <1>1, <1>3, FlightOther
<1>b. broken => u2d' = u2d
  BY <1>1 DEF Arrives
<1>5. FlightInv'
  BY <1>1, <1>4, <1>b DEF Phase, FlightInv
<1>6. StageInv'
  <2> SUFFICES ASSUME ~broken PROVE StageInv'
    BY <1>1 DEF StageInv
  <2>1. subscribed[q]
    BY <1>1, Zenon DEF EmptyInv
  <2>2. upc # "hello"
    BY <1>1, <2>1 DEF Phase, StageInv, Forwards, Queues
  <2> QED BY <1>1, <1>4, <2>2 DEF Phase, StageInv
<1>7. LatestInv'
  <2>1. \A i : NoneOf(u2d[Stream("missData")], i) => NoneOf(u2d'[Stream("missData")'], i)
    BY <1>1, <1>3, NoneOfNext, Zenon
  <2> QED BY <1>1, <2>1, LatestStep DEF Phase
<1> QED BY <1>5, <1>6, <1>7, Zenon DEF Phase

LEMMA PhaseDial == ASSUME TypeOK, openDownstreamStream PROVE Phase'
<1>1. /\ dpc' = "boot" /\ upc' = "hello" /\ subscribed' = None /\ u2d' = NoFrames
      /\ d2u' = [type |-> "hello"] /\ broken' = FALSE /\ UNCHANGED version
  BY Zenon DEF openDownstreamStream
<1>2. d2u'.type = "hello" /\ ~None["config"] /\ ~None["data"]
  BY <1>1 DEF None, Queues
<1>3. \A ty : ~InFlight(ty)' /\ \A tys : Ends(ty, tys)'
  BY <1>1, FlightNone
<1>4. FlightInv'
  BY <1>1, <1>2, <1>3 DEF FlightInv
<1>5. StageInv'
  BY <1>1, <1>2, <1>3 DEF StageInv, Stages
<1>6. LatestInv'
  BY <1>1, <1>2 DEF LatestInv
<1> QED BY <1>4, <1>5, <1>6, Zenon DEF Phase

LEMMA PhaseFullConfig == ASSUME TypeOK, Phase, RecvFullConfig PROVE Phase'
<1>1. /\ dpc = "boot" /\ Receives("config") /\ dpc' = "status" /\ u2d' = Taken("config")
      /\ UNCHANGED <<version, upc, asked, missItems, broken, subscribed, dStored, dLog>>
      /\ \E row \in dLog \cup {0} :
            IsLatest(row, dLog) /\ d2u' = [type |-> "statusLatest", row |-> row]
  BY Zenon DEF RecvFullConfig, upstream, queues, downDB
<1>2. d2u'.type = "statusLatest" /\ IsLatest(d2u'.row, dLog)
  <2>1. PICK row \in dLog \cup {0} :
           IsLatest(row, dLog) /\ d2u' = [type |-> "statusLatest", row |-> row]
    BY <1>1, Zenon
  <2>2. d2u'.type = "statusLatest" /\ d2u'.row = row
    BY <2>1
  <2> QED BY <2>1, <2>2, Zenon
<1>3. /\ \A u : InFlight(u)' => InFlight(u)
      /\ \A u, tys : Ends(u, tys) => Ends(u, tys)'
  BY <1>1, FlightTaken
<1>4. u2d # NoFrames
  BY <1>1, StreamIs DEF Receives, NoFrames
<1>5. FlightInv'
  BY <1>1, <1>2, <1>3 DEF Phase, FlightInv
<1>6. ~broken => upc = "status"
  BY <1>1, <1>4 DEF Phase, StageInv, Stages
<1>7. StageInv'
  BY <1>1, <1>2, <1>3, <1>6 DEF Phase, StageInv, Stages
<1>8. IsLatest(d2u.row, dLog)'
  BY <1>1, <1>2, Zenon DEF IsLatest
<1>9. LatestInv'
  BY <1>1, <1>2, <1>6, <1>8 DEF LatestInv
<1> QED BY <1>5, <1>7, <1>9, Zenon DEF Phase

(* A frame is taken that does not move the downstream on. *)
LEMMA PhaseTaken ==
    ASSUME TypeOK, Phase, NEW ty, Receives(ty), u2d' = Taken(ty),
           UNCHANGED <<version, upc, dpc, d2u, broken, subscribed, asked, missItems>>,
           ~broken /\ d2u.type = "statusLatest" => dLog' = dLog,
           ~broken /\ d2u.type = "itemsLatest" => dStored' = dStored,
           ~broken /\ upc = "history" => \A i \in missItems : dStored'[i] = dStored[i]
    PROVE  Phase'
<1>1. /\ \A u : InFlight(u)' => InFlight(u)
      /\ \A u, tys : Ends(u, tys) => Ends(u, tys)'
  BY FlightTaken
<1>2. u2d # NoFrames
  BY StreamIs DEF Receives, NoFrames
<1>3. FlightInv'
  BY <1>1, <1>2 DEF Phase, FlightInv
<1>4. StageInv'
  BY <1>1, <1>2 DEF Phase, StageInv
<1>5. \A i : NoneOf(u2d[Stream("missData")], i) => NoneOf(u2d'[Stream("missData")'], i)
  BY NoneOfNext, Zenon
<1>6. LatestInv'
  BY <1>5, LatestStep DEF Phase
<1> QED BY <1>3, <1>4, <1>6, Zenon DEF Phase

(* The batch at the head of a stream loses what was saved of it. *)
LEMMA PhaseReplaced ==
    ASSUME TypeOK, Phase, NEW ty, Receives(ty), NEW m, m.type = ty,
           u2d' = [u2d EXCEPT ![Stream(ty)][1] = m],
           ty = "missData" => m.item = Head(u2d[Stream("missData")]).item,
           UNCHANGED <<version, upc, dpc, d2u, broken, subscribed, asked, missItems>>,
           ~broken /\ d2u.type = "statusLatest" => dLog' = dLog,
           ~broken /\ d2u.type = "itemsLatest" => dStored' = dStored,
           ~broken /\ upc = "history" => \A i \in missItems : dStored'[i] = dStored[i]
    PROVE  Phase'
<1>1. /\ \A u : InFlight(u)' <=> InFlight(u)
      /\ \A u, tys : Ends(u, tys)' <=> Ends(u, tys)
  BY FlightReplaced
<1>2. u2d # NoFrames
  BY StreamIs DEF Receives, NoFrames
<1>3. FlightInv'
  BY <1>1, <1>2 DEF Phase, FlightInv
<1>4. StageInv'
  BY <1>1, <1>2 DEF Phase, StageInv
<1>5. ASSUME NEW i, NoneOf(u2d[Stream("missData")], i)
      PROVE  NoneOf(u2d'[Stream("missData")'], i)
  <2>1. m.type = "missData" => m.item # i
    <3> SUFFICES ASSUME ty = "missData" PROVE m.item # i
      OBVIOUS
    <3>1. /\ u2d[Stream("missData")] \in Seq(Frame) /\ u2d[Stream("missData")] # <<>>
          /\ Head(u2d[Stream("missData")]).type = "missData"
      BY StreamSeq DEF Receives
    <3>2. Head(u2d[Stream("missData")]).item # i
      BY <1>5, <3>1, NoneOfTail
    <3> QED BY <3>2
  <2> QED BY <1>5, <2>1, NoneOfNext, Zenon
<1>6. LatestInv'
  BY <1>5, LatestStep DEF Phase
<1> QED BY <1>3, <1>4, <1>6, Zenon DEF Phase

LEMMA PhaseShow ==
    ASSUME TypeOK, Phase, NEW r \in DOMAIN uLog, ShowMissStatus(r) PROVE Phase'
<1> DEFINE b == Head(u2d[Stream("missStatus")])
<1>1. /\ Receives("missStatus")
      /\ UNCHANGED <<version, upc, dpc, d2u, broken, subscribed, asked, missItems, dLog, dStored>>
      /\ \E R, T : u2d' = [u2d EXCEPT ![Stream("missStatus")][1] = MissStatus(R, T)]
  BY Zenon DEF ShowMissStatus, upstream, queues
<1>2. PICK R, T : u2d' = [u2d EXCEPT ![Stream("missStatus")][1] = MissStatus(R, T)]
  BY <1>1
<1> DEFINE m == MissStatus(R, T)
<1>3. m.type = "missStatus" /\ "missStatus" # "missData"
  BY DEF MissStatus
<1>4. u2d' = [u2d EXCEPT ![Stream("missStatus")][1] = m]
  BY <1>2
<1> HIDE DEF m
<1> QED BY <1>1, <1>3, <1>4, PhaseReplaced

LEMMA PhaseSaveRows ==
    ASSUME TypeOK, Phase, NEW r \in DOMAIN uLog, SaveMissStatus(r) PROVE Phase'
<1> DEFINE b == Head(u2d[Stream("missStatus")])
<1>1. /\ Receives("missStatus")
      /\ UNCHANGED <<version, upc, dpc, d2u, broken, subscribed, asked, missItems, dStored>>
      /\ u2d' = [u2d EXCEPT ![Stream("missStatus")][1] = MissStatus(b.rows \ {r}, b.shown \ {r})]
  BY Zenon DEF SaveMissStatus, upstream, queues
<1> DEFINE m == MissStatus(b.rows \ {r}, b.shown \ {r})
<1>2. m.type = "missStatus" /\ "missStatus" # "missData"
  BY DEF MissStatus
<1>3. InFlight("missStatus")
  <2>1. u2d[Stream("missStatus")] \in Seq(Frame) /\ u2d[Stream("missStatus")] # <<>>
        /\ Head(u2d[Stream("missStatus")]).type = "missStatus"
    BY <1>1, StreamSeq DEF Receives
  <2> QED BY <2>1, CarriesTail DEF InFlight
<1>4. ~broken => d2u.type # "statusLatest"
  BY <1>3, Zenon DEF Phase, StageInv, LatestInv
<1>5. u2d' = [u2d EXCEPT ![Stream("missStatus")][1] = m]
  BY <1>1
<1> HIDE DEF m
<1> QED BY <1>1, <1>2, <1>4, <1>5, PhaseReplaced

LEMMA PhaseOpen ==
    ASSUME TypeOK, Phase, version = 1, fullSyncConfigClientReturns PROVE Phase'
<1>1. /\ dpc = "status" /\ Receives("missStatus") /\ dpc' = "open" /\ u2d' = Taken("missStatus")
      /\ d2u' = [type |-> "open"]
      /\ UNCHANGED <<version, upc, asked, missItems, broken, subscribed, dStored, dLog>>
  BY Zenon DEF fullSyncConfigClientReturns, upstream, queues, downDB
<1>2. d2u'.type = "open" /\ "missStatus" \in {"missStatus"}
  BY <1>1
<1>3. /\ InFlight("missStatus")
      /\ \A u : InFlight(u)' => InFlight(u)
      /\ \A u, tys : Ends(u, tys) => Ends(u, tys)'
      /\ Ends("missStatus", {"missStatus"}) => ~InFlight("missStatus")'
  BY <1>1, <1>2, FlightTaken, Zenon
<1>4. FlightInv'
  BY <1>1, <1>2, <1>3 DEF Phase, FlightInv
<1>5. ~broken => upc = "accept" /\ ~InFlight("permissions")
  BY <1>1, <1>3 DEF Phase, StageInv, Stages
<1>6. StageInv'
  BY <1>1, <1>2, <1>3, <1>5 DEF Phase, StageInv, Stages
<1>7. LatestInv'
  BY <1>1, <1>2, <1>5 DEF LatestInv
<1> QED BY <1>4, <1>6, <1>7, Zenon DEF Phase

LEMMA PhaseLatest == ASSUME TypeOK, Phase, SendItemsLatest PROVE Phase'
<1>v. version \in {1, 2}
  BY RelayAssumption DEF TypeOK
<1>1. /\ ReadyForData /\ dpc' = "miss"
      /\ UNCHANGED <<version, upc, asked, missItems, broken, subscribed, dStored, dLog>>
      /\ \E ts \in [Items -> 0 .. now] :
            /\ \A i \in Items : IsLatest(ts[i], dStored[i])
            /\ d2u' = [type |-> "itemsLatest", ts |-> ts]
  BY Zenon DEF SendItemsLatest, upstream, queues, downDB
<1>2. d2u'.type = "itemsLatest" /\ \A i \in Items : IsLatest(d2u'.ts[i], dStored[i])
  <2>1. PICK ts \in [Items -> 0 .. now] :
            /\ \A i \in Items : IsLatest(ts[i], dStored[i])
            /\ d2u' = [type |-> "itemsLatest", ts |-> ts]
    BY <1>1, Zenon
  <2>2. d2u'.type = "itemsLatest" /\ d2u'.ts = ts
    BY <2>1
  <2> QED BY <2>1, <2>2, Zenon
<1>3. /\ \/ version = 2 /\ dpc = "status" /\ InFlight("missStatus") /\ ~InFlight("missStatus")'
         \/ version = 1 /\ dpc = "open" /\ InFlight("permissions") /\ ~InFlight("permissions")'
      /\ \A u : InFlight(u)' => InFlight(u)
      /\ \A u, tys : Ends(u, tys) => Ends(u, tys)'
  <2>1. CASE version = 2 /\ dpc = "status" /\ Receives("missStatus") /\ u2d' = Taken("missStatus")
    <3>1. /\ InFlight("missStatus")
          /\ \A u : InFlight(u)' => InFlight(u)
          /\ \A u, tys : Ends(u, tys) => Ends(u, tys)'
          /\ Ends("missStatus", {"missStatus"}) => ~InFlight("missStatus")'
      <4>1. "missStatus" \in {"missStatus"}
        OBVIOUS
      <4> QED BY <1>1, <2>1, <4>1, FlightTaken, Zenon
    <3> QED BY <2>1, <3>1, Zenon DEF Phase, FlightInv
  <2>2. CASE version = 1 /\ dpc = "open" /\ Receives("permissions") /\ u2d' = Taken("permissions")
    <3>1. /\ InFlight("permissions")
          /\ \A u : InFlight(u)' => InFlight(u)
          /\ \A u, tys : Ends(u, tys) => Ends(u, tys)'
          /\ Ends("permissions", {"permissions"}) => ~InFlight("permissions")'
      <4>1. "permissions" \in {"permissions"}
        OBVIOUS
      <4> QED BY <1>1, <2>2, <4>1, FlightTaken, Zenon
    <3> QED BY <2>2, <3>1, Zenon DEF Phase, FlightInv
  <2> QED BY <1>1, <2>1, <2>2, Zenon DEF ReadyForData
<1>4. FlightInv'
  BY <1>1, <1>2, <1>3 DEF Phase, FlightInv
<1>5. ~broken => upc = "data" /\ ~InFlight("permissions")'
  BY <1>3, <1>v DEF Phase, FlightInv, StageInv, Stages
<1>6. StageInv'
  BY <1>1, <1>2, <1>3, <1>5 DEF Phase, StageInv, Stages
<1>7. (\A i \in Items : IsLatest(d2u.ts[i], dStored[i]))'
  BY <1>1, <1>2, Zenon DEF IsLatest
<1>8. LatestInv'
  BY <1>1, <1>2, <1>5, <1>7 DEF LatestInv
<1> QED BY <1>4, <1>6, <1>8, Zenon DEF Phase

LEMMA PhaseSaveMiss ==
    ASSUME TypeOK, Phase, NEW t \in 1 .. now, SaveMissData(t) PROVE Phase'
<1> DEFINE q == u2d[Stream("missData")]
           b == Head(q)
           m == MissData(b.item, b.points \ {t})
<1>1. /\ dpc = "miss" /\ Receives("missData")
      /\ UNCHANGED <<version, upc, dpc, d2u, broken, subscribed, asked, missItems, dLog>>
      /\ dStored' = [dStored EXCEPT ![b.item] = @ \cup {t}]
      /\ u2d' = Taken("missData") \/ u2d' = [u2d EXCEPT ![Stream("missData")][1] = m]
  BY Zenon DEF SaveMissData, upstream, queues
<1>2. m.type = "missData" /\ m.item = b.item
  BY DEF MissData
<1>3. q \in Seq(Frame) /\ q # <<>> /\ b.type = "missData"
  BY <1>1, StreamSeq DEF Receives
<1>4. InFlight("missData")
  BY <1>3, CarriesTail DEF InFlight
<1>5. ~broken /\ upc = "history" => \A i \in missItems : dStored'[i] = dStored[i]
  <2> SUFFICES ASSUME ~broken, upc = "history", NEW i \in missItems
               PROVE  dStored'[i] = dStored[i]
    OBVIOUS
  <2>1. NoneOf(q, i)
    BY Zenon DEF Phase, LatestInv
  <2>2. b.item # i
    BY <1>3, <2>1, NoneOfTail
  <2>3. dStored \in [Items -> SUBSET Nat] /\ i \in Items
    BY DEF TypeOK
  <2> HIDE DEF b
  <2> QED BY <1>1, <2>2, <2>3
<1>6. ~broken => d2u.type # "itemsLatest" /\ d2u.type # "statusLatest"
  BY <1>1, <1>4 DEF Phase, StageInv, LatestInv
<1> HIDE DEF m, b
<1>7. CASE u2d' = Taken("missData")
  BY <1>1, <1>5, <1>6, <1>7, PhaseTaken
<1>8. CASE u2d' = [u2d EXCEPT ![Stream("missData")][1] = m]
  <2>1. m.item = Head(u2d[Stream("missData")]).item
    BY <1>2 DEF b
  <2> QED BY <1>1, <1>2, <1>5, <1>6, <1>8, <2>1, PhaseReplaced
<1> QED BY <1>1, <1>7, <1>8

LEMMA PhaseMissEnds == ASSUME TypeOK, Phase, MissDataEnds PROVE Phase'
<1>1. /\ dpc = "miss" /\ Receives("end") /\ dpc' = "run" /\ u2d' = Taken("end")
      /\ UNCHANGED <<version, upc, asked, missItems, d2u, broken, subscribed, dStored, dLog>>
  BY Zenon DEF MissDataEnds, upstream, queues, downDB
<1>2. "missData" \in {"missData", "end"} /\ "end" \in {"missData", "end"}
  OBVIOUS
<1>3. /\ InFlight("end")
      /\ \A u : InFlight(u)' => InFlight(u)
      /\ \A u, tys : Ends(u, tys) => Ends(u, tys)'
      /\ Ends("end", {"missData", "end"}) => ~InFlight("missData")' /\ ~InFlight("end")'
  BY <1>1, <1>2, SameEnd, FlightTaken, Zenon
<1>4. FlightInv'
  BY <1>1, <1>3 DEF Phase, FlightInv
<1>5. ~broken => upc = "run" /\ ~InFlight("permissions") /\ d2u.type # "open"
  BY <1>1, <1>3 DEF Phase, StageInv, Stages
<1>6. StageInv'
  BY <1>1, <1>3, <1>5 DEF Phase, StageInv, Stages
<1>7. ~broken => d2u.type # "itemsLatest" /\ d2u.type # "statusLatest"
  BY <1>1, <1>5 DEF Phase, LatestInv
<1>8. LatestInv'
  BY <1>1, <1>5, <1>7 DEF LatestInv
<1> QED BY <1>4, <1>6, <1>8, Zenon DEF Phase

LEMMA PhaseSavePoint == ASSUME TypeOK, Phase, SavePoint PROVE Phase'
<1>1. /\ dpc = "run" /\ Receives("data") /\ u2d' = Taken("data")
      /\ UNCHANGED <<version, upc, dpc, d2u, broken, subscribed, asked, missItems, dLog>>
  BY Zenon DEF SavePoint, upstream, queues
<1>2. ~broken => upc = "run" /\ d2u.type # "itemsLatest"
  BY <1>1 DEF Phase, StageInv, LatestInv, Stages
<1> QED BY <1>1, <1>2, PhaseTaken

LEMMA PhaseSaveRow ==
    ASSUME TypeOK, Phase, SaveRow, dpc \in {"open", "miss", "run"} PROVE Phase'
<1>1. /\ Receives("status") /\ u2d' = Taken("status")
      /\ UNCHANGED <<version, upc, dpc, d2u, broken, subscribed, asked, missItems, dStored>>
  BY Zenon DEF SaveRow, upstream, queues
<1>2. ~broken => d2u.type # "statusLatest"
  BY DEF Phase, LatestInv
<1> QED BY <1>1, <1>2, PhaseTaken

LEMMA PhaseRoundReturns ==
    ASSUME TypeOK, Phase, syncDataClientReturns PROVE Phase'
<1>1. /\ version = 1 /\ dpc = "run" /\ dpc' = "open" /\ u2d' = [u2d EXCEPT ![3] = <<>>]
      /\ d2u' = [type |-> "open"]
      /\ UNCHANGED <<version, upc, asked, missItems, broken, subscribed, dStored, dLog>>
  BY Zenon DEF syncDataClientReturns, upstream, queues, downDB
<1>2. d2u'.type = "open"
  BY <1>1
<1>3. \A ty \in {"missStatus", "missData", "end", "permissions"} :
         u2d'[Stream(ty)'] = u2d[Stream(ty)]
  <2>1. \A ty \in {"missStatus", "missData", "end", "permissions"} : Stream(ty) \in {2, 4}
    BY <1>1 DEF Stream
  <2>2. \A s \in {2, 4} : u2d'[s] = u2d[s]
    BY <1>1 DEF TypeOK
  <2> QED BY <1>1, <2>1, <2>2, SameStream, Zenon
<1>4. \A ty \in {"missStatus", "missData", "end", "permissions"} :
         (InFlight(ty)' <=> InFlight(ty)) /\ \A tys : Ends(ty, tys)' <=> Ends(ty, tys)
  BY <1>3, Zenon DEF InFlight, Ends
<1>5. FlightInv'
  BY <1>1, <1>2, <1>4 DEF Phase, FlightInv
<1>6. ~broken => upc = "run" /\ ~InFlight("permissions")
  BY <1>1 DEF Phase, StageInv, Stages
<1>7. StageInv'
  BY <1>1, <1>2, <1>4, <1>6 DEF Phase, StageInv, Stages
<1>8. LatestInv'
  BY <1>1, <1>2, <1>6 DEF LatestInv
<1> QED BY <1>5, <1>7, <1>8, Zenon DEF Phase

LEMMA PhaseDownReturns == ASSUME TypeOK, Phase, RunDownstreamReturns PROVE Phase'
<1>1. /\ dpc' = "idle" /\ u2d' = NoFrames /\ d2u' = NoRequest /\ broken' = TRUE
      /\ UNCHANGED <<version, upc>>
  BY Zenon DEF RunDownstreamReturns, upstream
<1>2. d2u'.type = "none"
  BY <1>1 DEF NoRequest
<1>3. \A ty : ~InFlight(ty)' /\ \A tys : Ends(ty, tys)'
  BY <1>1, FlightNone
<1>4. FlightInv'
  BY <1>1, <1>2, <1>3 DEF Phase, FlightInv
<1>5. StageInv' /\ LatestInv'
  BY <1>1, Zenon DEF StageInv, LatestInv
<1> QED BY <1>4, <1>5, Zenon DEF Phase

LEMMA PhaseInit == Init => Phase
<1> SUFFICES ASSUME Init PROVE Phase
  OBVIOUS
<1>1. upc = "gone" /\ dpc = "idle" /\ broken /\ u2d = NoFrames /\ d2u.type = "none"
  BY DEF Init, NoRequest
<1>2. \A ty : ~InFlight(ty) /\ \A tys : Ends(ty, tys)
  <2>1. \A ty : u2d[Stream(ty)] = <<>>
    BY <1>1, StreamIs DEF NoFrames
  <2> QED BY <2>1, NoneCarried, Zenon DEF InFlight, Ends
<1>3. FlightInv
  BY <1>1, <1>2 DEF FlightInv
<1>4. StageInv /\ LatestInv
  BY <1>1, Zenon DEF StageInv, LatestInv
<1> QED BY <1>3, <1>4, Zenon DEF Phase

LEMMA PhaseStep == ASSUME TypeOK, EmptyInv, Phase, [Next]_vars PROVE Phase'
<1>v. version \in {1, 2}
  BY RelayAssumption DEF TypeOK
<1>1. CASE \/ StationFeeds \/ PublishSaved \/ PublishDelayed \/ UpdatePermissions
           \/ Quiescent \/ UNCHANGED vars
  <2>1. subscribed' = subscribed
    BY <1>1, Zenon DEF StationFeeds, StorePoint, StoreRow, PublishSaved, PublishDelayed, Publish,
                       UpdatePermissions, Quiescent, vars, queues
  <2>2. UNCHANGED <<version, upc, dpc, d2u, u2d, broken, asked, missItems, dLog, dStored>>
    BY <1>1, Zenon DEF StationFeeds, StorePoint, StoreRow, PublishSaved, PublishDelayed,
                       UpdatePermissions, Quiescent, vars, network, upstream, downDB
  <2> QED BY <2>1, <2>2, PhaseKept
<1>2. CASE StreamRelayReturns \/ UpstreamRestart \/ Break
  <2>1. /\ UNCHANGED <<version, dpc, d2u, u2d>> /\ broken' = TRUE
        /\ upc' = upc \/ upc' = "gone"
    BY <1>2, Zenon DEF StreamRelayReturns, UpstreamRestart, Break, upstream
  <2> QED BY <2>1, PhaseBroken
<1>3. CASE RecvDownstreamHello
  BY <1>3, PhaseServe DEF RecvDownstreamHello
<1>4. CASE handleSyncServerConn
  <2>1. {"config"} \in SUBSET Queues /\ "data" \notin {"config"} /\ Serve({"config"})
    BY <1>4 DEF handleSyncServerConn, Queues
  <2> QED BY <2>1, PhaseServe
<1>5. CASE handleMissStatusSync
  <2>1. version = 2 /\ SendMissStatus("data") /\ ("data" = "accept" <=> version = 1)
    BY <1>5 DEF handleMissStatusSync
  <2> QED BY <2>1, PhaseMissStatus
<1>6. CASE fullSyncConfigServer
  <2>1. version = 1 /\ SendMissStatus("accept")
    BY <1>6 DEF fullSyncConfigServer
  <2> QED BY <2>1, PhaseMissStatus
<1>7. CASE handleMissDataSync \/ fillMissDataServer
  BY <1>7, PhaseItemsLatest, PhaseHistory, PhaseHistoryEnd, Zenon
     DEF handleMissDataSync, fillMissDataServer, SendMissData
<1>8. CASE syncDataServer \/ syncDataServerReturns
  BY <1>8, PhaseRound, PhaseRoundEnds
<1>9. CASE \E q \in Queues : forwardIncremental(q)
  BY <1>9, PhaseForward
<1>10. CASE openDownstreamStream
  BY <1>10, PhaseDial
<1>11. CASE syncMissStatus
  BY <1>11, PhaseFullConfig, PhaseShow, PhaseSaveRows, Zenon DEF syncMissStatus, TakeMissStatus
<1>12. CASE fullSyncConfigClient
  BY <1>12, PhaseFullConfig, PhaseShow, PhaseSaveRows, PhaseOpen, Zenon
     DEF fullSyncConfigClient, TakeMissStatus
<1>13. CASE syncMissData \/ fillMissDataClient
  BY <1>13, PhaseLatest, PhaseSaveMiss, PhaseMissEnds, Zenon
     DEF syncMissData, fillMissDataClient, TakeMissData
<1>14. CASE applyDataBatch \/ syncDataClient
  BY <1>14, PhaseSavePoint, Zenon DEF applyDataBatch, syncDataClient
<1>15. CASE applyStatusEvent \/ handleSyncConfigMsg
  <2>1. SaveRow /\ dpc \in {"open", "miss", "run"}
    BY <1>15 DEF applyStatusEvent, handleSyncConfigMsg
  <2> QED BY <2>1, PhaseSaveRow
<1>16. CASE syncDataClientReturns \/ RunDownstreamReturns
  BY <1>16, PhaseRoundReturns, PhaseDownReturns
<1> QED BY <1>1, <1>2, <1>3, <1>4, <1>5, <1>6, <1>7, <1>8, <1>9, <1>10, <1>11, <1>12, <1>13,
           <1>14, <1>15, <1>16, Zenon
        DEF Next, StreamRelay, RunDownstream

LEMMA PhaseInvInit == Init => PhaseInv
<1>1. Init => EmptyInv
  BY Zenon DEF Init, EmptyInv, Empty
<1> QED BY <1>1, DirectInit, PhaseInit DEF PhaseInv

LEMMA PhaseInvStep == ASSUME TypeOK, PhaseInv, [Next]_vars PROVE PhaseInv'
BY DirectStep, EmptyStep, PhaseStep, Zenon DEF PhaseInv

-----------------------------------------------------------------------------
(* What the steps do to the places of a series *)

(* A number goes on is saved and waits to be published. *)
LEMMA MoveSave ==
    ASSUME NEW H, NEW B, NEW K, NEW P, NEW L, NEW W, NEW D, NEW sent, NEW open,
           GapFree(H, B, K, P, L, W, D, sent, open),
           NEW t \in Nat \ {0}, \A u \in H : u < t
    PROVE  GapFree(H \cup {t}, B, K, P, L, W, D \cup {t}, sent, open)
<1> USE DEF GapFree
<1>0. \A f, v : v \in B \cup P \cup L \cup W => ~Between(t, f, v)
  BY DEF Places, Between
<1>1. Places(H \cup {t}, B, P, L, W, D \cup {t})
  BY DEF Places
<1>2. NoGap(H \cup {t}, B, K) /\ MissNoGap(H \cup {t}, B, K, P) /\ LiveNoGap(H \cup {t}, L, W)
  BY <1>0 DEF NoGap, MissNoGap, LiveNoGap
<1>3. sent => Joined(H \cup {t}, B, K, P, L, W)
  BY <1>0 DEF Joined
<1>4. Rest(H \cup {t}, D \cup {t})
  BY DEF Places, Rest
<1>5. open => LiveRest(H \cup {t}, L, W, D \cup {t})
  BY DEF Places, LiveRest
<1>6. open /\ sent => AllRest(H \cup {t}, B, K, P, L, W, D \cup {t})
  BY DEF Places, AllRest
<1>7. Low(B, P, L, W, D \cup {t})
  BY DEF Places, Low
<1>8. InOrder(L, W, D \cup {t})
  BY DEF Places, InOrder, Before
<1> QED BY <1>1, <1>2, <1>3, <1>4, <1>5, <1>6, <1>7, <1>8, Zenon

(* Refusals grow, a flow ends, the queue is emptied. *)
LEMMA MoveWeak ==
    ASSUME NEW H, NEW B, NEW K, NEW P, NEW L, NEW W, NEW D, NEW sent, NEW open,
           GapFree(H, B, K, P, L, W, D, sent, open),
           NEW C, K \subseteq C, NEW V, NEW s, s => sent, NEW o, o => open,
           V = W \/ (V = {} /\ ~o)
    PROVE  GapFree(H, B, C, P, L, V, D, s, o)
<1>1. CASE V = W
  BY <1>1 DEF GapFree, NoGap, MissNoGap, Joined, AllRest
<1>2. CASE V = {} /\ ~o
  <2> USE <1>2 DEF GapFree
  <2>0. \A f, v, u : v \in L /\ u \in W => ~Between(u, f, v)
    BY DEF Places, InOrder, Before, Between
  <2>1. Places(H, B, P, L, {}, D)
    BY DEF Places
  <2>2. NoGap(H, B, C) /\ MissNoGap(H, B, C, P)
    BY DEF NoGap, MissNoGap
  <2>3. LiveNoGap(H, L, {})
    BY <2>0, Zenon DEF LiveNoGap
  <2>4. s => Joined(H, B, C, P, L, {})
    BY <2>0, Zenon DEF Joined
  <2>5. Low(B, P, L, {}, D) /\ InOrder(L, {}, D)
    BY DEF Low, InOrder, Before
  <2> QED BY <2>1, <2>2, <2>3, <2>4, <2>5, Zenon
<1> QED BY <1>1, <1>2

(* The first number that waits is queued. *)
LEMMA MovePublish ==
    ASSUME NEW H, NEW B, NEW K, NEW P, NEW L, NEW W, NEW D, NEW sent, NEW open,
           GapFree(H, B, K, P, L, W, D, sent, open),
           open, NEW t \in D, \A u \in D : t <= u
    PROVE  GapFree(H, B, K, P, L, W \cup {t}, D \ {t}, sent, open)
<1> USE DEF GapFree
<1>0. \A u : u \in P \cup L \cup W \cup D => u \in H /\ u \in Nat
  BY DEF Places
<1>a. t \in Nat /\ (\A u \in L \cup W : u < t) /\ (\A u \in D \ {t} : t < u /\ ~(u < t))
  <2>1. \A u \in L \cup W : u < t
    BY DEF InOrder, Before
  <2>2. t \in Nat /\ \A u \in D \ {t} : t < u /\ ~(u < t)
    BY <1>0
  <2> QED BY <2>1, <2>2
<1>b. \A u, f : Between(u, f, t) => u \notin D
  <2>1. \A u, f : Between(u, f, t) => u < t
    BY DEF Between
  <2>2. ~(t < t)
    BY <1>a
  <2> QED BY <1>a, <2>1, <2>2
<1>c. \A f : \A u \in H, v \in L \cup W \cup {t} : Between(u, f, v) => f < u /\ f # t
  <2>1. \A u \in H : u \in Nat
    BY DEF Places
  <2>2. \A v \in L \cup W \cup {t} : v \in Nat /\ v <= t
    BY <1>0, <1>a
  <2> QED BY <2>1, <2>2, <1>a DEF Between
<1>1. Places(H, B, P, L, W \cup {t}, D \ {t})
  BY DEF Places
<1>2. NoGap(H, B, K)
  BY DEF Places, NoGap, Between
<1>3. MissNoGap(H, B, K, P)
  BY DEF Places, MissNoGap, Between
<1>4. LiveNoGap(H, L, W \cup {t})
  BY <1>b, <1>c DEF LiveNoGap, LiveRest
<1>5. sent => Joined(H, B, K, P, L, W \cup {t})
  BY <1>b, <1>c DEF Joined, AllRest
<1>6. Rest(H, D \ {t})
  BY <1>a DEF Rest, Places
<1>7. open => LiveRest(H, L, W \cup {t}, D \ {t})
  BY DEF Places, LiveRest, Rest
<1>8. open /\ sent => AllRest(H, B, K, P, L, W \cup {t}, D \ {t})
  BY DEF Places, AllRest
<1>9. Low(B, P, L, W \cup {t}, D \ {t})
  BY DEF Places, Low
<1>10. InOrder(L, W \cup {t}, D \ {t})
  BY <1>a DEF InOrder, Before
<1> QED BY <1>1, <1>2, <1>3, <1>4, <1>5, <1>6, <1>7, <1>8, <1>9, <1>10, Zenon

(* What waits is lost for the queue. *)
LEMMA MoveDrop ==
    ASSUME NEW H, NEW B, NEW K, NEW P, NEW L, NEW W, NEW D, NEW sent, NEW open,
           GapFree(H, B, K, P, L, W, D, sent, open),
           NEW E, E \subseteq D, Rest(H, E), NEW o, ~o
    PROVE  GapFree(H, B, K, P, L, W, E, sent, o)
<1> USE DEF GapFree
<1>1. Places(H, B, P, L, W, E)
  BY DEF Places
<1>2. NoGap(H, B, K)
  BY DEF Places, NoGap, Between
<1>3. MissNoGap(H, B, K, P)
  BY DEF Places, MissNoGap, Between
<1>4. LiveNoGap(H, L, W)
  BY DEF Places, LiveNoGap, Between
<1>5. sent => Joined(H, B, K, P, L, W)
  BY DEF Places, Joined, Between
<1>6. Rest(H, E)
  BY DEF Places, Rest
<1>7. Low(B, P, L, W, E)
  BY DEF Places, Low
<1>8. InOrder(L, W, E)
  BY DEF Places, InOrder, Before
<1> QED BY <1>1, <1>2, <1>3, <1>4, <1>5, <1>6, <1>7, <1>8, Zenon

(* The first number of the queue goes on its way. *)
LEMMA MoveForward ==
    ASSUME NEW H, NEW B, NEW K, NEW P, NEW L, NEW W, NEW D, NEW sent, NEW open,
           GapFree(H, B, K, P, L, W, D, sent, open),
           NEW t \in W, \A u \in W : t <= u
    PROVE  GapFree(H, B, K, P, L \cup {t}, W \ {t}, D, sent, open)
<1> USE DEF GapFree
<1>0. \A u : u \in P \cup L \cup W \cup D => u \in H /\ u \in Nat
  BY DEF Places
<1>a. \A u \in W \ {t} : t < u
  BY <1>0
<1>1. Places(H, B, P, L \cup {t}, W \ {t}, D)
  BY DEF Places
<1>2. NoGap(H, B, K)
  BY DEF Places, NoGap, Between
<1>3. MissNoGap(H, B, K, P)
  BY DEF Places, MissNoGap, Between
<1>4. LiveNoGap(H, L \cup {t}, W \ {t})
  BY DEF Places, LiveNoGap, Between
<1>5. sent => Joined(H, B, K, P, L \cup {t}, W \ {t})
  BY DEF Places, Joined, Between
<1>6. Rest(H, D)
  BY DEF Places, Rest
<1>7. open => LiveRest(H, L \cup {t}, W \ {t}, D)
  BY DEF Places, LiveRest
<1>8. open /\ sent => AllRest(H, B, K, P, L \cup {t}, W \ {t}, D)
  BY DEF Places, AllRest
<1>9. Low(B, P, L \cup {t}, W \ {t}, D)
  BY DEF Places, Low
<1>10. InOrder(L \cup {t}, W \ {t}, D)
  BY <1>a DEF InOrder, Before
<1> QED BY <1>1, <1>2, <1>3, <1>4, <1>5, <1>6, <1>7, <1>8, <1>9, <1>10, Zenon

(* The connection is made anew; a queue is subscribed to before what was missed is sent. *)
LEMMA MoveAnew ==
    ASSUME NEW H, NEW B, NEW K, NEW P, NEW L, NEW W, NEW D, NEW sent, NEW open,
           GapFree(H, B, K, P, L, W, D, sent, open), NEW s, NEW o, ~s \/ ~o
    PROVE  GapFree(H, B, K, {}, {}, {}, D, s, o)
<1> USE DEF GapFree
<1>1. Places(H, B, {}, {}, {}, D) /\ NoGap(H, B, K) /\ Rest(H, D)
  BY DEF Places
<1>2. MissNoGap(H, B, K, {}) /\ LiveNoGap(H, {}, {}) /\ Joined(H, B, K, {}, {}, {})
  BY DEF MissNoGap, LiveNoGap, Joined
<1>3. LiveRest(H, {}, {}, D) /\ Low(B, {}, {}, {}, D) /\ InOrder({}, {}, D)
  BY DEF LiveRest, Low, InOrder, Before
<1> QED BY <1>1, <1>2, <1>3, Zenon

(* All that is later than the latest number is sent. *)
LEMMA MoveHistory ==
    ASSUME NEW H, NEW B, NEW K, NEW P, NEW L, NEW W, NEW D, NEW sent, NEW open,
           GapFree(H, B, K, P, L, W, D, sent, open),
           P = {}, NEW a \in B, \A u \in B : u <= a, NEW s
    PROVE  GapFree(H, B, K, {u \in H : u > a}, L, W, D, s, open)
<1> USE DEF GapFree
<1>1. Places(H, B, {u \in H : u > a}, L, W, D)
  BY DEF Places
<1>2. NoGap(H, B, K)
  BY DEF Places, NoGap, Between
<1>3. MissNoGap(H, B, K, {u \in H : u > a})
  BY DEF Places, NoGap, MissNoGap, Between
<1>4. LiveNoGap(H, L, W)
  BY DEF Places, LiveNoGap, Between
<1>5. s => Joined(H, B, K, {u \in H : u > a}, L, W)
  BY DEF Places, NoGap, Joined, Between
<1>6. Rest(H, D)
  BY DEF Places, Rest
<1>7. open => LiveRest(H, L, W, D)
  BY DEF Places, LiveRest
<1>8. open /\ s => AllRest(H, B, K, {u \in H : u > a}, L, W, D)
  BY DEF Places, NoGap, AllRest, Between
<1>9. Low(B, {u \in H : u > a}, L, W, D)
  BY DEF Places, Low
<1>10. InOrder(L, W, D)
  BY DEF Places, InOrder, Before
<1> QED BY <1>1, <1>2, <1>3, <1>4, <1>5, <1>6, <1>7, <1>8, <1>9, <1>10, Zenon

(* Nothing was missed of an item of which the downstream has nothing. *)
LEMMA MoveNoHistory ==
    ASSUME NEW H, NEW B, NEW K, NEW P, NEW L, NEW W, NEW D, NEW sent, NEW open,
           GapFree(H, B, K, P, L, W, D, sent, open),
           B = {}, P = {}, NEW s
    PROVE  GapFree(H, B, K, P, L, W, D, s, open)
<1> USE DEF GapFree
<1>1. Places(H, B, P, L, W, D)
  BY DEF Places
<1>2. NoGap(H, B, K)
  BY DEF Places, NoGap, Between
<1>3. MissNoGap(H, B, K, P)
  BY DEF Places, MissNoGap, Between
<1>4. LiveNoGap(H, L, W)
  BY DEF Places, LiveNoGap, Between
<1>5. s => Joined(H, B, K, P, L, W)
  BY DEF Places, Joined, Between
<1>6. Rest(H, D)
  BY DEF Places, Rest
<1>7. open => LiveRest(H, L, W, D)
  BY DEF Places, LiveRest
<1>8. open /\ s => AllRest(H, B, K, P, L, W, D)
  BY DEF Places, AllRest
<1>9. Low(B, P, L, W, D)
  BY DEF Places, Low
<1>10. InOrder(L, W, D)
  BY DEF Places, InOrder, Before
<1> QED BY <1>1, <1>2, <1>3, <1>4, <1>5, <1>6, <1>7, <1>8, <1>9, <1>10, Zenon

(* The first of the missed numbers is saved. *)
LEMMA MoveSaveMissing ==
    ASSUME NEW H, NEW B, NEW K, NEW P, NEW L, NEW W, NEW D, NEW sent, NEW open,
           GapFree(H, B, K, P, L, W, D, sent, open),
           NEW t \in P, \A u \in P : t <= u
    PROVE  GapFree(H, B \cup {t}, K, P \ {t}, L, W, D, sent, open)
<1> USE DEF GapFree
<1>1. Places(H, B \cup {t}, P \ {t}, L, W, D)
  BY DEF Places
<1>2. NoGap(H, B \cup {t}, K)
  BY DEF Places, NoGap, MissNoGap, Low, Between
<1>3. MissNoGap(H, B \cup {t}, K, P \ {t})
  BY DEF Places, MissNoGap, Between
<1>4. LiveNoGap(H, L, W)
  BY DEF Places, LiveNoGap, Between
<1>5. sent => Joined(H, B \cup {t}, K, P \ {t}, L, W)
  BY DEF Places, Joined, Between
<1>6. Rest(H, D)
  BY DEF Places, Rest
<1>7. open => LiveRest(H, L, W, D)
  BY DEF Places, LiveRest
<1>8. open /\ sent => AllRest(H, B \cup {t}, K, P \ {t}, L, W, D)
  BY DEF Places, AllRest
<1>9. Low(B \cup {t}, P \ {t}, L, W, D)
  BY DEF Places, Low
<1>10. InOrder(L, W, D)
  BY DEF Places, InOrder, Before
<1> QED BY <1>1, <1>2, <1>3, <1>4, <1>5, <1>6, <1>7, <1>8, <1>9, <1>10, Zenon

(* It is refused. *)
LEMMA MoveRefuseMissing ==
    ASSUME NEW H, NEW B, NEW K, NEW P, NEW L, NEW W, NEW D, NEW sent, NEW open,
           GapFree(H, B, K, P, L, W, D, sent, open),
           NEW t \in P, NEW C, C = K \cup {t}
    PROVE  GapFree(H, B, C, P \ {t}, L, W, D, sent, open)
<1> USE DEF GapFree
<1>1. Places(H, B, P \ {t}, L, W, D)
  BY DEF Places
<1>2. NoGap(H, B, C)
  BY DEF Places, NoGap, Between
<1>3. MissNoGap(H, B, C, P \ {t})
  BY DEF Places, MissNoGap, Between
<1>4. LiveNoGap(H, L, W)
  BY DEF Places, LiveNoGap, Between
<1>5. sent => Joined(H, B, C, P \ {t}, L, W)
  BY DEF Places, Joined, Between
<1>6. Rest(H, D)
  BY DEF Places, Rest
<1>7. open => LiveRest(H, L, W, D)
  BY DEF Places, LiveRest
<1>8. open /\ sent => AllRest(H, B, C, P \ {t}, L, W, D)
  BY DEF Places, AllRest
<1>9. Low(B, P \ {t}, L, W, D)
  BY DEF Places, Low
<1>10. InOrder(L, W, D)
  BY DEF Places, InOrder, Before
<1> QED BY <1>1, <1>2, <1>3, <1>4, <1>5, <1>6, <1>7, <1>8, <1>9, <1>10, Zenon

(* The first live number is saved: what was missed has been. *)
LEMMA MoveSaveLive ==
    ASSUME NEW H, NEW B, NEW K, NEW P, NEW L, NEW W, NEW D, NEW sent, NEW open,
           GapFree(H, B, K, P, L, W, D, sent, open),
           P = {}, sent, NEW t \in L, \A u \in L : t <= u
    PROVE  GapFree(H, B \cup {t}, K, P, L \ {t}, W, D, sent, open)
<1> USE DEF GapFree
<1>0. \A u : u \in P \cup L \cup W \cup D => u \in H /\ u \in Nat
  BY DEF Places
<1>a. \A u \in (L \ {t}) \cup W : t < u
  <2>1. \A u \in L \ {t} : t < u
    BY <1>0
  <2>2. \A u \in W : t < u
    BY DEF InOrder, Before
  <2> QED BY <2>1, <2>2
<1>b. \A f \in (L \ {t}) \cup W, u \in H : f < u => u # t
  <2>1. \A f \in (L \ {t}) \cup W : f \in Nat /\ t < f /\ ~(f < t)
    BY <1>0, <1>a
  <2> QED BY <2>1
<1>d. t \in Nat /\ \A u \in L \cup W \cup D : t <= u
  <2>1. \A u \in D : t < u
    BY DEF InOrder, Before
  <2> QED BY <1>0, <1>a, <2>1
<1>1. Places(H, B \cup {t}, P, L \ {t}, W, D)
  BY DEF Places
<1>2. NoGap(H, B \cup {t}, K)
  BY DEF Places, InOrder, Before, Between, NoGap, Joined, Low
<1>3. MissNoGap(H, B \cup {t}, K, P)
  BY DEF Places, MissNoGap, Between
<1>4. LiveNoGap(H, L \ {t}, W)
  BY DEF Places, InOrder, Before, Between, LiveNoGap
<1>5. sent => Joined(H, B \cup {t}, K, P, L \ {t}, W)
  BY DEF Places, InOrder, Before, Between, Joined, LiveNoGap
<1>6. Rest(H, D)
  BY DEF Places, Rest
<1>7. open => LiveRest(H, L \ {t}, W, D)
  BY <1>b DEF LiveRest
<1>8. open /\ sent => AllRest(H, B \cup {t}, K, P, L \ {t}, W, D)
  BY DEF Places, InOrder, Before, AllRest, LiveRest
<1>9. Low(B \cup {t}, P, L \ {t}, W, D)
  BY <1>a, <1>d DEF Low
<1>10. InOrder(L \ {t}, W, D)
  BY DEF Places, InOrder, Before
<1> QED BY <1>1, <1>2, <1>3, <1>4, <1>5, <1>6, <1>7, <1>8, <1>9, <1>10, Zenon

(* It is refused. *)
LEMMA MoveRefuseLive ==
    ASSUME NEW H, NEW B, NEW K, NEW P, NEW L, NEW W, NEW D, NEW sent, NEW open,
           GapFree(H, B, K, P, L, W, D, sent, open),
           NEW t \in L, \A u \in L : t <= u, NEW C, C = K \cup {t}
    PROVE  GapFree(H, B, C, P, L \ {t}, W, D, sent, open)
<1> USE DEF GapFree
<1>0. \A u : u \in P \cup L \cup W \cup D => u \in H /\ u \in Nat
  BY DEF Places
<1>a. \A u \in (L \ {t}) \cup W : t < u
  <2>1. \A u \in L \ {t} : t < u
    BY <1>0
  <2>2. \A u \in W : t < u
    BY DEF InOrder, Before
  <2> QED BY <2>1, <2>2
<1>b. \A f \in (L \ {t}) \cup W, u \in H : f < u => u # t
  <2>1. \A f \in (L \ {t}) \cup W : f \in Nat /\ t < f /\ ~(f < t)
    BY <1>0, <1>a
  <2> QED BY <2>1
<1>1. Places(H, B, P, L \ {t}, W, D)
  BY DEF Places
<1>2. NoGap(H, B, C)
  BY DEF Places, NoGap, Between
<1>3. MissNoGap(H, B, C, P)
  BY DEF Places, MissNoGap, Between
<1>4. LiveNoGap(H, L \ {t}, W)
  BY DEF Places, InOrder, Before, Between, LiveNoGap
<1>5. sent => Joined(H, B, C, P, L \ {t}, W)
  BY DEF Places, InOrder, Before, Between, Joined
<1>6. Rest(H, D)
  BY DEF Places, Rest
<1>7. open => LiveRest(H, L \ {t}, W, D)
  BY <1>b DEF LiveRest
<1>8. open /\ sent => AllRest(H, B, C, P, L \ {t}, W, D)
  BY DEF Places, AllRest
<1>9. Low(B, P, L \ {t}, W, D)
  BY DEF Places, Low
<1>10. InOrder(L \ {t}, W, D)
  BY DEF Places, InOrder, Before
<1> QED BY <1>1, <1>2, <1>3, <1>4, <1>5, <1>6, <1>7, <1>8, <1>9, <1>10, Zenon

-----------------------------------------------------------------------------
(* The series *)

LEMMA SeriesIs ==
    ASSUME NEW x \in Series
    PROVE  x = RowSeries \/ (~ReplayMayOvertake /\ \E i \in Items : x = <<i>>)
BY DEF Series

LEMMA PointSeries ==
    \A i : <<i>> # RowSeries /\ <<i>>[1] = i /\ \A j : <<i>> = <<j>> <=> i = j
BY DEF RowSeries

LEMMA InRow ==
    ASSUME NEW m
    PROVE  /\ In(m, "live", RowSeries) = IF m.type = "status" THEN {m.row} ELSE {}
           /\ In(m, "miss", RowSeries) = IF m.type = "missStatus" THEN m.rows ELSE {}
BY PointSeries DEF In

LEMMA InPoint ==
    ASSUME NEW m, NEW i
    PROVE  /\ In(m, "live", <<i>>) = IF m.type = "data" /\ m.item = i THEN {m.ts} ELSE {}
           /\ In(m, "miss", <<i>>) = IF m.type = "missData" /\ m.item = i THEN m.points ELSE {}
BY PointSeries DEF In

LEMMA OnDef ==
    ASSUME NEW q, NEW k, NEW x
    PROVE  \A u : u \in On(q, k, x) <=> \E n \in DOMAIN q : u \in In(q[n], k, x)
BY DEF On

LEMMA AscDef ==
    ASSUME NEW q, NEW k, NEW x
    PROVE  Asc(q, k, x) <=>
           \A m, n \in DOMAIN q : m < n => Before(In(q[m], k, x), In(q[n], k, x))
BY DEF Asc

LEMMA OnEmpty == \A k, x : On(<<>>, k, x) = {} /\ Asc(<<>>, k, x)
BY DEF On, Asc

LEMMA OnAppend ==
    ASSUME NEW S, NEW q \in Seq(S), NEW f, NEW k, NEW x
    PROVE  /\ On(Append(q, f), k, x) = On(q, k, x) \cup In(f, k, x)
           /\ Asc(q, k, x) /\ Before(On(q, k, x), In(f, k, x)) => Asc(Append(q, f), k, x)
<1> DEFINE a == Append(q, f)
<1>0. /\ \A n \in DOMAIN a : \/ n \in DOMAIN q /\ a[n] = q[n]
                             \/ n = Len(q) + 1 /\ a[n] = f
      /\ \A n \in DOMAIN q : n \in DOMAIN a /\ a[n] = q[n] /\ n \in Nat /\ n < Len(q) + 1
      /\ Len(q) + 1 \in DOMAIN a /\ a[Len(q) + 1] = f /\ Len(q) \in Nat
  BY AppendIndex
<1> HIDE DEF a
<1>1. On(a, k, x) = On(q, k, x) \cup In(f, k, x)
  <2>1. \A u : u \in On(a, k, x) => u \in On(q, k, x) \cup In(f, k, x)
    BY <1>0, OnDef, Zenon
  <2>2. \A u : u \in On(q, k, x) => u \in On(a, k, x)
    BY <1>0, OnDef, Zenon
  <2>3. \A u : u \in In(f, k, x) => u \in On(a, k, x)
    BY <1>0, OnDef, Zenon
  <2> QED BY <2>1, <2>2, <2>3
<1>2. ASSUME Asc(q, k, x), Before(On(q, k, x), In(f, k, x)) PROVE Asc(a, k, x)
  <2> SUFFICES ASSUME NEW m \in DOMAIN a, NEW n \in DOMAIN a, m < n
               PROVE  Before(In(a[m], k, x), In(a[n], k, x))
    BY AscDef, Zenon
  <2>1. m \in DOMAIN q /\ a[m] = q[m]
    BY <1>0
  <2>2. CASE n \in DOMAIN q /\ a[n] = q[n]
    BY <1>2, <2>1, <2>2, AscDef
  <2>3. CASE a[n] = f
    <3>1. \A u : u \in In(a[m], k, x) => u \in On(q, k, x)
      BY <2>1, OnDef, Zenon
    <3> QED BY <1>2, <2>3, <3>1, Zenon DEF Before
  <2> QED BY <1>0, <2>2, <2>3, Zenon
<1> QED BY <1>1, <1>2 DEF a

LEMMA OnTail ==
    ASSUME NEW S, NEW q \in Seq(S), q # <<>>, NEW k, NEW x
    PROVE  /\ On(q, k, x) = In(Head(q), k, x) \cup On(Tail(q), k, x)
           /\ Asc(q, k, x) => /\ Asc(Tail(q), k, x)
                              /\ Before(In(Head(q), k, x), On(Tail(q), k, x))
<1> DEFINE a == Tail(q)
           h == Head(q)
<1>0. /\ 1 \in DOMAIN q /\ q[1] = h
      /\ \A n \in DOMAIN q : n = 1 \/ (n - 1 \in DOMAIN a /\ a[n - 1] = q[n])
      /\ \A n \in DOMAIN a : n \in Nat /\ 1 <= n /\ n + 1 \in DOMAIN q /\ a[n] = q[n + 1]
  BY TailIndex
<1> HIDE DEF a, h
<1>1. On(q, k, x) = In(h, k, x) \cup On(a, k, x)
  <2>1. \A u : u \in On(q, k, x) => u \in In(h, k, x) \cup On(a, k, x)
    <3> SUFFICES ASSUME NEW u \in On(q, k, x) PROVE u \in In(h, k, x) \cup On(a, k, x)
      BY Zenon
    <3>1. PICK n \in DOMAIN q : u \in In(q[n], k, x)
      BY OnDef, Zenon
    <3>2. n = 1 \/ (n - 1 \in DOMAIN a /\ a[n - 1] = q[n])
      BY <1>0
    <3> QED BY <1>0, <3>1, <3>2, OnDef, Zenon
  <2>2. \A u : u \in On(a, k, x) => u \in On(q, k, x)
    <3> SUFFICES ASSUME NEW u \in On(a, k, x) PROVE u \in On(q, k, x)
      BY Zenon
    <3>1. PICK n \in DOMAIN a : u \in In(a[n], k, x)
      BY OnDef, Zenon
    <3>2. n + 1 \in DOMAIN q /\ a[n] = q[n + 1]
      BY <1>0
    <3> QED BY <3>1, <3>2, OnDef, Zenon
  <2>3. \A u : u \in In(h, k, x) => u \in On(q, k, x)
    BY <1>0, OnDef, Zenon
  <2> QED BY <2>1, <2>2, <2>3
<1>2. ASSUME Asc(q, k, x) PROVE Asc(a, k, x)
  <2> SUFFICES ASSUME NEW m \in DOMAIN a, NEW n \in DOMAIN a, m < n
               PROVE  Before(In(a[m], k, x), In(a[n], k, x))
    BY AscDef, Zenon
  <2>1. m + 1 \in DOMAIN q /\ a[m] = q[m + 1] /\ n + 1 \in DOMAIN q /\ a[n] = q[n + 1]
        /\ m + 1 < n + 1
    BY <1>0
  <2> QED BY <1>2, <2>1, AscDef
<1>3. ASSUME Asc(q, k, x) PROVE Before(In(h, k, x), On(a, k, x))
  <2> SUFFICES ASSUME NEW b \in In(h, k, x), NEW u \in On(a, k, x) PROVE b < u
    BY DEF Before
  <2>1. PICK n \in DOMAIN a : u \in In(a[n], k, x)
    BY OnDef, Zenon
  <2>2. n + 1 \in DOMAIN q /\ a[n] = q[n + 1] /\ 1 < n + 1 /\ 1 \in DOMAIN q /\ q[1] = h
    BY <1>0
  <2>3. Before(In(q[1], k, x), In(q[n + 1], k, x))
    BY <1>3, <2>2, AscDef
  <2> QED BY <2>1, <2>2, <2>3, Zenon DEF Before
<1> QED BY <1>1, <1>2, <1>3 DEF a, h

(* The first frame carries less than before. *)
LEMMA OnReplaced ==
    ASSUME NEW S, NEW q \in Seq(S), q # <<>>, NEW f, NEW k, NEW x,
           In(f, k, x) \subseteq In(Head(q), k, x)
    PROVE  /\ On([q EXCEPT ![1] = f], k, x) = In(f, k, x) \cup On(Tail(q), k, x)
           /\ Asc(q, k, x) => Asc([q EXCEPT ![1] = f], k, x)
<1> DEFINE a == [q EXCEPT ![1] = f]
           t == Tail(q)
<1>0. /\ DOMAIN a = DOMAIN q /\ 1 \in DOMAIN q /\ q[1] = Head(q) /\ a[1] = f
      /\ \A n \in DOMAIN q : n # 1 => a[n] = q[n]
      /\ \A n \in DOMAIN q : n \in Nat /\ 1 <= n
  BY ReplacedIndex
<1>t. /\ \A n \in DOMAIN q : n = 1 \/ (n - 1 \in DOMAIN t /\ t[n - 1] = q[n])
      /\ \A n \in DOMAIN t : n \in Nat /\ 1 <= n /\ n + 1 \in DOMAIN q /\ t[n] = q[n + 1]
  BY TailIndex
<1> HIDE DEF a, t
<1>1. On(a, k, x) = In(f, k, x) \cup On(t, k, x)
  <2>1. ASSUME NEW u \in On(a, k, x) PROVE u \in In(f, k, x) \cup On(t, k, x)
    <3>1. PICK n \in DOMAIN a : u \in In(a[n], k, x)
      BY OnDef, Zenon
    <3>2. n = 1 \/ (n - 1 \in DOMAIN t /\ t[n - 1] = a[n])
      BY <1>0, <1>t
    <3> QED BY <1>0, <3>1, <3>2, OnDef, Zenon
  <2>2. ASSUME NEW u \in On(t, k, x) PROVE u \in On(a, k, x)
    <3>1. PICK n \in DOMAIN t : u \in In(t[n], k, x)
      BY OnDef, Zenon
    <3>2. n + 1 \in DOMAIN a /\ t[n] = a[n + 1]
      BY <1>0, <1>t
    <3> QED BY <3>1, <3>2, OnDef, Zenon
  <2>3. \A u : u \in In(f, k, x) => u \in On(a, k, x)
    BY <1>0, OnDef, Zenon
  <2> QED BY <2>1, <2>2, <2>3
<1>2. ASSUME Asc(q, k, x) PROVE Asc(a, k, x)
  <2> SUFFICES ASSUME NEW m \in DOMAIN q, NEW n \in DOMAIN q, m < n
               PROVE  Before(In(a[m], k, x), In(a[n], k, x))
    BY <1>0, AscDef, Zenon
  <2>1. Before(In(q[m], k, x), In(q[n], k, x)) /\ a[n] = q[n]
    BY <1>0, <1>2, AscDef
  <2>2. In(a[m], k, x) \subseteq In(q[m], k, x)
    BY <1>0
  <2> QED BY <2>1, <2>2, Zenon DEF Before
<1> QED BY <1>1, <1>2 DEF a, t

-----------------------------------------------------------------------------
(* What is on the wires of a series *)

LEMMA SameWires ==
    ASSUME UNCHANGED version
    PROVE  \A x : MissWire(x)' = MissWire(x) /\ LiveWire(x)' = LiveWire(x)
<1>1. \A ty : Stream(ty)' = Stream(ty)
  BY SameStream
<1>2. \A x : (x = RowSeries)' <=> x = RowSeries
  BY DEF RowSeries
<1> QED BY <1>1, <1>2 DEF MissWire, LiveWire, RowSeries

(* A frame that carries some of a series is on its wire. *)
LEMMA WireTypes ==
    ASSUME NEW m, NEW x
    PROVE  /\ In(m, "miss", x) # {} => Stream(m.type) = MissWire(x)
           /\ In(m, "live", x) # {} => Stream(m.type) = LiveWire(x)
<1>1. ASSUME In(m, "miss", x) # {}
      PROVE  m.type = (IF x = RowSeries THEN "missStatus" ELSE "missData")
  BY <1>1, PointSeries DEF In
<1>2. ASSUME In(m, "live", x) # {}
      PROVE  m.type = (IF x = RowSeries THEN "status" ELSE "data")
  BY <1>2, PointSeries DEF In
<1> QED BY <1>1, <1>2, Zenon DEF MissWire, LiveWire

LEMMA WireIs ==
    \A x : \E u, v : MissWire(x) = Stream(u) /\ LiveWire(x) = Stream(v)
BY DEF MissWire, LiveWire

LEMMA WiresKept ==
    ASSUME UNCHANGED <<version, u2d>>, NEW x
    PROVE  Missing(x)' = Missing(x) /\ Live(x)' = Live(x) /\ (WiresOrdered(x) => WiresOrdered(x)')
BY SameWires, Zenon DEF Missing, Live, WiresOrdered

LEMMA WiresArrive ==
    ASSUME TypeOK, UNCHANGED version, NEW m, u2d' = Arrives(m), NEW x
    PROVE  /\ Missing(x)' = IF broken THEN Missing(x) ELSE Missing(x) \cup In(m, "miss", x)
           /\ Live(x)' = IF broken THEN Live(x) ELSE Live(x) \cup In(m, "live", x)
           /\ WiresOrdered(x) /\ (broken \/ (/\ Before(Missing(x), In(m, "miss", x))
                                             /\ Before(Live(x), In(m, "live", x))))
              => WiresOrdered(x)'
<1> DEFINE a(s) == Arrives(m)[s]
<1>1. ASSUME NEW ty, NEW k, In(m, k, x) = {} \/ Stream(m.type) = Stream(ty)
      PROVE  LET q == u2d[Stream(ty)]
             IN  /\ On(a(Stream(ty)), k, x) = IF broken THEN On(q, k, x)
                                              ELSE On(q, k, x) \cup In(m, k, x)
                 /\ Asc(q, k, x) /\ (broken \/ Before(On(q, k, x), In(m, k, x)))
                    => Asc(a(Stream(ty)), k, x)
  <2> DEFINE q == u2d[Stream(ty)]
  <2>1. a(Stream(ty)) = IF broken \/ Stream(ty) # Stream(m.type) THEN q ELSE Append(q, m)
    BY ArrivesAt
  <2>2. q \in Seq(Frame)
    BY StreamSeq
  <2>3. /\ On(Append(q, m), k, x) = On(q, k, x) \cup In(m, k, x)
        /\ Asc(q, k, x) /\ Before(On(q, k, x), In(m, k, x)) => Asc(Append(q, m), k, x)
    <3> HIDE DEF q
    <3> QED BY <2>2, OnAppend
  <2> HIDE DEF a, q
  <2>4. CASE broken
    BY <2>1, <2>4 DEF q
  <2>5. CASE ~broken /\ Stream(ty) = Stream(m.type)
    BY <2>1, <2>3, <2>5 DEF q
  <2>6. CASE ~broken /\ Stream(ty) # Stream(m.type)
    <3>1. In(m, k, x) = {} /\ a(Stream(ty)) = q
      BY <1>1, <2>1, <2>6
    <3> QED BY <2>6, <3>1 DEF q
  <2> QED BY <2>4, <2>5, <2>6
<1>2. PICK u, v : MissWire(x) = Stream(u) /\ LiveWire(x) = Stream(v)
  BY WireIs
<1>3. /\ In(m, "miss", x) = {} \/ Stream(m.type) = Stream(u)
      /\ In(m, "live", x) = {} \/ Stream(m.type) = Stream(v)
  BY <1>2, WireTypes
<1>4. /\ Missing(x)' = On(a(Stream(u)), "miss", x) /\ Live(x)' = On(a(Stream(v)), "live", x)
      /\ Missing(x) = On(u2d[Stream(u)], "miss", x) /\ Live(x) = On(u2d[Stream(v)], "live", x)
      /\ WiresOrdered(x) = (/\ Asc(u2d[Stream(u)], "miss", x)
                            /\ Asc(u2d[Stream(v)], "live", x))
      /\ WiresOrdered(x)' = (Asc(a(Stream(u)), "miss", x) /\ Asc(a(Stream(v)), "live", x))
  BY <1>2, SameWires, Zenon DEF Missing, Live, WiresOrdered
<1> HIDE DEF a
<1>5. /\ On(a(Stream(u)), "miss", x) = IF broken THEN On(u2d[Stream(u)], "miss", x)
                          ELSE On(u2d[Stream(u)], "miss", x) \cup In(m, "miss", x)
      /\ (/\ Asc(u2d[Stream(u)], "miss", x)
          /\ broken \/ Before(On(u2d[Stream(u)], "miss", x), In(m, "miss", x)))
         => Asc(a(Stream(u)), "miss", x)
  BY <1>1, <1>3
<1>6. /\ On(a(Stream(v)), "live", x) = IF broken THEN On(u2d[Stream(v)], "live", x)
                          ELSE On(u2d[Stream(v)], "live", x) \cup In(m, "live", x)
      /\ (/\ Asc(u2d[Stream(v)], "live", x)
          /\ broken \/ Before(On(u2d[Stream(v)], "live", x), In(m, "live", x)))
         => Asc(a(Stream(v)), "live", x)
  BY <1>1, <1>3
<1> QED BY <1>4, <1>5, <1>6, Zenon

LEMMA WiresTaken ==
    ASSUME TypeOK, UNCHANGED version, NEW ty, Receives(ty), u2d' = Taken(ty), NEW x
    PROVE  LET h == Head(u2d[Stream(ty)])
           IN  /\ h.type = ty
               /\ Missing(x) = In(h, "miss", x) \cup Missing(x)'
               /\ Live(x) = In(h, "live", x) \cup Live(x)'
               /\ WiresOrdered(x) => /\ WiresOrdered(x)'
                                     /\ Before(In(h, "miss", x), Missing(x)')
                                     /\ Before(In(h, "live", x), Live(x)')
<1> DEFINE h == Head(u2d[Stream(ty)])
           a(s) == Taken(ty)[s]
<1>0. h.type = ty /\ u2d[Stream(ty)] # <<>>
  BY DEF Receives
<1>1. ASSUME NEW tw, NEW k, In(h, k, x) = {} \/ Stream(ty) = Stream(tw)
      PROVE  LET q == u2d[Stream(tw)]
             IN  /\ On(q, k, x) = In(h, k, x) \cup On(a(Stream(tw)), k, x)
                 /\ Asc(q, k, x) => /\ Asc(a(Stream(tw)), k, x)
                                    /\ Before(In(h, k, x), On(a(Stream(tw)), k, x))
  <2> DEFINE q == u2d[Stream(tw)]
  <2>1. a(Stream(tw)) = IF Stream(tw) = Stream(ty) THEN Tail(q) ELSE q
    BY TakenAt
  <2>2. q \in Seq(Frame)
    BY StreamSeq
  <2>3. CASE Stream(tw) = Stream(ty)
    <3>0. q # <<>> /\ h = Head(q)
      BY <1>0, <2>3
    <3>1. /\ On(q, k, x) = In(Head(q), k, x) \cup On(Tail(q), k, x)
          /\ Asc(q, k, x) => /\ Asc(Tail(q), k, x)
                             /\ Before(In(Head(q), k, x), On(Tail(q), k, x))
      <4> HIDE DEF q
      <4> QED BY <2>2, <3>0, OnTail
    <3>2. a(Stream(tw)) = Tail(q)
      BY <2>1, <2>3
    <3> HIDE DEF a, h, q
    <3> QED BY <3>0, <3>1, <3>2 DEF q
  <2>4. CASE Stream(tw) # Stream(ty)
    <3>1. In(h, k, x) = {} /\ a(Stream(tw)) = q
      BY <1>1, <2>1, <2>4
    <3> HIDE DEF a, h, q
    <3> QED BY <3>1 DEF q, Before
  <2> QED BY <2>3, <2>4
<1>2. PICK u, v : MissWire(x) = Stream(u) /\ LiveWire(x) = Stream(v)
  BY WireIs
<1>3. /\ In(h, "miss", x) = {} \/ Stream(ty) = Stream(u)
      /\ In(h, "live", x) = {} \/ Stream(ty) = Stream(v)
  BY <1>0, <1>2, WireTypes
<1>4. /\ Missing(x)' = On(a(Stream(u)), "miss", x) /\ Live(x)' = On(a(Stream(v)), "live", x)
      /\ Missing(x) = On(u2d[Stream(u)], "miss", x) /\ Live(x) = On(u2d[Stream(v)], "live", x)
      /\ WiresOrdered(x) = (/\ Asc(u2d[Stream(u)], "miss", x)
                            /\ Asc(u2d[Stream(v)], "live", x))
      /\ WiresOrdered(x)' = (Asc(a(Stream(u)), "miss", x) /\ Asc(a(Stream(v)), "live", x))
  BY <1>2, SameWires, Zenon DEF Missing, Live, WiresOrdered
<1> HIDE DEF a, h
<1>5. /\ On(u2d[Stream(u)], "miss", x) = In(h, "miss", x) \cup On(a(Stream(u)), "miss", x)
      /\ Asc(u2d[Stream(u)], "miss", x) =>
            /\ Asc(a(Stream(u)), "miss", x)
            /\ Before(In(h, "miss", x), On(a(Stream(u)), "miss", x))
  BY <1>1, <1>3
<1>6. /\ On(u2d[Stream(v)], "live", x) = In(h, "live", x) \cup On(a(Stream(v)), "live", x)
      /\ Asc(u2d[Stream(v)], "live", x) =>
            /\ Asc(a(Stream(v)), "live", x)
            /\ Before(In(h, "live", x), On(a(Stream(v)), "live", x))
  BY <1>1, <1>3
<1>7. /\ h.type = ty
      /\ Missing(x) = In(h, "miss", x) \cup Missing(x)'
      /\ Live(x) = In(h, "live", x) \cup Live(x)'
      /\ WiresOrdered(x) => /\ WiresOrdered(x)'
                            /\ Before(In(h, "miss", x), Missing(x)')
                            /\ Before(In(h, "live", x), Live(x)')
  BY <1>0, <1>4, <1>5, <1>6, Zenon
<1> QED BY <1>7 DEF h

LEMMA WiresNone ==
    ASSUME UNCHANGED version, u2d' = NoFrames, NEW x
    PROVE  Missing(x)' = {} /\ Live(x)' = {} /\ WiresOrdered(x)'
<1>1. u2d'[MissWire(x)'] = <<>> /\ u2d'[LiveWire(x)'] = <<>>
  <2>1. PICK u, v : MissWire(x) = Stream(u) /\ LiveWire(x) = Stream(v)
    BY WireIs
  <2> QED BY <2>1, SameWires, StreamIs DEF NoFrames
<1> QED BY <1>1, OnEmpty, Zenon DEF Missing, Live, WiresOrdered

(* The first frame of the missed numbers has become shorter. *)
LEMMA WiresShorter ==
    ASSUME TypeOK, UNCHANGED version, NEW ty \in {"missStatus", "missData"}, Receives(ty),
           NEW m, m.type = ty, u2d' = [u2d EXCEPT ![Stream(ty)][1] = m], NEW x,
           In(m, "miss", x) \subseteq In(Head(u2d[Stream(ty)]), "miss", x)
    PROVE  LET h == Head(u2d[Stream(ty)])
           IN  /\ \E rest : /\ Missing(x) = In(h, "miss", x) \cup rest
                            /\ Missing(x)' = In(m, "miss", x) \cup rest
                            /\ WiresOrdered(x) => Before(In(h, "miss", x), rest)
               /\ Live(x)' = Live(x)
               /\ WiresOrdered(x) => WiresOrdered(x)'
<1> DEFINE h == Head(u2d[Stream(ty)])
           a(s) == [u2d EXCEPT ![Stream(ty)][1] = m][s]
<1>0. h.type = ty /\ u2d[Stream(ty)] # <<>> /\ u2d[Stream(ty)] \in Seq(Frame)
  BY StreamSeq DEF Receives
<1>l. In(h, "live", x) = {} /\ In(m, "live", x) = {}
  BY <1>0 DEF In
<1>1. ASSUME NEW tw, NEW k, In(m, k, x) \subseteq In(h, k, x),
             In(h, k, x) = {} \/ Stream(ty) = Stream(tw)
      PROVE  LET q == u2d[Stream(tw)]
             IN  /\ \E rest : /\ On(q, k, x) = In(h, k, x) \cup rest
                              /\ On(a(Stream(tw)), k, x) = In(m, k, x) \cup rest
                              /\ Asc(q, k, x) => Before(In(h, k, x), rest)
                 /\ Asc(q, k, x) => Asc(a(Stream(tw)), k, x)
  <2> DEFINE q == u2d[Stream(tw)]
  <2>1. a(Stream(tw)) = IF Stream(tw) = Stream(ty) THEN [q EXCEPT ![1] = m] ELSE q
    BY ReplacedAt
  <2>2. q \in Seq(Frame)
    BY StreamSeq
  <2>3. CASE Stream(tw) = Stream(ty)
    <3>0. q # <<>> /\ h = Head(q)
      BY <1>0, <2>3
    <3>1. /\ On(q, k, x) = In(Head(q), k, x) \cup On(Tail(q), k, x)
          /\ Asc(q, k, x) => Before(In(Head(q), k, x), On(Tail(q), k, x))
      <4> HIDE DEF q
      <4> QED BY <2>2, <3>0, OnTail
    <3>2. /\ On([q EXCEPT ![1] = m], k, x) = In(m, k, x) \cup On(Tail(q), k, x)
          /\ Asc(q, k, x) => Asc([q EXCEPT ![1] = m], k, x)
      <4> HIDE DEF q, h
      <4> QED BY <1>1, <2>2, <3>0, OnReplaced
    <3>3. a(Stream(tw)) = [q EXCEPT ![1] = m]
      BY <2>1, <2>3
    <3> HIDE DEF a, h, q
    <3> QED BY <3>0, <3>1, <3>2, <3>3 DEF q
  <2>4. CASE Stream(tw) # Stream(ty)
    <3>1. In(h, k, x) = {} /\ In(m, k, x) = {} /\ a(Stream(tw)) = q
      BY <1>1, <2>1, <2>4
    <3> HIDE DEF a, h, q
    <3>2. /\ On(q, k, x) = In(h, k, x) \cup On(q, k, x)
          /\ On(a(Stream(tw)), k, x) = In(m, k, x) \cup On(q, k, x)
          /\ Before(In(h, k, x), On(q, k, x))
      BY <3>1 DEF Before
    <3> QED BY <3>1, <3>2 DEF q
  <2> QED BY <2>3, <2>4
<1>2. PICK u, v : MissWire(x) = Stream(u) /\ LiveWire(x) = Stream(v)
  BY WireIs
<1>3. In(h, "miss", x) = {} \/ Stream(ty) = Stream(u)
  BY <1>0, <1>2, WireTypes
<1>4. /\ Missing(x)' = On(a(Stream(u)), "miss", x) /\ Live(x)' = On(a(Stream(v)), "live", x)
      /\ Missing(x) = On(u2d[Stream(u)], "miss", x) /\ Live(x) = On(u2d[Stream(v)], "live", x)
      /\ WiresOrdered(x) = (/\ Asc(u2d[Stream(u)], "miss", x)
                            /\ Asc(u2d[Stream(v)], "live", x))
      /\ WiresOrdered(x)' = (Asc(a(Stream(u)), "miss", x) /\ Asc(a(Stream(v)), "live", x))
  BY <1>2, SameWires, Zenon DEF Missing, Live, WiresOrdered
<1>m. In(m, "miss", x) \subseteq In(h, "miss", x) /\ In(m, "live", x) \subseteq In(h, "live", x)
  BY <1>l
<1> HIDE DEF a, h
<1>5. PICK rest : /\ On(u2d[Stream(u)], "miss", x) = In(h, "miss", x) \cup rest
                  /\ On(a(Stream(u)), "miss", x) = In(m, "miss", x) \cup rest
                  /\ Asc(u2d[Stream(u)], "miss", x) => Before(In(h, "miss", x), rest)
                  /\ Asc(u2d[Stream(u)], "miss", x) => Asc(a(Stream(u)), "miss", x)
  BY <1>1, <1>3, <1>m
<1>6. PICK also : /\ On(u2d[Stream(v)], "live", x) = In(h, "live", x) \cup also
                  /\ On(a(Stream(v)), "live", x) = In(m, "live", x) \cup also
                  /\ Asc(u2d[Stream(v)], "live", x) => Asc(a(Stream(v)), "live", x)
  BY <1>1, <1>l, <1>m
<1>7. Live(x)' = Live(x)
  BY <1>4, <1>6, <1>l
<1>8. /\ \E r : /\ Missing(x) = In(h, "miss", x) \cup r
                /\ Missing(x)' = In(m, "miss", x) \cup r
                /\ WiresOrdered(x) => Before(In(h, "miss", x), r)
      /\ WiresOrdered(x) => WiresOrdered(x)'
  BY <1>4, <1>5, <1>6, Zenon
<1> QED BY <1>7, <1>8 DEF h

-----------------------------------------------------------------------------
(* Steps that only take from a series what it may lose *)

LEMMA SentWeak ==
    ASSUME UNCHANGED <<broken, upc, dpc, missItems>>,
           \A ty : InFlight(ty)' => InFlight(ty), NEW x
    PROVE  Sent(x)' => Sent(x)
BY Zenon DEF Sent, RowSeries

LEMMA SameSent ==
    ASSUME UNCHANGED <<version, broken, upc, dpc, missItems, u2d>>, NEW x
    PROVE  Sent(x)' <=> Sent(x)
<1>1. \A ty : InFlight(ty)' <=> InFlight(ty)
  BY FlightKept
<1> QED BY <1>1, Zenon DEF Sent, RowSeries

LEMMA SameQueue == \A x : Queue(x)' = Queue(x)
BY DEF Queue, RowSeries

(* Whether a queue flows, and is open, depends on these variables only. *)
LEMMA SameFlow ==
    ASSUME UNCHANGED <<version, broken, subscribed, d2u>>, NEW x
    PROVE  Flows(x)' <=> Flows(x)
BY SameQueue, Zenon DEF Flows, RowSeries

LEMMA SameFlowOpen ==
    ASSUME UNCHANGED <<version, broken, subscribed, closed, d2u>>, NEW x
    PROVE  (Flows(x)' <=> Flows(x)) /\ (Open(x)' <=> Open(x))
BY SameFlow, SameQueue, Zenon DEF Open

LEMMA SamePending ==
    ASSUME UNCHANGED feed, NEW x
    PROVE  /\ Pending(x)' = Pending(x)
           /\ FeedOrdered(x) => FeedOrdered(x)'
BY Zenon DEF feed, Pending, FeedOrdered

LEMMA SameQueued ==
    ASSUME NEW x, UNCHANGED sub[Queue(x)], Flows(x)' <=> Flows(x)
    PROVE  Queued(x)' = Queued(x)
BY SameQueue, Zenon DEF Queued

LEMMA QueueOrderKept ==
    ASSUME NEW x, UNCHANGED feed, QueueOrdered(x), Saved(x)' = Saved(x),
           UNCHANGED sub[Queue(x)] \/ sub'[Queue(x)] = <<>>
    PROVE  QueueOrdered(x)'
<1>1. Pending(x)' = Pending(x) /\ sub[Queue(x)]' = sub'[Queue(x)]
  BY SamePending, SameQueue
<1>2. CASE UNCHANGED sub[Queue(x)]
  BY <1>1, <1>2, Zenon DEF QueueOrdered
<1>3. CASE sub'[Queue(x)] = <<>>
  <2>1. On(<<>>, "live", x) = {} /\ Asc(<<>>, "live", x)
    BY OnEmpty
  <2>2. Before({}, Pending(x)) /\ {} \subseteq Saved(x)
    BY DEF Before
  <2> QED BY <1>1, <1>3, <2>1, <2>2, Zenon DEF QueueOrdered
<1> QED BY <1>2, <1>3

LEMMA SeriesWeak ==
    ASSUME NEW x, SeriesOK(x), UNCHANGED feed,
           Saved(x)' = Saved(x), Has(x)' = Has(x), Refusals(x) \subseteq Refusals(x)',
           Missing(x)' = Missing(x), Live(x)' = Live(x), WiresOrdered(x)',
           Sent(x)' => Sent(x), Open(x)' => Open(x),
           Queued(x)' = Queued(x) \/ (Queued(x)' = {} /\ ~Open(x)'),
           QueueOrdered(x)', RoundRead(x)'
    PROVE  SeriesOK(x)'
<1>1. /\ GapFree(Saved(x), Has(x), Refusals(x), Missing(x), Live(x), Queued(x), Pending(x),
                 Sent(x), Open(x))
      /\ QueueOrdered(x) /\ FeedOrdered(x) /\ (x # RowSeries => 0 \notin Has(x))
  BY Zenon DEF SeriesOK, SeriesGapFree
<1>2. GapFree(Saved(x), Has(x), Refusals(x)', Missing(x), Live(x), Queued(x)', Pending(x),
              Sent(x)', Open(x)')
  BY <1>1, MoveWeak
<1>3. Pending(x)' = Pending(x) /\ FeedOrdered(x)'
  BY <1>1, SamePending
<1>4. SeriesGapFree(x)'
  BY <1>2, <1>3, Zenon DEF SeriesGapFree
<1> QED BY <1>1, <1>3, <1>4, Zenon DEF SeriesOK, RowSeries

LEMMA SameSaved ==
    ASSUME UNCHANGED upstreamDB, NEW x PROVE Saved(x)' = Saved(x)
BY Zenon DEF Saved, upstreamDB, RowSeries

LEMMA SameHas ==
    ASSUME UNCHANGED downDB, NEW x
    PROVE  Has(x)' = Has(x) /\ Refusals(x)' = Refusals(x)
BY Zenon DEF Has, Refusals, downDB, RowSeries

(* The connection is broken: nothing flows any more. *)
LEMMA SeriesBroken ==
    ASSUME NEW x, SeriesOK(x), broken',
           UNCHANGED <<version, upstreamDB, feed, u2d, dpc, downDB>>, QueueOrdered(x)'
    PROVE  SeriesOK(x)'
<1>1. /\ Saved(x)' = Saved(x) /\ Has(x)' = Has(x) /\ Refusals(x)' = Refusals(x)
      /\ Missing(x)' = Missing(x) /\ Live(x)' = Live(x) /\ WiresOrdered(x)'
  BY SameSaved, SameHas, WiresKept DEF SeriesOK
<1>2. ~Flows(x)' /\ ~Open(x)' /\ Queued(x)' = {} /\ RoundRead(x)'
  BY DEF Flows, Open, Queued, RoundRead
<1>3. Sent(x)' => Sent(x)
  <2>1. \A ty : InFlight(ty)' <=> InFlight(ty)
    BY FlightKept
  <2> QED BY <2>1, Zenon DEF Sent, RowSeries
<1> QED BY <1>1, <1>2, <1>3, SeriesWeak

(* The connection of a series is made anew. *)
LEMMA SeriesAnew ==
    ASSUME NEW x, SeriesOK(x), UNCHANGED <<upstreamDB, feed, downDB>>,
           Missing(x)' = {}, Live(x)' = {}, Queued(x)' = {}, WiresOrdered(x)',
           ~Sent(x)' \/ ~Open(x)', QueueOrdered(x)'
    PROVE  SeriesOK(x)'
<1>1. /\ GapFree(Saved(x), Has(x), Refusals(x), Missing(x), Live(x), Queued(x), Pending(x),
                 Sent(x), Open(x))
      /\ FeedOrdered(x) /\ (x # RowSeries => 0 \notin Has(x))
  BY Zenon DEF SeriesOK, SeriesGapFree
<1>2. Saved(x)' = Saved(x) /\ Has(x)' = Has(x) /\ Refusals(x)' = Refusals(x)
  BY SameSaved, SameHas
<1>3. Pending(x)' = Pending(x) /\ FeedOrdered(x)' /\ RoundRead(x)'
  BY <1>1, SamePending DEF RoundRead
<1>4. GapFree(Saved(x), Has(x), Refusals(x), {}, {}, {}, Pending(x), Sent(x)', Open(x)')
  BY <1>1, MoveAnew
<1>5. SeriesGapFree(x)'
  BY <1>2, <1>3, <1>4, Zenon DEF SeriesGapFree
<1> QED BY <1>1, <1>2, <1>3, <1>5, Zenon DEF SeriesOK, RowSeries

-----------------------------------------------------------------------------
(* A series and the brokers *)

(* The places of a series are numbers the upstream has saved. *)
LEMMA SeriesNat ==
    ASSUME NEW x, SeriesOK(x)
    PROVE  /\ \A u \in Saved(x) : u \in Nat \ {0}
           /\ \A u \in Missing(x) \cup Live(x) \cup Queued(x) \cup Pending(x) : u \in Saved(x)
           /\ \A u \in Has(x) : u \in Nat
<1>1. Places(Saved(x), Has(x), Missing(x), Live(x), Queued(x), Pending(x))
  BY Zenon DEF SeriesOK, SeriesGapFree, GapFree
<1> HIDE DEF Saved, Has, Missing, Live, Queued, Pending
<1> QED BY <1>1 DEF Places

(* A frame carries at most one number of a series as live. *)
LEMMA InOne ==
    ASSUME NEW m, NEW x
    PROVE  \A t \in In(m, "live", x) : In(m, "live", x) = {t}
BY DEF In

(* It is in the queue of the series. *)
LEMMA InQueue ==
    ASSUME NEW m, NEW x, In(m, "live", x) # {}
    PROVE  QueueOf(m) = Queue(x)
BY PointSeries DEF In, QueueOf, Queue

LEMMA QueueSeq ==
    ASSUME TypeOK, NEW x
    PROVE  /\ Queue(x) \in Queues /\ sub[Queue(x)] \in Seq(Point \cup Row)
           /\ Queue(x) \in DOMAIN sub
<1>1. sub \in [Queues -> Seq(Row) \cup Seq(Point)]
  BY SubParts DEF TypeOK
<1>2. Seq(Row) \subseteq Seq(Point \cup Row) /\ Seq(Point) \subseteq Seq(Point \cup Row)
  BY SeqMonotonic
<1>3. Queue(x) \in Queues
  BY DEF Queue, Queues
<1> QED BY <1>1, <1>2, <1>3

(* What is queued after a publication. *)
LEMMA PublishQueues ==
    ASSUME TypeOK, NEW m, Publish(m), NEW x
    PROVE  LET s == sub[Queue(x)]
           IN  \/ /\ UNCHANGED <<s, subscribed[Queue(x)]>>
                  /\ closed'[Queue(x)] = closed[Queue(x)] \/ closed'[Queue(x)]
                  /\ In(m, "live", x) # {} =>
                        ~subscribed[Queue(x)] \/ closed'[Queue(x)]
               \/ /\ subscribed[Queue(x)] /\ ~closed[Queue(x)] /\ QueueOf(m) = Queue(x)
                  /\ UNCHANGED <<subscribed[Queue(x)], closed[Queue(x)]>>
                  /\ sub'[Queue(x)] = Append(s, m)
<1> DEFINE q == QueueOf(m)
<1>0. /\ In(m, "live", x) # {} => q = Queue(x)
      /\ q \in Queues /\ Queue(x) \in Queues /\ Queue(x) \in DOMAIN sub
      /\ Queue(x)' = Queue(x) /\ closed \in [Queues -> BOOLEAN]
  BY InQueue, QueueSeq, SameQueue DEF QueueOf, Queues, TypeOK
<1>1. CASE (~subscribed[q] \/ closed[q]) /\ UNCHANGED queues
  BY <1>0, <1>1, Zenon DEF queues
<1>2. CASE /\ subscribed[q] /\ ~closed[q] /\ sub' = [sub EXCEPT ![q] = Append(sub[q], m)]
           /\ UNCHANGED <<subscribed, closed>>
  <2>1. CASE q = Queue(x)
    <3>1. sub'[Queue(x)] = Append(sub[Queue(x)], m)
      BY <1>0, <1>2, <2>1
    <3> QED BY <1>0, <1>2, <2>1, <3>1, Zenon
  <2>2. CASE q # Queue(x)
    <3>1. sub'[Queue(x)] = sub[Queue(x)]
      BY <1>0, <1>2, <2>2
    <3> QED BY <1>0, <1>2, <2>2, <3>1, Zenon
  <2> QED BY <2>1, <2>2
<1>3. CASE /\ closed' = [closed EXCEPT ![q] = TRUE]
           /\ UNCHANGED <<subscribed, sub>>
  <2>1. closed'[q] = TRUE
    BY <1>0, <1>3
  <2>2. closed'[Queue(x)] = closed[Queue(x)] \/ closed'[Queue(x)]
    BY <1>0, <1>3
  <2> QED BY <1>0, <1>3, <2>1, <2>2, Zenon
<1> QED BY <1>1, <1>2, <1>3 DEF Publish

LEMMA SeriesPublish ==
    ASSUME TypeOK, NEW x, SeriesOK(x), NEW m, Publish(m),
           UNCHANGED <<version, upstreamDB, upstream, network, dpc, downDB>>,
           Pending(x) = In(m, "live", x) \cup Pending(x)',
           Before(In(m, "live", x), Pending(x)'), FeedOrdered(x)'
    PROVE  SeriesOK(x)'
<1> DEFINE H == Saved(x)  B == Has(x)  K == Refusals(x)  P == Missing(x)  L == Live(x)
           W == Queued(x) D == Pending(x) E == Pending(x)' I == In(m, "live", x)
           s == sub[Queue(x)]
<1>0. /\ GapFree(H, B, K, P, L, W, D, Sent(x), Open(x))
      /\ WiresOrdered(x) /\ QueueOrdered(x) /\ RoundRead(x) /\ (x # RowSeries => 0 \notin B)
  BY Zenon DEF SeriesOK, SeriesGapFree
<1>1. /\ Saved(x)' = H /\ Has(x)' = B /\ Refusals(x)' = K /\ Missing(x)' = P /\ Live(x)' = L
      /\ WiresOrdered(x)' /\ (Sent(x)' <=> Sent(x))
  <2>1. Saved(x)' = H /\ Has(x)' = B /\ Refusals(x)' = K
    BY Zenon DEF Saved, Has, Refusals, upstreamDB, downDB, RowSeries
  <2>2. Missing(x)' = P /\ Live(x)' = L /\ WiresOrdered(x)'
    BY <1>0, WiresKept DEF network
  <2>3. Sent(x)' <=> Sent(x)
    BY SameSent DEF network, upstream
  <2> QED BY <2>1, <2>2, <2>3
<1>2. /\ \A u \in D : u \in H /\ u \in Nat
      /\ \A t \in I : I = {t}
  BY SeriesNat, InOne
<1>3. Rest(H, D)
  BY <1>0, Zenon DEF GapFree
<1>4. /\ E \subseteq D /\ Rest(H, E)
  <2>1. E \subseteq D
    OBVIOUS
  <2>2. ASSUME NEW v \in E, NEW u \in H, v < u PROVE u \in E
    <3>1. u \in D
      BY <1>3, <2>1, <2>2 DEF Rest
    <3>2. u \notin I
      <4>1. u \in I => u < v
        BY DEF Before
      <4> HIDE DEF I, E, D
      <4> QED BY <1>2, <2>1, <2>2, <3>1, <4>1
    <3> QED BY <3>1, <3>2
  <2> QED BY <2>1, <2>2 DEF Rest
<1>5. /\ Queue(x)' = Queue(x)
      /\ RoundRead(x)' <=> (~broken /\ ~Flows(x)' => L = {})
  BY <1>1, SameQueue DEF RoundRead, network
<1>6. ASSUME sub'[Queue(x)] = s, ~Flows(x) \/ I = {} \/ ~Open(x)', Open(x)' => Open(x),
             Flows(x)' <=> Flows(x)
      PROVE  SeriesOK(x)'
  <2>1. Queued(x)' = W
    BY <1>6, SameQueued
  <2>2. QueueOrdered(x)'
    <3>1. Asc(s, "live", x) /\ On(s, "live", x) \subseteq H /\ Before(On(s, "live", x), D)
      BY <1>0, Zenon DEF QueueOrdered
    <3>2. Before(On(s, "live", x), E)
      BY <1>4, <3>1, Zenon DEF Before
    <3> QED BY <1>1, <1>5, <1>6, <3>1, <3>2, Zenon DEF QueueOrdered
  <2>3. GapFree(H, B, K, P, L, W, E, Sent(x), Open(x)')
    <3>1. CASE I = {}
      <4>1. E = D
        BY <3>1
      <4>2. GapFree(H, B, K, P, L, W, D, Sent(x), Open(x)')
        <5> HIDE DEF H, B, K, P, L, W, D
        <5> QED BY <1>0, <1>6, MoveWeak
      <4> HIDE DEF H, B, K, P, L, W, D, E
      <4> QED BY <4>1, <4>2
    <3>2. CASE ~Open(x)'
      <4>1. GapFree(H, B, K, P, L, W, E, Sent(x), FALSE)
        <5> HIDE DEF H, B, K, P, L, W, D, E
        <5> QED BY <1>0, <1>4, MoveDrop
      <4>2. GapFree(H, B, K, P, L, W, E, Sent(x), Open(x)')
        <5> HIDE DEF H, B, K, P, L, W, D, E
        <5> QED BY <4>1, <3>2, MoveWeak
      <4> QED BY <4>2
    <3>3. Open(x)' => Flows(x)
      BY <1>6 DEF Open
    <3> QED BY <1>6, <3>1, <3>2, <3>3
  <2>4. SeriesGapFree(x)'
    <3> HIDE DEF H, B, K, P, L, W, D, E
    <3>1. GapFree(H, B, K, P, L, W, E, Sent(x)', Open(x)')
      BY <1>1, <2>3, MoveWeak
    <3> QED BY <1>1, <2>1, <3>1, Zenon DEF SeriesGapFree, H, B, K, P, L, W, E
  <2>5. RoundRead(x)'
    BY <1>0, <1>5, <1>6 DEF RoundRead
  <2>6. x # RowSeries => 0 \notin Has(x)'
    BY <1>0, <1>1
  <2> QED BY <1>1, <2>2, <2>4, <2>5, <2>6, Zenon DEF SeriesOK, RowSeries
<1>7. ASSUME sub'[Queue(x)] = Append(s, m), Open(x)' <=> Open(x), Flows(x)' <=> Flows(x),
             Flows(x) => Open(x)
      PROVE  SeriesOK(x)'
  <2>1. /\ On(sub'[Queue(x)], "live", x) = On(s, "live", x) \cup I
        /\ Asc(s, "live", x) /\ Before(On(s, "live", x), I) => Asc(sub'[Queue(x)], "live", x)
    <3>1. s \in Seq(Point \cup Row)
      BY QueueSeq
    <3> HIDE DEF s, I
    <3> QED BY <1>7, <3>1, OnAppend DEF I
  <2>2. Asc(s, "live", x) /\ On(s, "live", x) \subseteq H /\ Before(On(s, "live", x), D)
    BY <1>0, Zenon DEF QueueOrdered
  <2>3. QueueOrdered(x)'
    <3>1. Before(On(s, "live", x), I) /\ Before(On(s, "live", x) \cup I, E)
      <4> HIDE DEF s
      <4> QED BY <2>2 DEF Before
    <3>2. On(s, "live", x) \cup I \subseteq H
      <4> HIDE DEF s
      <4> QED BY <1>2, <2>2
    <3> QED BY <1>1, <1>5, <3>2, <2>1, <2>2, <3>1, Zenon DEF QueueOrdered
  <2>4. Queued(x)' = IF Flows(x) THEN W \cup I ELSE W
    BY <1>5, <1>7, <2>1 DEF Queued
  <2>5. GapFree(H, B, K, P, L, Queued(x)', E, Sent(x), Open(x)')
    <3>1. CASE I = {}
      <4>1. E = D /\ Queued(x)' = W
        BY <2>4, <3>1
      <4> HIDE DEF H, B, K, P, L, W, D, E
      <4> QED BY <1>0, <1>7, <4>1, MoveWeak
    <3>2. CASE Flows(x) /\ I # {}
      <4>1. PICK t : t \in I
        BY <3>2
      <4>2. t \in D /\ E = D \ {t} /\ I = {t} /\ \A u \in D : t <= u
        <5>1. I = {t} /\ t \in D
          BY <1>2, <4>1
        <5>2. \A u \in E : t < u /\ u \in Nat /\ t \in Nat
          BY <1>2, <1>4, <5>1 DEF Before
        <5> QED BY <1>2, <5>1, <5>2
      <4>3. GapFree(H, B, K, P, L, W \cup {t}, D \ {t}, Sent(x), Open(x))
        <5>1. Open(x)
          BY <1>7, <3>2
        <5> HIDE DEF H, B, K, P, L, W, D, E, I
        <5> QED BY <1>0, <4>2, <5>1, MovePublish
      <4>4. Queued(x)' = W \cup {t}
        BY <2>4, <3>2, <4>2
      <4> HIDE DEF H, B, K, P, L, W, D, E, I
      <4> QED BY <1>7, <4>2, <4>3, <4>4, MoveWeak
    <3>3. CASE ~Flows(x)
      <4>1. ~Open(x)' /\ Queued(x)' = W
        BY <1>7, <2>4, <3>3 DEF Open
      <4>2. GapFree(H, B, K, P, L, W, E, Sent(x), FALSE)
        <5> HIDE DEF H, B, K, P, L, W, D, E
        <5> QED BY <1>0, <1>4, MoveDrop
      <4> HIDE DEF H, B, K, P, L, W, D, E
      <4> QED BY <4>1, <4>2, MoveWeak
    <3> QED BY <3>1, <3>2, <3>3
  <2>6. SeriesGapFree(x)'
    <3> HIDE DEF H, B, K, P, L, W, D, E
    <3>1. GapFree(H, B, K, P, L, Queued(x)', E, Sent(x)', Open(x)')
      BY <1>1, <2>5, MoveWeak
    <3> QED BY <1>1, <3>1, Zenon DEF SeriesGapFree, H, B, K, P, L, E
  <2>7. RoundRead(x)'
    BY <1>0, <1>5, <1>7 DEF RoundRead
  <2>8. x # RowSeries => 0 \notin Has(x)'
    BY <1>0, <1>1
  <2> QED BY <1>1, <2>3, <2>6, <2>7, <2>8, Zenon DEF SeriesOK, RowSeries
<1>8. /\ Flows(x) <=> (/\ ~broken /\ subscribed[Queue(x)]
                       /\ (version = 1 /\ x # RowSeries => d2u.type # "open"))
      /\ Flows(x)' <=> (/\ ~broken /\ subscribed'[Queue(x)]
                        /\ (version = 1 /\ x # RowSeries => d2u.type # "open"))
      /\ Open(x) <=> Flows(x) /\ ~closed[Queue(x)]
      /\ Open(x)' <=> Flows(x)' /\ ~closed'[Queue(x)]
  BY <1>5, Zenon DEF Flows, Open, network, RowSeries
<1> HIDE DEF H, B, K, P, L, W, D, E, I, s
<1>9. CASE /\ UNCHANGED <<sub[Queue(x)], subscribed[Queue(x)]>>
           /\ closed'[Queue(x)] = closed[Queue(x)] \/ closed'[Queue(x)]
           /\ I # {} => ~subscribed[Queue(x)] \/ closed'[Queue(x)]
  <2>1. sub'[Queue(x)] = s /\ subscribed'[Queue(x)] = subscribed[Queue(x)]
    BY <1>5, <1>9, Zenon DEF s
  <2> QED BY <1>6, <1>8, <1>9, <2>1, Zenon
<1>10. CASE /\ subscribed[Queue(x)] /\ ~closed[Queue(x)]
            /\ UNCHANGED <<subscribed[Queue(x)], closed[Queue(x)]>>
            /\ sub'[Queue(x)] = Append(s, m)
  <2>1. subscribed'[Queue(x)] = subscribed[Queue(x)] /\ closed'[Queue(x)] = closed[Queue(x)]
    BY <1>5, <1>10, Zenon
  <2> QED BY <1>7, <1>8, <1>10, <2>1, Zenon
<1> QED BY <1>9, <1>10, PublishQueues DEF I, s

LEMMA OnSingle == \A m, k, x : On(<<m>>, k, x) = In(m, k, x)
BY DEF On

(* Number t of a series is saved and waits, or a number waits elsewhere. *)
LEMMA SeriesFeed ==
    ASSUME NEW x, SeriesOK(x), NEW I, I = {} \/ \E t \in Nat \ {0} : I = {t},
           \A u \in Saved(x), t \in I : u < t,
           UNCHANGED <<version, upstream, queues, network, dpc, downDB>>,
           Saved(x)' = Saved(x) \cup I, Pending(x)' = Pending(x) \cup I, FeedOrdered(x)'
    PROVE  SeriesOK(x)'
<1>0. /\ GapFree(Saved(x), Has(x), Refusals(x), Missing(x), Live(x), Queued(x), Pending(x),
                 Sent(x), Open(x))
      /\ WiresOrdered(x) /\ QueueOrdered(x) /\ RoundRead(x) /\ (x # RowSeries => 0 \notin Has(x))
  BY Zenon DEF SeriesOK, SeriesGapFree
<1>1. Has(x)' = Has(x) /\ Refusals(x)' = Refusals(x)
  BY Zenon DEF Has, Refusals, downDB, RowSeries
<1>2. Missing(x)' = Missing(x) /\ Live(x)' = Live(x) /\ WiresOrdered(x)'
  BY <1>0, WiresKept DEF network
<1>3. (Sent(x)' <=> Sent(x)) /\ (Flows(x)' <=> Flows(x)) /\ (Open(x)' <=> Open(x))
  BY SameSent, SameFlowOpen DEF network, upstream, queues
<1>4. sub[Queue(x)]' = sub[Queue(x)]
  BY SameQueue DEF queues
<1>5. Queued(x)' = Queued(x)
  BY <1>3, <1>4, Zenon DEF Queued
<1>6. RoundRead(x)'
  BY <1>0, <1>2, <1>3, Zenon DEF RoundRead, network
<1>7. GapFree(Saved(x)', Has(x), Refusals(x), Missing(x), Live(x), Queued(x), Pending(x)',
              Sent(x), Open(x))
  <2> HIDE DEF Saved, Has, Refusals, Missing, Live, Queued, Pending, Sent, Open
  <2>1. CASE I = {}
    <3>1. Saved(x)' = Saved(x) /\ Pending(x)' = Pending(x)
      BY <2>1
    <3> QED BY <1>0, <3>1
  <2>2. CASE \E t \in Nat \ {0} : I = {t}
    <3>1. PICK t \in Nat \ {0} : I = {t}
      BY <2>2
    <3>2. \A u \in Saved(x) : u < t
      BY <3>1
    <3>3. GapFree(Saved(x) \cup {t}, Has(x), Refusals(x), Missing(x), Live(x), Queued(x),
                  Pending(x) \cup {t}, Sent(x), Open(x))
      BY <1>0, <3>2, MoveSave
    <3> QED BY <3>1, <3>3
  <2> QED BY <2>1, <2>2
<1>8. SeriesGapFree(x)'
  <2>1. GapFree(Saved(x)', Has(x), Refusals(x), Missing(x), Live(x), Queued(x), Pending(x)',
                Sent(x)', Open(x)')
    BY <1>3, <1>7, MoveWeak
  <2> QED BY <1>1, <1>2, <1>5, <2>1, Zenon DEF SeriesGapFree
<1>9. QueueOrdered(x)'
  <2> DEFINE s == On(sub[Queue(x)], "live", x)
  <2>1. Asc(sub[Queue(x)], "live", x) /\ s \subseteq Saved(x) /\ Before(s, Pending(x))
    BY <1>0, Zenon DEF QueueOrdered
  <2>2. Before(s, Pending(x)') /\ s \subseteq Saved(x)'
    <3> HIDE DEF s, Saved, Pending
    <3> QED BY <2>1 DEF Before
  <2> QED BY <1>4, <2>1, <2>2, Zenon DEF QueueOrdered
<1> QED BY <1>0, <1>1, <1>2, <1>6, <1>8, <1>9, Zenon DEF SeriesOK, RowSeries

LEMMA SeriesStorePoint ==
    ASSUME TypeOK, DirectInv, NEW x \in Series, SeriesOK(x), NEW i \in Items,
           NEW replay \in BOOLEAN, StorePoint(i, replay)
    PROVE  SeriesOK(x)'
<1> DEFINE t == now + 1
           m == [type |-> "data", item |-> i, ts |-> t, replay |-> replay]
           I == In(m, "live", x)
<1>1. /\ unpublished = <<>> /\ unpublished' = <<m>> /\ delayed' = delayed /\ uLog' = uLog
      /\ uStored' = [uStored EXCEPT ![i] = uStored[i] \cup {t}]
      /\ UNCHANGED <<version, upstream, queues, network, dpc, downDB>>
  BY DEF StorePoint
<1>2. uStored \in [Items -> SUBSET Nat] /\ now \in Nat /\ \A j \in Items : uStored[j] \subseteq 1 .. now
  BY DEF TypeOK, DirectInv
<1>3. \/ I = {} /\ Saved(x)' = Saved(x)
      \/ I = {t} /\ Saved(x)' = Saved(x) \cup {t} /\ \A u \in Saved(x) : u < t
  <2>1. CASE x = RowSeries
    <3>1. m.type # "status"
      OBVIOUS
    <3>2. I = {}
      <4> HIDE DEF m
      <4> QED BY <2>1, <3>1, InRow
    <3>3. Saved(x)' = Saved(x)
      BY <1>1, <2>1, Zenon DEF Saved, RowSeries
    <3> QED BY <3>2, <3>3
  <2>2. ASSUME NEW j \in Items, x = <<j>> PROVE <1>3
    <3>1. Saved(x) = uStored[j] /\ Saved(x)' = uStored'[j]
      BY <2>2, PointSeries DEF Saved, RowSeries
    <3>2. I = IF i = j THEN {t} ELSE {}
      <4>1. m.type = "data" /\ m.item = i /\ m.ts = t
        OBVIOUS
      <4> HIDE DEF m
      <4> QED BY <2>2, <4>1, InPoint
    <3>3. uStored'[j] = IF i = j THEN uStored[j] \cup {t} ELSE uStored[j]
      BY <1>1, <1>2, <2>2
    <3>4. \A u \in uStored[j] : u < t
      BY <1>2, <2>2
    <3> HIDE DEF I, t
    <3> QED BY <3>1, <3>2, <3>3, <3>4
  <2> QED BY <2>1, <2>2, SeriesIs
<1>4. On(unpublished, "live", x) = {} /\ On(unpublished', "live", x) = I
  BY <1>1, OnEmpty, OnSingle
<1>5. Pending(x)' = Pending(x) \cup I
  BY <1>1, <1>4 DEF Pending
<1>6. FeedOrdered(x)'
  <2>1. Asc(delayed, "live", x)
    BY DEF SeriesOK, FeedOrdered
  <2>2. \A u \in On(delayed, "live", x) : u \in Saved(x)
    BY SeriesNat DEF Pending
  <2>3. Before(On(delayed, "live", x), I)
    BY <1>3, <2>2 DEF Before
  <2> QED BY <1>1, <1>4, <2>1, <2>3, Zenon DEF FeedOrdered
<1>7. (I = {} \/ \E u \in Nat \ {0} : I = {u}) /\ \A u \in Saved(x), v \in I : u < v
  <2>1. t \in Nat \ {0}
    BY <1>2
  <2> HIDE DEF I, t
  <2> QED BY <1>3, <2>1
<1>8. Saved(x)' = Saved(x) \cup I
  BY <1>3
<1> HIDE DEF I, m, t
<1> QED BY <1>1, <1>5, <1>6, <1>7, <1>8, SeriesFeed

LEMMA SeriesStoreRow ==
    ASSUME TypeOK, NEW x \in Series, SeriesOK(x), NEW i \in Items, StoreRow(i)
    PROVE  SeriesOK(x)'
<1> DEFINE t == Len(uLog) + 1
           m == [type |-> "status", row |-> t]
           I == In(m, "live", x)
<1>1. /\ unpublished = <<>> /\ unpublished' = <<m>> /\ delayed' = delayed
      /\ uLog' = Append(uLog, i) /\ uStored' = uStored
      /\ UNCHANGED <<version, upstream, queues, network, dpc, downDB>>
  BY DEF StoreRow
<1>2. uLog \in Seq(Items) /\ Len(uLog) \in Nat /\ Len(uLog') = t
  <2>1. uLog \in Seq(Items)
    BY DEF TypeOK
  <2> QED BY <1>1, <2>1, AppendProperties, LenProperties
<1>3. \/ I = {} /\ Saved(x)' = Saved(x)
      \/ I = {t} /\ Saved(x)' = Saved(x) \cup {t} /\ \A u \in Saved(x) : u < t
  <2>1. CASE x = RowSeries
    <3>1. Saved(x) = 1 .. Len(uLog) /\ Saved(x)' = 1 .. Len(uLog')
      BY <2>1, Zenon DEF Saved, RowSeries
    <3>2. I = {t}
      BY <2>1, InRow
    <3> HIDE DEF I
    <3> QED BY <1>2, <3>1, <3>2
  <2>2. ASSUME NEW j \in Items, x = <<j>> PROVE <1>3
    <3>1. m.type # "data"
      OBVIOUS
    <3>2. I = {}
      <4> HIDE DEF m
      <4> QED BY <2>2, <3>1, InPoint
    <3>3. Saved(x)' = Saved(x)
      BY <1>1, <2>2, PointSeries DEF Saved, RowSeries
    <3> QED BY <3>2, <3>3
  <2> QED BY <2>1, <2>2, SeriesIs
<1>4. On(unpublished, "live", x) = {} /\ On(unpublished', "live", x) = I
  BY <1>1, OnEmpty, OnSingle
<1>5. Pending(x)' = Pending(x) \cup I
  BY <1>1, <1>4 DEF Pending
<1>6. FeedOrdered(x)'
  <2>1. Asc(delayed, "live", x)
    BY DEF SeriesOK, FeedOrdered
  <2>2. \A u \in On(delayed, "live", x) : u \in Saved(x)
    BY SeriesNat DEF Pending
  <2>3. Before(On(delayed, "live", x), I)
    BY <1>3, <2>2 DEF Before
  <2> QED BY <1>1, <1>4, <2>1, <2>3, Zenon DEF FeedOrdered
<1>7. (I = {} \/ \E u \in Nat \ {0} : I = {u}) /\ \A u \in Saved(x), v \in I : u < v
  <2>1. t \in Nat \ {0}
    BY <1>2
  <2> HIDE DEF I, t
  <2> QED BY <1>3, <2>1
<1>8. Saved(x)' = Saved(x) \cup I
  BY <1>3
<1> HIDE DEF I, m, t
<1> QED BY <1>1, <1>5, <1>6, <1>7, <1>8, SeriesFeed

(* A point that is published at once has none of its item before it. *)
LEMMA NoneDelayed ==
    ASSUME TypeOK, DirectInv, NEW x \in Series, NEW m, unpublished = <<m>>,
           m.type = "data" => m.replay \/ ~DataDelay
    PROVE  Before(In(m, "live", x), On(delayed, "live", x))
<1>1. \A n \in DOMAIN delayed : delayed[n] \in Point
  BY ElementOfSeq, LenProperties DEF TypeOK
<1>2. CASE x = RowSeries
  <2>1. \A n \in DOMAIN delayed : In(delayed[n], "live", x) = {}
    BY <1>1, <1>2, InRow, PointFields
  <2>2. On(delayed, "live", x) = {}
    BY <2>1, OnDef
  <2> QED BY <2>2 DEF Before
<1>3. ASSUME NEW i \in Items, x = <<i>>, ~ReplayMayOvertake PROVE Before(In(m, "live", x), On(delayed, "live", x))
  <2>1. CASE ~(m.type = "data" /\ m.item = i)
    BY <1>3, <2>1, InPoint DEF Before
  <2>2. CASE m.type = "data" /\ m.item = i
    <3>1. \A n \in DOMAIN delayed : delayed[n].item # i
      <4>1. 1 \in DOMAIN unpublished /\ unpublished[1] = m
        OBVIOUS
      <4> QED BY <1>3, <2>2, <4>1 DEF DirectInv
    <3>2. \A n \in DOMAIN delayed : In(delayed[n], "live", x) = {}
      BY <1>3, <3>1, InPoint
    <3>3. On(delayed, "live", x) = {}
      BY <3>2, OnDef
    <3> QED BY <3>3 DEF Before
  <2> QED BY <2>1, <2>2
<1> QED BY <1>2, <1>3, SeriesIs

LEMMA SeriesPublishSaved ==
    ASSUME TypeOK, DirectInv, NEW x \in Series, SeriesOK(x), PublishSaved
    PROVE  SeriesOK(x)'
<1> DEFINE m == Head(unpublished)
           I == In(m, "live", x)
           dl == On(delayed, "live", x)
<1>0. unpublished = <<m>> /\ FeedOK
  <2>1. FeedOK
    BY TypeParts
  <2> QED BY <2>1, SavedKind DEF PublishSaved
<1>1. /\ unpublished' = <<>>
      /\ UNCHANGED <<version, upstreamDB, upstream, network, dpc, downDB>>
      /\ \/ m.type = "data" /\ delayed' = Append(delayed, m) /\ UNCHANGED queues
         \/ /\ m.type = "data" => m.replay \/ ~DataDelay
            /\ Publish(m) /\ delayed' = delayed
  BY Zenon DEF PublishSaved
<1>2. On(unpublished, "live", x) = I /\ On(unpublished', "live", x) = {}
  <2> HIDE DEF m
  <2> QED BY <1>0, <1>1, OnEmpty, OnSingle
<1>3. Asc(delayed, "live", x) /\ Before(dl, I) /\ Pending(x) = dl \cup I
  BY <1>2, Zenon DEF SeriesOK, FeedOrdered, Pending
<1>4. Before(On(delayed', "live", x), On(unpublished', "live", x))
  BY <1>2 DEF Before
<1>5. CASE delayed' = Append(delayed, m) /\ UNCHANGED queues
  <2>1. delayed \in Seq(Point)
    BY DEF TypeOK
  <2>2. On(delayed', "live", x) = dl \cup I /\ Asc(delayed', "live", x)
    <3> HIDE DEF m
    <3> QED BY <1>3, <1>5, <2>1, OnAppend
  <2>3. FeedOrdered(x)' /\ Pending(x)' = Pending(x)
    <3>1. Pending(x)' = Pending(x)
      BY <1>2, <1>3, <2>2 DEF Pending
    <3> QED BY <1>4, <2>2, <3>1 DEF FeedOrdered
  <2>4. Saved(x)' = Saved(x)
    BY <1>1, Zenon DEF Saved, upstreamDB, RowSeries
  <2>5. PICK N : N = {}
    OBVIOUS
  <2>6. /\ Saved(x)' = Saved(x) \cup N /\ Pending(x)' = Pending(x) \cup N
        /\ N = {} \/ \E t \in Nat \ {0} : N = {t}
        /\ \A u \in Saved(x), t \in N : u < t
    BY <2>3, <2>4, <2>5
  <2> HIDE DEF m, I, dl
  <2> QED BY <1>1, <1>5, <2>3, <2>6, SeriesFeed
<1>6. CASE /\ m.type = "data" => m.replay \/ ~DataDelay
           /\ Publish(m) /\ delayed' = delayed
  <2>1. Pending(x)' = dl /\ Before(I, dl)
    <3>1. Pending(x)' = dl
      BY <1>2, <1>6 DEF Pending
    <3> HIDE DEF m
    <3> QED BY <1>0, <1>6, <3>1, NoneDelayed
  <2>2. FeedOrdered(x)'
    BY <1>3, <1>4, <1>6, Zenon DEF FeedOrdered
  <2>3. Pending(x) = I \cup Pending(x)'
    BY <1>3, <2>1
  <2> HIDE DEF m
  <2> QED BY <1>1, <1>6, <2>1, <2>2, <2>3, SeriesPublish
<1> QED BY <1>1, <1>5, <1>6

LEMMA SeriesPublishDelayed ==
    ASSUME TypeOK, NEW x \in Series, SeriesOK(x), PublishDelayed
    PROVE  SeriesOK(x)'
<1> DEFINE m == Head(delayed)
           I == In(m, "live", x)
           up == On(unpublished, "live", x)
<1>1. /\ delayed # <<>> /\ delayed' = Tail(delayed) /\ Publish(m) /\ unpublished' = unpublished
      /\ UNCHANGED <<version, upstreamDB, upstream, network, dpc, downDB>>
  BY Zenon DEF PublishDelayed
<1>2. Asc(delayed, "live", x) /\ Before(On(delayed, "live", x), up)
      /\ Pending(x) = On(delayed, "live", x) \cup up
  BY Zenon DEF SeriesOK, FeedOrdered, Pending
<1>3. /\ On(delayed, "live", x) = I \cup On(delayed', "live", x)
      /\ Asc(delayed', "live", x) /\ Before(I, On(delayed', "live", x))
  <2>1. delayed \in Seq(Point)
    BY DEF TypeOK
  <2> QED BY <1>1, <1>2, <2>1, OnTail
<1>4. Pending(x)' = On(delayed', "live", x) \cup up
  BY <1>1 DEF Pending
<1>5. Pending(x) = I \cup Pending(x)' /\ Before(I, Pending(x)')
      /\ Before(On(delayed', "live", x), up)
  <2> HIDE DEF I, up
  <2> QED BY <1>2, <1>3, <1>4 DEF Before
<1>6. FeedOrdered(x)'
  BY <1>1, <1>3, <1>5, Zenon DEF FeedOrdered
<1> HIDE DEF m
<1> QED BY <1>1, <1>5, <1>6, SeriesPublish

-----------------------------------------------------------------------------
(* A series and the steps of the upstream *)

LEMMA NoneMissing ==
    /\ ~InFlight("missStatus") => Missing(RowSeries) = {}
    /\ ~InFlight("missData") => \A i : Missing(<<i>>) = {}
<1>1. ASSUME NEW q, NEW ty, ~Carries(q, ty), NEW x,
             \A m : In(m, "miss", x) # {} => m.type = ty
      PROVE  On(q, "miss", x) = {}
  <2>1. \A n \in DOMAIN q : In(q[n], "miss", x) = {}
    BY <1>1, CarriesDef, Zenon
  <2> QED BY <2>1, OnDef
<1>2. \A m : In(m, "miss", RowSeries) # {} => m.type = "missStatus"
  BY InRow
<1>3. \A i, m : In(m, "miss", <<i>>) # {} => m.type = "missData"
  BY InPoint
<1>4. ASSUME ~InFlight("missStatus") PROVE Missing(RowSeries) = {}
  <2>1. Missing(RowSeries) = On(u2d[Stream("missStatus")], "miss", RowSeries)
    BY DEF Missing, MissWire
  <2>2. ~Carries(u2d[Stream("missStatus")], "missStatus")
    BY <1>4 DEF InFlight
  <2> QED BY <1>1, <1>2, <2>1, <2>2
<1>5. ASSUME ~InFlight("missData"), NEW i PROVE Missing(<<i>>) = {}
  <2>1. Missing(<<i>>) = On(u2d[Stream("missData")], "miss", <<i>>)
    BY PointSeries DEF Missing, MissWire
  <2>2. ~Carries(u2d[Stream("missData")], "missData")
    BY <1>5 DEF InFlight
  <2>3. \A m : In(m, "miss", <<i>>) # {} => m.type = "missData"
    BY <1>3
  <2> QED BY <1>1, <2>1, <2>2, <2>3
<1> QED BY <1>4, <1>5

LEMMA NoFramesWires ==
    ASSUME u2d = NoFrames, NEW x
    PROVE  Missing(x) = {} /\ Live(x) = {} /\ WiresOrdered(x)
<1>1. u2d[MissWire(x)] = <<>> /\ u2d[LiveWire(x)] = <<>>
  <2>1. PICK u, v : MissWire(x) = Stream(u) /\ LiveWire(x) = Stream(v)
    BY WireIs
  <2> QED BY <2>1, StreamIs DEF NoFrames
<1> QED BY <1>1, OnEmpty, Zenon DEF Missing, Live, WiresOrdered

(* Frames with which no number travels. *)
LEMMA InNothing ==
    ASSUME NEW m, m.type \in {"config", "permissions", "end"}, NEW x
    PROVE  In(m, "miss", x) = {} /\ In(m, "live", x) = {}
BY DEF In

LEMMA QueuesOf == \A x : Queue(x) = IF x = RowSeries THEN "config" ELSE "data"
BY DEF Queue

LEMMA SeriesServe ==
    ASSUME TypeOK, PhaseInv, NEW x \in Series, SeriesOK(x), NEW qs,
           \/ version = 2 /\ qs = Queues
           \/ version = 1 /\ qs = {"config"},
           Serve(qs)
    PROVE  SeriesOK(x)'
<1>1. /\ upc = "hello" /\ upc' = "status" /\ Subscribe("status", qs) /\ d2u' = NoRequest
      /\ u2d' = Arrives([type |-> "config"])
      /\ UNCHANGED <<version, upstreamDB, feed, asked, missItems, broken, dpc, downDB>>
  BY Zenon DEF Serve
<1>2. /\ subscribed' = [q \in Queues |-> q \in qs \/ subscribed[q]]
      /\ sub' = [q \in Queues |-> IF q \in qs THEN <<>> ELSE sub[q]]
  BY <1>1 DEF Subscribe, SubscribesAt
<1>3. QueueOrdered(x)'
  <2>1. sub'[Queue(x)] = sub[Queue(x)] \/ sub'[Queue(x)] = <<>>
    BY <1>2, QueueSeq
  <2>2. Saved(x)' = Saved(x) /\ Queue(x)' = Queue(x)
    BY <1>1, SameSaved, SameQueue
  <2> QED BY <1>1, <2>1, <2>2, QueueOrderKept DEF SeriesOK
<1>4. CASE broken
  <2>1. u2d' = u2d /\ broken'
    BY <1>1, <1>4 DEF Arrives
  <2> QED BY <1>1, <1>3, <2>1, SeriesBroken
<1>5. CASE ~broken
  <2> DEFINE c == [type |-> "config"]
  <2>0. c.type = "config"
    OBVIOUS
  <2> HIDE DEF c
  <2>1. u2d = NoFrames /\ dpc = "boot" /\ ~subscribed["config"]
    BY <1>1, <1>5 DEF PhaseInv, Phase, StageInv, Stages
  <2>2. Missing(x)' = {} /\ Live(x)' = {} /\ WiresOrdered(x)'
    <3>1. In(c, "miss", x) = {} /\ In(c, "live", x) = {}
      BY <2>0, InNothing
    <3>2. /\ Missing(x)' = Missing(x) \cup In(c, "miss", x)
          /\ Live(x)' = Live(x) \cup In(c, "live", x)
          /\ (/\ WiresOrdered(x) /\ Before(Missing(x), In(c, "miss", x))
              /\ Before(Live(x), In(c, "live", x))) => WiresOrdered(x)'
      BY <1>1, <1>5, WiresArrive DEF c
    <3>3. Missing(x) = {} /\ Live(x) = {} /\ WiresOrdered(x)
      BY <2>1, NoFramesWires
    <3>4. Before({}, {})
      BY DEF Before
    <3> QED BY <3>1, <3>2, <3>3, <3>4
  <2>3. ~Sent(x)'
    <3>1. \A ty : InFlight(ty)' <=> InFlight(ty) \/ (~broken /\ c.type = ty)
      BY <1>1, FlightArrives DEF c
    <3>2. ~InFlight("missStatus") /\ ~InFlight("end")
      BY <2>1 DEF PhaseInv, Phase, FlightInv
    <3>3. ~InFlight("missStatus")' /\ ~InFlight("end")'
      BY <2>0, <3>1, <3>2
    <3> QED BY <1>1, <2>1, <3>3 DEF Sent, RowSeries
  <2>4. Queued(x)' = {}
    <3>1. CASE Queue(x) \in qs
      <4>1. sub'[Queue(x)'] = <<>>
        BY <1>2, <3>1, SameQueue, QueueSeq
      <4> QED BY <4>1, OnEmpty DEF Queued
    <3>2. CASE Queue(x) \notin qs
      <4>1. version = 1 /\ Queue(x) = "data" /\ ~subscribed["data"]
        BY <1>1, <1>5, <3>2, QueuesOf DEF Queues, PhaseInv, Phase, StageInv
      <4>2. ~subscribed'[Queue(x)']
        BY <1>2, <3>2, <4>1, SameQueue DEF Queues
      <4> QED BY <4>2 DEF Queued, Flows
    <3> QED BY <3>1, <3>2
  <2> QED BY <1>1, <1>3, <2>2, <2>3, <2>4, SeriesAnew
<1> QED BY <1>4, <1>5

LEMMA SeriesSendMissStatus ==
    ASSUME TypeOK, PhaseInv, NEW x \in Series, SeriesOK(x),
           NEW next \in {"data", "accept"}, SendMissStatus(next)
    PROVE  SeriesOK(x)'
<1> DEFINE S == {r \in DOMAIN uLog : r > d2u.row}
           m == MissStatus(S, {})
<1>1. /\ upc = "status" /\ upc' = next /\ d2u.type = "statusLatest" /\ d2u' = NoRequest
      /\ u2d' = Arrives(m)
      /\ UNCHANGED <<version, upstreamDB, feed, missItems, queues, broken, dpc, downDB>>
  BY Zenon DEF SendMissStatus, upstream
<1>m. m.type = "missStatus" /\ m.rows = S
  BY DEF MissStatus
<1>2. /\ Saved(x)' = Saved(x) /\ Has(x)' = Has(x) /\ Refusals(x)' = Refusals(x)
      /\ Pending(x)' = Pending(x) /\ FeedOrdered(x)' /\ QueueOrdered(x)'
  <2>1. Saved(x)' = Saved(x) /\ Has(x)' = Has(x) /\ Refusals(x)' = Refusals(x)
    BY <1>1, SameSaved, SameHas
  <2>2. Pending(x)' = Pending(x) /\ FeedOrdered(x)'
    BY <1>1, SamePending DEF SeriesOK
  <2>3. QueueOrdered(x)'
    BY <1>1, <2>1, SameQueue, QueueOrderKept DEF queues, SeriesOK
  <2> QED BY <2>1, <2>2, <2>3
<1>3. CASE broken
  <2>1. u2d' = u2d /\ broken'
    BY <1>1, <1>3 DEF Arrives
  <2> QED BY <1>1, <1>2, <2>1, SeriesBroken
<1>4. CASE ~broken
  <2>0. (Flows(x)' <=> Flows(x)) /\ (Open(x)' <=> Open(x)) /\ Queued(x)' = Queued(x)
    <3>1. Flows(x)' <=> Flows(x)
      BY <1>1, SameQueue DEF Flows, NoRequest, RowSeries, queues
    <3>2. (Open(x)' <=> Open(x)) /\ Queued(x)' = Queued(x)
      BY <1>1, <3>1, SameQueue, Zenon DEF Open, Queued, queues
    <3> QED BY <3>1, <3>2
  <2> HIDE DEF m
  <2>1. /\ Missing(x)' = Missing(x) \cup In(m, "miss", x)
        /\ Live(x)' = Live(x) \cup In(m, "live", x)
        /\ (/\ WiresOrdered(x) /\ Before(Missing(x), In(m, "miss", x))
            /\ Before(Live(x), In(m, "live", x))) => WiresOrdered(x)'
    BY <1>1, <1>4, WiresArrive
  <2>2. \A ty : InFlight(ty)' <=> InFlight(ty) \/ (~broken /\ m.type = ty)
    BY <1>1, FlightArrives
  <2>3. CASE x = RowSeries
    <3>1. In(m, "miss", x) = S /\ In(m, "live", x) = {}
      BY <1>m, <2>3, InRow
    <3>2. Missing(x) = {}
      BY <1>1, <1>4, <2>3, NoneMissing DEF PhaseInv, Phase, StageInv
    <3>3. Missing(x)' = S /\ Live(x)' = Live(x) /\ WiresOrdered(x)'
      BY <2>1, <3>1, <3>2 DEF SeriesOK, Before
    <3>4. /\ d2u.row \in Has(x) /\ \A u \in Has(x) : u <= d2u.row
          /\ S = {u \in Saved(x) : u > d2u.row}
      <4>1. IsLatest(d2u.row, dLog) /\ d2u \in Request /\ Has(x) = dLog \cup {0}
        BY <1>1, <1>4, <2>3 DEF PhaseInv, Phase, LatestInv, TypeOK, Has
      <4>2. d2u.row \in Nat
        BY <1>1, <4>1, RequestKinds
      <4>3. DOMAIN uLog = Saved(x)
        BY <2>3, LenProperties DEF TypeOK, Saved
      <4> QED BY <4>1, <4>2, <4>3 DEF IsLatest
    <3>5. GapFree(Saved(x), Has(x), Refusals(x), S, Live(x), Queued(x), Pending(x),
                  Sent(x)', Open(x))
      <4>1. GapFree(Saved(x), Has(x), Refusals(x), Missing(x), Live(x), Queued(x), Pending(x),
                    Sent(x), Open(x))
        BY Zenon DEF SeriesOK, SeriesGapFree
      <4> HIDE DEF S
      <4> QED BY <3>2, <3>4, <4>1, MoveHistory
    <3>6. SeriesGapFree(x)'
      <4>1. GapFree(Saved(x), Has(x), Refusals(x), S, Live(x), Queued(x), Pending(x),
                    Sent(x)', Open(x)')
        BY <2>0, <3>5, MoveWeak
      <4> QED BY <1>2, <2>0, <3>3, <4>1, Zenon DEF SeriesGapFree
    <3>7. RoundRead(x)'
      BY <1>1, <2>0, <3>3 DEF RoundRead, SeriesOK
    <3> QED BY <1>2, <2>3, <3>3, <3>6, <3>7, Zenon DEF SeriesOK, RowSeries
  <2>4. ASSUME NEW i \in Items, x = <<i>> PROVE SeriesOK(x)'
    <3>1. In(m, "miss", x) = {} /\ In(m, "live", x) = {}
      BY <1>m, <2>4, InPoint
    <3>2. Missing(x)' = Missing(x) /\ Live(x)' = Live(x) /\ WiresOrdered(x)'
      BY <2>1, <3>1 DEF SeriesOK, Before
    <3>3. Sent(x)' => Sent(x)
      BY <1>1, <1>m, <2>2, <2>4, PointSeries DEF Sent, RowSeries
    <3>4. RoundRead(x)'
      BY <1>1, <2>0, <3>2 DEF RoundRead, SeriesOK
    <3> QED BY <1>1, <1>2, <2>0, <3>2, <3>3, <3>4, SeriesWeak
  <2> QED BY <2>3, <2>4, SeriesIs
<1> QED BY <1>3, <1>4

LEMMA VersionIs == ASSUME TypeOK PROVE version \in {1, 2}
<1>1. version \in Versions
  BY Zenon DEF TypeOK
<1> QED BY <1>1, RelayAssumption

(* What stays when neither database nor what waits changes. *)
LEMMA Steady ==
    ASSUME NEW x, SeriesOK(x), UNCHANGED <<upstreamDB, feed, downDB>>
    PROVE  /\ Saved(x)' = Saved(x) /\ Has(x)' = Has(x) /\ Refusals(x)' = Refusals(x)
           /\ Pending(x)' = Pending(x) /\ FeedOrdered(x)'
           /\ UNCHANGED sub[Queue(x)] \/ sub'[Queue(x)] = <<>> => QueueOrdered(x)'
           /\ sub'[Queue(x)] = sub[Queue(x)] => QueueOrdered(x)'
<1>1. Saved(x)' = Saved(x) /\ Has(x)' = Has(x) /\ Refusals(x)' = Refusals(x)
  BY SameSaved, SameHas
<1>2. Pending(x)' = Pending(x) /\ FeedOrdered(x)'
  BY SamePending DEF SeriesOK
<1>3. UNCHANGED sub[Queue(x)] \/ sub'[Queue(x)] = <<>> => QueueOrdered(x)'
  BY <1>1, QueueOrderKept DEF SeriesOK
<1>4. Queue(x)' = Queue(x)
  BY SameQueue
<1> QED BY <1>1, <1>2, <1>3, <1>4

LEMMA SeriesPlaces ==
    ASSUME NEW x, SeriesOK(x)
    PROVE  GapFree(Saved(x), Has(x), Refusals(x), Missing(x), Live(x), Queued(x), Pending(x),
                   Sent(x), Open(x))
BY Zenon DEF SeriesOK, SeriesGapFree

(* A frame with nothing of the series is sent. *)
LEMMA SeriesSendsNothing ==
    ASSUME TypeOK, NEW x, SeriesOK(x), NEW m, u2d' = Arrives(m),
           In(m, "miss", x) = {}, In(m, "live", x) = {},
           UNCHANGED <<version, upstreamDB, feed, queues, broken, downDB>>,
           ~broken => (Flows(x)' <=> Flows(x)), Sent(x)' => Sent(x)
    PROVE  SeriesOK(x)'
<1>1. /\ Saved(x)' = Saved(x) /\ Has(x)' = Has(x) /\ Refusals(x)' = Refusals(x)
      /\ QueueOrdered(x)'
  BY Steady DEF queues
<1>2. Missing(x)' = Missing(x) /\ Live(x)' = Live(x) /\ WiresOrdered(x)'
  <2>1. /\ Missing(x)' = Missing(x) /\ Live(x)' = Live(x)
        /\ (/\ WiresOrdered(x) /\ (broken \/ (Before(Missing(x), {}) /\ Before(Live(x), {}))))
           => WiresOrdered(x)'
    <3>1. /\ Missing(x)' = IF broken THEN Missing(x) ELSE Missing(x) \cup In(m, "miss", x)
          /\ Live(x)' = IF broken THEN Live(x) ELSE Live(x) \cup In(m, "live", x)
          /\ WiresOrdered(x) /\ (broken \/ (/\ Before(Missing(x), In(m, "miss", x))
                                            /\ Before(Live(x), In(m, "live", x))))
             => WiresOrdered(x)'
      BY WiresArrive
    <3> QED BY <3>1
  <2> QED BY <2>1 DEF SeriesOK, Before
<1>3. (Flows(x)' <=> Flows(x)) /\ (Open(x)' <=> Open(x)) /\ Queued(x)' = Queued(x)
  <2>1. Flows(x)' <=> Flows(x)
    BY DEF Flows
  <2> QED BY <2>1, SameQueue, Zenon DEF Open, Queued, queues
<1>4. RoundRead(x)'
  BY <1>2, <1>3 DEF RoundRead, SeriesOK
<1> QED BY <1>1, <1>2, <1>3, <1>4, SeriesWeak

LEMMA SeriesRound ==
    ASSUME TypeOK, PhaseInv, NEW x \in Series, SeriesOK(x), syncDataServer
    PROVE  SeriesOK(x)'
<1> DEFINE m == [type |-> "permissions"]
<1>0. m.type = "permissions"
  OBVIOUS
<1>1. /\ upc = "accept" /\ upc' = "data" /\ d2u.type = "open" /\ d2u' = NoRequest
      /\ u2d' = Arrives(m) /\ Subscribe("data", {"data"})
      /\ UNCHANGED <<version, upstreamDB, feed, missItems, broken, dpc, downDB>>
  BY Zenon DEF syncDataServer
<1>2. version = 1
  BY <1>1, VersionIs DEF PhaseInv, Phase, FlightInv
<1>3. /\ subscribed' = [q \in Queues |-> q = "data" \/ subscribed[q]]
      /\ sub' = [q \in Queues |-> IF q = "data" THEN <<>> ELSE sub[q]]
      /\ closed' = [q \in Queues |-> q # "data" /\ closed[q]]
  BY <1>1, <1>2 DEF Subscribe, SubscribesAt
<1>4. /\ Saved(x)' = Saved(x) /\ Has(x)' = Has(x) /\ Refusals(x)' = Refusals(x)
      /\ QueueOrdered(x)'
  <2>1. sub'[Queue(x)] = sub[Queue(x)] \/ sub'[Queue(x)] = <<>>
    BY <1>3, QueueSeq
  <2> QED BY <1>1, <2>1, Steady
<1> HIDE DEF m
<1>5. CASE broken
  <2>1. u2d' = u2d /\ broken'
    BY <1>1, <1>5 DEF Arrives
  <2> QED BY <1>1, <1>4, <2>1, SeriesBroken
<1>6. CASE ~broken
  <2>1. In(m, "miss", x) = {} /\ In(m, "live", x) = {}
    BY <1>0, InNothing
  <2>2. /\ Missing(x)' = Missing(x) \cup In(m, "miss", x)
        /\ Live(x)' = Live(x) \cup In(m, "live", x)
        /\ (/\ WiresOrdered(x) /\ Before(Missing(x), In(m, "miss", x))
            /\ Before(Live(x), In(m, "live", x))) => WiresOrdered(x)'
    BY <1>1, <1>6, WiresArrive
  <2>3. Missing(x)' = Missing(x) /\ Live(x)' = Live(x) /\ WiresOrdered(x)'
    BY <2>1, <2>2 DEF SeriesOK, Before
  <2>4. \A ty : InFlight(ty)' <=> InFlight(ty) \/ (~broken /\ m.type = ty)
    BY <1>1, FlightArrives
  <2>5. dpc = "open"
    BY <1>1, <1>6 DEF PhaseInv, Phase, StageInv, Stages
  <2>6. CASE x = RowSeries
    <3>1. /\ sub'[Queue(x)'] = sub[Queue(x)] /\ subscribed'[Queue(x)'] = subscribed[Queue(x)]
          /\ closed'[Queue(x)'] = closed[Queue(x)]
      BY <1>3, <2>6, SameQueue, QueuesOf DEF Queues, TypeOK
    <3>2. (Flows(x)' <=> Flows(x)) /\ (Open(x)' <=> Open(x)) /\ Queued(x)' = Queued(x)
      <4>1. Flows(x)' <=> Flows(x)
        BY <1>1, <2>6, <3>1 DEF Flows, RowSeries
      <4> QED BY <3>1, <4>1, Zenon DEF Open, Queued
    <3>3. Sent(x)
      BY <1>1, <1>6, <2>6 DEF Sent
    <3>4. RoundRead(x)'
      BY <1>1, <2>3, <3>2 DEF RoundRead, SeriesOK
    <3> QED BY <1>1, <1>4, <2>3, <3>2, <3>3, <3>4, SeriesWeak
  <2>7. ASSUME NEW i \in Items, x = <<i>> PROVE SeriesOK(x)'
    <3>1. Live(x) = {}
      BY <1>1, <1>2, <1>6, <2>7, PointSeries DEF SeriesOK, RoundRead, Flows
    <3>2. Missing(x) = {}
      BY <2>5, <2>7, NoneMissing DEF PhaseInv, Phase, FlightInv
    <3>3. Queued(x)' = {}
      <4>1. sub'[Queue(x)'] = <<>>
        BY <1>3, <2>7, SameQueue, QueuesOf, PointSeries DEF Queues
      <4> QED BY <4>1, OnEmpty DEF Queued
    <3>4. ~Sent(x)'
      <4>1. ~InFlight("end")'
        BY <1>0, <2>4, <2>5 DEF PhaseInv, Phase, FlightInv
      <4> QED BY <1>1, <2>5, <2>7, <4>1, PointSeries DEF Sent, RowSeries
    <3> QED BY <1>1, <1>4, <2>3, <3>1, <3>2, <3>3, <3>4, SeriesAnew
  <2> QED BY <2>6, <2>7, SeriesIs
<1> QED BY <1>5, <1>6

LEMMA SeriesRoundEnd ==
    ASSUME TypeOK, PhaseInv, NEW x \in Series, SeriesOK(x), syncDataServerReturns
    PROVE  SeriesOK(x)'
<1>1. /\ upc = "run" /\ upc' = "accept" /\ d2u.type = "open"
      /\ subscribed' = [subscribed EXCEPT !["data"] = FALSE]
      /\ sub' = [sub EXCEPT !["data"] = <<>>]
      /\ closed' = [closed EXCEPT !["data"] = FALSE]
      /\ UNCHANGED <<version, upstreamDB, feed, missItems, network, dpc, downDB>>
  BY DEF syncDataServerReturns
<1>2. version = 1
  BY <1>1, VersionIs DEF PhaseInv, Phase, FlightInv
<1>3. /\ Queue(x) \in Queues /\ Queue(x)' = Queue(x)
      /\ subscribed \in [Queues -> BOOLEAN] /\ closed \in [Queues -> BOOLEAN]
      /\ Queue(x) = IF x = RowSeries THEN "config" ELSE "data"
      /\ Queue(x) \in DOMAIN sub
  BY QueueSeq, SameQueue, QueuesOf DEF TypeOK
<1>4. /\ Saved(x)' = Saved(x) /\ Has(x)' = Has(x) /\ Refusals(x)' = Refusals(x)
      /\ QueueOrdered(x)'
  <2>1. sub'[Queue(x)] = sub[Queue(x)] \/ sub'[Queue(x)] = <<>>
    BY <1>1, <1>3
  <2> QED BY <1>1, <2>1, Steady
<1>5. Missing(x)' = Missing(x) /\ Live(x)' = Live(x) /\ WiresOrdered(x)'
  BY <1>1, WiresKept DEF network, SeriesOK
<1>6. Sent(x)' => Sent(x)
  <2>1. \A ty : InFlight(ty)' <=> InFlight(ty)
    BY <1>1, FlightKept DEF network
  <2> QED BY <1>1, <2>1 DEF Sent, RowSeries, network
<1>7. CASE x = RowSeries
  <2>1. /\ sub'[Queue(x)'] = sub[Queue(x)] /\ subscribed'[Queue(x)'] = subscribed[Queue(x)]
        /\ closed'[Queue(x)'] = closed[Queue(x)]
    BY <1>1, <1>3, <1>7
  <2>2. Flows(x)' <=> Flows(x)
    BY <1>1, <1>7, <2>1 DEF Flows, RowSeries, network
  <2>3. (Open(x)' <=> Open(x)) /\ Queued(x)' = Queued(x)
    BY <2>1, <2>2, Zenon DEF Open, Queued
  <2>4. RoundRead(x)'
    BY <1>1, <1>5, <2>2 DEF RoundRead, SeriesOK, network
  <2> QED BY <1>1, <1>4, <1>5, <1>6, <2>3, <2>4, SeriesWeak
<1>8. CASE x # RowSeries
  <2>1. ~subscribed'[Queue(x)']
    BY <1>1, <1>3, <1>8
  <2>2. ~Flows(x)' /\ ~Open(x)' /\ Queued(x)' = {}
    BY <2>1 DEF Flows, Open, Queued
  <2>3. RoundRead(x)'
    BY <1>1, <1>2, <1>5, <1>8 DEF RoundRead, SeriesOK, Flows, network
  <2> QED BY <1>1, <1>4, <1>5, <1>6, <2>2, <2>3, SeriesWeak
<1> QED BY <1>7, <1>8

LEMMA SeriesRecvItems ==
    ASSUME TypeOK, PhaseInv, NEW x \in Series, SeriesOK(x), RecvItemsLatest
    PROVE  SeriesOK(x)'
<1>1. /\ upc = "data" /\ upc' = "history" /\ d2u.type = "itemsLatest" /\ d2u' = NoRequest
      /\ missItems' = {i \in Items : d2u.ts[i] > 0}
      /\ UNCHANGED <<version, upstreamDB, feed, queues, u2d, broken, dpc, downDB>>
  BY Zenon DEF RecvItemsLatest
<1>2. /\ Saved(x)' = Saved(x) /\ Has(x)' = Has(x) /\ Refusals(x)' = Refusals(x)
      /\ Pending(x)' = Pending(x) /\ FeedOrdered(x)' /\ QueueOrdered(x)'
  BY <1>1, Steady DEF queues
<1>3. Missing(x)' = Missing(x) /\ Live(x)' = Live(x) /\ WiresOrdered(x)'
  BY <1>1, WiresKept DEF SeriesOK
<1>4. (Flows(x)' <=> Flows(x)) /\ (Open(x)' <=> Open(x)) /\ Queued(x)' = Queued(x)
  <2>1. Flows(x)' <=> Flows(x)
    BY <1>1, SameQueue DEF Flows, NoRequest, RowSeries, queues
  <2> QED BY <1>1, <2>1, SameQueue, Zenon DEF Open, Queued, queues
<1>5. RoundRead(x)'
  BY <1>1, <1>3, <1>4 DEF RoundRead, SeriesOK
<1>6. \A ty : InFlight(ty)' <=> InFlight(ty)
  BY <1>1, FlightKept
<1>7. CASE Sent(x)' => Sent(x)
  BY <1>1, <1>2, <1>3, <1>4, <1>5, <1>7, SeriesWeak
<1>8. CASE x = RowSeries
  <2>1. Sent(x)' => Sent(x)
    BY <1>1, <1>6, <1>8 DEF Sent, RowSeries
  <2> QED BY <1>7, <2>1
<1>9. ASSUME NEW i \in Items, x = <<i>>, Sent(x)', ~Sent(x) PROVE SeriesOK(x)'
  <2>1. ~broken /\ i \notin missItems'
    BY <1>1, <1>6, <1>9, PointSeries DEF Sent, RowSeries
  <2>2. IsLatest(d2u.ts[i], dStored[i]) /\ dpc = "miss"
    BY <1>1, <2>1 DEF PhaseInv, Phase, LatestInv
  <2>3. d2u.ts[i] = 0
    <3>1. d2u.ts \in [Items -> Nat]
      BY <1>1, RequestKinds DEF TypeOK
    <3> QED BY <1>1, <2>1, <3>1
  <2>4. Has(x) = dStored[i] /\ 0 \notin Has(x)
    BY <1>9, PointSeries DEF Has, SeriesOK
  <2>5. Has(x) = {}
    <3>1. \A u \in Has(x) : u \in Nat
      BY SeriesNat
    <3> QED BY <2>2, <2>3, <2>4, <3>1 DEF IsLatest
  <2>6. Missing(x) = {}
    <3>1. GapFree(Saved(x), Has(x), Refusals(x), Missing(x), Live(x), Queued(x), Pending(x),
                  Sent(x), Open(x))
      BY SeriesPlaces
    <3>2. Missing(x) # {} => Has(x) # {}
      BY <3>1, Zenon DEF GapFree, Low
    <3> QED BY <2>5, <3>2
  <2>7. SeriesGapFree(x)'
    <3>1. GapFree(Saved(x), Has(x), Refusals(x), Missing(x), Live(x), Queued(x), Pending(x),
                  Sent(x), Open(x))
      BY SeriesPlaces
    <3>2. GapFree(Saved(x), Has(x), Refusals(x), Missing(x), Live(x), Queued(x), Pending(x),
                  Sent(x)', Open(x))
      BY <2>5, <2>6, <3>1, MoveNoHistory
    <3>3. GapFree(Saved(x), Has(x), Refusals(x), Missing(x), Live(x), Queued(x), Pending(x),
                  Sent(x)', Open(x)')
      BY <1>4, <3>2, MoveWeak
    <3> QED BY <1>2, <1>3, <1>4, <3>3, Zenon DEF SeriesGapFree
  <2>8. x # RowSeries => 0 \notin Has(x)'
    BY <1>2 DEF SeriesOK
  <2> QED BY <1>2, <1>3, <1>5, <2>7, <2>8, Zenon DEF SeriesOK, RowSeries
<1> QED BY <1>7, <1>8, <1>9, SeriesIs

LEMMA SeriesSendHistory ==
    ASSUME TypeOK, PhaseInv, NEW x \in Series, SeriesOK(x), NEW i \in Items, SendHistory(i)
    PROVE  SeriesOK(x)'
<1> DEFINE S == HistoryAfter(i)
           m == MissData(i, S)
<1>1. /\ upc = "history" /\ upc' = "history" /\ i \in missItems /\ missItems' = missItems \ {i}
      /\ u2d' = (IF S = {} THEN u2d ELSE Arrives(m))
      /\ UNCHANGED <<version, upstreamDB, feed, asked, queues, d2u, broken, dpc, downDB>>
  BY Zenon DEF SendHistory
<1>m. m.type = "missData" /\ m.points = S /\ m.item = i
  BY DEF MissData
<1> HIDE DEF m
<1>2. /\ Saved(x)' = Saved(x) /\ Has(x)' = Has(x) /\ Refusals(x)' = Refusals(x)
      /\ Pending(x)' = Pending(x) /\ FeedOrdered(x)' /\ QueueOrdered(x)'
  BY <1>1, Steady DEF queues
<1>3. CASE broken
  <2>1. u2d' = u2d /\ broken'
    BY <1>1, <1>3 DEF Arrives
  <2> QED BY <1>1, <1>2, <2>1, SeriesBroken
<1>4. CASE ~broken
  <2>0. (Flows(x)' <=> Flows(x)) /\ (Open(x)' <=> Open(x)) /\ Queued(x)' = Queued(x)
    <3>1. (Flows(x)' <=> Flows(x)) /\ (Open(x)' <=> Open(x))
      BY <1>1, SameFlowOpen DEF queues
    <3> QED BY <1>1, <3>1, SameQueue, Zenon DEF Queued, queues
  <2>l. In(m, "live", x) = {}
    BY <1>m DEF In
  <2>1. /\ Missing(x)' = Missing(x) \cup In(m, "miss", x)
        /\ Live(x)' = Live(x)
        /\ WiresOrdered(x) /\ Before(Missing(x), In(m, "miss", x)) => WiresOrdered(x)'
    <3>1. CASE S = {}
      <4>1. In(m, "miss", x) = {}
        BY <1>m, <3>1 DEF In
      <4>2. Missing(x)' = Missing(x) /\ Live(x)' = Live(x) /\ (WiresOrdered(x) => WiresOrdered(x)')
        BY <1>1, <3>1, WiresKept
      <4> QED BY <4>1, <4>2
    <3>2. CASE S # {}
      <4>1. u2d' = Arrives(m)
        BY <1>1, <3>2
      <4>2. /\ Missing(x)' = Missing(x) \cup In(m, "miss", x)
            /\ Live(x)' = Live(x) \cup In(m, "live", x)
            /\ (/\ WiresOrdered(x) /\ Before(Missing(x), In(m, "miss", x))
                /\ Before(Live(x), In(m, "live", x))) => WiresOrdered(x)'
        BY <1>1, <1>4, <4>1, WiresArrive
      <4>3. Before(Live(x), {})
        BY DEF Before
      <4> QED BY <2>l, <4>2, <4>3
    <3> QED BY <3>1, <3>2
  <2>2. InFlight("end")' => InFlight("end")
    <3>1. CASE S = {}
      BY <1>1, <3>1, FlightKept
    <3>2. CASE S # {}
      <4>1. u2d' = Arrives(m)
        BY <1>1, <3>2
      <4>2. \A ty : InFlight(ty)' <=> InFlight(ty) \/ (~broken /\ m.type = ty)
        BY <1>1, <4>1, FlightArrives
      <4> QED BY <1>m, <4>2
    <3> QED BY <3>1, <3>2
  <2>3. CASE x # <<i>>
    <3>1. In(m, "miss", x) = {}
      BY <1>m, <2>3, InRow, InPoint, SeriesIs
    <3>2. Missing(x)' = Missing(x) /\ Live(x)' = Live(x) /\ WiresOrdered(x)'
      BY <2>1, <3>1 DEF SeriesOK, Before
    <3>3. Sent(x)' => Sent(x)
      <4>1. CASE x = RowSeries
        BY <1>1, <1>4, <4>1 DEF Sent, RowSeries
      <4>2. ASSUME NEW j \in Items, x = <<j>> PROVE <3>3
        <5>1. j # i
          BY <2>3, <4>2
        <5> QED BY <1>1, <2>2, <4>2, <5>1, PointSeries DEF Sent, RowSeries
      <4> QED BY <4>1, <4>2, SeriesIs
    <3>4. RoundRead(x)'
      BY <1>1, <2>0, <3>2 DEF RoundRead, SeriesOK
    <3> QED BY <1>1, <1>2, <2>0, <3>2, <3>3, <3>4, SeriesWeak
  <2>4. CASE x = <<i>>
    <3>0. Saved(x) = uStored[i] /\ Has(x) = dStored[i] /\ x # RowSeries
      BY <2>4, PointSeries DEF Saved, Has
    <3>1. /\ asked[i] # 0 /\ IsLatest(asked[i], dStored[i])
          /\ NoneOf(u2d[Stream("missData")], i)
      BY <1>1, <1>4 DEF PhaseInv, Phase, LatestInv
    <3>2. Missing(x) = {}
      <4>1. \A n \in DOMAIN u2d[Stream("missData")] : In(u2d[Stream("missData")][n], "miss", x) = {}
        BY <2>4, <3>1, InPoint DEF NoneOf
      <4>2. Missing(x) = On(u2d[Stream("missData")], "miss", x)
        BY <3>0 DEF Missing, MissWire
      <4> QED BY <4>1, <4>2, OnDef
    <3>3. In(m, "miss", x) = S
      BY <1>m, <2>4, InPoint
    <3>4. Missing(x)' = S /\ Live(x)' = Live(x) /\ WiresOrdered(x)'
      BY <2>1, <3>2, <3>3 DEF SeriesOK, Before
    <3>5. /\ asked[i] \in Has(x) /\ \A u \in Has(x) : u <= asked[i]
          /\ S = {u \in Saved(x) : u > asked[i]}
      BY <3>0, <3>1 DEF IsLatest, HistoryAfter
    <3>6. GapFree(Saved(x), Has(x), Refusals(x), S, Live(x), Queued(x), Pending(x),
                  Sent(x)', Open(x))
      <4>1. GapFree(Saved(x), Has(x), Refusals(x), Missing(x), Live(x), Queued(x), Pending(x),
                    Sent(x), Open(x))
        BY SeriesPlaces
      <4> HIDE DEF S
      <4> QED BY <3>2, <3>5, <4>1, MoveHistory
    <3>7. SeriesGapFree(x)'
      <4>1. GapFree(Saved(x), Has(x), Refusals(x), S, Live(x), Queued(x), Pending(x),
                    Sent(x)', Open(x)')
        BY <2>0, <3>6, MoveWeak
      <4> QED BY <1>2, <2>0, <3>4, <4>1, Zenon DEF SeriesGapFree
    <3>8. RoundRead(x)'
      BY <1>1, <2>0, <3>4 DEF RoundRead, SeriesOK
    <3>9. x # RowSeries => 0 \notin Has(x)'
      BY <1>2 DEF SeriesOK
    <3> QED BY <1>2, <3>4, <3>7, <3>8, <3>9, Zenon DEF SeriesOK, RowSeries
  <2> QED BY <2>3, <2>4
<1> QED BY <1>3, <1>4

LEMMA SeriesHistoryEnd ==
    ASSUME TypeOK, NEW x \in Series, SeriesOK(x), SendHistoryEnd
    PROVE  SeriesOK(x)'
<1> DEFINE m == [type |-> "end"]
<1>0. m.type = "end"
  OBVIOUS
<1>1. /\ upc = "history" /\ upc' = "run" /\ missItems = {} /\ u2d' = Arrives(m)
      /\ UNCHANGED <<version, upstreamDB, feed, missItems, queues, d2u, broken, dpc, downDB>>
  BY DEF SendHistoryEnd, Subscribe, SubscribesAt
<1> HIDE DEF m
<1>2. In(m, "miss", x) = {} /\ In(m, "live", x) = {}
  BY <1>0, InNothing
<1>3. Flows(x)' <=> Flows(x)
  BY <1>1, SameFlow DEF queues
<1>4. Sent(x)' => Sent(x)
  <2>1. \A ty : InFlight(ty)' <=> InFlight(ty) \/ (~broken /\ m.type = ty)
    BY <1>1, FlightArrives
  <2> QED BY <1>0, <1>1, <2>1 DEF Sent, RowSeries
<1> QED BY <1>1, <1>2, <1>3, <1>4, SeriesSendsNothing

LEMMA SeriesForward ==
    ASSUME TypeOK, PhaseInv, NEW x \in Series, SeriesOK(x), NEW q \in Queues,
           forwardIncremental(q)
    PROVE  SeriesOK(x)'
<1> DEFINE m == Head(sub[q])
           I == In(m, "live", x)
           s == sub[Queue(x)]
<1>1. /\ Forwards(q) /\ sub[q] # <<>> /\ u2d' = Arrives(m)
      /\ sub' = [sub EXCEPT ![q] = Tail(sub[q])]
      /\ UNCHANGED <<version, upstreamDB, feed, upc, asked, missItems, subscribed, closed, d2u,
                     broken, dpc, downDB>>
  BY DEF forwardIncremental, upstream
<1>2. m \in (IF q = "data" THEN Point ELSE Row)
  BY ForwardType
<1>3. m.type \in {"data", "status"} /\ QueueOf(m) = q
  BY <1>2, PointFields, RowFields DEF QueueOf, Queues
<1>4. In(m, "miss", x) = {} /\ (I # {} => q = Queue(x))
  <2>1. In(m, "miss", x) = {}
    BY <1>3 DEF In
  <2> QED BY <1>3, <2>1, InQueue
<1> HIDE DEF m
<1>5. /\ Saved(x)' = Saved(x) /\ Has(x)' = Has(x) /\ Refusals(x)' = Refusals(x)
      /\ Pending(x)' = Pending(x) /\ FeedOrdered(x)'
      /\ sub'[Queue(x)] = s => QueueOrdered(x)'
  BY <1>1, Steady
<1>6. (Flows(x)' <=> Flows(x)) /\ (Open(x)' <=> Open(x)) /\ Queue(x)' = Queue(x)
  BY <1>1, SameFlowOpen, SameQueue
<1>7. Sent(x)' => Sent(x)
  <2>1. \A ty : InFlight(ty)' <=> InFlight(ty) \/ (~broken /\ m.type = ty)
    BY <1>1, FlightArrives
  <2>2. (InFlight("missStatus")' <=> InFlight("missStatus")) /\ (InFlight("end")' <=> InFlight("end"))
    BY <1>3, <2>1
  <2> QED BY <1>1, <2>2, Zenon DEF Sent, RowSeries
<1>8. /\ On(s, "live", x) = I \cup On(sub'[Queue(x)], "live", x)
      /\ I # {} => Before(I, On(sub'[Queue(x)], "live", x))
      /\ QueueOrdered(x)'
  <2>1. CASE q # Queue(x)
    <3>1. sub'[Queue(x)] = s
      BY <1>1, <2>1, QueueSeq
    <3> QED BY <1>4, <1>5, <2>1, <3>1
  <2>2. CASE q = Queue(x)
    <3>1. sub'[Queue(x)] = Tail(s) /\ s # <<>> /\ s \in Seq(Point \cup Row) /\ m = Head(s)
      BY <1>1, <2>2, QueueSeq DEF m
    <3>2. Asc(s, "live", x) /\ On(s, "live", x) \subseteq Saved(x) /\ Before(On(s, "live", x), Pending(x))
      BY Zenon DEF SeriesOK, QueueOrdered
    <3>3. /\ On(s, "live", x) = I \cup On(sub'[Queue(x)], "live", x)
          /\ Asc(sub'[Queue(x)], "live", x)
          /\ Before(I, On(sub'[Queue(x)], "live", x))
      <4> HIDE DEF s
      <4> QED BY <3>1, <3>2, OnTail
    <3>4. /\ Before(On(sub'[Queue(x)], "live", x), Pending(x))
          /\ On(sub'[Queue(x)], "live", x) \subseteq Saved(x)
      <4> HIDE DEF s, I
      <4> QED BY <3>2, <3>3 DEF Before
    <3> QED BY <1>5, <1>6, <3>3, <3>4, Zenon DEF QueueOrdered
  <2> QED BY <2>1, <2>2
<1>9. CASE broken
  <2>1. u2d' = u2d /\ broken'
    BY <1>1, <1>9 DEF Arrives
  <2> QED BY <1>1, <1>8, <2>1, SeriesBroken
<1>10. CASE ~broken
  <2>1. /\ Missing(x)' = Missing(x) \cup In(m, "miss", x)
        /\ Live(x)' = Live(x) \cup I
        /\ (/\ WiresOrdered(x) /\ Before(Missing(x), In(m, "miss", x))
            /\ Before(Live(x), I)) => WiresOrdered(x)'
    BY <1>1, <1>10, WiresArrive
  <2>2. /\ Missing(x)' = Missing(x)
        /\ WiresOrdered(x) /\ Before(Live(x), I) => WiresOrdered(x)'
    <3>1. Before(Missing(x), {})
      BY DEF Before
    <3> QED BY <1>4, <2>1, <3>1
  <2>3. CASE I = {}
    <3>1. Live(x)' = Live(x) /\ WiresOrdered(x)' /\ Queued(x)' = Queued(x)
      <4>1. Live(x)' = Live(x) /\ WiresOrdered(x)'
        BY <2>1, <2>2, <2>3 DEF Before, SeriesOK
      <4>2. On(sub'[Queue(x)], "live", x) = On(s, "live", x)
        BY <1>8, <2>3
      <4> QED BY <1>6, <4>1, <4>2, Zenon DEF Queued
    <3>2. RoundRead(x)'
      BY <1>1, <1>6, <3>1 DEF RoundRead, SeriesOK
    <3> QED BY <1>1, <1>5, <1>6, <1>7, <1>8, <2>2, <3>1, <3>2, SeriesWeak
  <2>4. CASE I # {}
    <3>1. Flows(x)
      <4>1. q = Queue(x) /\ subscribed[q]
        BY <1>1, <1>4, <2>4 DEF PhaseInv, EmptyInv
      <4>2. version = 1 /\ x # RowSeries => d2u.type # "open"
        BY <1>1, <4>1, QueuesOf DEF Forwards
      <4> QED BY <1>10, <4>1, <4>2 DEF Flows
    <3>2. Queued(x) = On(s, "live", x) /\ Queued(x)' = On(sub'[Queue(x)], "live", x)
      BY <1>6, <3>1 DEF Queued
    <3>3. PICK t : t \in I
      BY <2>4
    <3>4. I = {t} /\ t \in Queued(x) /\ Queued(x)' = Queued(x) \ {t} /\ \A u \in Queued(x) : t <= u
      <4>1. I = {t} /\ t \in Queued(x)
        BY <1>8, <3>2, <3>3, InOne
      <4>2. \A u \in Queued(x) : u \in Nat
        BY SeriesNat
      <4>3. Queued(x) = {t} \cup Queued(x)'
        BY <1>8, <3>2, <4>1
      <4>4. \A u \in Queued(x)' : t < u
        BY <1>8, <3>2, <4>1 DEF Before
      <4> HIDE DEF Queued, I
      <4> QED BY <4>1, <4>2, <4>3, <4>4
    <3>5. GapFree(Saved(x), Has(x), Refusals(x), Missing(x), Live(x), Queued(x), Pending(x),
                  Sent(x), Open(x))
      BY SeriesPlaces
    <3>6. GapFree(Saved(x), Has(x), Refusals(x), Missing(x), Live(x) \cup {t}, Queued(x) \ {t},
                  Pending(x), Sent(x), Open(x))
      BY <3>4, <3>5, MoveForward
    <3>7. Live(x)' = Live(x) \cup {t} /\ WiresOrdered(x)'
      <4>1. InOrder(Live(x), Queued(x), Pending(x))
        BY <3>5, Zenon DEF GapFree
      <4>2. Before(Live(x), I)
        BY <3>4, <4>1 DEF InOrder, Before
      <4> QED BY <2>1, <2>2, <3>4, <4>2 DEF SeriesOK
    <3>8. SeriesGapFree(x)'
      <4>1. GapFree(Saved(x), Has(x), Refusals(x), Missing(x), Live(x) \cup {t}, Queued(x) \ {t},
                    Pending(x), Sent(x)', Open(x)')
        BY <1>6, <1>7, <3>6, MoveWeak
      <4> QED BY <1>5, <2>2, <3>4, <3>7, <4>1, Zenon DEF SeriesGapFree
    <3>9. RoundRead(x)' /\ (x # RowSeries => 0 \notin Has(x)')
      BY <1>5, <1>6, <3>1 DEF RoundRead, SeriesOK
    <3> QED BY <1>5, <1>8, <3>7, <3>8, <3>9, Zenon DEF SeriesOK, RowSeries
  <2> QED BY <2>3, <2>4
<1> QED BY <1>9, <1>10

-----------------------------------------------------------------------------
(* A series and what ends a connection *)

LEMMA EmptyQueue == \A q \in Queues : Empty[q] = <<>> /\ None[q] = FALSE
BY DEF Empty, None

LEMMA SeriesPermissions ==
    ASSUME TypeOK, NEW x \in Series, SeriesOK(x), UpdatePermissions
    PROVE  SeriesOK(x)'
<1>1. /\ closed' = [closed EXCEPT !["data"] = TRUE]
      /\ UNCHANGED <<version, upstreamDB, feed, upstream, subscribed, sub, network, dpc, downDB>>
  BY DEF UpdatePermissions
<1>2. Saved(x)' = Saved(x) /\ Has(x)' = Has(x) /\ Refusals(x)' = Refusals(x) /\ QueueOrdered(x)'
  BY <1>1, Steady
<1>3. Missing(x)' = Missing(x) /\ Live(x)' = Live(x) /\ WiresOrdered(x)'
  BY <1>1, WiresKept DEF SeriesOK, network
<1>4. (Flows(x)' <=> Flows(x)) /\ (Sent(x)' <=> Sent(x))
  BY <1>1, SameFlow, SameSent DEF network, upstream
<1>5. Queued(x)' = Queued(x)
  BY <1>1, <1>4, SameQueue, Zenon DEF Queued
<1>6. Open(x)' => Open(x)
  <2>1. Queue(x)' = Queue(x) /\ Queue(x) \in Queues /\ closed \in [Queues -> BOOLEAN]
    BY SameQueue, QueueSeq DEF TypeOK
  <2>2. ~closed'[Queue(x)] => ~closed[Queue(x)]
    BY <1>1, <2>1
  <2> QED BY <1>4, <2>1, <2>2 DEF Open
<1>7. RoundRead(x)'
  BY <1>1, <1>3, <1>4 DEF RoundRead, SeriesOK, network
<1> QED BY <1>1, <1>2, <1>3, <1>4, <1>5, <1>6, <1>7, SeriesWeak

LEMMA SeriesRelayReturns ==
    ASSUME TypeOK, NEW x \in Series, SeriesOK(x), StreamRelayReturns \/ Break
    PROVE  SeriesOK(x)'
<1>1. /\ broken' = TRUE /\ (sub' = Empty \/ sub' = sub)
      /\ UNCHANGED <<version, upstreamDB, feed, u2d, dpc, downDB>>
  BY Zenon DEF StreamRelayReturns, Break, queues
<1>2. sub'[Queue(x)] = sub[Queue(x)] \/ sub'[Queue(x)] = <<>>
  BY <1>1, QueueSeq, EmptyQueue
<1>3. QueueOrdered(x)'
  BY <1>1, <1>2, Steady
<1> QED BY <1>1, <1>3, SeriesBroken

LEMMA SeriesRestart ==
    ASSUME TypeOK, NEW x \in Series, SeriesOK(x), UpstreamRestart
    PROVE  SeriesOK(x)'
<1>1. /\ broken' = TRUE /\ sub' = Empty /\ unpublished' = <<>> /\ delayed' = <<>>
      /\ UNCHANGED <<version, upstreamDB, u2d, dpc, downDB>>
  BY Zenon DEF UpstreamRestart
<1>2. /\ Saved(x)' = Saved(x) /\ Has(x)' = Has(x) /\ Refusals(x)' = Refusals(x)
      /\ Missing(x)' = Missing(x) /\ Live(x)' = Live(x) /\ WiresOrdered(x)'
  BY <1>1, SameSaved, SameHas, WiresKept DEF SeriesOK
<1>3. ~Flows(x)' /\ ~Open(x)' /\ Queued(x)' = {} /\ RoundRead(x)'
  BY <1>1 DEF Flows, Open, Queued, RoundRead
<1>4. Sent(x)' => Sent(x)
  <2>1. \A ty : InFlight(ty)' <=> InFlight(ty)
    BY <1>1, FlightKept
  <2> QED BY <1>1, <2>1, Zenon DEF Sent, RowSeries
<1>5. On(<<>>, "live", x) = {} /\ Asc(<<>>, "live", x) /\ Before({}, {})
  BY OnEmpty DEF Before
<1>6. Pending(x)' = {} /\ FeedOrdered(x)'
  BY <1>1, <1>5 DEF Pending, FeedOrdered
<1>7. QueueOrdered(x)'
  <2>1. sub'[Queue(x)'] = <<>>
    BY <1>1, QueueSeq, EmptyQueue, SameQueue
  <2> QED BY <1>5, <1>6, <2>1 DEF QueueOrdered
<1>8. SeriesGapFree(x)'
  <2>1. GapFree(Saved(x), Has(x), Refusals(x), Missing(x), Live(x), Queued(x), Pending(x),
                Sent(x), Open(x))
    BY SeriesPlaces
  <2>2. Rest(Saved(x), {}) /\ {} \subseteq Pending(x)
    BY DEF Rest
  <2>3. GapFree(Saved(x), Has(x), Refusals(x), Missing(x), Live(x), Queued(x), {},
                Sent(x), Open(x)')
    BY <1>3, <2>1, <2>2, MoveDrop
  <2>4. GapFree(Saved(x), Has(x), Refusals(x), Missing(x), Live(x), Queued(x)', {},
                Sent(x)', Open(x)')
    BY <1>3, <1>4, <2>3, MoveWeak
  <2> QED BY <1>2, <1>6, <2>4, Zenon DEF SeriesGapFree
<1>9. x # RowSeries => 0 \notin Has(x)'
  BY <1>2 DEF SeriesOK
<1> QED BY <1>2, <1>3, <1>6, <1>7, <1>8, <1>9, Zenon DEF SeriesOK, RowSeries

LEMMA SeriesDial ==
    ASSUME TypeOK, NEW x \in Series, SeriesOK(x), openDownstreamStream
    PROVE  SeriesOK(x)'
<1>1. /\ subscribed' = None /\ sub' = Empty /\ u2d' = NoFrames
      /\ UNCHANGED <<version, upstreamDB, feed, downDB>>
  BY Zenon DEF openDownstreamStream
<1>2. sub'[Queue(x)] = <<>> /\ ~subscribed'[Queue(x)'] /\ Queue(x)' = Queue(x)
  BY <1>1, QueueSeq, EmptyQueue, SameQueue
<1>3. QueueOrdered(x)'
  BY <1>1, <1>2, Steady
<1>4. Missing(x)' = {} /\ Live(x)' = {} /\ WiresOrdered(x)'
  BY <1>1, WiresNone
<1>5. Queued(x)' = {} /\ ~Open(x)'
  BY <1>2 DEF Queued, Open, Flows
<1> QED BY <1>1, <1>3, <1>4, <1>5, SeriesAnew

LEMMA SeriesDownReturns ==
    ASSUME TypeOK, NEW x \in Series, SeriesOK(x), RunDownstreamReturns
    PROVE  SeriesOK(x)'
<1>1. /\ broken' = TRUE /\ u2d' = NoFrames
      /\ UNCHANGED <<version, upstreamDB, feed, queues, downDB>>
  BY Zenon DEF RunDownstreamReturns
<1>2. QueueOrdered(x)'
  BY <1>1, Steady DEF queues
<1>3. Missing(x)' = {} /\ Live(x)' = {} /\ WiresOrdered(x)'
  BY <1>1, WiresNone
<1>4. Queued(x)' = {} /\ ~Open(x)'
  BY <1>1 DEF Queued, Open, Flows
<1> QED BY <1>1, <1>2, <1>3, <1>4, SeriesAnew

(* Version 1: the data stream is dropped, the status stream goes on. *)
LEMMA SeriesClientReturns ==
    ASSUME TypeOK, PhaseInv, NEW x \in Series, SeriesOK(x), syncDataClientReturns
    PROVE  SeriesOK(x)'
<1>1. /\ version = 1 /\ dpc = "run" /\ dpc' = "open"
      /\ u2d' = [u2d EXCEPT ![3] = <<>>] /\ d2u' = [type |-> "open"]
      /\ UNCHANGED <<version, upstreamDB, feed, upstream, queues, broken, downDB>>
  BY DEF syncDataClientReturns
<1>2. Saved(x)' = Saved(x) /\ Has(x)' = Has(x) /\ Refusals(x)' = Refusals(x) /\ QueueOrdered(x)'
  BY <1>1, Steady DEF queues
<1>3. /\ Stream("missStatus") = 2 /\ Stream("status") = 1 /\ Stream("data") = 3
      /\ Stream("missData") = 4 /\ Stream("end") = 4
  BY <1>1 DEF Stream
<1>4. u2d' \in [1 .. 4 -> Seq(Frame)] /\ u2d'[3] = <<>> /\ \A n \in {1, 2, 4} : u2d'[n] = u2d[n]
  <2>1. u2d \in [1 .. 4 -> Seq(Frame)]
    BY Zenon DEF TypeOK
  <2>2. \A n \in {1, 2, 4} : n \in 1 .. 4 /\ n # 3
    OBVIOUS
  <2>3. <<>> \in Seq(Frame) /\ 3 \in 1 .. 4
    BY EmptySeq
  <2> QED BY <1>1, <2>1, <2>2, <2>3
<1>5. CASE x = RowSeries
  <2>1. MissWire(x) = 2 /\ LiveWire(x) = 1 /\ MissWire(x)' = 2 /\ LiveWire(x)' = 1
    BY <1>1, <1>3, <1>5, SameWires DEF MissWire, LiveWire
  <2>2. u2d'[1] = u2d[1] /\ u2d'[2] = u2d[2]
    BY <1>4
  <2>3. Missing(x)' = Missing(x) /\ Live(x)' = Live(x) /\ WiresOrdered(x)'
    <3>1. WiresOrdered(x)
      BY DEF SeriesOK
    <3> QED BY <2>1, <2>2, <3>1, Zenon DEF Missing, Live, WiresOrdered
  <2>4. (Flows(x)' <=> Flows(x)) /\ (Open(x)' <=> Open(x)) /\ Queued(x)' = Queued(x)
    <3>1. Flows(x)' <=> Flows(x)
      BY <1>1, <1>5, SameQueue, Zenon DEF Flows, RowSeries, queues
    <3> QED BY <1>1, <3>1, SameQueue, Zenon DEF Open, Queued, queues
  <2>5. Sent(x)
    BY <1>1, <1>5 DEF Sent
  <2>6. RoundRead(x)'
    BY <1>1, <2>3, <2>4 DEF RoundRead, SeriesOK
  <2> QED BY <1>1, <1>2, <2>3, <2>4, <2>5, <2>6, SeriesWeak
<1>6. ASSUME NEW i \in Items, x = <<i>> PROVE SeriesOK(x)'
  <2>1. MissWire(x) = 4 /\ LiveWire(x) = 3 /\ MissWire(x)' = 4 /\ LiveWire(x)' = 3
    BY <1>1, <1>3, <1>6, PointSeries, SameWires DEF MissWire, LiveWire
  <2>2. u2d'[3] = <<>> /\ u2d'[4] = u2d[4]
    BY <1>4
  <2>3. Missing(x) = {}
    BY <1>1, <1>6, NoneMissing DEF PhaseInv, Phase, FlightInv
  <2>4. Missing(x)' = {} /\ Live(x)' = {} /\ WiresOrdered(x)'
    <3>1. WiresOrdered(x) /\ On(<<>>, "live", x) = {} /\ Asc(<<>>, "live", x)
      BY OnEmpty DEF SeriesOK
    <3> QED BY <2>1, <2>2, <2>3, <3>1, Zenon DEF Missing, Live, WiresOrdered
  <2>5. ~Flows(x)'
    BY <1>1, <1>6, PointSeries DEF Flows, RowSeries
  <2>6. Queued(x)' = {} /\ ~Open(x)'
    BY <2>5 DEF Queued, Open
  <2> QED BY <1>1, <1>2, <2>4, <2>6, SeriesAnew
<1> QED BY <1>5, <1>6, SeriesIs

-----------------------------------------------------------------------------
(* A series and the steps of the downstream *)

(* A frame with nothing of the series is received. *)
LEMMA SeriesTakesNothing ==
    ASSUME TypeOK, NEW x, SeriesOK(x), NEW ty, Receives(ty), u2d' = Taken(ty),
           In(Head(u2d[Stream(ty)]), "miss", x) = {}, In(Head(u2d[Stream(ty)]), "live", x) = {},
           UNCHANGED <<version, upstreamDB, feed, queues, broken, downDB>>,
           ~broken => (Flows(x)' <=> Flows(x)) \/ (~Flows(x)' /\ Live(x) = {}),
           Sent(x)' => Sent(x)
    PROVE  SeriesOK(x)'
<1>1. /\ Saved(x)' = Saved(x) /\ Has(x)' = Has(x) /\ Refusals(x)' = Refusals(x)
      /\ QueueOrdered(x)'
  BY Steady DEF queues
<1>2. Missing(x)' = Missing(x) /\ Live(x)' = Live(x) /\ WiresOrdered(x)'
  <2>1. LET h == Head(u2d[Stream(ty)])
        IN  /\ Missing(x) = In(h, "miss", x) \cup Missing(x)'
            /\ Live(x) = In(h, "live", x) \cup Live(x)'
            /\ WiresOrdered(x) => WiresOrdered(x)'
    BY WiresTaken
  <2> QED BY <2>1 DEF SeriesOK
<1>3. Queue(x)' = Queue(x)
  BY SameQueue
<1>4. CASE Flows(x)' <=> Flows(x)
  <2>1. (Open(x)' <=> Open(x)) /\ Queued(x)' = Queued(x)
    BY <1>3, <1>4, Zenon DEF Open, Queued, queues
  <2>2. RoundRead(x)'
    BY <1>2, <1>4 DEF RoundRead, SeriesOK
  <2> QED BY <1>1, <1>2, <2>1, <2>2, SeriesWeak
<1>5. CASE ~Flows(x)' /\ (broken \/ Live(x) = {})
  <2>1. ~Open(x)' /\ Queued(x)' = {}
    BY <1>5 DEF Open, Queued
  <2>2. RoundRead(x)'
    BY <1>2, <1>5 DEF RoundRead
  <2> QED BY <1>1, <1>2, <2>1, <2>2, SeriesWeak
<1>6. broken => ~Flows(x)'
  BY DEF Flows
<1> QED BY <1>4, <1>5, <1>6

(* The downstream moves numbers of the series. *)
LEMMA SeriesServes ==
    ASSUME NEW x, SeriesOK(x), Live(x)' \subseteq Live(x), WiresOrdered(x)',
           GapFree(Saved(x), Has(x)', Refusals(x)', Missing(x)', Live(x)', Queued(x), Pending(x),
                   Sent(x), Open(x)),
           x # RowSeries => 0 \notin Has(x)', Sent(x)' => Sent(x),
           UNCHANGED <<version, upstreamDB, feed, queues, broken, d2u>>
    PROVE  SeriesOK(x)'
<1>1. /\ Saved(x)' = Saved(x) /\ Pending(x)' = Pending(x) /\ FeedOrdered(x)' /\ QueueOrdered(x)'
  <2>1. Saved(x)' = Saved(x) /\ Pending(x)' = Pending(x) /\ FeedOrdered(x)'
    BY SameSaved, SamePending DEF SeriesOK
  <2> QED BY <2>1, QueueOrderKept, SameQueue DEF queues, SeriesOK
<1>2. (Flows(x)' <=> Flows(x)) /\ (Open(x)' <=> Open(x)) /\ Queued(x)' = Queued(x)
  <2>1. (Flows(x)' <=> Flows(x)) /\ (Open(x)' <=> Open(x))
    BY SameFlowOpen DEF queues
  <2> QED BY <2>1, SameQueue, Zenon DEF Queued, queues
<1>3. RoundRead(x)'
  BY <1>2 DEF RoundRead, SeriesOK
<1>4. SeriesGapFree(x)'
  <2>1. GapFree(Saved(x), Has(x)', Refusals(x)', Missing(x)', Live(x)', Queued(x), Pending(x),
                Sent(x)', Open(x)')
    BY <1>2, MoveWeak
  <2> QED BY <1>1, <1>2, <2>1, Zenon DEF SeriesGapFree
<1> QED BY <1>1, <1>3, <1>4, Zenon DEF SeriesOK, RowSeries

(* Number t of what was missed is saved, or refused. *)
LEMMA SeriesMissing ==
    ASSUME NEW x, SeriesOK(x), NEW t \in Missing(x), Missing(x)' = Missing(x) \ {t},
           \/ Has(x)' = Has(x) \cup {t} /\ Refusals(x)' = Refusals(x) /\ \A u \in Missing(x) : t <= u
           \/ Has(x)' = Has(x) /\ Refusals(x)' = Refusals(x) \cup {t},
           Live(x)' = Live(x), WiresOrdered(x)', Sent(x)' => Sent(x),
           UNCHANGED <<version, upstreamDB, feed, queues, broken, d2u>>
    PROVE  SeriesOK(x)'
<1>1. x # RowSeries => 0 \notin Has(x)'
  <2>1. t \in Nat \ {0}
    BY SeriesNat
  <2> QED BY <2>1 DEF SeriesOK
<1>2. GapFree(Saved(x), Has(x), Refusals(x), Missing(x), Live(x), Queued(x), Pending(x),
              Sent(x), Open(x))
  BY SeriesPlaces
<1>3. GapFree(Saved(x), Has(x)', Refusals(x)', Missing(x)', Live(x), Queued(x), Pending(x),
              Sent(x), Open(x))
  <2>1. CASE Has(x)' = Has(x) \cup {t} /\ Refusals(x)' = Refusals(x) /\ \A u \in Missing(x) : t <= u
    <3>1. GapFree(Saved(x), Has(x) \cup {t}, Refusals(x), Missing(x) \ {t}, Live(x), Queued(x),
                  Pending(x), Sent(x), Open(x))
      BY <1>2, <2>1, MoveSaveMissing
    <3> QED BY <2>1, <3>1, Zenon
  <2>2. CASE Has(x)' = Has(x) /\ Refusals(x)' = Refusals(x) \cup {t}
    <3>1. GapFree(Saved(x), Has(x), Refusals(x)', Missing(x) \ {t}, Live(x), Queued(x),
                  Pending(x), Sent(x), Open(x))
      BY <1>2, <2>2, MoveRefuseMissing
    <3> QED BY <2>2, <3>1, Zenon
  <2> QED BY <2>1, <2>2
<1>4. GapFree(Saved(x), Has(x)', Refusals(x)', Missing(x)', Live(x)', Queued(x), Pending(x),
              Sent(x), Open(x))
  BY <1>3, Zenon
<1> QED BY <1>1, <1>4, SeriesServes

(* The first live number is saved, or refused. *)
LEMMA SeriesLive ==
    ASSUME NEW x, SeriesOK(x), NEW t \in Live(x), Live(x)' = Live(x) \ {t},
           \A u \in Live(x) : t <= u,
           \/ Has(x)' = Has(x) \cup {t} /\ Refusals(x)' = Refusals(x)
           \/ Has(x)' = Has(x) /\ Refusals(x)' = Refusals(x) \cup {t},
           Missing(x) = {}, Missing(x)' = {}, WiresOrdered(x)', Sent(x),
           UNCHANGED <<version, upstreamDB, feed, queues, broken, d2u>>
    PROVE  SeriesOK(x)'
<1>1. x # RowSeries => 0 \notin Has(x)'
  <2>1. t \in Nat \ {0}
    BY SeriesNat
  <2> QED BY <2>1 DEF SeriesOK
<1>2. GapFree(Saved(x), Has(x), Refusals(x), Missing(x), Live(x), Queued(x), Pending(x),
              Sent(x), Open(x))
  BY SeriesPlaces
<1>3. GapFree(Saved(x), Has(x)', Refusals(x)', Missing(x), Live(x)', Queued(x), Pending(x),
              Sent(x), Open(x))
  <2>1. CASE Has(x)' = Has(x) \cup {t} /\ Refusals(x)' = Refusals(x)
    <3>1. GapFree(Saved(x), Has(x) \cup {t}, Refusals(x), Missing(x), Live(x) \ {t}, Queued(x),
                  Pending(x), Sent(x), Open(x))
      BY <1>2, <2>1, MoveSaveLive
    <3> QED BY <2>1, <3>1, Zenon
  <2>2. CASE Has(x)' = Has(x) /\ Refusals(x)' = Refusals(x) \cup {t}
    <3>1. GapFree(Saved(x), Has(x), Refusals(x)', Missing(x), Live(x) \ {t}, Queued(x),
                  Pending(x), Sent(x), Open(x))
      BY <1>2, <2>2, MoveRefuseLive
    <3> QED BY <2>2, <3>1, Zenon
  <2> QED BY <2>1, <2>2
<1>4. Missing(x)' = Missing(x) /\ Live(x)' \subseteq Live(x)
  BY Zenon
<1>5. GapFree(Saved(x), Has(x)', Refusals(x)', Missing(x)', Live(x)', Queued(x), Pending(x),
              Sent(x), Open(x))
  BY <1>3, <1>4, Zenon
<1> QED BY <1>1, <1>4, <1>5, SeriesServes

(* Another series is served: this one at most has more refused. *)
LEMMA SeriesServesOther ==
    ASSUME NEW x, SeriesOK(x), Has(x)' = Has(x), Refusals(x) \subseteq Refusals(x)',
           Missing(x)' = Missing(x), Live(x)' = Live(x), WiresOrdered(x)', Sent(x)' => Sent(x),
           UNCHANGED <<version, upstreamDB, feed, queues, broken, d2u>>
    PROVE  SeriesOK(x)'
<1>1. Saved(x)' = Saved(x) /\ QueueOrdered(x)'
  <2>1. Saved(x)' = Saved(x)
    BY SameSaved
  <2> QED BY <2>1, QueueOrderKept, SameQueue DEF queues, SeriesOK
<1>2. (Flows(x)' <=> Flows(x)) /\ (Open(x)' <=> Open(x)) /\ Queued(x)' = Queued(x)
  <2>1. (Flows(x)' <=> Flows(x)) /\ (Open(x)' <=> Open(x))
    BY SameFlowOpen DEF queues
  <2> QED BY <2>1, SameQueue, Zenon DEF Queued, queues
<1>3. RoundRead(x)'
  BY <1>2 DEF RoundRead, SeriesOK
<1> QED BY <1>1, <1>2, <1>3, SeriesWeak

LEMMA SeriesRecvConfig ==
    ASSUME TypeOK, PhaseInv, NEW x \in Series, SeriesOK(x), RecvFullConfig
    PROVE  SeriesOK(x)'
<1>1. /\ dpc = "boot" /\ Receives("config") /\ dpc' = "status" /\ u2d' = Taken("config")
      /\ \E row \in dLog \cup {0} : d2u' = [type |-> "statusLatest", row |-> row]
      /\ UNCHANGED <<version, upstreamDB, feed, upc, missItems, queues, broken, downDB>>
  BY Zenon DEF RecvFullConfig, upstream
<1>2. LET h == Head(u2d[Stream("config")])
      IN  In(h, "miss", x) = {} /\ In(h, "live", x) = {}
  BY <1>1, InNothing DEF Receives
<1>3. ~broken => (Flows(x)' <=> Flows(x))
  <2>1. d2u'.type # "open"
    BY <1>1
  <2>2. ~broken => d2u.type # "open"
    BY <1>1 DEF PhaseInv, Phase, StageInv, Stages
  <2> QED BY <1>1, <2>1, <2>2, SameQueue DEF Flows, queues, RowSeries
<1>4. Sent(x)' => Sent(x)
  <2>1. \A ty : InFlight(ty)' => InFlight(ty)
    BY <1>1, FlightTaken
  <2> QED BY <1>1, <2>1, Zenon DEF Sent, RowSeries
<1> QED BY <1>1, <1>2, <1>3, <1>4, SeriesTakesNothing

LEMMA SeriesOpens ==
    ASSUME TypeOK, PhaseInv, NEW x \in Series, SeriesOK(x), version = 1,
           fullSyncConfigClientReturns
    PROVE  SeriesOK(x)'
<1>1. /\ dpc = "status" /\ Receives("missStatus") /\ Head(u2d[2]).rows = {} /\ dpc' = "open"
      /\ u2d' = Taken("missStatus") /\ d2u' = [type |-> "open"]
      /\ UNCHANGED <<version, upstreamDB, feed, upc, missItems, queues, broken, downDB>>
  BY Zenon DEF fullSyncConfigClientReturns, upstream
<1>2. LET h == Head(u2d[Stream("missStatus")])
      IN  In(h, "miss", x) = {} /\ In(h, "live", x) = {}
  <2>1. Stream("missStatus") = 2
    BY DEF Stream
  <2> QED BY <1>1, <2>1 DEF Receives, In
<1>3. \A ty : InFlight(ty)' => InFlight(ty)
  BY <1>1, FlightTaken
<1>4. InFlight("missStatus")
  BY <1>1, FlightTaken
<1>5. CASE x = RowSeries
  <2>1. Flows(x)' <=> Flows(x)
    BY <1>1, <1>5, SameQueue, Zenon DEF Flows, RowSeries, queues
  <2>2. Sent(x)
    BY <1>4, <1>5 DEF Sent
  <2> QED BY <1>1, <1>2, <2>1, <2>2, SeriesTakesNothing
<1>6. CASE x # RowSeries
  <2>1. ~Flows(x)'
    BY <1>1, <1>6 DEF Flows, RowSeries
  <2>2. ~broken => Live(x) = {}
    <3>1. ~broken => ~subscribed["data"]
      BY <1>1 DEF PhaseInv, Phase, StageInv, Stages
    <3> QED BY <1>6, <3>1, QueuesOf DEF Flows, RoundRead, SeriesOK
  <2>3. Sent(x)' => Sent(x)
    BY <1>1, <1>3, <1>6 DEF Sent, RowSeries
  <2> QED BY <1>1, <1>2, <2>1, <2>2, <2>3, SeriesTakesNothing
<1> QED BY <1>5, <1>6

LEMMA OneStream == ASSUME version = 2 PROVE \A ty : Stream(ty) = 1
BY Zenon DEF Stream

LEMMA SeriesSendItems ==
    ASSUME TypeOK, PhaseInv, NEW x \in Series, SeriesOK(x), SendItemsLatest
    PROVE  SeriesOK(x)'
<1>0. PICK ty : /\ Receives(ty) /\ u2d' = Taken(ty)
                /\ \/ version = 2 /\ dpc = "status" /\ ty = "missStatus"
                      /\ Head(u2d[1]).rows = {}
                   \/ version = 1 /\ dpc = "open" /\ ty = "permissions"
  BY Zenon DEF SendItemsLatest, ReadyForData
<1>1. /\ dpc' = "miss" /\ \E ts \in [Items -> 0 .. now] : d2u' = [type |-> "itemsLatest", ts |-> ts]
      /\ UNCHANGED <<version, upstreamDB, feed, upc, missItems, queues, broken, downDB>>
  BY Zenon DEF SendItemsLatest, upstream
<1>2. LET h == Head(u2d[Stream(ty)])
      IN  In(h, "miss", x) = {} /\ In(h, "live", x) = {}
  <2>1. CASE ty = "permissions"
    BY <1>0, <2>1, InNothing DEF Receives
  <2>2. CASE version = 2 /\ ty = "missStatus" /\ Head(u2d[1]).rows = {}
    <3>1. Stream(ty) = 1
      BY <2>2, OneStream
    <3> QED BY <1>0, <2>2, <3>1 DEF Receives, In
  <2> QED BY <1>0, <2>1, <2>2
<1>3. (\A u : InFlight(u)' => InFlight(u)) /\ InFlight(ty)
  BY <1>0, <1>1, FlightTaken
<1>4. ~broken => (Flows(x)' <=> Flows(x))
  <2>1. d2u'.type # "open"
    BY <1>1
  <2>2. ~broken => d2u.type # "open"
    BY <1>0, <1>3 DEF PhaseInv, Phase, FlightInv, StageInv
  <2> QED BY <1>1, <2>1, <2>2, SameQueue DEF Flows, queues, RowSeries
<1>5. Sent(x)' => Sent(x)
  BY <1>0, <1>1, <1>3 DEF Sent, RowSeries
<1> QED BY <1>0, <1>1, <1>2, <1>4, <1>5, SeriesTakesNothing

LEMMA SeriesMissEnds ==
    ASSUME TypeOK, NEW x \in Series, SeriesOK(x), MissDataEnds
    PROVE  SeriesOK(x)'
<1>1. /\ dpc = "miss" /\ Receives("end") /\ dpc' = "run" /\ u2d' = Taken("end")
      /\ UNCHANGED <<version, upstreamDB, feed, upc, missItems, queues, broken, d2u, downDB>>
  BY Zenon DEF MissDataEnds, upstream
<1>2. LET h == Head(u2d[Stream("end")])
      IN  In(h, "miss", x) = {} /\ In(h, "live", x) = {}
  BY <1>1, InNothing DEF Receives
<1>3. Flows(x)' <=> Flows(x)
  BY <1>1, SameFlow DEF queues
<1>4. Sent(x)' => Sent(x)
  <2>1. InFlight("end")
    BY <1>1, FlightTaken
  <2> QED BY <1>1, <2>1 DEF Sent
<1> QED BY <1>1, <1>2, <1>3, <1>4, SeriesTakesNothing

LEMMA SentKept ==
    ASSUME UNCHANGED <<broken, upc, dpc, missItems>>,
           (InFlight("missStatus")' => InFlight("missStatus")),
           (InFlight("end")' => InFlight("end")), NEW x
    PROVE  Sent(x)' => Sent(x)
BY Zenon DEF Sent, RowSeries

(* The rows and the points the downstream has, and was refused. *)
LEMMA HasIs ==
    /\ Has(RowSeries) = dLog \cup {0} /\ Refusals(RowSeries) = skipped.rows
    /\ Has(RowSeries)' = dLog' \cup {0} /\ Refusals(RowSeries)' = skipped'.rows
    /\ \A i : /\ Has(<<i>>) = dStored[i] /\ Refusals(<<i>>) = skipped.points
              /\ Has(<<i>>)' = dStored'[i] /\ Refusals(<<i>>)' = skipped'.points
BY PointSeries DEF Has, Refusals, RowSeries

LEMMA RefusedRow ==
    ASSUME TypeOK, NEW r, Refused("rows", r)
    PROVE  skipped'.rows = skipped.rows \cup {r} /\ skipped'.points = skipped.points
BY DEF TypeOK, Refused

LEMMA RefusedPoint ==
    ASSUME TypeOK, NEW t, Refused("points", t)
    PROVE  skipped'.points = skipped.points \cup {t} /\ skipped'.rows = skipped.rows
BY DEF TypeOK, Refused

(* A row is taken out of a batch of missed ones. *)
LEMMA SeriesBatch ==
    ASSUME TypeOK, PhaseInv, NEW x \in Series, SeriesOK(x), Receives("missStatus"),
           NEW r, NEW rows, NEW shown,
           rows \subseteq Head(u2d[Stream("missStatus")]).rows,
           Head(u2d[Stream("missStatus")]).rows \subseteq rows \cup {r},
           u2d' = [u2d EXCEPT ![Stream("missStatus")][1] = MissStatus(rows, shown)],
           \/ rows = Head(u2d[Stream("missStatus")]).rows /\ UNCHANGED <<dLog, skipped>>
           \/ /\ r \in Head(u2d[Stream("missStatus")]).rows /\ r \notin rows
              /\ \/ IsNext(r, Head(u2d[Stream("missStatus")]).rows) /\ dLog' = dLog \cup {r}
                    /\ UNCHANGED skipped
                 \/ UNCHANGED dLog /\ Refused("rows", r),
           UNCHANGED <<version, upstreamDB, feed, upstream, queues, broken, d2u, dpc, dStored>>
    PROVE  SeriesOK(x)'
<1> DEFINE b == Head(u2d[Stream("missStatus")])
           m == MissStatus(rows, shown)
<1>0. b.type = "missStatus" /\ m.type = "missStatus" /\ m.rows = rows
  BY DEF Receives, MissStatus
<1>1. In(m, "miss", x) \subseteq In(b, "miss", x)
  BY <1>0 DEF In
<1>2. /\ \E rest : /\ Missing(x) = In(b, "miss", x) \cup rest
                   /\ Missing(x)' = In(m, "miss", x) \cup rest
                   /\ WiresOrdered(x) => Before(In(b, "miss", x), rest)
      /\ Live(x)' = Live(x) /\ (WiresOrdered(x) => WiresOrdered(x)')
  <2> HIDE DEF m
  <2> QED BY <1>0, <1>1, WiresShorter DEF m
<1>3. PICK rest : /\ Missing(x) = In(b, "miss", x) \cup rest
                  /\ Missing(x)' = In(m, "miss", x) \cup rest
                  /\ Before(In(b, "miss", x), rest)
  BY <1>2 DEF SeriesOK
<1>4. Live(x)' = Live(x) /\ WiresOrdered(x)'
  BY <1>2 DEF SeriesOK
<1>5. Sent(x)' => Sent(x)
  <2>1. \A ty : InFlight(ty)' <=> InFlight(ty)
    <3> HIDE DEF m
    <3> QED BY <1>0, FlightReplaced DEF m
  <2> QED BY <2>1, SentKept DEF upstream
<1> HIDE DEF b, m
<1>6. ASSUME NEW i \in Items, x = <<i>> PROVE SeriesOK(x)'
  <2>1. In(b, "miss", x) = {} /\ In(m, "miss", x) = {}
    BY <1>0, <1>6, InPoint
  <2>2. Missing(x)' = Missing(x)
    BY <1>3, <2>1
  <2>3. Has(x)' = Has(x) /\ Refusals(x)' = Refusals(x)
    BY <1>6, HasIs, RefusedRow
  <2> QED BY <1>4, <1>5, <2>2, <2>3, SeriesServesOther
<1>7. CASE x = RowSeries
  <2>1. In(b, "miss", x) = b.rows /\ In(m, "miss", x) = rows
    BY <1>0, <1>7, InRow
  <2>2. CASE rows = b.rows /\ UNCHANGED <<dLog, skipped>>
    <3>1. Missing(x)' = Missing(x)
      BY <1>3, <2>1, <2>2
    <3>2. Has(x)' = Has(x) /\ Refusals(x)' = Refusals(x)
      BY <1>7, <2>2, HasIs
    <3> QED BY <1>4, <1>5, <3>1, <3>2, SeriesServesOther
  <2>3. CASE /\ r \in b.rows /\ r \notin rows
             /\ \/ IsNext(r, b.rows) /\ dLog' = dLog \cup {r} /\ UNCHANGED skipped
                \/ UNCHANGED dLog /\ Refused("rows", r)
    <3>1. /\ \A u \in Missing(x) : u \in Nat
          /\ r \in Missing(x) /\ \A u \in rest : r < u
      <4>1. \A u \in Missing(x) : u \in Nat
        BY SeriesNat
      <4> QED BY <1>3, <2>1, <2>3, <4>1 DEF Before
    <3>2. Missing(x)' = Missing(x) \ {r}
      <4>1. r \notin rest
        BY <3>1
      <4>2. b.rows = rows \cup {r}
        BY <2>3 DEF b
      <4> QED BY <1>3, <2>1, <2>3, <4>1, <4>2
    <3>3. \/ Has(x)' = Has(x) \cup {r} /\ Refusals(x)' = Refusals(x) /\ \A u \in Missing(x) : r <= u
          \/ Has(x)' = Has(x) /\ Refusals(x)' = Refusals(x) \cup {r}
      <4>1. CASE IsNext(r, b.rows) /\ dLog' = dLog \cup {r} /\ UNCHANGED skipped
        <5>1. \A u \in Missing(x) : r <= u
          <6>1. \A u \in rest : r <= u
            BY <1>3, <3>1
          <6> QED BY <1>3, <2>1, <4>1, <6>1 DEF IsNext
        <5>2. Has(x)' = Has(x) \cup {r} /\ Refusals(x)' = Refusals(x)
          BY <1>7, <4>1, HasIs
        <5> QED BY <5>1, <5>2
      <4>2. CASE UNCHANGED dLog /\ Refused("rows", r)
        BY <1>7, <4>2, HasIs, RefusedRow
      <4> QED BY <2>3, <4>1, <4>2
    <3> QED BY <1>4, <1>5, <3>1, <3>2, <3>3, SeriesMissing
  <2> QED BY <2>2, <2>3 DEF b
<1> QED BY <1>6, <1>7, SeriesIs

LEMMA SeriesShowMiss ==
    ASSUME TypeOK, PhaseInv, NEW x \in Series, SeriesOK(x), NEW r \in DOMAIN uLog,
           ShowMissStatus(r)
    PROVE  SeriesOK(x)'
<1> DEFINE b == Head(u2d[Stream("missStatus")])
<1>1. /\ Receives("missStatus") /\ r \in ToShow(b.rows)
      /\ \/ /\ u2d' = [u2d EXCEPT ![Stream("missStatus")][1] = MissStatus(b.rows, b.shown \cup {r})]
            /\ UNCHANGED skipped
         \/ /\ Refused("rows", r)
            /\ u2d' = [u2d EXCEPT ![Stream("missStatus")][1] = MissStatus(b.rows \ {r}, b.shown)]
      /\ UNCHANGED <<version, upstreamDB, feed, upstream, queues, d2u, broken, dpc, dStored, dLog>>
  BY Zenon DEF ShowMissStatus
<1>2. r \in b.rows
  BY <1>1 DEF ToShow
<1> HIDE DEF b
<1>3. CASE /\ u2d' = [u2d EXCEPT ![Stream("missStatus")][1] = MissStatus(b.rows, b.shown \cup {r})]
           /\ UNCHANGED skipped
  <2>1. b.rows \subseteq b.rows /\ b.rows \subseteq b.rows \cup {r}
    OBVIOUS
  <2>2. PICK rows, shown : rows = b.rows /\ shown = b.shown \cup {r}
    OBVIOUS
  <2>3. u2d' = [u2d EXCEPT ![Stream("missStatus")][1] = MissStatus(rows, shown)]
    BY <1>3, <2>2, Zenon
  <2> QED BY <1>1, <1>3, <2>1, <2>2, <2>3, SeriesBatch DEF b
<1>4. CASE /\ Refused("rows", r)
           /\ u2d' = [u2d EXCEPT ![Stream("missStatus")][1] = MissStatus(b.rows \ {r}, b.shown)]
  <2>1. PICK rows, shown : rows = b.rows \ {r} /\ shown = b.shown
    OBVIOUS
  <2>2. rows \subseteq b.rows /\ b.rows \subseteq rows \cup {r} /\ r \notin rows
    BY <2>1
  <2>3. u2d' = [u2d EXCEPT ![Stream("missStatus")][1] = MissStatus(rows, shown)]
    BY <1>4, <2>1, Zenon
  <2> QED BY <1>1, <1>2, <1>4, <2>2, <2>3, SeriesBatch DEF b
<1> QED BY <1>1, <1>3, <1>4

LEMMA SeriesSaveMiss ==
    ASSUME TypeOK, PhaseInv, NEW x \in Series, SeriesOK(x), NEW r \in DOMAIN uLog,
           SaveMissStatus(r)
    PROVE  SeriesOK(x)'
<1> DEFINE b == Head(u2d[Stream("missStatus")])
<1>1. /\ Receives("missStatus") /\ IsNext(r, b.rows)
      /\ \/ dLog' = dLog \cup {r} /\ UNCHANGED skipped
         \/ Refused("rows", r) /\ UNCHANGED dLog
      /\ u2d' = [u2d EXCEPT ![Stream("missStatus")][1] = MissStatus(b.rows \ {r}, b.shown \ {r})]
      /\ UNCHANGED <<version, upstreamDB, feed, upstream, queues, d2u, broken, dpc, dStored>>
  BY Zenon DEF SaveMissStatus
<1>2. r \in b.rows
  BY <1>1 DEF IsNext
<1> HIDE DEF b
<1>3. PICK rows, shown : rows = b.rows \ {r} /\ shown = b.shown \ {r}
  OBVIOUS
<1>4. rows \subseteq b.rows /\ b.rows \subseteq rows \cup {r} /\ r \notin rows
  BY <1>3
<1>5. u2d' = [u2d EXCEPT ![Stream("missStatus")][1] = MissStatus(rows, shown)]
  BY <1>1, <1>3, Zenon
<1> QED BY <1>1, <1>2, <1>4, <1>5, SeriesBatch DEF b

(* A missed point is saved. *)
LEMMA SeriesSaveMissData ==
    ASSUME TypeOK, PhaseInv, NEW x \in Series, SeriesOK(x), NEW t \in 1 .. now, SaveMissData(t)
    PROVE  SeriesOK(x)'
<1> DEFINE b == Head(u2d[Stream("missData")])
           left == b.points \ {t}
           m == MissData(b.item, left)
<1>1. /\ Receives("missData") /\ IsNext(t, b.points)
      /\ dStored' = [dStored EXCEPT ![b.item] = @ \cup {t}]
      /\ u2d' = IF left = {} THEN Taken("missData")
                ELSE [u2d EXCEPT ![Stream("missData")][1] = m]
      /\ UNCHANGED <<version, upstreamDB, feed, upstream, queues, d2u, broken, dpc, dLog, skipped>>
  BY Zenon DEF SaveMissData, NextMissing
<1>2. b.type = "missData" /\ b.item \in Items /\ m.type = "missData" /\ m.item = b.item
      /\ m.points = left
  BY <1>1, MissDataHead DEF MissData
<1>3. t \in b.points /\ \A u \in b.points : t <= u
  BY <1>1 DEF IsNext
<1>4. In(m, "miss", x) \subseteq In(b, "miss", x) /\ In(b, "live", x) = {}
  BY <1>2 DEF In
<1>5. Live(x)' = Live(x) /\ WiresOrdered(x)'
      /\ \E rest : /\ Missing(x) = In(b, "miss", x) \cup rest
                   /\ Missing(x)' = In(m, "miss", x) \cup rest
                   /\ Before(In(b, "miss", x), rest)
  <2>1. CASE left = {}
    <3>1. u2d' = Taken("missData")
      BY <1>1, <2>1
    <3>2. /\ Missing(x) = In(b, "miss", x) \cup Missing(x)'
          /\ Live(x) = In(b, "live", x) \cup Live(x)'
          /\ WiresOrdered(x)' /\ Before(In(b, "miss", x), Missing(x)')
      BY <1>1, <3>1, WiresTaken DEF SeriesOK
    <3>3. In(m, "miss", x) = {}
      BY <1>2, <2>1 DEF In
    <3> HIDE DEF b, m, left
    <3> QED BY <1>4, <3>2, <3>3
  <2>2. CASE left # {}
    <3>1. u2d' = [u2d EXCEPT ![Stream("missData")][1] = m]
      BY <1>1, <2>2
    <3> HIDE DEF m
    <3>2. /\ \E rest : /\ Missing(x) = In(b, "miss", x) \cup rest
                       /\ Missing(x)' = In(m, "miss", x) \cup rest
                       /\ WiresOrdered(x) => Before(In(b, "miss", x), rest)
          /\ Live(x)' = Live(x)
          /\ WiresOrdered(x) => WiresOrdered(x)'
      BY <1>1, <1>2, <1>4, <3>1, WiresShorter
    <3> QED BY <3>2 DEF SeriesOK
  <2> QED BY <2>1, <2>2
<1>6. PICK rest : /\ Missing(x) = In(b, "miss", x) \cup rest
                  /\ Missing(x)' = In(m, "miss", x) \cup rest
                  /\ Before(In(b, "miss", x), rest)
  BY <1>5
<1>7. Sent(x)' => Sent(x)
  <2>1. \A ty : InFlight(ty)' => InFlight(ty)
    <3>1. CASE left = {}
      <4>1. u2d' = Taken("missData")
        BY <1>1, <3>1
      <4> QED BY <1>1, <4>1, FlightTaken
    <3>2. CASE left # {}
      <4>1. u2d' = [u2d EXCEPT ![Stream("missData")][1] = m]
        BY <1>1, <3>2
      <4> HIDE DEF m
      <4> QED BY <1>1, <1>2, <4>1, FlightReplaced
    <3> QED BY <3>1, <3>2
  <2> QED BY <1>1, <2>1, SentWeak DEF upstream
<1>8. UNCHANGED <<version, upstreamDB, feed, queues, broken, d2u>>
  BY <1>1
<1>9. \A i : Refusals(<<i>>)' = Refusals(<<i>>)
  BY <1>1, HasIs, Zenon
<1> HIDE DEF b, m, left
<1>10. CASE x = <<b.item>>
  <2>1. In(b, "miss", x) = b.points /\ In(m, "miss", x) = left
    BY <1>2, <1>10, InPoint
  <2>2. t \in Missing(x) /\ t \in Nat /\ \A u \in rest : u \in Nat /\ t < u
    <3>1. \A u \in Missing(x) : u \in Nat
      BY SeriesNat
    <3> QED BY <1>3, <1>6, <2>1, <3>1 DEF Before
  <2>3. Missing(x)' = Missing(x) \ {t}
    <3>1. t \notin rest
      BY <2>2
    <3>2. b.points = left \cup {t} /\ t \notin left
      BY <1>3 DEF left
    <3> QED BY <1>6, <2>1, <3>1, <3>2
  <2>4. \A u \in Missing(x) : t <= u
    <3>1. \A u \in rest : t <= u
      BY <2>2
    <3> QED BY <1>3, <1>6, <2>1, <3>1
  <2>5. Has(x)' = Has(x) \cup {t}
    <3>1. dStored'[b.item] = dStored[b.item] \cup {t}
      BY <1>1, <1>2 DEF TypeOK
    <3> QED BY <1>10, <3>1, HasIs, Zenon
  <2>6. Refusals(x)' = Refusals(x)
    BY <1>9, <1>10, Zenon
  <2> QED BY <1>5, <1>7, <1>8, <2>2, <2>3, <2>4, <2>5, <2>6, SeriesMissing
<1>11. CASE x # <<b.item>>
  <2>1. In(b, "miss", x) = {} /\ In(m, "miss", x) = {}
    BY <1>2, <1>11 DEF In
  <2>2. Missing(x)' = Missing(x)
    BY <1>6, <2>1
  <2>3. Has(x)' = Has(x) /\ Refusals(x) \subseteq Refusals(x)'
    <3>1. CASE x = RowSeries
      BY <1>1, <3>1, HasIs
    <3>2. ASSUME NEW i \in Items, x = <<i>> PROVE Has(x)' = Has(x) /\ Refusals(x)' = Refusals(x)
      <4>1. i # b.item
        BY <1>11, <3>2
      <4>2. dStored'[i] = dStored[i]
        BY <1>1, <4>1 DEF TypeOK
      <4> QED BY <1>9, <3>2, <4>2, HasIs, Zenon
    <3> QED BY <3>1, <3>2, SeriesIs
  <2> QED BY <1>5, <1>7, <1>8, <2>2, <2>3, SeriesServesOther
<1> QED BY <1>10, <1>11

(* A live number is taken: the first one of its series. *)
LEMMA LiveTaken ==
    ASSUME TypeOK, NEW x, SeriesOK(x), UNCHANGED version, NEW ty \in {"data", "status"},
           Receives(ty), u2d' = Taken(ty), NEW t,
           In(Head(u2d[Stream(ty)]), "live", x) = {t}
    PROVE  /\ t \in Live(x) /\ Live(x)' = Live(x) \ {t} /\ \A u \in Live(x) : t <= u
           /\ Missing(x)' = Missing(x) /\ WiresOrdered(x)'
<1> DEFINE h == Head(u2d[Stream(ty)])
<1>1. /\ h.type = ty
      /\ Missing(x) = In(h, "miss", x) \cup Missing(x)'
      /\ Live(x) = In(h, "live", x) \cup Live(x)'
      /\ WiresOrdered(x)' /\ Before(In(h, "live", x), Live(x)')
  BY WiresTaken DEF SeriesOK
<1>2. In(h, "miss", x) = {}
  BY <1>1 DEF In
<1>3. \A u \in Live(x) : u \in Nat
  BY SeriesNat
<1> HIDE DEF h
<1>4. In(h, "live", x) = {t}
  BY DEF h
<1>5. \A u \in Live(x)' : t < u
  BY <1>1, <1>4 DEF Before
<1>6. t \in Live(x) /\ t \in Nat /\ Live(x) = {t} \cup Live(x)'
  BY <1>1, <1>3, <1>4
<1>7. \A u \in Live(x)' : u \in Nat
  BY <1>3, <1>6
<1>8. t \notin Live(x)'
  <2> SUFFICES ASSUME t \in Live(x)' PROVE FALSE
    OBVIOUS
  <2>1. t < t
    BY <1>5
  <2> QED BY <1>6, <2>1
<1>9. Live(x)' = Live(x) \ {t}
  BY <1>6, <1>8
<1>10. \A u \in Live(x) : t <= u
  BY <1>5, <1>6, <1>7
<1> QED BY <1>1, <1>2, <1>6, <1>9, <1>10

(* None of the series is in the live frame that is taken. *)
LEMMA OtherTaken ==
    ASSUME TypeOK, NEW x, SeriesOK(x), UNCHANGED version, NEW ty \in {"data", "status"},
           Receives(ty), u2d' = Taken(ty), In(Head(u2d[Stream(ty)]), "live", x) = {}
    PROVE  Live(x)' = Live(x) /\ Missing(x)' = Missing(x) /\ WiresOrdered(x)'
<1> DEFINE h == Head(u2d[Stream(ty)])
<1>1. /\ h.type = ty
      /\ Missing(x) = In(h, "miss", x) \cup Missing(x)'
      /\ Live(x) = In(h, "live", x) \cup Live(x)'
      /\ WiresOrdered(x)'
  BY WiresTaken DEF SeriesOK
<1>2. In(h, "miss", x) = {}
  BY <1>1 DEF In
<1> QED BY <1>1, <1>2

LEMMA SeriesSavePoint ==
    ASSUME TypeOK, PhaseInv, NEW x \in Series, SeriesOK(x), SavePoint
    PROVE  SeriesOK(x)'
<1> DEFINE p == Head(u2d[Stream("data")])
<1>1. /\ dpc = "run" /\ Receives("data") /\ u2d' = Taken("data")
      /\ \/ dStored' = [dStored EXCEPT ![p.item] = @ \cup {p.ts}] /\ UNCHANGED skipped
         \/ Refused("points", p.ts) /\ UNCHANGED dStored
      /\ UNCHANGED <<version, upstreamDB, feed, upstream, queues, d2u, broken, dpc, dLog>>
  BY Zenon DEF SavePoint
<1>2. p.type = "data" /\ p.item \in Items
  BY <1>1, PointHead, PointFields
<1>3. Sent(x)' => Sent(x)
  <2>1. \A ty : InFlight(ty)' => InFlight(ty)
    BY <1>1, FlightTaken
  <2> QED BY <1>1, <2>1, SentWeak DEF upstream
<1>4. UNCHANGED <<version, upstreamDB, feed, queues, broken, d2u>>
  BY <1>1
<1>5. skipped'.rows = skipped.rows /\ skipped.points \subseteq skipped'.points
  BY <1>1, RefusedPoint
<1> HIDE DEF p
<1>6. CASE x = <<p.item>>
  <2>1. In(p, "live", x) = {p.ts}
    BY <1>2, <1>6, InPoint
  <2>2. PICK t : t = p.ts
    OBVIOUS
  <2>3. /\ t \in Live(x) /\ Live(x)' = Live(x) \ {t} /\ \A u \in Live(x) : t <= u
        /\ Missing(x)' = Missing(x) /\ WiresOrdered(x)'
    <3>1. In(Head(u2d[Stream("data")]), "live", x) = {t}
      BY <2>1, <2>2 DEF p
    <3> QED BY <1>1, <3>1, LiveTaken
  <2>4. Missing(x) = {}
    <3>1. ~InFlight("missData")
      BY <1>1 DEF PhaseInv, Phase, FlightInv
    <3> QED BY <1>6, <3>1, NoneMissing
  <2>5. Sent(x)
    BY <1>1, <1>6, PointSeries DEF Sent
  <2>6. \/ Has(x)' = Has(x) \cup {t} /\ Refusals(x)' = Refusals(x)
        \/ Has(x)' = Has(x) /\ Refusals(x)' = Refusals(x) \cup {t}
    <3>1. CASE dStored' = [dStored EXCEPT ![p.item] = @ \cup {p.ts}] /\ UNCHANGED skipped
      <4>1. dStored'[p.item] = dStored[p.item] \cup {t}
        BY <1>2, <2>2, <3>1 DEF TypeOK
      <4> QED BY <1>6, <3>1, <4>1, HasIs, Zenon
    <3>2. CASE Refused("points", p.ts) /\ UNCHANGED dStored
      <4>1. skipped'.points = skipped.points \cup {t}
        BY <2>2, <3>2, RefusedPoint
      <4> QED BY <1>6, <3>2, <4>1, HasIs, Zenon
    <3> QED BY <1>1, <3>1, <3>2 DEF p
  <2>7. Missing(x)' = {}
    BY <2>3, <2>4
  <2> QED BY <1>4, <2>3, <2>4, <2>5, <2>6, <2>7, SeriesLive
<1>7. CASE x # <<p.item>>
  <2>1. In(p, "live", x) = {}
    BY <1>2, <1>7 DEF In
  <2>2. Live(x)' = Live(x) /\ Missing(x)' = Missing(x) /\ WiresOrdered(x)'
    BY <1>1, <2>1, OtherTaken DEF p
  <2>3. Has(x)' = Has(x) /\ Refusals(x) \subseteq Refusals(x)'
    <3>1. CASE x = RowSeries
      BY <1>1, <1>5, <3>1, HasIs
    <3>2. ASSUME NEW i \in Items, x = <<i>>
          PROVE  Has(x)' = Has(x) /\ Refusals(x) \subseteq Refusals(x)'
      <4>1. i # p.item
        BY <1>7, <3>2
      <4>2. dStored'[i] = dStored[i]
        BY <1>1, <4>1 DEF TypeOK, p
      <4> QED BY <1>5, <3>2, <4>2, HasIs, Zenon
    <3> QED BY <3>1, <3>2, SeriesIs
  <2> QED BY <1>3, <1>4, <2>2, <2>3, SeriesServesOther
<1> QED BY <1>6, <1>7

LEMMA SeriesSaveRow ==
    ASSUME TypeOK, PhaseInv, NEW x \in Series, SeriesOK(x), SaveRow,
           dpc \in {"open", "miss", "run"}
    PROVE  SeriesOK(x)'
<1> DEFINE h == Head(u2d[Stream("status")])
<1>0. Stream("status") = 1
  BY Zenon DEF Stream
<1>1. /\ Receives("status") /\ u2d' = Taken("status")
      /\ \/ dLog' = dLog \cup {h.row} /\ UNCHANGED skipped
         \/ Refused("rows", h.row) /\ UNCHANGED dLog
      /\ UNCHANGED <<version, upstreamDB, feed, upstream, queues, d2u, broken, dpc, dStored>>
  BY <1>0, Zenon DEF SaveRow
<1>2. h.type = "status"
  BY <1>1, RowHead, RowFields
<1>3. Sent(x)' => Sent(x)
  <2>1. \A ty : InFlight(ty)' => InFlight(ty)
    BY <1>1, FlightTaken
  <2> QED BY <1>1, <2>1, SentWeak DEF upstream
<1>4. UNCHANGED <<version, upstreamDB, feed, queues, broken, d2u>>
  BY <1>1
<1> HIDE DEF h
<1>5. CASE x = RowSeries
  <2>1. PICK t : t = h.row
    OBVIOUS
  <2>2. In(h, "live", x) = {t}
    BY <1>2, <1>5, <2>1, InRow
  <2>3. /\ t \in Live(x) /\ Live(x)' = Live(x) \ {t} /\ \A u \in Live(x) : t <= u
        /\ Missing(x)' = Missing(x) /\ WiresOrdered(x)'
    BY <1>1, <2>2, LiveTaken DEF h
  <2>4. Missing(x) = {}
    <3>1. ~InFlight("missStatus")
      BY DEF PhaseInv, Phase, FlightInv
    <3> QED BY <1>5, <3>1, NoneMissing
  <2>5. Sent(x)
    BY <1>5 DEF Sent
  <2>6. \/ Has(x)' = Has(x) \cup {t} /\ Refusals(x)' = Refusals(x)
        \/ Has(x)' = Has(x) /\ Refusals(x)' = Refusals(x) \cup {t}
    <3>1. CASE dLog' = dLog \cup {t} /\ UNCHANGED skipped
      BY <1>5, <3>1, HasIs
    <3>2. CASE Refused("rows", t) /\ UNCHANGED dLog
      <4>1. skipped'.rows = skipped.rows \cup {t}
        BY <3>2, RefusedRow
      <4> QED BY <1>5, <3>2, <4>1, HasIs
    <3> QED BY <1>1, <2>1, <3>1, <3>2 DEF h
  <2>7. Missing(x)' = {}
    BY <2>3, <2>4
  <2> QED BY <1>4, <2>3, <2>4, <2>5, <2>6, <2>7, SeriesLive
<1>6. ASSUME NEW i \in Items, x = <<i>> PROVE SeriesOK(x)'
  <2>1. In(h, "live", x) = {}
    BY <1>2, <1>6, InPoint
  <2>2. Live(x)' = Live(x) /\ Missing(x)' = Missing(x) /\ WiresOrdered(x)'
    BY <1>1, <2>1, OtherTaken DEF h
  <2>3. skipped'.points = skipped.points
    BY <1>1, RefusedRow
  <2>4. Has(x)' = Has(x) /\ Refusals(x) \subseteq Refusals(x)'
    BY <1>1, <1>6, <2>3, HasIs
  <2> QED BY <1>3, <1>4, <2>2, <2>4, SeriesServesOther
<1> QED BY <1>5, <1>6, SeriesIs

-----------------------------------------------------------------------------
(* The invariant *)

LEMMA SeriesStands ==
    ASSUME NEW x, SeriesOK(x), UNCHANGED vars PROVE SeriesOK(x)'
<1>1. /\ UNCHANGED <<version, upstreamDB, feed, queues, broken, d2u>>
      /\ UNCHANGED <<version, u2d>> /\ UNCHANGED downDB
      /\ UNCHANGED <<version, broken, upc, dpc, missItems, u2d>>
  BY Zenon DEF vars, network, upstream
<1>2. Has(x)' = Has(x) /\ Refusals(x)' = Refusals(x)
  BY <1>1, SameHas
<1>3. Missing(x)' = Missing(x) /\ Live(x)' = Live(x) /\ WiresOrdered(x)'
  BY <1>1, WiresKept DEF SeriesOK
<1>4. Sent(x)' => Sent(x)
  BY <1>1, SameSent
<1> QED BY <1>1, <1>2, <1>3, <1>4, SeriesServesOther

(* One case per action, one lemma for each. *)
LEMMA SeriesStep ==
    ASSUME TypeOK, PhaseInv, NEW x \in Series, SeriesOK(x), [Next]_vars
    PROVE  SeriesOK(x)'
<1>d. DirectInv
  BY DEF PhaseInv
<1>1. CASE StationFeeds
  BY <1>1, <1>d, SeriesStorePoint, SeriesStoreRow, Zenon DEF StationFeeds
<1>2. CASE PublishSaved \/ PublishDelayed
  BY <1>2, <1>d, SeriesPublishSaved, SeriesPublishDelayed, Zenon
<1>3. CASE RecvDownstreamHello
  <2>1. PICK qs : qs = Queues
    OBVIOUS
  <2>2. version = 2 /\ Serve(qs)
    BY <1>3, <2>1 DEF RecvDownstreamHello
  <2> QED BY <2>1, <2>2, SeriesServe
<1>4. CASE handleSyncServerConn
  <2>1. PICK qs : qs = {"config"}
    OBVIOUS
  <2>2. version = 1 /\ Serve(qs)
    BY <1>4, <2>1 DEF handleSyncServerConn
  <2> QED BY <2>1, <2>2, SeriesServe
<1>5. CASE handleMissStatusSync \/ fullSyncConfigServer
  <2>1. PICK next \in {"data", "accept"} : SendMissStatus(next)
    BY <1>5 DEF handleMissStatusSync, fullSyncConfigServer
  <2> QED BY <2>1, SeriesSendMissStatus
<1>6. CASE handleMissDataSync \/ fillMissDataServer
  BY <1>6, SeriesRecvItems, SeriesSendHistory, SeriesHistoryEnd, Zenon
     DEF handleMissDataSync, fillMissDataServer, SendMissData
<1>7. CASE syncDataServer \/ syncDataServerReturns
  BY <1>7, SeriesRound, SeriesRoundEnd, Zenon
<1>8. CASE \E q \in Queues : forwardIncremental(q)
  BY <1>8, SeriesForward, Zenon
<1>9. CASE UpdatePermissions
  BY <1>9, SeriesPermissions, Zenon
<1>10. CASE StreamRelayReturns \/ Break \/ UpstreamRestart
  BY <1>10, SeriesRelayReturns, SeriesRestart, Zenon
<1>11. CASE openDownstreamStream
  BY <1>11, SeriesDial, Zenon
<1>12. CASE syncMissStatus
  BY <1>12, SeriesRecvConfig, SeriesShowMiss, SeriesSaveMiss, Zenon
     DEF syncMissStatus, TakeMissStatus
<1>13. CASE fullSyncConfigClient
  BY <1>13, SeriesRecvConfig, SeriesShowMiss, SeriesSaveMiss, SeriesOpens, Zenon
     DEF fullSyncConfigClient, TakeMissStatus
<1>14. CASE syncMissData \/ fillMissDataClient
  BY <1>14, SeriesSendItems, SeriesSaveMissData, SeriesMissEnds, Zenon
     DEF syncMissData, fillMissDataClient, TakeMissData
<1>15. CASE applyDataBatch \/ syncDataClient
  BY <1>15, SeriesSavePoint, Zenon DEF applyDataBatch, syncDataClient
<1>16. CASE applyStatusEvent \/ handleSyncConfigMsg
  <2>1. SaveRow /\ dpc \in {"open", "miss", "run"}
    BY <1>16 DEF applyStatusEvent, handleSyncConfigMsg
  <2> QED BY <2>1, SeriesSaveRow
<1>17. CASE syncDataClientReturns \/ RunDownstreamReturns
  BY <1>17, SeriesClientReturns, SeriesDownReturns, Zenon
<1>18. CASE Quiescent \/ UNCHANGED vars
  <2>1. UNCHANGED vars
    BY <1>18, Zenon DEF Quiescent
  <2> QED BY <2>1, SeriesStands
<1> QED BY <1>1, <1>2, <1>3, <1>4, <1>5, <1>6, <1>7, <1>8, <1>9, <1>10, <1>11, <1>12, <1>13,
           <1>14, <1>15, <1>16, <1>17, <1>18, Zenon
        DEF Next, StreamRelay, RunDownstream

LEMMA GapFreeAtFirst ==
    ASSUME NEW B, B \subseteq {0}, NEW sent, NEW open
    PROVE  GapFree({}, B, {}, {}, {}, {}, {}, sent, open)
BY DEF GapFree, Places, NoGap, MissNoGap, LiveNoGap, Joined, Rest, LiveRest, AllRest, Low, InOrder,
       Before, Between

LEMMA SeriesInit == ASSUME Init, NEW x \in Series PROVE SeriesOK(x)
<1>1. /\ u2d = NoFrames /\ sub = Empty /\ uLog = <<>> /\ unpublished = <<>> /\ delayed = <<>>
      /\ dLog = {} /\ broken
      /\ \A i \in Items : uStored[i] = {} /\ dStored[i] = {}
      /\ skipped.points = {} /\ skipped.rows = {}
  BY DEF Init
<1>2. Missing(x) = {} /\ Live(x) = {} /\ WiresOrdered(x)
  BY <1>1, NoFramesWires
<1>3. sub[Queue(x)] = <<>>
  BY <1>1 DEF Empty, Queues, Queue
<1>4. Queued(x) = {} /\ Pending(x) = {}
  BY <1>1, <1>3, OnEmpty DEF Queued, Pending
<1>5. QueueOrdered(x) /\ FeedOrdered(x) /\ RoundRead(x)
  BY <1>1, <1>3, OnEmpty DEF QueueOrdered, FeedOrdered, RoundRead, Before
<1>6. Saved(x) = {} /\ Refusals(x) = {} /\ Has(x) \subseteq {0} /\ (x # RowSeries => 0 \notin Has(x))
  <2>1. CASE x = RowSeries
    <3>1. Len(uLog) = 0
      BY <1>1, EmptySeq
    <3>2. 1 .. Len(uLog) = {}
      BY <3>1
    <3> QED BY <1>1, <2>1, <3>2 DEF Saved, Refusals, Has
  <2>2. ASSUME NEW i \in Items, x = <<i>>
        PROVE  Saved(x) = {} /\ Refusals(x) = {} /\ Has(x) = {}
    BY <1>1, <2>2, PointSeries DEF Saved, Refusals, Has
  <2> QED BY <2>1, <2>2, SeriesIs
<1>7. GapFree({}, Has(x), {}, {}, {}, {}, {}, Sent(x), Open(x))
  BY <1>6, GapFreeAtFirst
<1>8. SeriesGapFree(x)
  BY <1>2, <1>4, <1>6, <1>7, Zenon DEF SeriesGapFree
<1> QED BY <1>2, <1>5, <1>6, <1>8 DEF SeriesOK

LEMMA InvInit == Init => Inv
BY InitType, PhaseInvInit, SeriesInit, Zenon DEF Inv

LEMMA InvStep == ASSUME Inv, [Next]_vars PROVE Inv'
<1>1. TypeOK' /\ PhaseInv'
  BY TypeStep, PhaseInvStep, Zenon DEF Inv
<1>2. Series' = Series
  BY DEF Series, RowSeries
<1>3. \A x \in Series : SeriesOK(x)'
  BY SeriesStep, Zenon DEF Inv
<1> QED BY <1>1, <1>2, <1>3, Zenon DEF Inv

LEMMA SeriesNoGap ==
    ASSUME NEW x, SeriesOK(x)
    PROVE  NoGap(Saved(x), Has(x), Refusals(x)) /\ Has(x) \subseteq Saved(x) \cup {0}
BY SeriesPlaces DEF GapFree, Places

LEMMA GapFreeInv == ASSUME Inv, ~ReplayMayOvertake PROVE RelayGapFree
<1> SUFFICES ASSUME NEW i \in Items, NEW first \in dStored[i], NEW t \in dStored[i],
                    NEW u \in uStored[i], first < u, u < t
             PROVE  u \in dStored[i] \cup skipped.points
  BY DEF RelayGapFree
<1>1. <<i>> \in Series
  BY DEF Series
<1>2. /\ Saved(<<i>>) = uStored[i] /\ Has(<<i>>) = dStored[i]
      /\ Refusals(<<i>>) = skipped.points
  BY HasIs, PointSeries DEF Saved
<1>3. NoGap(Saved(<<i>>), Has(<<i>>), Refusals(<<i>>))
  <2>1. PICK x \in Series : x = <<i>>
    BY <1>1
  <2>2. NoGap(Saved(x), Has(x), Refusals(x))
    BY SeriesNoGap DEF Inv
  <2> QED BY <2>1, <2>2, Zenon
<1>4. NoGap(uStored[i], dStored[i], skipped.points)
  BY <1>2, <1>3, Zenon
<1> QED BY <1>4 DEF NoGap, Between

LEMMA LogInv == ASSUME Inv PROVE RelayedLogPrefix
<1> SUFFICES ASSUME NEW r \in dLog, NEW u \in 1 .. r PROVE u \in dLog \cup skipped.rows
  BY DEF RelayedLogPrefix
<1>1. /\ NoGap(Saved(RowSeries), Has(RowSeries), Refusals(RowSeries))
      /\ Has(RowSeries) \subseteq Saved(RowSeries) \cup {0}
  <2>1. PICK x \in Series : x = RowSeries
    BY DEF Series
  <2>2. NoGap(Saved(x), Has(x), Refusals(x)) /\ Has(x) \subseteq Saved(x) \cup {0}
    BY SeriesNoGap DEF Inv
  <2> QED BY <2>1, <2>2, Zenon
<1>2. /\ NoGap(1 .. Len(uLog), dLog \cup {0}, skipped.rows)
      /\ dLog \cup {0} \subseteq (1 .. Len(uLog)) \cup {0}
  BY <1>1, HasIs, Zenon DEF Saved
<1>3. r \in Nat /\ u \in Nat /\ 0 < u /\ u <= r /\ Len(uLog) \in Nat
  BY LenProperties DEF Inv, TypeOK
<1>4. r \in 1 .. Len(uLog) /\ u \in 1 .. Len(uLog)
  BY <1>2, <1>3
<1> QED BY <1>2, <1>3, <1>4 DEF NoGap, Between

(* When no station replays a point while a delayed one of its item waits,   *)
(* from its first point of an item on the downstream misses no point but    *)
(* those its database refused: however the rounds, the overflows, the       *)
(* breaks and the restarts of both servers fall, GetDataHistory and the     *)
(* subscription made before it leave nothing out.                           *)
THEOREM GapFreeRelay == ~ReplayMayOvertake => (Spec => []RelayGapFree)
<1> SUFFICES ASSUME ~ReplayMayOvertake PROVE Spec => []RelayGapFree
  OBVIOUS
<1>1. Inv => RelayGapFree
  BY GapFreeInv
<1> QED BY <1>1, InvInit, InvStep, PTL DEF Spec

(* The downstream's status log is a prefix of the upstream's, but for the   *)
(* rows its database refused: the rows replayed after the latest one and    *)
(* those of the realtime queue leave none out, in both protocols.           *)
THEOREM LogRelayed == Spec => []RelayedLogPrefix
<1>1. Inv => RelayedLogPrefix
  BY LogInv
<1> QED BY <1>1, InvInit, InvStep, PTL DEF Spec

-----------------------------------------------------------------------------
(* The status the downstream shows *)

(* The frames of q with missed rows; those on the wire. *)
BatchesOf(q) == {q[n] : n \in {k \in DOMAIN q : q[k].type = "missStatus"}}
Batches      == BatchesOf(u2d[Stream("missStatus")])

(* The downstream has been sent the rows it missed. *)
Told == InFlight("missStatus") \/ dpc \in {"open", "miss", "run"}

(* The status shown is that of a row of the item. *)
ShownOwn == \A i \in Items : dItem[i] # 0 => dItem[i] \in DOMAIN uLog /\ uLog[dItem[i]] = i

(* It is that of the latest row in the log, which are the upstream's rows,  *)
(* or of a later one.                                                       *)
LogShown ==
    /\ dLog \subseteq DOMAIN uLog
    /\ \A r \in dLog : r <= dItem[uLog[r]] \/ dItem[uLog[r]] \in skipped.rows

(* Version 2 shows the rows one by one.  Version 1, where no refusal is     *)
(* forgotten, runs ahead of its log, but only to the rows it missed.        *)
ShownNext ==
    /\ version = 2 => \A i \in Items, u \in DOMAIN uLog : u < dItem[i] => u \in dLog \cup skipped.rows
    /\ version = 1 => skipped.rows = {}
    /\ version = 1 /\ Told => \A i \in Items : dItem[i] \in {0} \cup dLog \cup Missing(RowSeries)

(* The missed rows are later than those in the log, and those that count as *)
(* shown are shown.                                                         *)
MissedLater == Before(dLog, Missing(RowSeries))
ShownMarked ==
    \A b \in Batches : b.shown \subseteq ToShow(b.rows) /\ \A r \in b.shown : dItem[uLog[r]] = r

StatusInv == ShownOwn /\ LogShown /\ ShownNext /\ MissedLater /\ ShownMarked

(* What a step may do to the status shown. *)
NeverBack == \A i \in Items : dItem'[i] >= dItem[i] \/ dItem'[i] \in skipped.rows

(* A set of numbers up to n has a greatest one. *)
LEMMA Greatest ==
    ASSUME NEW n \in Nat, NEW S, S \subseteq 1 .. n, S # {}
    PROVE  \E m \in S : \A u \in S : u <= m
<1> DEFINE R == {p \in Nat \X Nat : p[1] < p[2]}
           T == {k \in Nat : n - k \in S}
<1>1. IsWellFoundedOn(R, Nat)
  BY NatLessThanWellFounded DEF OpToRel
<1>2. \A u \in S : n - u \in T
  BY DEF T
<1>3. T # {} /\ T \subseteq Nat
  BY <1>2
<1> HIDE DEF R, T
<1>4. PICK k \in T : \A j \in T : ~ (<<j, k>> \in R)
  BY <1>1, <1>3, WFMin
<1>5. \A j \in Nat : j < k => <<j, k>> \in R
  BY <1>3 DEF R
<1>6. n - k \in S /\ k \in Nat
  BY <1>4 DEF T
<1>7. ASSUME NEW u \in S PROVE u <= n - k
  <2>1. n - u \in T /\ n - u \in Nat
    BY <1>2
  <2>2. ~ (n - u < k)
    BY <1>4, <1>5, <2>1
  <2> QED BY <1>6, <2>1, <2>2
<1> QED BY <1>6, <1>7

LEMMA BatchesDef ==
    ASSUME NEW q
    PROVE  /\ \A b : b \in BatchesOf(q) <=> \E n \in DOMAIN q : q[n].type = "missStatus" /\ b = q[n]
           /\ Carries(q, "missStatus") <=> BatchesOf(q) # {}
           /\ \A u : u \in On(q, "miss", RowSeries) <=> \E b \in BatchesOf(q) : u \in b.rows
<1>1. \A b : b \in BatchesOf(q) <=> \E n \in DOMAIN q : q[n].type = "missStatus" /\ b = q[n]
  BY Zenon DEF BatchesOf
<1>2. Carries(q, "missStatus") <=> BatchesOf(q) # {}
  BY <1>1, CarriesDef, Zenon
<1>3. ASSUME NEW u
      PROVE  u \in On(q, "miss", RowSeries) <=> \E b \in BatchesOf(q) : u \in b.rows
  <2>1. u \in On(q, "miss", RowSeries) <=> \E n \in DOMAIN q : u \in In(q[n], "miss", RowSeries)
    BY OnDef
  <2>2. \A n \in DOMAIN q : u \in In(q[n], "miss", RowSeries)
                            <=> q[n].type = "missStatus" /\ u \in q[n].rows
    BY InRow
  <2> QED BY <1>1, <2>1, <2>2, Zenon
<1> QED BY <1>1, <1>2, <1>3

(* A batch is sent, taken, replaced; there is one at most. *)
LEMMA BatchesNext ==
    ASSUME NEW S, NEW q \in Seq(S), NEW m
    PROVE  /\ BatchesOf(Append(q, m)) = BatchesOf(q) \cup (IF m.type = "missStatus" THEN {m} ELSE {})
           /\ q # <<>> /\ Head(q).type = "missStatus" /\ Closes(q, "missStatus", {"missStatus"})
              => /\ BatchesOf(q) = {Head(q)}
                 /\ m.type = "missStatus" => BatchesOf([q EXCEPT ![1] = m]) = {m}
<1>1. ASSUME NEW b
      PROVE  b \in BatchesOf(Append(q, m))
             <=> b \in BatchesOf(q) \/ (m.type = "missStatus" /\ b = m)
  <2> DEFINE a == Append(q, m)
  <2>1. /\ \A n \in DOMAIN a : (n \in DOMAIN q /\ a[n] = q[n]) \/ a[n] = m
        /\ \A n \in DOMAIN q : n \in DOMAIN a /\ a[n] = q[n]
        /\ \E n \in DOMAIN a : a[n] = m
    BY AppendIndex
  <2> HIDE DEF a
  <2>2. b \in BatchesOf(a) <=> \E n \in DOMAIN a : a[n].type = "missStatus" /\ b = a[n]
    BY BatchesDef
  <2>3. b \in BatchesOf(q) <=> \E n \in DOMAIN q : q[n].type = "missStatus" /\ b = q[n]
    BY BatchesDef
  <2>4. b \in BatchesOf(a) <=> b \in BatchesOf(q) \/ (m.type = "missStatus" /\ b = m)
    BY <2>1, <2>2, <2>3, Zenon
  <2> QED BY <2>4 DEF a
<1>2. ASSUME q # <<>>, Head(q).type = "missStatus", Closes(q, "missStatus", {"missStatus"})
      PROVE  /\ BatchesOf(q) = {Head(q)}
             /\ m.type = "missStatus" => BatchesOf([q EXCEPT ![1] = m]) = {m}
  <2>1. /\ 1 \in DOMAIN q /\ q[1] = Head(q)
        /\ \A n \in DOMAIN q : n \in Nat /\ 1 <= n
    BY <1>2, TailIndex
  <2>2. \A n \in DOMAIN q : q[n].type = "missStatus" => n = 1
    <3> SUFFICES ASSUME NEW n \in DOMAIN q, q[n].type = "missStatus", n # 1 PROVE FALSE
      OBVIOUS
    <3>1. 1 < n
      BY <2>1
    <3> QED BY <1>2, <2>1, <3>1, ClosesDef
  <2>3. BatchesOf(q) = {Head(q)}
    BY <1>2, <2>1, <2>2, BatchesDef
  <2>4. ASSUME m.type = "missStatus" PROVE BatchesOf([q EXCEPT ![1] = m]) = {m}
    <3> DEFINE a == [q EXCEPT ![1] = m]
    <3>1. DOMAIN a = DOMAIN q /\ a[1] = m /\ \A n \in DOMAIN q : n # 1 => a[n] = q[n]
      BY <1>2, ReplacedIndex
    <3> HIDE DEF a
    <3>2. BatchesOf(a) = {m}
      BY <2>1, <2>2, <2>4, <3>1, BatchesDef
    <3> QED BY <3>2 DEF a
  <2> QED BY <2>3, <2>4
<1> QED BY <1>1, <1>2

(* The batches and the missed rows, in this state and in the next one. *)
LEMMA BatchesAre ==
    /\ \A u : u \in Missing(RowSeries) <=> \E b \in Batches : u \in b.rows
    /\ InFlight("missStatus") <=> Batches # {}
    /\ \A u : u \in Missing(RowSeries)' <=> \E b \in Batches' : u \in b.rows
    /\ InFlight("missStatus")' <=> Batches' # {}
<1>1. /\ Missing(RowSeries) = On(u2d[Stream("missStatus")], "miss", RowSeries)
      /\ Missing(RowSeries)' = On(u2d'[Stream("missStatus")'], "miss", RowSeries)
  BY Zenon DEF Missing, MissWire, RowSeries
<1>2. /\ InFlight("missStatus") <=> Carries(u2d[Stream("missStatus")], "missStatus")
      /\ InFlight("missStatus")' <=> Carries(u2d'[Stream("missStatus")'], "missStatus")
  BY Zenon DEF InFlight
<1>3. Batches = BatchesOf(u2d[Stream("missStatus")])
  BY DEF Batches
<1>4. Batches' = BatchesOf(u2d'[Stream("missStatus")'])
  BY Zenon DEF Batches
<1> QED BY <1>1, <1>2, <1>3, <1>4, BatchesDef

(* The row series of the invariant, spelled out: a row before one of the    *)
(* log, before a missed one, before a live one once the missed rows are     *)
(* sent, is in one of the places before.                                    *)
LEMMA RowFacts ==
    ASSUME Inv
    PROVE  /\ Missing(RowSeries) \subseteq DOMAIN uLog /\ Live(RowSeries) \subseteq DOMAIN uLog
           /\ DOMAIN uLog = 1 .. Len(uLog) /\ Len(uLog) \in Nat
           /\ \A r \in DOMAIN uLog : r \in Nat \ {0} /\ uLog[r] \in Items
           /\ \A t \in dLog, u \in DOMAIN uLog : u < t => u \in dLog \cup skipped.rows
           /\ \A t \in Missing(RowSeries), u \in DOMAIN uLog :
                 u < t => u \in dLog \cup skipped.rows \cup Missing(RowSeries)
           /\ Sent(RowSeries) => \A t \in Live(RowSeries), u \in DOMAIN uLog :
                 u < t => u \in dLog \cup skipped.rows \cup Missing(RowSeries) \cup Live(RowSeries)
<1> DEFINE H == Saved(RowSeries)
           B == Has(RowSeries)
           K == Refusals(RowSeries)
           P == Missing(RowSeries)
           L == Live(RowSeries)
           W == Queued(RowSeries)
           D == Pending(RowSeries)
           sent == Sent(RowSeries)
           open == Open(RowSeries)
<1>1. TypeOK
  BY DEF Inv
<1>2. DOMAIN uLog = 1 .. Len(uLog) /\ Len(uLog) \in Nat
  BY <1>1, LenProperties DEF TypeOK
<1>3. \A r \in DOMAIN uLog : r \in Nat \ {0} /\ uLog[r] \in Items
  BY <1>1, RowOfLog
<1>4. H = DOMAIN uLog /\ B = dLog \cup {0} /\ K = skipped.rows
  BY <1>2, HasIs, Zenon DEF Saved
<1>5. GapFree(H, B, K, P, L, W, D, sent, open)
  <2>1. PICK x \in Series : x = RowSeries
    BY DEF Series
  <2>2. GapFree(Saved(x), Has(x), Refusals(x), Missing(x), Live(x), Queued(x), Pending(x),
                Sent(x), Open(x))
    BY SeriesPlaces DEF Inv
  <2> QED BY <2>1, <2>2, Zenon
<1> HIDE DEF H, B, K, P, L, W, D, sent, open
<1>6. P \subseteq DOMAIN uLog /\ L \subseteq DOMAIN uLog
  BY <1>4, <1>5 DEF GapFree, Places
<1>7. \A t \in B, u \in H : 0 < u /\ u < t => u \in B \cup K
  BY <1>4, <1>5 DEF GapFree, NoGap, Between
<1>8. \A t \in P, u \in H : 0 < u /\ u < t => u \in B \cup K \cup P
  BY <1>4, <1>5 DEF GapFree, MissNoGap, Between
<1>9. ASSUME sent, NEW t \in L, NEW u \in H, 0 < u, u < t
      PROVE  u \in B \cup K \cup P \cup L
  <2>1. u \in B \cup K \cup P \cup L \cup W
    BY <1>4, <1>5, <1>9 DEF GapFree, Joined, Between
  <2>2. u \notin W
    <3>1. t \in DOMAIN uLog /\ (u \in W => t < u)
      BY <1>6, <1>5, <1>9 DEF GapFree, InOrder, Before
    <3> QED BY <1>3, <1>4, <1>9, <3>1
  <2> QED BY <2>1, <2>2
<1> QED BY <1>2, <1>3, <1>4, <1>6, <1>7, <1>8, <1>9 DEF P, L, sent

LEMMA SameToShow ==
    ASSUME UNCHANGED version, NEW rows, \A q \in rows : uLog'[q] = uLog[q]
    PROVE  ToShow(rows)' = ToShow(rows)
<1>1. \A r \in rows : {q \in rows : uLog'[q] = uLog'[r]} = {q \in rows : uLog[q] = uLog[r]}
  OBVIOUS
<1>2. ToShow(rows)' = IF version' = 2 THEN {r \in rows : IsNext(r, rows)}
                      ELSE {r \in rows : IsLatest(r, {q \in rows : uLog'[q] = uLog'[r]})}
  BY Zenon DEF ToShow
<1>3. {r \in rows : IsLatest(r, {q \in rows : uLog'[q] = uLog'[r]})}
      = {r \in rows : IsLatest(r, {q \in rows : uLog[q] = uLog[r]})}
  BY <1>1, Zenon
<1> QED BY <1>2, <1>3, Zenon DEF ToShow

LEMMA ShownNat ==
    ASSUME Inv
    PROVE  /\ \A i \in Items : dItem[i] \in Nat
           /\ dItem \in [Items -> Nat]
           /\ \A r \in dLog : r \in Nat
BY DEF Inv, TypeOK

(* Most steps leave the log and the status alone, and no batch is sent.     *)
LEMMA StatusStays ==
    ASSUME Inv, StatusInv, UNCHANGED <<version, uLog, dLog, dItem>>,
           skipped'.rows = skipped.rows, Batches' \subseteq Batches,
           Told' => Told /\ (version = 1 => Missing(RowSeries)' = Missing(RowSeries))
    PROVE  StatusInv' /\ NeverBack
<1>1. Missing(RowSeries)' \subseteq Missing(RowSeries)
  BY BatchesAre
<1>2. ShownOwn' /\ LogShown'
  BY Zenon DEF StatusInv, ShownOwn, LogShown
<1>3. ShownNext'
  <2>1. /\ version' = 2 => \A i \in Items, u \in DOMAIN uLog' : u < dItem'[i] => u \in dLog' \cup skipped'.rows
        /\ version' = 1 => skipped'.rows = {}
    BY Zenon DEF StatusInv, ShownNext
  <2>2. ASSUME version' = 1, Told'
        PROVE  \A i \in Items : dItem'[i] \in {0} \cup dLog' \cup Missing(RowSeries)'
    <3>1. \A i \in Items : dItem[i] \in {0} \cup dLog \cup Missing(RowSeries)
      BY <2>2 DEF StatusInv, ShownNext
    <3> QED BY <2>2, <3>1, Zenon
  <2> QED BY <2>1, <2>2, Zenon DEF ShownNext
<1>4. MissedLater'
  BY <1>1, Zenon DEF StatusInv, MissedLater, Before
<1>5. ShownMarked'
  <2>1. \A b \in Batches' : ToShow(b.rows)' = ToShow(b.rows)
    BY SameToShow, Zenon
  <2> QED BY <2>1, Zenon DEF StatusInv, ShownMarked
<1>6. NeverBack
  BY ShownNat DEF NeverBack
<1> QED BY <1>2, <1>3, <1>4, <1>5, <1>6 DEF StatusInv

(* So it is when nothing is in flight that was missed. *)
LEMMA StatusQuiet ==
    ASSUME Inv, StatusInv, UNCHANGED <<version, uLog, dLog, dItem>>,
           skipped'.rows = skipped.rows, ~InFlight("missStatus")',
           Told' => Told /\ Missing(RowSeries) = {}
    PROVE  StatusInv' /\ NeverBack
<1>1. Batches' = {} /\ Missing(RowSeries)' = {}
  BY BatchesAre
<1> QED BY <1>1, StatusStays

(* The steps of the upstream, but for the one that sends the missed rows. *)
LEMMA BatchesArrive ==
    ASSUME TypeOK, UNCHANGED version, NEW m, u2d' = Arrives(m)
    PROVE  Batches' = IF broken THEN Batches
                      ELSE Batches \cup (IF m.type = "missStatus" THEN {m} ELSE {})
<1> DEFINE q == u2d[Stream("missStatus")]
<1>1. q \in Seq(Frame)
  BY StreamSeq
<1>2. u2d'[Stream("missStatus")'] =
      IF broken \/ Stream("missStatus") # Stream(m.type) THEN q ELSE Append(q, m)
  BY ArrivesAt, SameStream
<1>3. Batches' = BatchesOf(u2d'[Stream("missStatus")'])
  BY Zenon DEF Batches
<1>4. Batches = BatchesOf(q)
  BY DEF Batches
<1> HIDE DEF q
<1>5. BatchesOf(Append(q, m)) = BatchesOf(q) \cup (IF m.type = "missStatus" THEN {m} ELSE {})
  BY <1>1, BatchesNext
<1>6. CASE broken \/ Stream("missStatus") # Stream(m.type)
  <2>1. ~broken => m.type # "missStatus"
    BY <1>6
  <2>2. Batches' = Batches
    BY <1>2, <1>3, <1>4, <1>6, Zenon
  <2> QED BY <2>1, <2>2
<1>7. CASE ~(broken \/ Stream("missStatus") # Stream(m.type))
  BY <1>2, <1>3, <1>4, <1>5, <1>7
<1> QED BY <1>6, <1>7

LEMMA SameBatches == ASSUME UNCHANGED <<version, u2d>> PROVE Batches' = Batches
BY SameStream, Zenon DEF Batches

LEMMA StatusUpstream ==
    ASSUME Inv, StatusInv, UNCHANGED <<version, uLog, dpc, downDB>>,
           \/ UNCHANGED u2d
           \/ \E m : m.type # "missStatus" /\ u2d' = Arrives(m)
    PROVE  StatusInv' /\ NeverBack
<1>1. Batches' = Batches
  BY SameBatches, BatchesArrive DEF Inv
<1>2. \A u : u \in Missing(RowSeries)' <=> u \in Missing(RowSeries)
  BY <1>1, BatchesAre
<1>3. Missing(RowSeries)' = Missing(RowSeries)
  BY <1>2
<1>4. Told' <=> Told
  BY <1>1, BatchesAre, Zenon DEF Told
<1> QED BY <1>1, <1>3, <1>4, StatusStays DEF downDB

LEMMA StatusStoreRow ==
    ASSUME Inv, StatusInv, NEW i \in Items, StoreRow(i)
    PROVE  StatusInv' /\ NeverBack
<1>1. uLog' = Append(uLog, i) /\ UNCHANGED <<version, u2d, dpc, dLog, dItem, skipped>>
  BY DEF StoreRow, network, downDB
<1>2. /\ DOMAIN uLog' = 1 .. Len(uLog) + 1
      /\ \A r \in DOMAIN uLog : r \in DOMAIN uLog' /\ uLog'[r] = uLog[r]
  <2>1. uLog \in Seq(Items) /\ Len(uLog) \in Nat
    BY LenProperties DEF Inv, TypeOK
  <2>2. Append(uLog, i) \in Seq(Items) /\ Len(Append(uLog, i)) = Len(uLog) + 1
    BY <2>1, AppendProperties
  <2>3. DOMAIN Append(uLog, i) = 1 .. Len(uLog) + 1
    BY <2>2, LenProperties
  <2>4. \A r \in DOMAIN uLog : r \in DOMAIN Append(uLog, i) /\ Append(uLog, i)[r] = uLog[r]
    BY <2>1, AppendIndex
  <2> QED BY <1>1, <2>3, <2>4, Zenon
<1>3. Batches' = Batches
  BY <1>1, SameBatches
<1>4. Missing(RowSeries)' = Missing(RowSeries) /\ (Told' <=> Told)
  <2>1. \A u : u \in Missing(RowSeries)' <=> u \in Missing(RowSeries)
    BY <1>3, BatchesAre
  <2>2. InFlight("missStatus")' <=> InFlight("missStatus")
    BY <1>3, BatchesAre
  <2> QED BY <1>1, <2>1, <2>2, Zenon DEF Told
<1>5. ShownOwn' /\ LogShown'
  BY <1>1, <1>2, Zenon DEF StatusInv, ShownOwn, LogShown
<1>6. ShownNext'
  <2>1. ASSUME version' = 2, NEW j \in Items, NEW u \in DOMAIN uLog', u < dItem'[j]
        PROVE  u \in dLog' \cup skipped'.rows
    <3>1. dItem[j] \in DOMAIN uLog
      BY <1>1, <1>2, <2>1, ShownNat DEF StatusInv, ShownOwn
    <3>2. u \in DOMAIN uLog
      BY <1>1, <1>2, <2>1, <3>1, RowFacts
    <3> QED BY <1>1, <2>1, <3>2 DEF StatusInv, ShownNext
  <2>2. version' = 1 => skipped'.rows = {}
    BY <1>1 DEF StatusInv, ShownNext
  <2>3. ASSUME version' = 1, Told'
        PROVE  \A j \in Items : dItem'[j] \in {0} \cup dLog' \cup Missing(RowSeries)'
    <3>1. \A j \in Items : dItem[j] \in {0} \cup dLog \cup Missing(RowSeries)
      BY <1>1, <1>4, <2>3 DEF StatusInv, ShownNext
    <3> QED BY <1>1, <1>4, <3>1, Zenon
  <2> QED BY <2>1, <2>2, <2>3, Zenon DEF ShownNext
<1>7. MissedLater'
  BY <1>1, <1>4, Zenon DEF StatusInv, MissedLater, Before
<1>8. ShownMarked'
  <2> SUFFICES ASSUME NEW b \in Batches
               PROVE  b.shown \subseteq ToShow(b.rows)' /\ \A r \in b.shown : dItem'[uLog'[r]] = r
    BY <1>3, Zenon DEF ShownMarked
  <2>1. b.rows \subseteq DOMAIN uLog
    BY BatchesAre, RowFacts
  <2>2. ToShow(b.rows)' = ToShow(b.rows)
    BY <1>1, <1>2, <2>1, SameToShow
  <2>3. b.shown \subseteq ToShow(b.rows) /\ \A r \in b.shown : dItem[uLog[r]] = r
    BY DEF StatusInv, ShownMarked
  <2>4. b.shown \subseteq DOMAIN uLog
    BY <2>1, <2>3 DEF ToShow
  <2> QED BY <1>1, <1>2, <2>2, <2>3, <2>4, Zenon
<1>9. NeverBack
  BY <1>1, ShownNat DEF NeverBack
<1> QED BY <1>5, <1>6, <1>7, <1>8, <1>9 DEF StatusInv

(* What the upstream sends as missed is later than the log, and includes    *)
(* what version 1 showed of an earlier batch.                               *)
LEMMA StatusSend ==
    ASSUME Inv, StatusInv, NEW next, SendMissStatus(next)
    PROVE  StatusInv' /\ NeverBack
<1> DEFINE rows == {r \in DOMAIN uLog : r > d2u.row}
           m == MissStatus(rows, {})
<1>1. /\ upc = "status" /\ d2u.type = "statusLatest" /\ u2d' = Arrives(m)
      /\ UNCHANGED <<version, uLog, dpc, dLog, dItem, skipped>> /\ UNCHANGED downDB
  BY Zenon DEF SendMissStatus, upstreamDB, downDB
<1>m. m.type = "missStatus" /\ m.rows = rows /\ m.shown = {}
  BY DEF MissStatus
<1>2. Batches' = IF broken THEN Batches ELSE Batches \cup {m}
  <2> HIDE DEF m
  <2> QED BY <1>1, <1>m, BatchesArrive DEF Inv
<1> HIDE DEF m
<1>3. CASE broken
  BY <1>1, <1>2, <1>3, StatusUpstream DEF Arrives
<1>4. CASE ~broken
  <2>1. IsLatest(d2u.row, dLog) /\ dpc = "status" /\ ~InFlight("missStatus")
    BY <1>1, <1>4 DEF Inv, PhaseInv, Phase, StageInv, LatestInv
  <2>2. Batches = {} /\ Batches' = {m}
    BY <1>2, <1>4, <2>1, BatchesAre
  <2>3. Missing(RowSeries)' = rows
    BY <1>m, <2>2, BatchesAre
  <2> HIDE DEF rows
  <2>4. ShownOwn' /\ LogShown'
    BY <1>1, Zenon DEF StatusInv, ShownOwn, LogShown
  <2>5. ShownNext'
    <3>1. version' = 2 => \A j \in Items, u \in DOMAIN uLog' : u < dItem'[j] => u \in dLog' \cup skipped'.rows
      BY <1>1, Zenon DEF StatusInv, ShownNext
    <3>2. version' = 1 => skipped'.rows = {}
      BY <1>1, Zenon DEF StatusInv, ShownNext
    <3>3. ASSUME version' = 1, NEW j \in Items, dItem[j] # 0, dItem[j] \notin rows
          PROVE  dItem[j] \in dLog
      <4>1. dItem[j] \in DOMAIN uLog /\ dItem[j] \in Nat \ {0}
        BY <3>3, RowFacts DEF StatusInv, ShownOwn
      <4>2. d2u.row \in dLog \cup {0} /\ d2u.row \in Nat /\ ~(dItem[j] > d2u.row)
        BY <2>1, <3>3, <4>1, ShownNat DEF IsLatest, rows
      <4>3. d2u.row \in dLog /\ (dItem[j] = d2u.row \/ dItem[j] < d2u.row)
        BY <4>1, <4>2
      <4>4. skipped.rows = {}
        BY <1>1, <3>3 DEF StatusInv, ShownNext
      <4>5. dItem[j] < d2u.row => dItem[j] \in dLog \cup skipped.rows
        BY <4>1, <4>3, RowFacts
      <4> QED BY <4>3, <4>4, <4>5
    <3>4. version' = 1 => \A j \in Items : dItem'[j] \in {0} \cup dLog' \cup Missing(RowSeries)'
      BY <1>1, <2>3, <3>3
    <3> QED BY <3>1, <3>2, <3>4, Zenon DEF ShownNext
  <2>6. MissedLater'
    <3>1. \A a \in dLog, c \in rows : a < c
      BY <2>1, ShownNat, RowFacts DEF IsLatest, rows
    <3> QED BY <1>1, <2>3, <3>1, Zenon DEF MissedLater, Before
  <2>7. ShownMarked'
    BY <1>m, <2>2, Zenon DEF ShownMarked
  <2>8. NeverBack
    BY <1>1, ShownNat DEF NeverBack
  <2> QED BY <2>4, <2>5, <2>6, <2>7, <2>8 DEF StatusInv
<1> QED BY <1>3, <1>4

LEMMA StatusInit == Init => StatusInv
<1> SUFFICES ASSUME Init PROVE StatusInv
  OBVIOUS
<1>1. /\ dLog = {} /\ skipped.rows = {} /\ u2d = NoFrames /\ version \in Versions
      /\ \A i \in Items : dItem[i] = 0
  BY DEF Init
<1>2. u2d[Stream("missStatus")] = <<>>
  BY <1>1, StreamIs DEF NoFrames
<1>3. Batches = {}
  BY <1>2 DEF Batches, BatchesOf
<1>4. ShownOwn /\ LogShown /\ MissedLater /\ ShownMarked
  BY <1>1, <1>3, Zenon DEF ShownOwn, LogShown, MissedLater, ShownMarked, Before
<1>5. ShownNext
  <2>1. \A i \in Items, u \in DOMAIN uLog : ~(u < dItem[i])
    <3>1. uLog = <<>>
      BY DEF Init
    <3> QED BY <3>1
  <2> QED BY <1>1, <2>1, Zenon DEF ShownNext
<1> QED BY <1>4, <1>5 DEF StatusInv

(* The one batch in flight while the downstream saves what it missed. *)
LEMMA TheBatch ==
    ASSUME Inv, StatusInv, dpc = "status", Receives("missStatus"), NEW b,
           b = Head(u2d[Stream("missStatus")])
    PROVE  /\ Batches = {b} /\ Missing(RowSeries) = b.rows /\ Told
           /\ b.rows \subseteq DOMAIN uLog
           /\ \A u \in dLog, t \in b.rows : u < t
           /\ b.shown \subseteq ToShow(b.rows) /\ \A r \in b.shown : dItem[uLog[r]] = r
<1>1. TypeOK /\ Ends("missStatus", {"missStatus"})
  BY DEF Inv, PhaseInv, Phase, FlightInv
<1>2. /\ u2d[Stream("missStatus")] \in Seq(Frame) /\ u2d[Stream("missStatus")] # <<>>
      /\ b.type = "missStatus"
  BY <1>1, TakenType
<1>3. Closes(u2d[Stream("missStatus")], "missStatus", {"missStatus"})
  BY <1>1 DEF Ends
<1>4. Batches = {b}
  <2>1. PICK q : q = u2d[Stream("missStatus")]
    OBVIOUS
  <2>2. BatchesOf(q) = {Head(q)}
    BY <1>2, <1>3, <2>1, BatchesNext
  <2> QED BY <2>1, <2>2, Zenon DEF Batches
<1>5. Missing(RowSeries) = b.rows /\ Told
  BY <1>4, BatchesAre DEF Told
<1> QED BY <1>4, <1>5, RowFacts, Zenon DEF StatusInv, MissedLater, Before, ShownMarked

LEMMA BatchReplaced ==
    ASSUME Inv, dpc = "status", Receives("missStatus"), UNCHANGED version,
           NEW rows, NEW shown,
           u2d' = [u2d EXCEPT ![Stream("missStatus")][1] = MissStatus(rows, shown)]
    PROVE  Batches' = {MissStatus(rows, shown)} /\ Missing(RowSeries)' = rows
<1>1. TypeOK /\ Ends("missStatus", {"missStatus"})
  BY DEF Inv, PhaseInv, Phase, FlightInv
<1>2. PICK m : m = MissStatus(rows, shown)
  OBVIOUS
<1>3. m.type = "missStatus" /\ m.rows = rows
  BY <1>2 DEF MissStatus
<1>4. PICK q : q = u2d[Stream("missStatus")]
  OBVIOUS
<1>5. q \in Seq(Frame) /\ q # <<>> /\ Head(q).type = "missStatus"
      /\ Closes(q, "missStatus", {"missStatus"})
  BY <1>1, <1>4, TakenType DEF Ends
<1>6. u2d'[Stream("missStatus")'] = [q EXCEPT ![1] = m]
  <2>1. u2d' = [u2d EXCEPT ![Stream("missStatus")][1] = m]
    BY <1>2
  <2>2. u2d'[Stream("missStatus")] = [q EXCEPT ![1] = m]
    BY <1>1, <1>4, <2>1, ReplacedAt
  <2> QED BY <2>2, SameStream
<1>7. BatchesOf([q EXCEPT ![1] = m]) = {m}
  BY <1>3, <1>5, BatchesNext
<1>8. Batches' = {m}
  BY <1>6, <1>7, Zenon DEF Batches
<1>9. Missing(RowSeries)' = rows
  BY <1>3, <1>8, BatchesAre
<1> QED BY <1>2, <1>8, <1>9

(* What is to be shown: the next row, or the latest one of each item. *)
LEMMA ToShowIs ==
    ASSUME Inv, NEW rows, rows \subseteq DOMAIN uLog
    PROVE  /\ ToShow(rows) \subseteq rows
           /\ version = 2 => \A r \in ToShow(rows), u \in rows : r <= u
           /\ version = 2 => \A r \in rows : (\A u \in rows : r <= u) => r \in ToShow(rows)
           /\ version = 1 => \A r \in ToShow(rows), u \in rows : uLog[u] = uLog[r] => u <= r
           /\ version = 1 => \A r \in rows :
                 (\A u \in rows : uLog[u] = uLog[r] => u <= r) => r \in ToShow(rows)
           /\ version = 1 => \A r \in rows : \E m \in ToShow(rows) : uLog[m] = uLog[r] /\ r <= m
<1>1. \A r \in rows : r \in Nat
  BY RowFacts
<1>2. \A r : r \in ToShow(rows) <=>
             /\ r \in rows
             /\ IF version = 2 THEN IsNext(r, rows)
                ELSE IsLatest(r, {q \in rows : uLog[q] = uLog[r]})
  BY Zenon DEF ToShow
<1>3. ASSUME version = 1, NEW r \in rows
      PROVE  /\ r \in ToShow(rows) <=> \A u \in rows : uLog[u] = uLog[r] => u <= r
             /\ \E m \in ToShow(rows) : uLog[m] = uLog[r] /\ r <= m
  <2> DEFINE Same(m) == {q \in rows : uLog[q] = uLog[m]}
  <2>1. ASSUME NEW m \in rows
        PROVE  m \in ToShow(rows) <=> \A u \in rows : uLog[u] = uLog[m] => u <= m
    <3>1. m \in ToShow(rows) <=> IsLatest(m, Same(m))
      BY <1>2, <1>3
    <3>2. m \in Same(m) /\ \A u : u \in Same(m) <=> u \in rows /\ uLog[u] = uLog[m]
      OBVIOUS
    <3> HIDE DEF Same
    <3> QED BY <3>1, <3>2, Zenon DEF IsLatest
  <2>2. PICK S : S = Same(r)
    OBVIOUS
  <2>3. S \subseteq 1 .. Len(uLog) /\ S # {} /\ Len(uLog) \in Nat
    BY <2>2, RowFacts
  <2>4. PICK m \in S : \A u \in S : u <= m
    BY <2>3, Greatest
  <2> QED BY <2>1, <2>2, <2>4
<1>4. CASE version = 2
  BY <1>2, <1>4 DEF IsNext
<1>5. CASE version = 1
  <2>1. ToShow(rows) \subseteq rows
    BY <1>2, Zenon
  <2>2. \A r \in rows : r \in ToShow(rows) <=> \A u \in rows : uLog[u] = uLog[r] => u <= r
    BY <1>3, <1>5
  <2>3. \A r \in rows : \E m \in ToShow(rows) : uLog[m] = uLog[r] /\ r <= m
    BY <1>3, <1>5
  <2>4. version # 2
    BY <1>5
  <2> QED BY <2>1, <2>2, <2>3, <2>4, Zenon
<1> QED BY <1>2, <1>4, <1>5, VersionIs DEF Inv

LEMMA StatusShow ==
    ASSUME Inv, StatusInv, NEW r \in DOMAIN uLog, ShowMissStatus(r)
    PROVE  StatusInv' /\ NeverBack
<1>0. PICK b : b = Head(u2d[Stream("missStatus")])
  OBVIOUS
<1>1. /\ dpc = "status" /\ Receives("missStatus")
      /\ r \in ToShow(b.rows) \ b.shown
      /\ \/ /\ dItem' = [dItem EXCEPT ![uLog[r]] = r]
            /\ u2d' = [u2d EXCEPT ![Stream("missStatus")][1] = MissStatus(b.rows, b.shown \cup {r})]
            /\ UNCHANGED skipped
         \/ /\ version = 2 /\ Refused("rows", r)
            /\ u2d' = [u2d EXCEPT ![Stream("missStatus")][1] = MissStatus(b.rows \ {r}, b.shown)]
            /\ UNCHANGED dItem
      /\ UNCHANGED <<version, uLog, dpc, dLog>>
  BY <1>0, Zenon DEF ShowMissStatus, upstreamDB, Refused
<1>2. /\ Batches = {b} /\ Missing(RowSeries) = b.rows /\ Told
      /\ b.rows \subseteq DOMAIN uLog
      /\ \A u \in dLog, t \in b.rows : u < t
      /\ b.shown \subseteq ToShow(b.rows) /\ \A q \in b.shown : dItem[uLog[q]] = q
  BY <1>0, <1>1, TheBatch
<1>3. /\ ToShow(b.rows) \subseteq b.rows
      /\ version = 2 => \A q \in ToShow(b.rows), u \in b.rows : q <= u
      /\ version = 1 => \A q \in ToShow(b.rows), u \in b.rows : uLog[u] = uLog[q] => u <= q
  BY <1>2, ToShowIs
<1>4. /\ r \in b.rows /\ r \notin dLog /\ r \in Nat \ {0} /\ uLog[r] \in Items
      /\ \A q \in b.rows : q \in Nat
      /\ version \in {1, 2}
  BY <1>1, <1>2, <1>3, RowFacts, ShownNat, VersionIs DEF Inv
<1>5. \A rows : rows \subseteq b.rows => ToShow(rows)' = ToShow(rows)
  <2> SUFFICES ASSUME NEW rows, rows \subseteq b.rows PROVE ToShow(rows)' = ToShow(rows)
    OBVIOUS
  <2> QED BY <1>1, SameToShow
<1>6. CASE /\ dItem' = [dItem EXCEPT ![uLog[r]] = r]
           /\ u2d' = [u2d EXCEPT ![Stream("missStatus")][1] = MissStatus(b.rows, b.shown \cup {r})]
           /\ UNCHANGED skipped
  <2>1. Batches' = {MissStatus(b.rows, b.shown \cup {r})} /\ Missing(RowSeries)' = b.rows
    <3>1. PICK rows, shown : rows = b.rows /\ shown = b.shown \cup {r}
      OBVIOUS
    <3>2. u2d' = [u2d EXCEPT ![Stream("missStatus")][1] = MissStatus(rows, shown)]
      BY <1>6, <3>1, Zenon
    <3>3. Batches' = {MissStatus(rows, shown)} /\ Missing(RowSeries)' = rows
      BY <1>1, <3>2, BatchReplaced
    <3> QED BY <3>1, <3>3, Zenon
  <2>2. /\ dItem'[uLog[r]] = r
        /\ \A i \in Items : i # uLog[r] => dItem'[i] = dItem[i]
        /\ \A i \in Items : dItem[i] \in Nat /\ dItem'[i] \in Nat
    BY <1>4, <1>6, ShownNat
  <2>3. ShownOwn'
    BY <1>1, <2>2, Zenon DEF StatusInv, ShownOwn
  <2>4. LogShown'
    <3>1. \A q \in dLog : q \in DOMAIN uLog /\ uLog[q] \in Items /\ q <= r
      BY <1>2, <1>4, RowFacts, ShownNat DEF StatusInv, LogShown
    <3>2. ASSUME NEW q \in dLog PROVE q <= dItem'[uLog[q]] \/ dItem'[uLog[q]] \in skipped.rows
      BY <2>2, <3>1 DEF StatusInv, LogShown
    <3>3. dLog' \subseteq DOMAIN uLog'
      BY <1>1, <3>1
    <3> QED BY <1>1, <1>6, <3>2, <3>3, Zenon DEF LogShown
  <2>5. ShownNext'
    <3>1. ASSUME version = 2, NEW i \in Items, NEW u \in DOMAIN uLog, u < dItem'[i]
          PROVE  u \in dLog \cup skipped.rows
      <4>1. CASE i = uLog[r]
        <5>1. u < r /\ u \in Nat
          BY <2>2, <3>1, <4>1, RowFacts
        <5>2. u \notin b.rows
          BY <1>1, <1>3, <1>4, <3>1, <5>1
        <5> QED BY <1>2, <1>4, <5>1, <5>2, RowFacts
      <4>2. CASE i # uLog[r]
        BY <2>2, <3>1, <4>2 DEF StatusInv, ShownNext
      <4> QED BY <4>1, <4>2
    <3>2. version = 1 => skipped.rows = {}
      BY DEF StatusInv, ShownNext
    <3>3. version = 1 => \A i \in Items : dItem'[i] \in {0} \cup dLog \cup b.rows
      BY <1>2, <1>4, <2>2 DEF StatusInv, ShownNext
    <3> QED BY <1>1, <1>6, <2>1, <3>1, <3>2, <3>3, Zenon DEF ShownNext
  <2>6. MissedLater'
    BY <1>1, <1>2, <2>1, Zenon DEF MissedLater, Before
  <2>7. ShownMarked'
    <3>1. \A q \in b.shown : uLog[q] # uLog[r]
      BY <1>1, <1>2, <1>3, <1>4
    <3>2. \A q \in b.shown \cup {r} : dItem'[uLog[q]] = q
      BY <1>1, <1>2, <1>3, <2>2, <3>1, RowFacts
    <3>3. b.shown \cup {r} \subseteq ToShow(b.rows)'
      BY <1>1, <1>2, <1>5
    <3>4. PICK m : m = MissStatus(b.rows, b.shown \cup {r})
      OBVIOUS
    <3>5. m.rows = b.rows /\ m.shown = b.shown \cup {r} /\ Batches' = {m}
      BY <2>1, <3>4 DEF MissStatus
    <3> QED BY <1>1, <3>2, <3>3, <3>5, Zenon DEF ShownMarked
  <2>8. NeverBack
    <3>1. dItem[uLog[r]] <= r \/ r \in skipped.rows
      <4>1. CASE version = 2
        <5>1. r < dItem[uLog[r]] => r \in dLog \cup skipped.rows
          BY <1>4, <4>1 DEF StatusInv, ShownNext
        <5> QED BY <1>4, <2>2, <5>1
      <4>2. CASE version = 1
        <5>1. dItem[uLog[r]] \in {0} \cup dLog \cup b.rows
          BY <1>2, <1>4, <4>2 DEF StatusInv, ShownNext
        <5>2. dItem[uLog[r]] # 0 => uLog[dItem[uLog[r]]] = uLog[r]
          BY <1>4 DEF StatusInv, ShownOwn
        <5>3. dItem[uLog[r]] \in dLog => dItem[uLog[r]] < r
          BY <1>2, <1>4
        <5>4. dItem[uLog[r]] # 0 /\ dItem[uLog[r]] \in b.rows => dItem[uLog[r]] <= r
          BY <1>1, <1>3, <4>2, <5>2
        <5> QED BY <1>4, <2>2, <5>1, <5>3, <5>4
      <4> QED BY <1>4, <4>1, <4>2
    <3> QED BY <1>4, <2>2, <3>1 DEF NeverBack
  <2> QED BY <2>3, <2>4, <2>5, <2>6, <2>7, <2>8 DEF StatusInv
<1>7. CASE /\ version = 2 /\ Refused("rows", r)
           /\ u2d' = [u2d EXCEPT ![Stream("missStatus")][1] = MissStatus(b.rows \ {r}, b.shown)]
           /\ UNCHANGED dItem
  <2>1. Batches' = {MissStatus(b.rows \ {r}, b.shown)} /\ Missing(RowSeries)' = b.rows \ {r}
    <3>1. PICK rows, shown : rows = b.rows \ {r} /\ shown = b.shown
      OBVIOUS
    <3>2. u2d' = [u2d EXCEPT ![Stream("missStatus")][1] = MissStatus(rows, shown)]
      BY <1>7, <3>1, Zenon
    <3>3. Batches' = {MissStatus(rows, shown)} /\ Missing(RowSeries)' = rows
      BY <1>1, <3>2, BatchReplaced
    <3> QED BY <3>1, <3>3, Zenon
  <2>2. skipped'.rows = skipped.rows \cup {r}
    BY <1>7, RefusedRow DEF Inv
  <2>3. ShownOwn' /\ LogShown'
    BY <1>1, <1>7, <2>2, Zenon DEF StatusInv, ShownOwn, LogShown
  <2>4. ShownNext'
    <3>1. \A i \in Items, u \in DOMAIN uLog : u < dItem[i] => u \in dLog \cup skipped'.rows
      BY <1>7, <2>2 DEF StatusInv, ShownNext
    <3>2. version' # 1
      BY <1>1, <1>7
    <3> QED BY <1>1, <1>7, <3>1, <3>2, Zenon DEF ShownNext
  <2>5. MissedLater'
    BY <1>1, <1>2, <2>1, Zenon DEF MissedLater, Before
  <2>6. ShownMarked'
    <3>1. b.shown = {}
      BY <1>1, <1>2, <1>3, <1>4, <1>7
    <3>2. PICK m : m = MissStatus(b.rows \ {r}, b.shown)
      OBVIOUS
    <3>3. m.shown = {} /\ Batches' = {m}
      BY <2>1, <3>1, <3>2 DEF MissStatus
    <3> QED BY <3>3, Zenon DEF ShownMarked
  <2>7. NeverBack
    BY <1>7, ShownNat DEF NeverBack
  <2> QED BY <2>3, <2>4, <2>5, <2>6, <2>7 DEF StatusInv
<1> QED BY <1>1, <1>6, <1>7

LEMMA StatusSave ==
    ASSUME Inv, StatusInv, NEW r \in DOMAIN uLog, SaveMissStatus(r)
    PROVE  StatusInv' /\ NeverBack
<1>0. PICK b : b = Head(u2d[Stream("missStatus")])
  OBVIOUS
<1>1. /\ dpc = "status" /\ Receives("missStatus")
      /\ IsNext(r, b.rows) /\ ToShow(b.rows) \subseteq b.shown
      /\ \/ dLog' = dLog \cup {r} /\ UNCHANGED skipped
         \/ version = 2 /\ Refused("rows", r) /\ UNCHANGED dLog
      /\ u2d' = [u2d EXCEPT ![Stream("missStatus")][1] = MissStatus(b.rows \ {r}, b.shown \ {r})]
      /\ UNCHANGED <<version, uLog, dpc, dItem>>
  BY <1>0, Zenon DEF SaveMissStatus, upstreamDB, Refused
<1>2. /\ Batches = {b} /\ Missing(RowSeries) = b.rows /\ Told
      /\ b.rows \subseteq DOMAIN uLog
      /\ \A u \in dLog, t \in b.rows : u < t
      /\ b.shown \subseteq ToShow(b.rows) /\ \A q \in b.shown : dItem[uLog[q]] = q
  BY <1>0, <1>1, TheBatch
<1>3. /\ r \in b.rows /\ \A u \in b.rows : r <= u
      /\ r \in Nat \ {0} /\ uLog[r] \in Items
      /\ \A q \in b.rows : q \in Nat
      /\ version \in {1, 2} /\ b.rows \ {r} \subseteq DOMAIN uLog
  BY <1>1, <1>2, RowFacts, VersionIs DEF Inv, IsNext
(* The status of the row's item is shown already, or that of a later row. *)
<1>4. r <= dItem[uLog[r]]
  <2>1. CASE version = 2
    <3>1. r \in ToShow(b.rows)
      BY <1>2, <1>3, <2>1, ToShowIs
    <3> QED BY <1>1, <1>2, <1>3, <3>1
  <2>2. CASE version = 1
    <3>1. PICK m \in ToShow(b.rows) : uLog[m] = uLog[r] /\ r <= m
      BY <1>2, <1>3, <2>2, ToShowIs
    <3> QED BY <1>1, <1>2, <3>1
  <2> QED BY <1>3, <2>1, <2>2
<1>5. /\ Batches' = {MissStatus(b.rows \ {r}, b.shown \ {r})}
      /\ Missing(RowSeries)' = b.rows \ {r}
  <2>1. PICK rows, shown : rows = b.rows \ {r} /\ shown = b.shown \ {r}
    OBVIOUS
  <2>2. u2d' = [u2d EXCEPT ![Stream("missStatus")][1] = MissStatus(rows, shown)]
    BY <1>1, <2>1, Zenon
  <2>3. Batches' = {MissStatus(rows, shown)} /\ Missing(RowSeries)' = rows
    BY <1>1, <2>2, BatchReplaced
  <2> QED BY <2>1, <2>3, Zenon
<1>6. /\ dLog' \subseteq dLog \cup {r} /\ dLog \subseteq dLog'
      /\ skipped.rows \subseteq skipped'.rows
      /\ version = 1 => dLog' = dLog \cup {r} /\ skipped'.rows = skipped.rows
  BY <1>1, RefusedRow DEF Inv
<1>7. ShownOwn'
  BY <1>1, Zenon DEF StatusInv, ShownOwn
<1>8. LogShown'
  <2>1. \A q \in dLog' : q <= dItem[uLog[q]] \/ dItem[uLog[q]] \in skipped'.rows
    BY <1>4, <1>6, Zenon DEF StatusInv, LogShown
  <2>2. dLog' \subseteq DOMAIN uLog
    BY <1>6 DEF StatusInv, LogShown
  <2> QED BY <1>1, <2>1, <2>2, Zenon DEF LogShown
<1>9. ShownNext'
  <2>1. version = 2 => \A i \in Items, u \in DOMAIN uLog : u < dItem[i] => u \in dLog' \cup skipped'.rows
    BY <1>6, Zenon DEF StatusInv, ShownNext
  <2>2. version = 1 => skipped'.rows = {}
    BY <1>6 DEF StatusInv, ShownNext
  <2>3. version = 1 => \A i \in Items : dItem[i] \in {0} \cup dLog' \cup (b.rows \ {r})
    <3>1. version = 1 => \A i \in Items : dItem[i] \in {0} \cup dLog \cup b.rows
      BY <1>2 DEF StatusInv, ShownNext
    <3> QED BY <1>6, <3>1
  <2> QED BY <1>1, <1>5, <2>1, <2>2, <2>3, Zenon DEF ShownNext
<1>10. MissedLater'
  <2>1. \A u \in dLog \cup {r}, t \in b.rows \ {r} : u < t
    BY <1>2, <1>3
  <2> QED BY <1>5, <1>6, <2>1, Zenon DEF MissedLater, Before
<1>11. ShownMarked'
  <2>1. b.shown \ {r} \subseteq ToShow(b.rows \ {r})
    <3> SUFFICES ASSUME NEW q \in b.shown, q # r PROVE q \in ToShow(b.rows \ {r})
      OBVIOUS
    <3>1. q \in ToShow(b.rows)
      BY <1>2
    <3>2. CASE version = 2
      <4>1. q \in b.rows /\ q <= r
        BY <1>2, <1>3, <3>1, <3>2, ToShowIs
      <4> QED BY <1>3, <4>1
    <3>3. CASE version = 1
      <4>1. q \in b.rows \ {r} /\ \A u \in b.rows \ {r} : uLog[u] = uLog[q] => u <= q
        BY <1>2, <3>1, <3>3, ToShowIs
      <4>2. PICK rows : rows = b.rows \ {r}
        OBVIOUS
      <4>3. q \in ToShow(rows)
        BY <1>3, <3>3, <4>1, <4>2, ToShowIs
      <4> QED BY <4>2, <4>3
    <3> QED BY <1>3, <3>2, <3>3
  <2>2. PICK m : m = MissStatus(b.rows \ {r}, b.shown \ {r})
    OBVIOUS
  <2>3. m.rows = b.rows \ {r} /\ m.shown = b.shown \ {r} /\ Batches' = {m}
    BY <1>5, <2>2 DEF MissStatus
  <2>4. ToShow(m.rows)' = ToShow(m.rows)
    BY <1>1, SameToShow
  <2>5. m.shown \subseteq ToShow(m.rows) /\ \A q \in m.shown : dItem[uLog[q]] = q
    <3>1. m.shown \subseteq ToShow(m.rows)
      BY <2>1, <2>3, Zenon
    <3> QED BY <1>2, <2>3, <3>1
  <2>6. m.shown \subseteq ToShow(m.rows)' /\ \A q \in m.shown : dItem'[uLog'[q]] = q
    BY <1>1, <2>4, <2>5, Zenon
  <2> QED BY <2>3, <2>6, Zenon DEF ShownMarked
<1>12. NeverBack
  BY <1>1, ShownNat DEF NeverBack
<1> QED BY <1>7, <1>8, <1>9, <1>10, <1>11, <1>12 DEF StatusInv

LEMMA StatusSaveRow ==
    ASSUME Inv, StatusInv, SaveRow, dpc \in {"open", "miss", "run"}, Inv'
    PROVE  StatusInv' /\ NeverBack
<1>0. PICK r : r = Head(u2d[Stream("status")]).row
  OBVIOUS
<1>1. /\ Receives("status") /\ u2d' = Taken("status")
      /\ \/ /\ dLog' = dLog \cup {r} /\ UNCHANGED skipped
            /\ dItem' = [dItem EXCEPT ![uLog[r]] = IF r \notin dLog THEN r ELSE @]
         \/ version = 2 /\ Refused("rows", r) /\ UNCHANGED <<dLog, dItem>>
      /\ UNCHANGED <<version, uLog, dpc>>
  <2>1. Stream("status") = 1
    BY Zenon DEF Stream
  <2> QED BY <1>0, <2>1, Zenon DEF SaveRow, ShowsRow, upstreamDB, Refused
<1>2. /\ Missing(RowSeries) = {} /\ Missing(RowSeries)' = {} /\ Batches' = {}
      /\ Told /\ Sent(RowSeries)
  <2>1. ~InFlight("missStatus")
    BY DEF Inv, PhaseInv, Phase, FlightInv
  <2>2. ~InFlight("missStatus")'
    BY <1>1 DEF Inv, PhaseInv, Phase, FlightInv
  <2>3. Told
    BY DEF Told
  <2> QED BY <2>1, <2>2, <2>3, BatchesAre DEF Sent
<1>3. r \in Live(RowSeries) /\ \A u \in Live(RowSeries) : r <= u
  <2>1. PICK h : h = Head(u2d[Stream("status")])
    OBVIOUS
  <2>2. h.type = "status" /\ h.row = r
    BY <1>0, <1>1, <2>1, RowHead, RowFields DEF Inv
  <2>3. PICK x \in Series : x = RowSeries
    BY DEF Series
  <2>4. In(h, "live", x) = {r}
    BY <2>2, <2>3, InRow
  <2>5. r \in Live(x) /\ \A u \in Live(x) : r <= u
    BY <1>1, <2>1, <2>4, LiveTaken DEF Inv
  <2> QED BY <2>3, <2>5, Zenon
<1>4. /\ r \in DOMAIN uLog /\ r \in Nat \ {0} /\ uLog[r] \in Items
      /\ \A u \in Live(RowSeries) : u \in Nat
      /\ version \in {1, 2}
  BY <1>3, RowFacts, VersionIs DEF Inv
<1>5. \A u \in DOMAIN uLog : u < r => u \in dLog \cup skipped.rows
  BY <1>2, <1>3, <1>4, RowFacts
<1>6. \A t \in dLog : r < t => r \in dLog \cup skipped.rows
  BY <1>4, RowFacts
<1>7. CASE r \notin dLog /\ dLog' = dLog \cup {r} /\ UNCHANGED skipped
           /\ dItem' = [dItem EXCEPT ![uLog[r]] = r]
  <2>1. /\ dItem'[uLog[r]] = r
        /\ \A i \in Items : i # uLog[r] => dItem'[i] = dItem[i]
        /\ \A i \in Items : dItem[i] \in Nat /\ dItem'[i] \in Nat
    BY <1>4, <1>7, ShownNat
  <2>2. ShownOwn'
    BY <1>1, <1>4, <2>1, Zenon DEF StatusInv, ShownOwn
  <2>3. LogShown'
    <3>1. ASSUME NEW q \in dLog PROVE q <= dItem'[uLog[q]] \/ dItem'[uLog[q]] \in skipped.rows
      <4>1. q \in Nat /\ q \in DOMAIN uLog /\ uLog[q] \in Items
        BY RowFacts, ShownNat DEF StatusInv, LogShown
      <4>2. CASE uLog[q] = uLog[r]
        <5>1. r < q => r \in skipped.rows
          BY <1>6, <1>7
        <5> QED BY <1>4, <2>1, <4>1, <4>2, <5>1
      <4>3. CASE uLog[q] # uLog[r]
        BY <2>1, <4>1, <4>3 DEF StatusInv, LogShown
      <4> QED BY <4>2, <4>3
    <3>2. r <= dItem'[uLog[r]]
      BY <1>4, <2>1
    <3>3. dLog' \subseteq DOMAIN uLog
      BY <1>4, <1>7 DEF StatusInv, LogShown
    <3>4. \A q \in dLog' : q <= dItem'[uLog[q]] \/ dItem'[uLog[q]] \in skipped.rows
      BY <1>7, <3>1, <3>2
    <3> QED BY <1>1, <1>7, <3>3, <3>4, Zenon DEF LogShown
  <2>4. ShownNext'
    <3>1. ASSUME version = 2, NEW i \in Items, NEW u \in DOMAIN uLog, u < dItem'[i]
          PROVE  u \in dLog \cup skipped.rows
      <4>1. CASE i = uLog[r]
        BY <1>5, <2>1, <3>1, <4>1
      <4>2. CASE i # uLog[r]
        BY <2>1, <3>1, <4>2 DEF StatusInv, ShownNext
      <4> QED BY <4>1, <4>2
    <3>2. version = 1 => skipped.rows = {}
      BY DEF StatusInv, ShownNext
    <3>3. version = 1 => \A i \in Items : dItem'[i] \in {0} \cup dLog'
      BY <1>2, <1>7, <2>1 DEF StatusInv, ShownNext
    <3>4. version = 2 => \A i \in Items, u \in DOMAIN uLog : u < dItem'[i] => u \in dLog' \cup skipped.rows
      BY <1>7, <3>1
    <3> QED BY <1>1, <1>2, <1>7, <3>2, <3>3, <3>4, Zenon DEF ShownNext
  <2>5. MissedLater' /\ ShownMarked'
    BY <1>2, Zenon DEF MissedLater, Before, ShownMarked
  <2>6. NeverBack
    <3>1. dItem[uLog[r]] <= r \/ r \in skipped.rows
      <4>1. CASE version = 2
        <5>1. r < dItem[uLog[r]] => r \in dLog \cup skipped.rows
          BY <1>4, <4>1 DEF StatusInv, ShownNext
        <5> QED BY <1>4, <1>7, <2>1, <5>1
      <4>2. CASE version = 1
        <5>1. dItem[uLog[r]] \in {0} \cup dLog /\ skipped.rows = {}
          BY <1>2, <1>4, <4>2 DEF StatusInv, ShownNext
        <5>2. ~(r < dItem[uLog[r]])
          BY <1>4, <1>6, <1>7, <5>1
        <5> QED BY <1>4, <2>1, <5>2
      <4> QED BY <1>4, <4>1, <4>2
    <3> QED BY <1>4, <2>1, <3>1 DEF NeverBack
  <2> QED BY <2>2, <2>3, <2>4, <2>5, <2>6 DEF StatusInv
<1>8. CASE UNCHANGED <<dLog, dItem>> /\ skipped.rows \subseteq skipped'.rows
           /\ (version = 1 => UNCHANGED skipped)
  <2>1. ShownOwn' /\ LogShown'
    BY <1>1, <1>8, Zenon DEF StatusInv, ShownOwn, LogShown
  <2>2. ShownNext'
    BY <1>1, <1>2, <1>8, Zenon DEF StatusInv, ShownNext
  <2>3. MissedLater' /\ ShownMarked'
    BY <1>2, Zenon DEF MissedLater, Before, ShownMarked
  <2>4. NeverBack
    BY <1>8, ShownNat DEF NeverBack
  <2> QED BY <2>1, <2>2, <2>3, <2>4 DEF StatusInv
<1>9. CASE r \in dLog /\ dLog' = dLog \cup {r} /\ UNCHANGED skipped
           /\ dItem' = [dItem EXCEPT ![uLog[r]] = @]
  <2>1. dItem' = dItem /\ dLog' = dLog
    BY <1>9, ShownNat
  <2> QED BY <1>8, <1>9, <2>1, Zenon
<1> QED BY <1>1, <1>7, <1>8, <1>9, RefusedRow DEF Inv

(* The downstream's steps that touch neither the log nor the status: it is  *)
(* told nothing new, and what it missed is in.                              *)
LEMMA StatusDown ==
    ASSUME Inv, StatusInv, Inv', UNCHANGED <<version, uLog, dLog, dItem>>,
           skipped'.rows = skipped.rows,
           \/ dpc' \in {"boot", "idle"}
           \/ dpc' = "status" /\ dpc = "boot" /\ \E ty : Receives(ty) /\ u2d' = Taken(ty)
           \/ dpc' \in {"open", "miss", "run"} /\ dpc \in {"open", "miss", "run"}
           \/ dpc' \in {"open", "miss"} /\ dpc = "status" /\ Receives("missStatus")
              /\ Head(u2d[Stream("missStatus")]).rows = {}
    PROVE  StatusInv' /\ NeverBack
<1>1. /\ TypeOK /\ FlightInv /\ FlightInv'
  BY DEF Inv, PhaseInv, Phase
<1>2. CASE dpc' \in {"boot", "idle"}
  <2>1. ~InFlight("missStatus")'
    <3>1. CASE dpc' = "boot"
      BY <1>1, <3>1 DEF FlightInv
    <3>2. CASE dpc' = "idle"
      <4>1. u2d' = NoFrames
        BY <1>1, <3>2 DEF FlightInv
      <4> QED BY <4>1, FlightNone
    <3> QED BY <1>2, <3>1, <3>2
  <2>2. ~Told'
    BY <1>2, <2>1 DEF Told
  <2> QED BY <2>1, <2>2, StatusQuiet
<1>3. CASE dpc' = "status" /\ dpc = "boot" /\ \E ty : Receives(ty) /\ u2d' = Taken(ty)
  <2>1. ~InFlight("missStatus")
    BY <1>1, <1>3 DEF FlightInv
  <2>2. ~InFlight("missStatus")'
    BY <1>1, <1>3, <2>1, FlightTaken
  <2>3. ~Told'
    BY <1>3, <2>2 DEF Told
  <2> QED BY <2>2, <2>3, StatusQuiet
<1>4. CASE dpc' \in {"open", "miss", "run"} /\ dpc \in {"open", "miss", "run"}
  <2>1. ~InFlight("missStatus") /\ ~InFlight("missStatus")'
    BY <1>1, <1>4 DEF FlightInv
  <2>2. Told /\ Missing(RowSeries) = {}
    BY <1>4, <2>1, NoneMissing DEF Told
  <2> QED BY <2>1, <2>2, StatusQuiet
<1>5. CASE /\ dpc' \in {"open", "miss"} /\ dpc = "status" /\ Receives("missStatus")
           /\ Head(u2d[Stream("missStatus")]).rows = {}
  <2>1. ~InFlight("missStatus")'
    BY <1>1, <1>5 DEF FlightInv
  <2>2. Told /\ Missing(RowSeries) = {}
    BY <1>5, TheBatch
  <2> QED BY <2>1, <2>2, StatusQuiet
<1> QED BY <1>2, <1>3, <1>4, <1>5

LEMMA NoBatchSent ==
    ASSUME TypeOK
    PROVE  /\ [type |-> "config"].type # "missStatus" /\ [type |-> "permissions"].type # "missStatus"
           /\ [type |-> "end"].type # "missStatus"
           /\ \A i, S : MissData(i, S).type # "missStatus"
           /\ \A q \in Queues : sub[q] # <<>> => Head(sub[q]).type # "missStatus"
<1>1. ASSUME NEW q \in Queues, sub[q] # <<>> PROVE Head(sub[q]).type # "missStatus"
  <2>1. QueuesOK
    BY TypeParts
  <2>2. sub["config"] \in Seq(Row) /\ sub["data"] \in Seq(Point)
    BY <2>1, QueueTypes
  <2>3. Head(sub[q]) \in Row \cup Point
    BY <1>1, <2>2, HeadTailProperties DEF Queues
  <2> QED BY <2>3, PointFields, RowFields
<1> QED BY <1>1 DEF MissData

(* One case per action. *)
LEMMA StatusStep ==
    ASSUME Inv, StatusInv, [Next]_vars
    PROVE  StatusInv' /\ NeverBack
<1>0. Inv' /\ TypeOK
  BY InvStep DEF Inv
<1>1. CASE StationFeeds
  <2>1. ASSUME NEW i \in Items, NEW replay \in BOOLEAN, StorePoint(i, replay)
        PROVE  StatusInv' /\ NeverBack
    BY <2>1, StatusUpstream DEF StorePoint, network
  <2> QED BY <1>1, <2>1, StatusStoreRow, Zenon DEF StationFeeds
<1>2. CASE PublishSaved \/ PublishDelayed
  <2>1. UNCHANGED <<version, uLog, dpc, downDB>> /\ UNCHANGED u2d
    BY <1>2, Zenon DEF PublishSaved, PublishDelayed, upstreamDB, network
  <2> QED BY <2>1, StatusUpstream
<1>3. CASE RecvDownstreamHello \/ handleSyncServerConn
  <2>1. /\ UNCHANGED <<version, uLog, dpc, downDB>>
        /\ \E m : m.type # "missStatus" /\ u2d' = Arrives(m)
    BY <1>0, <1>3, NoBatchSent, Zenon DEF RecvDownstreamHello, handleSyncServerConn, Serve, upstreamDB
  <2> QED BY <2>1, StatusUpstream
<1>4. CASE handleMissStatusSync \/ fullSyncConfigServer
  <2>1. PICK next : SendMissStatus(next)
    BY <1>4, Zenon DEF handleMissStatusSync, fullSyncConfigServer
  <2> QED BY <2>1, StatusSend
<1>5. CASE handleMissDataSync \/ fillMissDataServer \/ syncDataServer \/ syncDataServerReturns
  <2>1. UNCHANGED <<version, uLog, dpc, downDB>>
    BY <1>5, Zenon DEF handleMissDataSync, fillMissDataServer, SendMissData, RecvItemsLatest,
       SendHistory, SendHistoryEnd, syncDataServer, syncDataServerReturns, upstreamDB
  <2>2. UNCHANGED u2d \/ \E m : m.type # "missStatus" /\ u2d' = Arrives(m)
    BY <1>0, <1>5, NoBatchSent, Zenon DEF handleMissDataSync, fillMissDataServer, SendMissData, RecvItemsLatest,
       SendHistory, SendHistoryEnd, syncDataServer, syncDataServerReturns, network
  <2> QED BY <2>1, <2>2, StatusUpstream
<1>6. CASE \E q \in Queues : forwardIncremental(q)
  <2>1. /\ UNCHANGED <<version, uLog, dpc, downDB>>
        /\ \E m : m.type # "missStatus" /\ u2d' = Arrives(m)
    BY <1>0, <1>6, NoBatchSent, Zenon DEF forwardIncremental, upstreamDB
  <2> QED BY <2>1, StatusUpstream
<1>7. CASE UpdatePermissions \/ StreamRelayReturns \/ UpstreamRestart \/ Break
  <2>1. UNCHANGED <<version, uLog, dpc, downDB>> /\ UNCHANGED u2d
    BY <1>7, Zenon DEF UpdatePermissions, StreamRelayReturns, UpstreamRestart, Break, upstreamDB, network
  <2> QED BY <2>1, StatusUpstream
<1>8. CASE openDownstreamStream \/ RunDownstreamReturns
  <2>1. UNCHANGED <<version, uLog, dLog, dItem, skipped>> /\ dpc' \in {"boot", "idle"}
    BY <1>8 DEF openDownstreamStream, RunDownstreamReturns, upstreamDB, downDB
  <2> QED BY <1>0, <2>1, StatusDown
<1>9. CASE RecvFullConfig
  <2>1. /\ UNCHANGED <<version, uLog, dLog, dItem, skipped>> /\ dpc' = "status" /\ dpc = "boot"
        /\ Receives("config") /\ u2d' = Taken("config")
    BY <1>9, Zenon DEF RecvFullConfig, upstreamDB, downDB
  <2> QED BY <1>0, <2>1, StatusDown
<1>10. CASE TakeMissStatus
  BY <1>10, StatusShow, StatusSave, Zenon DEF TakeMissStatus
<1>11. CASE version = 1 /\ fullSyncConfigClientReturns
  <2>1. Stream("missStatus") = 2
    BY <1>11 DEF Stream
  <2>2. /\ UNCHANGED <<version, uLog, dLog, dItem, skipped>> /\ dpc' = "open" /\ dpc = "status"
        /\ Receives("missStatus") /\ Head(u2d[Stream("missStatus")]).rows = {}
    BY <1>11, <2>1, Zenon DEF fullSyncConfigClientReturns, upstreamDB, downDB
  <2> QED BY <1>0, <2>2, StatusDown
<1>12. CASE syncMissData \/ fillMissDataClient
  <2>1. ASSUME SendItemsLatest PROVE StatusInv' /\ NeverBack
    <3>1. UNCHANGED <<version, uLog, dLog, dItem, skipped>> /\ dpc' = "miss"
      BY <2>1, Zenon DEF SendItemsLatest, upstreamDB, downDB
    <3>2. \/ dpc = "open"
          \/ dpc = "status" /\ Receives("missStatus")
             /\ Head(u2d[Stream("missStatus")]).rows = {}
      BY <2>1, OneStream DEF SendItemsLatest, ReadyForData
    <3> QED BY <1>0, <3>1, <3>2, StatusDown
  <2>2. ASSUME NEW t, SaveMissData(t) PROVE StatusInv' /\ NeverBack
    <3>1. UNCHANGED <<version, uLog, dLog, dItem, skipped>> /\ dpc' = "miss" /\ dpc = "miss"
      BY <2>2, Zenon DEF SaveMissData, upstreamDB
    <3> QED BY <1>0, <3>1, StatusDown
  <2>3. ASSUME MissDataEnds PROVE StatusInv' /\ NeverBack
    <3>1. UNCHANGED <<version, uLog, dLog, dItem, skipped>> /\ dpc' = "run" /\ dpc = "miss"
      BY <2>3, Zenon DEF MissDataEnds, upstreamDB, downDB
    <3> QED BY <1>0, <3>1, StatusDown
  <2> QED BY <1>12, <2>1, <2>2, <2>3, Zenon DEF syncMissData, fillMissDataClient, TakeMissData
<1>13. CASE applyDataBatch \/ syncDataClient
  <2>1. /\ UNCHANGED <<version, uLog, dLog, dItem>> /\ dpc = "run" /\ dpc' = "run"
        /\ (UNCHANGED skipped \/ \E t : Refused("points", t))
    BY <1>13, Zenon DEF applyDataBatch, syncDataClient, SavePoint, upstreamDB
  <2>2. skipped'.rows = skipped.rows
    BY <1>0, <2>1, RefusedPoint
  <2> QED BY <1>0, <2>1, <2>2, StatusDown
<1>14. CASE applyStatusEvent \/ handleSyncConfigMsg
  <2>1. SaveRow /\ dpc \in {"open", "miss", "run"}
    BY <1>14 DEF applyStatusEvent, handleSyncConfigMsg
  <2> QED BY <1>0, <2>1, StatusSaveRow
<1>15. CASE syncDataClientReturns
  <2>1. UNCHANGED <<version, uLog, dLog, dItem, skipped>> /\ dpc = "run" /\ dpc' = "open"
    BY <1>15, Zenon DEF syncDataClientReturns, upstreamDB, downDB
  <2> QED BY <1>0, <2>1, StatusDown
<1>16. CASE Quiescent \/ UNCHANGED vars
  <2>1. UNCHANGED <<version, uLog, dpc, downDB>> /\ UNCHANGED u2d
    BY <1>16, Zenon DEF Quiescent, vars, upstreamDB, network
  <2> QED BY <2>1, StatusUpstream
<1> QED BY <1>1, <1>2, <1>3, <1>4, <1>5, <1>6, <1>7, <1>8, <1>9, <1>10, <1>11, <1>12, <1>13,
           <1>14, <1>15, <1>16, Zenon
        DEF Next, StreamRelay, RunDownstream, syncMissStatus, fullSyncConfigClient

(* The status the downstream shows for an item is that of the last row it   *)
(* has of it, or of the row it is about to save, and no step takes it back  *)
(* to an earlier row, but for a row whose first write was refused: the rows *)
(* of syncMissStatus or fullSyncConfigClient and those of the realtime      *)
(* queue may overlap as they will, whatever breaks or restarts between.     *)
THEOREM StatusFresh == Spec => RelayedStatusFresh
<1> DEFINE Shown == \A r \in dLog : r <= dItem[uLog[r]] \/ dItem[uLog[r]] \in skipped.rows
           Forward == \A i \in Items : dItem'[i] >= dItem[i] \/ dItem'[i] \in skipped.rows
<1>1. Inv /\ StatusInv => Shown
  BY DEF StatusInv, LogShown
<1>2. Inv /\ StatusInv /\ [Next]_vars => [Forward]_vars
  BY StatusStep DEF NeverBack
<1>3. Inv /\ StatusInv /\ [Next]_vars => Inv' /\ StatusInv'
  BY InvStep, StatusStep
<1>4. Init => Inv /\ StatusInv
  BY InvInit, StatusInit
<1>5. RelayedStatusFresh <=> []Shown /\ [][Forward]_vars
  BY DEF RelayedStatusFresh
<1> HIDE DEF Shown, Forward
<1> QED BY <1>1, <1>2, <1>3, <1>4, <1>5, PTL DEF Spec
=============================================================================
