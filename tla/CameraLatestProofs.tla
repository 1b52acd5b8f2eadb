-------------------------- MODULE CameraLatestProofs --------------------------
(***************************************************************************)
(* What CameraLatest and the client it shares keep for any number of       *)
(* requests, any Count and any number of failures.                         *)
(***************************************************************************)
EXTENDS CameraLatest, FiniteSetTheorems, WellFoundedInduction, TLAPS

(* tokenMu is held by the caller that logs in, and by no other. *)
LockInv == \A c \in Callers : phase[c] \in {"login", "relogin"} <=> tokenMu = c

(* A request that is sent has a token. *)
HeldInv == \A c \in Callers : phase[c] \in {"send", "refresh", "resend"} => held[c] # NoToken

AuthInv == AuthTypeOK /\ LockInv /\ HeldInv /\ RefusedTokenGoes

(* While a request runs alone the others rest. *)
AloneInv ==
    \A q \in alone : at[q] # "idle" /\ \A p \in Requests : p # q => at[p] = "idle"

(* What a request has fetched is new to it, and no more than Count; what it *)
(* has yet to write is of that.                                             *)
FetchedInv ==
    \A q \in Requests :
        /\ at[q] \in {"idle", "fetch"} => imgs[q] = {}
        /\ \A i \in imgs[q] : \A d \in dirs[q] : d < i
        /\ Cardinality(imgs[q]) <= Count
        /\ at[q] = "write" => todo[q] \subseteq imgs[q]

(* The directory as a request that runs alone leaves it, step by step. *)
TooMany(q) == Oldest(Surplus(q), dirs[q])

DirectoryInv ==
    \A q \in alone :
        /\ at[q] = "fetch" => cache = dirs[q]
        /\ at[q] = "write" => cache = dirs[q] \cup (imgs[q] \ todo[q])
        /\ at[q] = "remove" => /\ todo[q] \subseteq TooMany(q)
                               /\ cache = (dirs[q] \cup imgs[q]) \ (TooMany(q) \ todo[q])
        /\ at[q] = "read" => Cardinality(cache) <= Count

(* The last Count snapshots up to m. *)
Window(m) == {i \in 1..m : i > m - Count}

(* The newest snapshot any request has fetched is m: of the last Count up  *)
(* to m every one is in the directory, or some request is about to write   *)
(* it, and none of them will be removed.                                   *)
Covered(m) ==
    /\ cache \subseteq 1..m
    /\ \A i \in Window(m) : i \in cache \/ \E p \in Requests : at[p] = "write" /\ i \in todo[p]
    /\ \A q \in Requests :
          /\ dirs[q] \subseteq 1..m /\ imgs[q] \subseteq 1..m
          /\ at[q] = "remove" => \A i \in todo[q] : i + Count <= m

WindowInv == ~torn => \E m \in 0..shots : Covered(m)

(* A request that runs alone has seen a full window, up to m, and has      *)
(* fetched what the upstream had added to it, up to n.                     *)
Filled(q, m, n) ==
    /\ m <= n
    /\ dirs[q] \subseteq 1..m /\ Window(m) \subseteq dirs[q]
    /\ imgs[q] = {i \in Window(n) : i > m}
    /\ due[q] = {i \in Window(n) : i > after[q]}

AnswerInv ==
    ~torn => \A q \in alone :
        /\ at[q] \in {"write", "remove"} => \E m, n \in 0..shots : Filled(q, m, n)
        /\ at[q] = "read" => reply[q] \cup todo[q] = due[q]

(* TypeOK without the client's part. *)
CameraTypeOK ==
    /\ shots \in 0..MaxShots
    /\ cache \subseteq 1..shots
    /\ at \in [Requests -> {"idle", "fetch", "write", "remove", "read"}]
    /\ after \in [Requests -> 0..shots]
    /\ dirs \in [Requests -> SUBSET (1..shots)]
    /\ imgs \in [Requests -> SUBSET (1..shots)]
    /\ todo \in [Requests -> SUBSET (1..shots)]
    /\ reply \in [Requests -> SUBSET (1..shots)]
    /\ due \in [Requests -> SUBSET (1..shots)]
    /\ alone \subseteq Requests
    /\ torn \in BOOLEAN
    /\ calls \in 0..MaxCalls

CameraInv == AloneInv /\ FetchedInv /\ DirectoryInv /\ WindowInv /\ AnswerInv
Inv == AuthInv /\ CameraTypeOK /\ CameraInv

-----------------------------------------------------------------------------
(* Newest and Oldest *)

(* A set of naturals has a least element. *)
LEMMA Least ==
    ASSUME NEW S, S \subseteq Nat, S # {}
    PROVE  \E m \in S : \A i \in S : m <= i
<1> DEFINE R == {p \in Nat \X Nat : p[1] < p[2]}
<1>1. IsWellFoundedOn(R, Nat)
  BY NatLessThanWellFounded DEF OpToRel
<1> HIDE DEF R
<1>2. PICK m \in S : \A i \in S : ~ (<<i, m>> \in R)
  BY <1>1, WFMin
<1>3. \A i \in Nat : i < m => <<i, m>> \in R
  BY DEF R
<1>4. m \in Nat /\ \A i \in S : i \in Nat /\ ~ (i < m)
  BY <1>2, <1>3
<1>5. \A i \in S : m <= i
  BY <1>4
<1> QED BY <1>5

(* A set of snapshots is finite, and so are its parts. *)
LEMMA Finite ==
    ASSUME NEW n \in Nat, NEW S, S \subseteq 1..n
    PROVE  IsFiniteSet(S) /\ Cardinality(S) \in Nat /\ Cardinality(S) <= n /\ S \subseteq Nat
<1>1. IsFiniteSet(1..n) /\ Cardinality(1..n) = n
  <2>1. IsFiniteSet(1..n) /\ Cardinality(1..n) = IF 1 > n THEN 0 ELSE n - 1 + 1
    BY FS_Interval
  <2> QED BY <2>1
<1>2. IsFiniteSet(S) /\ Cardinality(S) <= Cardinality(1..n)
  BY <1>1, FS_Subset
<1>3. Cardinality(S) \in Nat
  BY <1>2, FS_CardinalityType
<1> QED BY <1>1, <1>2, <1>3

LEMMA Parts ==
    ASSUME NEW S, IsFiniteSet(S), NEW T, T \subseteq S
    PROVE  IsFiniteSet(T) /\ Cardinality(T) \in Nat /\ Cardinality(T) <= Cardinality(S)
BY FS_Subset, FS_CardinalityType

(* There are no more than k newest ones ... *)
LEMMA NewestBound ==
    ASSUME NEW S, IsFiniteSet(S), S \subseteq Nat, NEW k \in Nat
    PROVE  Cardinality(Newest(k, S)) <= k
<1> DEFINE N == Newest(k, S)
<1>1. N \subseteq S /\ IsFiniteSet(N) /\ Cardinality(N) \in Nat
  BY Parts DEF Newest
<1>2. CASE N = {}
  BY <1>2, FS_EmptySet
<1>3. CASE N # {}
  <2>1. PICK m \in N : \A i \in N : m <= i
    BY <1>1, <1>3, Least
  <2> DEFINE G == {j \in S : j > m}
  <2>2. Cardinality(G) < k
    BY <2>1 DEF Newest
  <2>3. N \ {m} \subseteq G
    <3> SUFFICES ASSUME NEW i \in N, i # m PROVE i \in S /\ i > m
      OBVIOUS
    <3>1. i \in S /\ i \in Nat /\ m \in Nat /\ m <= i
      BY <1>1, <2>1
    <3> QED BY <3>1
  <2>4. G \subseteq S
    OBVIOUS
  <2>5. IsFiniteSet(G) /\ Cardinality(G) \in Nat
    BY <2>4, Parts
  <2>6. Cardinality(N \ {m}) <= Cardinality(G)
    BY <2>3, <2>5, Parts
  <2>7. Cardinality(N \ {m}) = Cardinality(N) - 1
    BY <1>1, <2>1, FS_RemoveElement
  <2> HIDE DEF N, G
  <2>8. Cardinality(N) <= k
    BY <1>1, <2>2, <2>5, <2>6, <2>7
  <2> QED BY <2>8 DEF N
<1> QED BY <1>2, <1>3

(* ... and no fewer than k oldest ones, where there are k. *)
LEMMA OldestBound ==
    ASSUME NEW S, IsFiniteSet(S), S \subseteq Nat, NEW k \in Int, Oldest(k, S) # S
    PROVE  k <= Cardinality(Oldest(k, S))
<1> DEFINE O == Oldest(k, S)
<1>1. O \subseteq S /\ IsFiniteSet(O) /\ Cardinality(O) \in Nat
  BY Parts DEF Oldest
<1>2. S \ O \subseteq Nat /\ S \ O # {}
  BY <1>1
<1>3. PICK m \in S \ O : \A i \in S \ O : m <= i
  BY <1>2, Least
<1> DEFINE L == {j \in S : j < m}
<1>4. L \subseteq O
  BY <1>2, <1>3
<1>5. Cardinality(L) <= Cardinality(O) /\ Cardinality(L) \in Nat
  BY <1>1, <1>4, Parts
<1>6. ~ (Cardinality(L) < k)
  BY <1>3 DEF Oldest
<1> HIDE DEF O, L
<1>7. k <= Cardinality(O)
  BY <1>1, <1>5, <1>6
<1> QED BY <1>7 DEF O

(* Of 1..n the newest k are the last k. *)
LEMMA NewestInterval ==
    ASSUME NEW n \in Nat, NEW k \in Nat
    PROVE  Newest(k, 1..n) = {i \in 1..n : i > n - k}
<1>1. \A i \in 1..n : {j \in 1..n : j > i} = (i + 1)..n
  OBVIOUS
<1>2. \A i \in 1..n : Cardinality((i + 1)..n) = n - i
  <2> TAKE i \in 1..n
  <2>1. Cardinality((i + 1)..n) = IF i + 1 > n THEN 0 ELSE n - (i + 1) + 1
    BY FS_Interval
  <2> QED BY <2>1
<1>3. \A i \in 1..n : Cardinality({j \in 1..n : j > i}) = n - i
  BY <1>1, <1>2
<1> QED BY <1>3 DEF Newest

(* Of a directory that has all of a window the newest k are the last k of  *)
(* the window.                                                             *)
LEMMA NewestWindow ==
    ASSUME NEW m \in Nat, NEW D, D \subseteq 1..m, Window(m) \subseteq D, NEW k \in 0..Count
    PROVE  Newest(k, D) = {i \in 1..m : i > m - k}
<1> USE CameraAssumption
<1>1. \A i \in D : i > m - k => Cardinality({j \in D : j > i}) < k
  <2> SUFFICES ASSUME NEW i \in D, i > m - k PROVE Cardinality({j \in D : j > i}) < k
    OBVIOUS
  <2> DEFINE G == {j \in D : j > i}
  <2>1. G \subseteq (i + 1)..m
    <3> SUFFICES ASSUME NEW j \in G PROVE j \in (i + 1)..m
      OBVIOUS
    <3>1. i \in 1..m /\ j \in 1..m /\ j > i
      OBVIOUS
    <3> QED BY <3>1
  <2>2. IsFiniteSet((i + 1)..m) /\ Cardinality((i + 1)..m) = m - i
    <3>1. /\ IsFiniteSet((i + 1)..m)
          /\ Cardinality((i + 1)..m) = IF i + 1 > m THEN 0 ELSE m - (i + 1) + 1
      BY FS_Interval
    <3> QED BY <3>1
  <2>3. Cardinality(G) \in Nat /\ Cardinality(G) <= m - i
    BY <2>1, <2>2, Parts
  <2> QED BY <2>3
<1>2. \A i \in D : ~(i > m - k) => ~(Cardinality({j \in D : j > i}) < k)
  <2> SUFFICES ASSUME NEW i \in D, ~(i > m - k) PROVE ~(Cardinality({j \in D : j > i}) < k)
    OBVIOUS
  <2> DEFINE G == {j \in D : j > i}
  <2>1. (m - k + 1)..m \subseteq G
    BY DEF Window
  <2>2. Cardinality((m - k + 1)..m) = k
    <3>1. Cardinality((m - k + 1)..m) = IF m - k + 1 > m THEN 0 ELSE m - (m - k + 1) + 1
      BY FS_Interval
    <3> QED BY <3>1
  <2>3. IsFiniteSet(D)
    BY Finite
  <2>4. G \subseteq D
    OBVIOUS
  <2>5. IsFiniteSet(G) /\ Cardinality(G) \in Nat
    BY <2>3, <2>4, Parts
  <2>6. Cardinality((m - k + 1)..m) <= Cardinality(G)
    BY <2>1, <2>5, Parts
  <2> HIDE DEF G
  <2>7. ~(Cardinality(G) < k)
    BY <2>2, <2>5, <2>6
  <2> QED BY <2>7 DEF G
<1>3. \A i \in 1..m : i > m - k => i \in D
  BY DEF Window
<1> QED BY <1>1, <1>2, <1>3 DEF Newest

(* When the surplus is removed Count are left. *)
LEMMA TrimmedToCount ==
    ASSUME NEW n \in Nat, NEW D, D \subseteq 1..n, NEW I, I \subseteq 1..n,
           D \cap I = {}, Cardinality(I) <= Count
    PROVE  Cardinality((D \cup I) \ Oldest(Cardinality(D) + Cardinality(I) - Count, D)) <= Count
<1> USE CameraAssumption
<1> DEFINE k == Cardinality(D) + Cardinality(I) - Count
           O == Oldest(k, D)
           C == (D \cup I) \ O
<1>1. /\ IsFiniteSet(D) /\ Cardinality(D) \in Nat /\ D \subseteq Nat
      /\ IsFiniteSet(I) /\ Cardinality(I) \in Nat
  BY Finite
<1>2. k \in Int
  BY <1>1
<1>3. O \subseteq D
  BY DEF Oldest
<1>4. IsFiniteSet(O) /\ Cardinality(O) \in Nat
  BY <1>1, <1>3, Parts
<1>5. IsFiniteSet(D \cup I) /\ Cardinality(D \cup I) = Cardinality(D) + Cardinality(I)
  <2>1. /\ IsFiniteSet(D \cup I)
        /\ Cardinality(D \cup I) = Cardinality(D) + Cardinality(I) - Cardinality(D \cap I)
    BY <1>1, FS_Union
  <2>2. Cardinality(D \cap I) = 0
    BY FS_EmptySet
  <2> QED BY <1>1, <2>1, <2>2
<1>6. (D \cup I) \cap O = O
  BY <1>3
<1>7. Cardinality(C) = Cardinality(D) + Cardinality(I) - Cardinality(O)
  <2> HIDE DEF O
  <2>1. Cardinality((D \cup I) \ O) = Cardinality(D \cup I) - Cardinality((D \cup I) \cap O)
    BY <1>5, FS_Difference
  <2>2. Cardinality((D \cup I) \cap O) = Cardinality(O)
    BY <1>6
  <2>3. Cardinality((D \cup I) \ O) = Cardinality(D) + Cardinality(I) - Cardinality(O)
    BY <1>1, <1>4, <1>5, <2>1, <2>2
  <2> QED BY <2>3
<1>8. CASE O = D
  BY <1>1, <1>7, <1>8
<1>9. CASE O # D
  <2>1. k <= Cardinality(O)
    BY <1>1, <1>2, <1>9, OldestBound
  <2> HIDE DEF O, C
  <2>2. Cardinality(C) <= Count
    BY <1>1, <1>4, <1>7, <2>1
  <2> QED BY <2>2 DEF C, O
<1> QED BY <1>8, <1>9

(* What is surplus is older than Count others. *)
LEMMA SurplusIsOld ==
    ASSUME NEW m \in Nat, NEW D, D \subseteq 1..m, NEW I, I \subseteq 1..m,
           \A i \in I : \A d \in D : d < i,
           NEW i \in Oldest(Cardinality(D) + Cardinality(I) - Count, D)
    PROVE  i + Count <= m
<1> USE CameraAssumption
<1> DEFINE L == {j \in D : j < i}
           G == {j \in D : j > i}
<1>1. /\ IsFiniteSet(D) /\ Cardinality(D) \in Nat /\ D \subseteq Nat
      /\ IsFiniteSet(I) /\ Cardinality(I) \in Nat /\ I \subseteq Nat
  BY Finite
<1>2. i \in D /\ i \in 1..m /\ Cardinality(L) < Cardinality(D) + Cardinality(I) - Count
  BY DEF Oldest
<1>3. L \subseteq D /\ G \subseteq D
  OBVIOUS
<1>4. IsFiniteSet(L) /\ Cardinality(L) \in Nat /\ IsFiniteSet(G) /\ Cardinality(G) \in Nat
  BY <1>1, <1>3, Parts
<1>5. D = (L \cup {i}) \cup G /\ i \notin L /\ (L \cup {i}) \cap G = {} /\ G \cap I = {}
  <2>1. i \in Nat /\ \A j \in D : j \in Nat /\ (j < i \/ j = i \/ j > i)
    BY <1>1, <1>2
  <2>2. i \notin L /\ i \notin G /\ \A j \in L : j \notin G
    BY <1>1, <1>2
  <2>3. \A j \in I : j \notin D
    BY <1>1
  <2> QED BY <1>2, <1>3, <2>1, <2>2, <2>3
<1>6. G \cup I \subseteq (i + 1)..m
  <2> SUFFICES ASSUME NEW j \in G \cup I PROVE j \in (i + 1)..m
    OBVIOUS
  <2>1. j \in 1..m /\ i \in 1..m /\ j > i
    BY <1>2
  <2> QED BY <2>1
<1> HIDE DEF L, G
<1>7. IsFiniteSet(L \cup {i}) /\ Cardinality(L \cup {i}) = Cardinality(L) + 1
  BY <1>4, <1>5, FS_AddElement
<1>8. Cardinality(D) = Cardinality(L) + 1 + Cardinality(G)
  <2>1. Cardinality((L \cup {i}) \cup G)
          = Cardinality(L \cup {i}) + Cardinality(G) - Cardinality((L \cup {i}) \cap G)
    BY <1>4, <1>7, FS_Union
  <2>2. Cardinality((L \cup {i}) \cap G) = 0
    BY <1>5, FS_EmptySet
  <2> QED BY <1>4, <1>5, <1>7, <2>1, <2>2
<1>9. Cardinality(G \cup I) = Cardinality(G) + Cardinality(I)
  <2>1. Cardinality(G \cup I) = Cardinality(G) + Cardinality(I) - Cardinality(G \cap I)
    BY <1>1, <1>4, FS_Union
  <2>2. Cardinality(G \cap I) = 0
    BY <1>5, FS_EmptySet
  <2> QED BY <1>1, <1>4, <2>1, <2>2
<1>10. IsFiniteSet((i + 1)..m) /\ Cardinality((i + 1)..m) = m - i
  <2>1. /\ IsFiniteSet((i + 1)..m)
        /\ Cardinality((i + 1)..m) = IF i + 1 > m THEN 0 ELSE m - (i + 1) + 1
    BY <1>2, FS_Interval
  <2> QED BY <1>2, <2>1
<1>11. Cardinality(G \cup I) <= m - i
  BY <1>6, <1>10, Parts
<1> QED BY <1>1, <1>2, <1>4, <1>8, <1>9, <1>11

-----------------------------------------------------------------------------
(* The client *)

(* A caller's own steps. *)
Moves(c) == DoWithAuth(c) \/ AuthStep(c) \/ TakeAnswer(c)

(* The steps of a caller keep the invariant of the client: it takes the    *)
(* lock to log in, and whoever is refused clears the token.                *)
LEMMA MovesAuth ==
    ASSUME AuthInv, NEW c \in Callers, Moves(c)
    PROVE  AuthInv'
<1> USE AuthAssumption DEF AuthInv, AuthTypeOK, LockInv, HeldInv, RefusedTokenGoes, NoToken
<1>1. CASE DoWithAuth(c)
  BY <1>1 DEF DoWithAuth, To
<1>2. CASE GetCached(c)
  BY <1>2 DEF GetCached, To
<1>3. CASE LockForLogin(c)
  BY <1>3 DEF LockForLogin, To
<1>4. CASE LockForRefresh(c)
  BY <1>4 DEF LockForRefresh, ForceRefresh, To
<1>5. CASE LoginSucceeds(c)
  BY <1>5 DEF LoginSucceeds, To
<1>6. CASE LoginFails(c)
  BY <1>6 DEF LoginFails, UnlockOnError, Fault, To
<1>7. CASE Send(c)
  <2> USE <1>7 DEF Send, To
  <2>1. AuthTypeOK'
    <3>1. held[c] \in 1..issued
      OBVIOUS
    <3>2. refused' \subseteq 1..issued
      BY <3>1
    <3>3. faults' \in 0..MaxFaults
      BY DEF Fault
    <3>4. \E p \in {"answered", "refresh", "failed"} : phase' = [phase EXCEPT ![c] = p]
      OBVIOUS
    <3>5. UNCHANGED <<token, tokenMu, held, issued, valid>>
      OBVIOUS
    <3> QED BY <3>2, <3>3, <3>4, <3>5
  <2>2. LockInv' /\ HeldInv'
    OBVIOUS
  <2>3. RefusedTokenGoes'
    <3>1. CASE token \in refused
      <4>1. PICK d \in Callers : phase[d] = "refresh" /\ held[d] = token
        BY <3>1
      <4>2. d # c /\ phase'[d] = "refresh" /\ held'[d] = token'
        BY <4>1
      <4> QED BY <4>2
    <3>2. CASE token \notin refused /\ token \in refused'
      <4>1. held[c] = token /\ phase'[c] = "refresh"
        BY <3>2
      <4> QED BY <4>1
    <3> QED BY <3>1, <3>2
  <2> QED BY <2>1, <2>2, <2>3
<1>8. CASE Resend(c)
  BY <1>8 DEF Resend, Fault, To
<1>9. CASE TakeAnswer(c)
  BY <1>9 DEF TakeAnswer, Returned, To
<1> QED BY <1>1, <1>2, <1>3, <1>4, <1>5, <1>6, <1>7, <1>8, <1>9 DEF Moves, AuthStep

(* So do the end of the tokens and a failure elsewhere. *)
LEMMA OthersAuth ==
    ASSUME AuthInv,
           \/ Expire
           \/ Fault /\ UNCHANGED <<token, tokenMu, phase, held, issued, valid, refused>>
           \/ UNCHANGED authVars
    PROVE  AuthInv'
<1> USE AuthAssumption DEF AuthInv, AuthTypeOK, LockInv, HeldInv, RefusedTokenGoes
<1>1. CASE Expire
  BY <1>1 DEF Expire, Fault
<1>2. CASE Fault /\ UNCHANGED <<token, tokenMu, phase, held, issued, valid, refused>>
  BY <1>2 DEF Fault
<1>3. CASE UNCHANGED authVars
  BY <1>3 DEF authVars
<1> QED BY <1>1, <1>2, <1>3

(* The requests and the dial use the client as its callers, and only so. *)
LEMMA NextAuth == AuthInv /\ [Next]_vars => AuthInv'
<1> SUFFICES ASSUME AuthInv, [Next]_vars PROVE AuthInv'
  OBVIOUS
<1>1. Requests \subseteq Callers /\ Dial \in Callers
  BY CameraAssumption
<1>2. CASE \E q \in Requests : \/ \E have \in 0..shots : ReadDir(q, have)
                               \/ Fetch(q) \/ FetchFails(q)
  BY <1>1, <1>2, MovesAuth DEF Moves, ReadDir, Fetch, FetchFails
<1>3. CASE \E q \in Requests : WriteFails(q)
  BY <1>3, OthersAuth DEF WriteFails
<1>4. CASE DialUpstream
  BY <1>1, <1>4, MovesAuth DEF Moves, DialUpstream
<1>5. CASE Client
  BY <1>5, MovesAuth, OthersAuth DEF Moves, Client
<1>6. CASE \/ Snapshot
           \/ \E q \in Requests :
                 \/ WriteFile(q) \/ Written(q) \/ RemoveFile(q) \/ Removed(q)
                 \/ ReadFile(q) \/ ReadFails(q) \/ WriteResponse(q)
  BY <1>6, OthersAuth DEF Snapshot, WriteFile, Written, RemoveFile, Removed, ReadFile, ReadFails,
                          WriteResponse
<1>7. CASE UNCHANGED vars
  BY <1>7, OthersAuth DEF vars
<1> QED BY <1>2, <1>3, <1>4, <1>5, <1>6, <1>7 DEF Next

-----------------------------------------------------------------------------
(* The requests *)

LEMMA TypeParts == AuthInv /\ CameraTypeOK => TypeOK
<1> SUFFICES ASSUME AuthInv, CameraTypeOK PROVE TypeOK
  OBVIOUS
<1>1. tokenMu # NoCaller => phase[tokenMu] \in {"login", "relogin"}
  BY DEF AuthInv, AuthTypeOK, LockInv
<1>2. AuthTypeOK
  BY DEF AuthInv
<1>3. \A f \in {dirs, imgs, todo, reply, due} : f \in [Requests -> SUBSET (1..shots)]
  BY DEF CameraTypeOK
<1> QED BY <1>1, <1>2, <1>3 DEF TypeOK, CameraTypeOK

(* The end of a request keeps the types. *)
LEMMA EndType ==
    ASSUME CameraTypeOK, NEW q \in Requests, End(q), torn' \in BOOLEAN,
           UNCHANGED <<shots, cache, calls>>
    PROVE  CameraTypeOK'
BY DEF CameraTypeOK, End, Step

(* Every step keeps the types. *)
LEMMA NextType == CameraTypeOK /\ [Next]_vars => CameraTypeOK'
<1> SUFFICES ASSUME CameraTypeOK, [Next]_vars PROVE CameraTypeOK'
  OBVIOUS
<1> USE CameraAssumption
<1>1. CASE Snapshot
  <2>1. shots' \in 0..MaxShots /\ 1..shots \subseteq 1..shots' /\ 0..shots \subseteq 0..shots'
    BY <1>1 DEF CameraTypeOK, Snapshot
  <2>2. UNCHANGED <<cache, at, after, dirs, imgs, todo, reply, due, alone, torn, calls>>
    BY <1>1 DEF Snapshot
  <2>3. SUBSET (1..shots) \subseteq SUBSET (1..shots')
    BY <2>1
  <2> QED BY <2>1, <2>2, <2>3 DEF CameraTypeOK
<1>2. ASSUME NEW q \in Requests, NEW have \in 0..shots, ReadDir(q, have) PROVE CameraTypeOK'
  BY <1>2 DEF CameraTypeOK, ReadDir, Step, Call
<1>3. ASSUME NEW q \in Requests, Fetch(q) PROVE CameraTypeOK'
  <2>1. \A h : LocalAnswer(h) \subseteq 1..shots
    BY DEF LocalAnswer, Newest
  <2>2. imgs' \in [Requests -> SUBSET (1..shots)]
    BY <1>3, <2>1 DEF CameraTypeOK, Fetch
  <2>3. todo' \in [Requests -> SUBSET (1..shots)]
    BY <1>3, <2>2 DEF CameraTypeOK, Fetch
  <2>4. due' \in [Requests -> SUBSET (1..shots)]
    BY <1>3, <2>1 DEF CameraTypeOK, Fetch
  <2> QED BY <1>3, <2>2, <2>3, <2>4 DEF CameraTypeOK, Fetch, Step
<1>4. ASSUME NEW q \in Requests, FetchFails(q) PROVE CameraTypeOK'
  BY <1>4, EndType DEF FetchFails, CameraTypeOK
<1>5. ASSUME NEW q \in Requests, WriteFile(q) PROVE CameraTypeOK'
  BY <1>5 DEF CameraTypeOK, WriteFile, Highest
<1>6. ASSUME NEW q \in Requests, WriteFails(q) PROVE CameraTypeOK'
  BY <1>6, EndType DEF WriteFails
<1>7. ASSUME NEW q \in Requests, Written(q) PROVE CameraTypeOK'
  <2>1. Oldest(Surplus(q), dirs[q]) \subseteq dirs[q]
    BY DEF Oldest
  <2> QED BY <1>7, <2>1 DEF CameraTypeOK, Written, Step
<1>8. ASSUME NEW q \in Requests, RemoveFile(q) PROVE CameraTypeOK'
  <2>1. PICK i : cache' = cache \ {i} /\ todo' = [todo EXCEPT ![q] = @ \ {i}]
    BY <1>8 DEF RemoveFile
  <2>2. todo' \in [Requests -> SUBSET (1..shots)]
    BY <2>1 DEF CameraTypeOK
  <2>3. cache' \subseteq 1..shots
    BY <2>1 DEF CameraTypeOK
  <2> QED BY <1>8, <2>2, <2>3 DEF CameraTypeOK, RemoveFile
<1>9. ASSUME NEW q \in Requests, Removed(q) PROVE CameraTypeOK'
  <2>1. FromCache(q) \subseteq dirs[q]
    BY DEF FromCache, Newest
  <2>2. {i \in imgs[q] : i > after[q]} \subseteq imgs[q]
    OBVIOUS
  <2> QED BY <1>9, <2>1, <2>2 DEF CameraTypeOK, Removed, Step
<1>10. ASSUME NEW q \in Requests, ReadFile(q) PROVE CameraTypeOK'
  BY <1>10 DEF CameraTypeOK, ReadFile, Highest
<1>11. ASSUME NEW q \in Requests, ReadFails(q) \/ WriteResponse(q) PROVE CameraTypeOK'
  BY <1>11, EndType DEF ReadFails, WriteResponse, CameraTypeOK
<1>12. CASE DialUpstream
  BY <1>12 DEF CameraTypeOK, DialUpstream, Call
<1>13. CASE Client \/ UNCHANGED vars
  BY <1>13 DEF CameraTypeOK, Client, cameraVars, vars
<1> QED BY <1>1, <1>2, <1>3, <1>4, <1>5, <1>6, <1>7, <1>8, <1>9, <1>10, <1>11, <1>12, <1>13
        DEF Next

(* A request that takes a step leaves nobody but itself alone. *)
LEMMA OnlyAlone ==
    ASSUME CameraTypeOK, AloneInv, NEW q \in Requests, at[q] # "idle"
    PROVE  alone \subseteq {q}
BY DEF CameraTypeOK, AloneInv

(* What a request that ran alone returns is what is due. *)
LEMMA FilledAnswer ==
    ASSUME CameraTypeOK, FetchedInv, NEW q \in Requests, NEW m \in 0..shots, NEW n \in 0..shots,
           Filled(q, m, n)
    PROVE  {i \in imgs[q] : i > after[q]} \cup FromCache(q) = due[q]
<1> USE CameraAssumption
<1> DEFINE D == dirs[q]
           I == imgs[q]
           a == after[q]
<1>1. /\ m \in Nat /\ n \in Nat /\ m <= n /\ a \in Nat
      /\ D \subseteq 1..m /\ Window(m) \subseteq D
      /\ I = {i \in Window(n) : i > m}
      /\ due[q] = {i \in Window(n) : i > a}
  BY DEF CameraTypeOK, Filled
<1>2. \A i \in I, d \in D : d < i
  BY DEF FetchedInv
<1>3. FromCache(q) = IF \A i \in I : i > a
                     THEN {i \in Newest(Count - Cardinality(I), D) : i > a}
                     ELSE {}
  BY DEF FromCache
<1> HIDE DEF D, I, a
<1>4. CASE m + Count <= n
  <2>1. I = (n - Count + 1)..n
    BY <1>1, <1>4 DEF Window
  <2>2. Cardinality(I) = Count
    <3>1. Cardinality((n - Count + 1)..n)
            = IF n - Count + 1 > n THEN 0 ELSE n - (n - Count + 1) + 1
      BY <1>1, FS_Interval
    <3>2. Cardinality(I) = Cardinality((n - Count + 1)..n)
      BY <2>1
    <3>3. n \in Nat /\ m \in Nat
      BY <1>1
    <3> QED BY <1>4, <3>1, <3>2, <3>3
  <2>3. Newest(0, D) = {i \in 1..m : i > m - 0}
    <3>1. m \in Nat /\ D \subseteq 1..m /\ Window(m) \subseteq D /\ 0 \in 0..Count
      BY <1>1
    <3> HIDE CameraAssumption
    <3> QED BY <3>1, NewestWindow
  <2>4. FromCache(q) = {}
    BY <1>1, <1>3, <2>2, <2>3
  <2>5. \A i \in Window(n) : i > m
    BY <1>1, <1>4 DEF Window
  <2> QED BY <1>1, <2>4, <2>5 DEF I, a
<1>5. CASE n < m + Count
  <2> DEFINE k == Count - (n - m)
  <2>1. I = (m + 1)..n
    BY <1>1, <1>5 DEF Window
  <2>2. Cardinality(I) = n - m
    <3>1. Cardinality((m + 1)..n) = IF m + 1 > n THEN 0 ELSE n - (m + 1) + 1
      BY <1>1, FS_Interval
    <3>2. Cardinality(I) = Cardinality((m + 1)..n)
      BY <2>1
    <3>3. n \in Nat /\ m \in Nat /\ m <= n
      BY <1>1
    <3> QED BY <3>1, <3>2, <3>3
  <2>3. k \in 0..Count /\ m - k = n - Count /\ Count - Cardinality(I) = k
    BY <1>1, <1>5, <2>2
  <2> HIDE DEF k
  <2>4. Newest(k, D) = {i \in 1..m : i > m - k}
    <3>1. m \in Nat /\ D \subseteq 1..m /\ Window(m) \subseteq D /\ k \in 0..Count
      BY <1>1, <2>3
    <3> HIDE CameraAssumption
    <3> QED BY <3>1, NewestWindow
  <2>5. Newest(k, D) = {i \in Window(n) : i <= m}
    BY <1>1, <2>3, <2>4 DEF Window
  <2>6. CASE \A i \in I : i > a
    <3>1. FromCache(q) = {i \in {j \in Window(n) : j <= m} : i > a}
      BY <1>3, <2>3, <2>5, <2>6
    <3>2. \A i \in Window(n) : i \in Nat
      BY DEF Window
    <3> QED BY <1>1, <2>6, <3>1, <3>2 DEF I, a
  <2>7. CASE ~ \A i \in I : i > a
    <3>1. FromCache(q) = {}
      BY <1>3, <2>7
    <3>2. PICK i \in I : ~(i > a)
      BY <2>7
    <3>3. \A j \in Window(n) : j > a => j > m
      BY <1>1, <3>2 DEF Window
    <3> QED BY <1>1, <3>1, <3>3 DEF I, a
  <2> QED BY <2>6, <2>7
<1> QED BY <1>1, <1>4, <1>5

-----------------------------------------------------------------------------
(* The directory and the answers *)

(* The end of a request: it leaves nothing unwritten unless a write failed. *)
LEMMA EndCamera ==
    ASSUME CameraTypeOK, CameraInv, NEW q \in Requests, at[q] # "idle", End(q),
           UNCHANGED <<shots, cache>>, (at[q] # "write" /\ torn' = torn) \/ torn' = TRUE
    PROVE  CameraInv'
<1>1. alone' = {}
  BY OnlyAlone DEF CameraInv, End
<1>2. /\ at' = [at EXCEPT ![q] = "idle"] /\ dirs' = [dirs EXCEPT ![q] = {}]
      /\ imgs' = [imgs EXCEPT ![q] = {}] /\ todo' = [todo EXCEPT ![q] = {}]
  BY DEF End, Step
<1>3. FetchedInv'
  <2>1. Cardinality({}) = 0
    BY FS_EmptySet
  <2> QED BY <1>2, <2>1, CameraAssumption DEF CameraInv, FetchedInv, CameraTypeOK
<1>4. WindowInv'
  <2> SUFFICES ASSUME ~torn' PROVE \E m \in 0..shots' : Covered(m)'
    BY DEF WindowInv
  <2>1. ~torn /\ at[q] # "write"
    OBVIOUS
  <2>2. PICK m \in 0..shots : Covered(m)
    BY <2>1 DEF CameraInv, WindowInv
  <2>3. Covered(m)'
    BY <1>2, <2>1, <2>2 DEF Covered, CameraTypeOK
  <2> QED BY <2>3
<1> QED BY <1>1, <1>3, <1>4 DEF CameraInv, AloneInv, DirectoryInv, AnswerInv

(* A snapshot taken upstream changes nothing here. *)
LEMMA SnapshotCamera ==
    ASSUME CameraTypeOK, CameraInv, Snapshot
    PROVE  CameraInv'
<1>1. /\ UNCHANGED <<cache, at, after, dirs, imgs, todo, reply, due, alone, torn>>
      /\ 0..shots \subseteq 0..shots'
  BY CameraAssumption DEF Snapshot, CameraTypeOK
<1>2. AloneInv' /\ FetchedInv' /\ DirectoryInv'
  BY <1>1 DEF CameraInv, AloneInv, FetchedInv, DirectoryInv, TooMany, Surplus
<1>3. WindowInv'
  <2>1. \A m : Covered(m) => Covered(m)'
    BY <1>1 DEF Covered
  <2> QED BY <1>1, <2>1 DEF CameraInv, WindowInv
<1>4. AnswerInv'
  <2>1. \A q, m, n : Filled(q, m, n) => Filled(q, m, n)'
    BY <1>1 DEF Filled
  <2> QED BY <1>1, <2>1 DEF CameraInv, AnswerInv
<1> QED BY <1>2, <1>3, <1>4 DEF CameraInv

(* A request that starts has seen the directory as it is. *)
LEMMA ReadDirCamera ==
    ASSUME CameraTypeOK, CameraInv, NEW q \in Requests, NEW have \in 0..shots, ReadDir(q, have)
    PROVE  CameraInv'
<1>1. /\ at[q] = "idle" /\ at' = [at EXCEPT ![q] = "fetch"] /\ dirs' = [dirs EXCEPT ![q] = cache]
      /\ UNCHANGED <<shots, cache, imgs, todo, reply, due, torn>>
      /\ alone' = IF \A p \in Requests : at[p] = "idle" THEN {q} ELSE {}
  BY DEF ReadDir, Step
<1>2. AloneInv' /\ DirectoryInv'
  BY <1>1 DEF AloneInv, DirectoryInv, CameraTypeOK
<1>3. FetchedInv'
  BY <1>1 DEF CameraInv, FetchedInv, CameraTypeOK
<1>4. WindowInv'
  <2>1. \A m \in 0..shots : Covered(m) => Covered(m)'
    BY <1>1 DEF Covered, CameraTypeOK
  <2> QED BY <1>1, <2>1 DEF CameraInv, WindowInv
<1>5. AnswerInv'
  BY <1>1 DEF AnswerInv, CameraTypeOK
<1> QED BY <1>2, <1>3, <1>4, <1>5 DEF CameraInv

(* A request that has its answer from the upstream covers what is new, also *)
(* when it has read the directory long ago.                                 *)
LEMMA FetchCamera ==
    ASSUME CameraTypeOK, CameraInv, NEW q \in Requests, Fetch(q)
    PROVE  CameraInv'
<1> USE CameraAssumption
<1> DEFINE n == shots
           New == {i \in Window(n) : \A d \in dirs[q] : d < i}
<1>1. n \in Nat /\ LocalAnswer(0) = Window(n)
      /\ LocalAnswer(after[q]) = {i \in Window(n) : i > after[q]}
  <2>1. n \in Nat /\ Newest(Count, 1..n) = Window(n)
    BY NewestInterval DEF Window, CameraTypeOK
  <2>2. \A i \in Window(n) : i > 0
    BY DEF Window
  <2> QED BY <2>1, <2>2 DEF LocalAnswer
<1>2. /\ at[q] = "fetch" /\ at' = [at EXCEPT ![q] = "write"]
      /\ imgs' = [imgs EXCEPT ![q] = New] /\ todo' = [todo EXCEPT ![q] = New]
      /\ due' = [due EXCEPT ![q] = {i \in Window(n) : i > after[q]}]
      /\ UNCHANGED <<shots, cache, after, dirs, reply, alone, torn>>
  <2>1. imgs' = [imgs EXCEPT ![q] = New]
    BY <1>1 DEF Fetch
  <2>2. imgs'[q] = New
    BY <2>1 DEF CameraTypeOK
  <2> QED BY <1>1, <2>1, <2>2 DEF Fetch, Step
<1>3. New \subseteq Window(n) /\ New \subseteq 1..n /\ \A i \in New, d \in dirs[q] : d < i
  BY DEF Window
<1>4. Cardinality(New) <= Count
  <2>1. New \subseteq Newest(Count, 1..n)
    BY <1>1, <1>3, NewestInterval DEF Window
  <2>2. Newest(Count, 1..n) \subseteq 1..n
    BY DEF Newest
  <2>3. /\ IsFiniteSet(1..n) /\ 1..n \subseteq Nat
        /\ IsFiniteSet(Newest(Count, 1..n)) /\ Cardinality(Newest(Count, 1..n)) \in Nat
    BY <1>1, <2>2, Finite
  <2>4. Cardinality(Newest(Count, 1..n)) <= Count
    BY <2>3, NewestBound
  <2>5. Cardinality(New) \in Nat /\ Cardinality(New) <= Cardinality(Newest(Count, 1..n))
    BY <2>1, <2>3, Parts
  <2> HIDE DEF New
  <2> QED BY <2>3, <2>4, <2>5
<1>5. AloneInv'
  BY <1>2 DEF CameraInv, AloneInv, CameraTypeOK
<1>6. FetchedInv'
  <2> HIDE DEF New
  <2> QED BY <1>2, <1>3, <1>4 DEF CameraInv, FetchedInv, CameraTypeOK
<1>7. DirectoryInv'
  <2>1. alone \subseteq {q}
    BY <1>2, OnlyAlone DEF CameraInv
  <2> HIDE DEF New
  <2> QED BY <1>2, <2>1 DEF CameraInv, DirectoryInv, CameraTypeOK
<1>8. WindowInv'
  <2> SUFFICES ASSUME ~torn' PROVE Covered(n)'
    BY <1>1, <1>2 DEF WindowInv
  <2>1. PICK m \in 0..shots : Covered(m)
    BY <1>2 DEF CameraInv, WindowInv
  <2>2. m \in Nat /\ m <= n /\ 1..m \subseteq 1..n
    BY <1>1, <2>1
  <2>3. \A i \in Window(n) : i \in cache \/ \E p \in Requests : at'[p] = "write" /\ i \in todo'[p]
    <3> SUFFICES ASSUME NEW i \in Window(n)
                 PROVE  i \in cache \/ \E p \in Requests : at'[p] = "write" /\ i \in todo'[p]
      OBVIOUS
    <3>1. CASE i \in New
      BY <1>2, <3>1 DEF CameraTypeOK
    <3>2. CASE i \notin New
      <4>1. PICK d \in dirs[q] : ~(d < i)
        BY <3>2
      <4>2. i \in Window(m)
        BY <1>1, <2>1, <2>2, <4>1 DEF Covered, Window
      <4>3. CASE i \in cache
        BY <4>3
      <4>4. CASE i \notin cache
        <5>1. PICK p \in Requests : at[p] = "write" /\ i \in todo[p]
          BY <2>1, <4>2, <4>4 DEF Covered
        <5>2. p # q
          BY <1>2, <5>1
        <5>3. at'[p] = "write" /\ i \in todo'[p]
          BY <1>2, <5>1, <5>2 DEF CameraTypeOK
        <5> QED BY <5>3
      <4> QED BY <4>3, <4>4
    <3> QED BY <3>1, <3>2
  <2>4. \A p \in Requests : dirs'[p] \subseteq 1..n /\ imgs'[p] \subseteq 1..n
    BY <1>2, <1>3, <2>1, <2>2 DEF Covered, CameraTypeOK
  <2>5. \A p \in Requests : at'[p] = "remove" => \A i \in todo'[p] : i + Count <= n
    <3> SUFFICES ASSUME NEW p \in Requests, at'[p] = "remove", NEW i \in todo'[p]
                 PROVE  i + Count <= n
      OBVIOUS
    <3>1. p # q /\ at[p] = "remove" /\ i \in todo[p]
      BY <1>2 DEF CameraTypeOK
    <3>2. i + Count <= m /\ i \in Nat
      BY <2>1, <3>1 DEF Covered, CameraTypeOK
    <3> QED BY <1>1, <2>2, <3>2
  <2>6. cache' \subseteq 1..n
    BY <1>2 DEF CameraTypeOK
  <2> HIDE DEF New
  <2> QED BY <1>2, <2>3, <2>4, <2>5, <2>6 DEF Covered, Window
<1>9. AnswerInv'
  <2> SUFFICES ASSUME ~torn', q \in alone' PROVE \E m \in 0..n : Filled(q, m, n)'
    <3>1. alone \subseteq {q}
      BY <1>2, OnlyAlone DEF CameraInv
    <3> HIDE DEF New
    <3> QED BY <1>1, <1>2, <3>1 DEF AnswerInv, CameraTypeOK
  <2>1. PICK m \in 0..shots : Covered(m)
    BY <1>2 DEF CameraInv, WindowInv
  <2>2. m \in Nat /\ m <= n
    BY <1>1, <2>1
  <2>3. \A p \in Requests : at[p] # "write"
    BY <1>2 DEF CameraInv, AloneInv
  <2>4. dirs[q] = cache
    BY <1>2 DEF CameraInv, DirectoryInv
  <2>5. dirs[q] \subseteq 1..m /\ Window(m) \subseteq dirs[q]
    BY <2>1, <2>3, <2>4 DEF Covered
  <2>6. New = {i \in Window(n) : i > m}
    <3>1. m # 0 => m \in dirs[q]
      BY <2>2, <2>5 DEF Window
    <3> QED BY <1>1, <2>2, <2>5, <3>1 DEF Window
  <2> HIDE DEF New
  <2>7. Filled(q, m, n)'
    BY <1>2, <2>2, <2>5, <2>6 DEF Filled, Window, CameraTypeOK
  <2> QED BY <2>7
<1> QED BY <1>5, <1>6, <1>7, <1>8, <1>9 DEF CameraInv

(* A file that is written moves from what is pending to the directory. *)
LEMMA WriteFileCamera ==
    ASSUME CameraTypeOK, CameraInv, NEW q \in Requests, WriteFile(q)
    PROVE  CameraInv'
<1>1. PICK i \in todo[q] : cache' = cache \cup {i} /\ todo' = [todo EXCEPT ![q] = @ \ {i}]
  BY DEF WriteFile, Highest
<1>2. at[q] = "write" /\ UNCHANGED <<shots, at, after, dirs, imgs, reply, due, alone, torn>>
  BY DEF WriteFile
<1>3. i \in imgs[q] /\ todo[q] \subseteq imgs[q]
  BY <1>1, <1>2 DEF CameraInv, FetchedInv
<1>4. alone \subseteq {q}
  BY <1>2, OnlyAlone DEF CameraInv
<1>5. AloneInv' /\ FetchedInv'
  BY <1>1, <1>2 DEF CameraInv, AloneInv, FetchedInv, CameraTypeOK
<1>6. DirectoryInv'
  BY <1>1, <1>2, <1>3, <1>4 DEF CameraInv, DirectoryInv, CameraTypeOK
<1>7. WindowInv'
  <2>1. ASSUME NEW m \in 0..shots, Covered(m) PROVE Covered(m)'
    <3>1. cache' \subseteq 1..m
      BY <1>1, <1>3, <2>1 DEF Covered
    <3>2. \A p \in Requests : p # q => todo'[p] = todo[p]
      BY <1>1 DEF CameraTypeOK
    <3>3. todo'[q] = todo[q] \ {i}
      BY <1>1 DEF CameraTypeOK
    <3>4. \A j \in Window(m) : j \in cache' \/ \E p \in Requests : at[p] = "write" /\ j \in todo'[p]
      BY <1>1, <2>1, <3>2, <3>3 DEF Covered
    <3>5. \A p \in Requests : at[p] = "remove" => \A j \in todo'[p] : j + Count <= m
      BY <1>2, <2>1, <3>2 DEF Covered
    <3> QED BY <1>2, <2>1, <3>1, <3>4, <3>5 DEF Covered, Window
  <2> QED BY <1>2, <2>1 DEF CameraInv, WindowInv
<1>8. AnswerInv'
  <2>1. \A m, n : Filled(q, m, n) => Filled(q, m, n)'
    BY <1>2 DEF Filled, Window
  <2> QED BY <1>2, <1>4, <2>1 DEF CameraInv, AnswerInv
<1> QED BY <1>5, <1>6, <1>7, <1>8 DEF CameraInv

(* When all is written the surplus is chosen: none of the last Count is. *)
LEMMA WrittenCamera ==
    ASSUME CameraTypeOK, CameraInv, NEW q \in Requests, Written(q)
    PROVE  CameraInv'
<1>1. /\ at[q] = "write" /\ todo[q] = {} /\ at' = [at EXCEPT ![q] = "remove"]
      /\ todo' = [todo EXCEPT ![q] = TooMany(q)]
      /\ UNCHANGED <<shots, cache, after, dirs, imgs, reply, due, alone, torn>>
  BY DEF Written, Step, TooMany
<1>2. alone \subseteq {q}
  BY <1>1, OnlyAlone DEF CameraInv
<1>3. TooMany(q)' = TooMany(q)
  BY <1>1 DEF TooMany, Surplus
<1>4. AloneInv' /\ FetchedInv'
  BY <1>1 DEF CameraInv, AloneInv, FetchedInv, CameraTypeOK
<1>5. DirectoryInv'
  BY <1>1, <1>2, <1>3 DEF CameraInv, DirectoryInv, CameraTypeOK
<1>6. WindowInv'
  <2>1. ASSUME NEW m \in 0..shots, Covered(m) PROVE Covered(m)'
    <3>1. m \in Nat /\ dirs[q] \subseteq 1..m /\ imgs[q] \subseteq 1..m
      BY <2>1 DEF Covered, CameraTypeOK
    <3>2. \A i \in imgs[q] : \A d \in dirs[q] : d < i
      BY DEF CameraInv, FetchedInv
    <3>3. \A i \in TooMany(q) : i + Count <= m
      BY <3>1, <3>2, SurplusIsOld DEF TooMany, Surplus
    <3>4. \A p \in Requests : p # q => todo'[p] = todo[p] /\ at'[p] = at[p]
      BY <1>1 DEF CameraTypeOK
    <3>5. at'[q] = "remove" /\ todo'[q] = TooMany(q)
      BY <1>1 DEF CameraTypeOK
    <3>6. \A j \in Window(m) : j \in cache \/ \E p \in Requests : at'[p] = "write" /\ j \in todo'[p]
      BY <1>1, <2>1, <3>4 DEF Covered
    <3>7. \A p \in Requests : at'[p] = "remove" => \A j \in todo'[p] : j + Count <= m
      BY <2>1, <3>3, <3>4, <3>5 DEF Covered
    <3> QED BY <1>1, <2>1, <3>6, <3>7 DEF Covered, Window
  <2> QED BY <1>1, <2>1 DEF CameraInv, WindowInv
<1>7. AnswerInv'
  <2>1. \A m, n : Filled(q, m, n) => Filled(q, m, n)'
    BY <1>1 DEF Filled, Window
  <2> QED BY <1>1, <1>2, <2>1 DEF CameraInv, AnswerInv, CameraTypeOK
<1> QED BY <1>4, <1>5, <1>6, <1>7 DEF CameraInv

(* A file that is removed is older than the last Count. *)
LEMMA RemoveFileCamera ==
    ASSUME CameraTypeOK, CameraInv, NEW q \in Requests, RemoveFile(q)
    PROVE  CameraInv'
<1>1. PICK i \in todo[q] : cache' = cache \ {i} /\ todo' = [todo EXCEPT ![q] = @ \ {i}]
  BY DEF RemoveFile, Lowest
<1>2. at[q] = "remove" /\ UNCHANGED <<shots, at, after, dirs, imgs, reply, due, alone, torn>>
  BY DEF RemoveFile
<1>3. alone \subseteq {q}
  BY <1>2, OnlyAlone DEF CameraInv
<1>4. TooMany(q)' = TooMany(q)
  BY <1>2 DEF TooMany, Surplus
<1>5. AloneInv' /\ FetchedInv'
  BY <1>1, <1>2 DEF CameraInv, AloneInv, FetchedInv, CameraTypeOK
<1>6. DirectoryInv'
  BY <1>1, <1>2, <1>3, <1>4 DEF CameraInv, DirectoryInv, CameraTypeOK
<1>7. WindowInv'
  <2>1. ASSUME NEW m \in 0..shots, Covered(m) PROVE Covered(m)'
    <3>1. i \notin Window(m)
      BY <1>1, <1>2, <2>1, CameraAssumption DEF Covered, Window, CameraTypeOK
    <3>2. \A p \in Requests : p # q => todo'[p] = todo[p]
      BY <1>1 DEF CameraTypeOK
    <3>3. todo'[q] = todo[q] \ {i}
      BY <1>1 DEF CameraTypeOK
    <3>4. \A j \in Window(m) : j \in cache' \/ \E p \in Requests : at[p] = "write" /\ j \in todo'[p]
      <4> SUFFICES ASSUME NEW j \in Window(m), j \notin cache'
                   PROVE  \E p \in Requests : at[p] = "write" /\ j \in todo'[p]
        OBVIOUS
      <4>1. j \notin cache
        BY <1>1, <3>1
      <4>2. PICK p \in Requests : at[p] = "write" /\ j \in todo[p]
        BY <2>1, <4>1 DEF Covered
      <4>3. p # q
        BY <1>2, <4>2
      <4> QED BY <3>2, <4>2, <4>3
    <3>5. \A p \in Requests : at[p] = "remove" => \A j \in todo'[p] : j + Count <= m
      BY <2>1, <3>2, <3>3 DEF Covered
    <3>6. cache' \subseteq 1..m
      BY <1>1, <2>1 DEF Covered
    <3> QED BY <1>2, <2>1, <3>4, <3>5, <3>6 DEF Covered, Window
  <2> QED BY <1>2, <2>1 DEF CameraInv, WindowInv
<1>8. AnswerInv'
  <2>1. \A m, n : Filled(q, m, n) => Filled(q, m, n)'
    BY <1>2 DEF Filled, Window
  <2> QED BY <1>2, <1>3, <2>1 DEF CameraInv, AnswerInv
<1> QED BY <1>5, <1>6, <1>7, <1>8 DEF CameraInv

(* A request that ran alone has trimmed the directory, and what it will    *)
(* return is complete.                                                     *)
LEMMA RemovedCamera ==
    ASSUME CameraTypeOK, CameraInv, NEW q \in Requests, Removed(q)
    PROVE  CameraInv'
<1>1. /\ at[q] = "remove" /\ todo[q] = {} /\ at' = [at EXCEPT ![q] = "read"]
      /\ reply' = [reply EXCEPT ![q] = {i \in imgs[q] : i > after[q]}]
      /\ todo' = [todo EXCEPT ![q] = FromCache(q)]
      /\ UNCHANGED <<shots, cache, after, dirs, imgs, due, alone, torn>>
  BY DEF Removed, Step
<1>2. alone \subseteq {q}
  BY <1>1, OnlyAlone DEF CameraInv
<1>3. AloneInv' /\ FetchedInv'
  BY <1>1 DEF CameraInv, AloneInv, FetchedInv, CameraTypeOK
<1>4. ASSUME q \in alone PROVE Cardinality(cache) <= Count
  <2>1. cache = (dirs[q] \cup imgs[q]) \ TooMany(q)
    BY <1>1, <1>4 DEF CameraInv, DirectoryInv
  <2>2. shots \in Nat /\ dirs[q] \subseteq 1..shots /\ imgs[q] \subseteq 1..shots
    BY DEF CameraTypeOK
  <2>3. dirs[q] \cap imgs[q] = {}
    BY <2>2 DEF CameraInv, FetchedInv
  <2>4. Cardinality(imgs[q]) <= Count
    BY DEF CameraInv, FetchedInv
  <2>5. Cardinality((dirs[q] \cup imgs[q]) \ TooMany(q)) <= Count
    BY <2>2, <2>3, <2>4, TrimmedToCount DEF TooMany, Surplus
  <2> QED BY <2>1, <2>5
<1>5. DirectoryInv'
  BY <1>1, <1>2, <1>4 DEF DirectoryInv, CameraTypeOK
<1>6. WindowInv'
  <2>1. ASSUME NEW m \in 0..shots, Covered(m) PROVE Covered(m)'
    <3>1. \A p \in Requests : p # q => todo'[p] = todo[p] /\ at'[p] = at[p]
      BY <1>1 DEF CameraTypeOK
    <3>2. at'[q] = "read"
      BY <1>1 DEF CameraTypeOK
    <3>3. \A j \in Window(m) : j \in cache \/ \E p \in Requests : at'[p] = "write" /\ j \in todo'[p]
      BY <1>1, <2>1, <3>1 DEF Covered
    <3>4. \A p \in Requests : at'[p] = "remove" => \A j \in todo'[p] : j + Count <= m
      BY <2>1, <3>1, <3>2 DEF Covered
    <3> QED BY <1>1, <2>1, <3>3, <3>4 DEF Covered, Window
  <2> QED BY <1>1, <2>1 DEF CameraInv, WindowInv
<1>7. AnswerInv'
  <2> SUFFICES ASSUME ~torn, q \in alone PROVE reply'[q] \cup todo'[q] = due[q]
    BY <1>1, <1>2 DEF AnswerInv, CameraTypeOK
  <2>1. PICK m, n \in 0..shots : Filled(q, m, n)
    BY <1>1 DEF CameraInv, AnswerInv
  <2>2. {i \in imgs[q] : i > after[q]} \cup FromCache(q) = due[q]
    BY <2>1, FilledAnswer DEF CameraInv
  <2>3. reply'[q] = {i \in imgs[q] : i > after[q]} /\ todo'[q] = FromCache(q)
    BY <1>1 DEF CameraTypeOK
  <2> QED BY <2>2, <2>3
<1> QED BY <1>3, <1>5, <1>6, <1>7 DEF CameraInv

(* A file that is read moves to the answer. *)
LEMMA ReadFileCamera ==
    ASSUME CameraTypeOK, CameraInv, NEW q \in Requests, ReadFile(q)
    PROVE  CameraInv'
<1>1. PICK i \in todo[q] : /\ reply' = [reply EXCEPT ![q] = @ \cup {i}]
                           /\ todo' = [todo EXCEPT ![q] = @ \ {i}]
  BY DEF ReadFile, Highest
<1>2. at[q] = "read" /\ UNCHANGED <<shots, cache, at, after, dirs, imgs, due, alone, torn>>
  BY DEF ReadFile
<1>3. alone \subseteq {q}
  BY <1>2, OnlyAlone DEF CameraInv
<1>4. AloneInv' /\ FetchedInv'
  BY <1>1, <1>2 DEF CameraInv, AloneInv, FetchedInv, CameraTypeOK
<1>5. DirectoryInv'
  BY <1>2, <1>3 DEF CameraInv, DirectoryInv
<1>6. WindowInv'
  <2>1. \A p \in Requests : p # q => todo'[p] = todo[p]
    BY <1>1 DEF CameraTypeOK
  <2>2. ASSUME NEW m \in 0..shots, Covered(m) PROVE Covered(m)'
    BY <1>2, <2>1, <2>2 DEF Covered, Window
  <2> QED BY <1>2, <2>2 DEF CameraInv, WindowInv
<1>7. AnswerInv'
  <2>1. reply'[q] \cup todo'[q] = reply[q] \cup todo[q]
    BY <1>1 DEF CameraTypeOK
  <2> QED BY <1>2, <1>3, <2>1 DEF CameraInv, AnswerInv
<1> QED BY <1>4, <1>5, <1>6, <1>7 DEF CameraInv

(* The dial and the client do not touch the directory. *)
LEMMA OthersCamera ==
    ASSUME CameraInv, UNCHANGED <<shots, cache, at, after, dirs, imgs, todo, reply, due, alone, torn>>
    PROVE  CameraInv'
<1>1. AloneInv' /\ FetchedInv' /\ DirectoryInv'
  BY DEF CameraInv, AloneInv, FetchedInv, DirectoryInv, TooMany, Surplus
<1>2. WindowInv'
  BY DEF CameraInv, WindowInv, Covered, Window
<1>3. AnswerInv'
  BY DEF CameraInv, AnswerInv, Filled, Window
<1> QED BY <1>1, <1>2, <1>3 DEF CameraInv

-----------------------------------------------------------------------------
(* The initial states: nobody has logged in, the directory is empty. *)
LEMMA InitInv == Init => Inv
<1> SUFFICES ASSUME Init PROVE Inv
  OBVIOUS
<1> USE CameraAssumption, AuthAssumption DEF Init
<1>1. AuthInv
  BY DEF AuthInit, AuthInv, AuthTypeOK, LockInv, HeldInv, RefusedTokenGoes, NoToken
<1>2. CameraTypeOK
  <2>1. shots \in 0..MaxShots /\ calls \in 0..MaxCalls /\ after \in [Requests -> 0..shots]
    OBVIOUS
  <2>2. /\ dirs \in [Requests -> SUBSET (1..shots)] /\ imgs \in [Requests -> SUBSET (1..shots)]
        /\ todo \in [Requests -> SUBSET (1..shots)] /\ reply \in [Requests -> SUBSET (1..shots)]
        /\ due \in [Requests -> SUBSET (1..shots)]
    OBVIOUS
  <2>3. cache \subseteq 1..shots /\ alone \subseteq Requests /\ torn \in BOOLEAN
    OBVIOUS
  <2>4. at \in [Requests -> {"idle", "fetch", "write", "remove", "read"}]
    OBVIOUS
  <2> QED BY <2>1, <2>2, <2>3, <2>4 DEF CameraTypeOK
<1>3. AloneInv /\ DirectoryInv /\ AnswerInv
  BY DEF AloneInv, DirectoryInv, AnswerInv
<1>4. FetchedInv
  <2>1. Cardinality({}) = 0
    BY FS_EmptySet
  <2> QED BY <2>1 DEF FetchedInv
<1>5. WindowInv
  <2>1. Covered(0)
    BY DEF Covered, Window
  <2> QED BY <2>1 DEF WindowInv
<1> QED BY <1>1, <1>2, <1>3, <1>4, <1>5 DEF Inv, CameraInv

(* Every step keeps the invariant. *)
LEMMA NextInv == Inv /\ [Next]_vars => Inv'
<1> SUFFICES ASSUME Inv, [Next]_vars PROVE Inv'
  OBVIOUS
<1>1. AuthInv' /\ CameraTypeOK'
  BY NextAuth, NextType DEF Inv
<1>2. CameraInv'
  <2> USE DEF Inv
  <2>1. CASE Snapshot
    BY <2>1, SnapshotCamera
  <2>2. ASSUME NEW q \in Requests, NEW have \in 0..shots, ReadDir(q, have) PROVE CameraInv'
    BY <2>2, ReadDirCamera
  <2>3. ASSUME NEW q \in Requests, Fetch(q) PROVE CameraInv'
    BY <2>3, FetchCamera
  <2>4. ASSUME NEW q \in Requests, FetchFails(q) \/ ReadFails(q) \/ WriteResponse(q) PROVE CameraInv'
    BY <2>4, EndCamera DEF FetchFails, ReadFails, WriteResponse, Answered
  <2>5. ASSUME NEW q \in Requests, WriteFails(q) PROVE CameraInv'
    BY <2>5, EndCamera DEF WriteFails
  <2>6. ASSUME NEW q \in Requests, WriteFile(q) PROVE CameraInv'
    BY <2>6, WriteFileCamera
  <2>7. ASSUME NEW q \in Requests, Written(q) PROVE CameraInv'
    BY <2>7, WrittenCamera
  <2>8. ASSUME NEW q \in Requests, RemoveFile(q) PROVE CameraInv'
    BY <2>8, RemoveFileCamera
  <2>9. ASSUME NEW q \in Requests, Removed(q) PROVE CameraInv'
    BY <2>9, RemovedCamera
  <2>10. ASSUME NEW q \in Requests, ReadFile(q) PROVE CameraInv'
    BY <2>10, ReadFileCamera
  <2>11. CASE DialUpstream \/ Client \/ UNCHANGED vars
    BY <2>11, OthersCamera DEF DialUpstream, Client, cameraVars, vars
  <2> QED BY <2>1, <2>2, <2>3, <2>4, <2>5, <2>6, <2>7, <2>8, <2>9, <2>10, <2>11 DEF Next
<1> QED BY <1>1, <1>2 DEF Inv

LEMMA SpecInv == Spec => []Inv
BY InitInv, NextInv, PTL DEF Spec

(* Types, and the lock of the client is only held by a caller that logs in. *)
THEOREM TypeCorrect == Spec => []TypeOK
<1>1. Inv => TypeOK
  BY TypeParts DEF Inv
<1> QED BY SpecInv, <1>1, PTL

(* A token that was refused is on its way out, for any number of callers   *)
(* that log in, are refused and fail.                                      *)
THEOREM RefusedTokensGo == Spec => []RefusedTokenGoes
<1>1. Inv => RefusedTokenGoes
  BY DEF Inv, AuthInv
<1> QED BY SpecInv, <1>1, PTL

(* A request that runs alone answers what the upstream would have answered, *)
(* whatever requests that overlapped have left in the directory.            *)
THEOREM AnswersAreComplete == Spec => []AnswerComplete
<1>1. Inv => AnswerComplete
  <2> SUFFICES ASSUME Inv, NEW q \in alone, at[q] = "read", todo[q] = {}, ~torn
               PROVE  reply[q] = due[q]
    BY DEF AnswerComplete, Answered
  <2>1. reply[q] \cup todo[q] = due[q]
    BY DEF Inv, CameraInv, AnswerInv
  <2> QED BY <2>1
<1> QED BY SpecInv, <1>1, PTL

(* A request that runs alone leaves no more than Count files. *)
THEOREM CacheStaysTrimmed == Spec => []CacheTrimmed
<1>1. Inv => CacheTrimmed
  BY DEF Inv, CameraInv, DirectoryInv, CacheTrimmed
<1> QED BY SpecInv, <1>1, PTL
=============================================================================
