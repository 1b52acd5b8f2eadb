---------------------------- MODULE SyncHubProofs ----------------------------
(***************************************************************************)
(* What SyncHub keeps for any number of stations, items, websockets,       *)
(* relays, edits and full channels.                                        *)
(***************************************************************************)
EXTENDS SyncHub, FiniteSetTheorems, TLAPS

(* While UpdatePermissions holds subscribersMu the websockets it has to    *)
(* come to stay tracked; what it has loaded is of one of them.             *)
RestrictInv ==
    /\ edit # "restrict" => todo = {}
    /\ todo \subseteq tracked
    /\ todo # {} => arg # Unrestricted
    /\ loaded # <<>> => loaded[1] \in todo \cap DataBrowsers

(* A websocket is tracked and subscribed only while its handler runs, and  *)
(* only in the broker of its kind.                                         *)
KindOf(b) == IF b \in GlobalBrowsers THEN "status" ELSE "data"

BrowserOK(b) ==
    /\ pc[b] \in {"off", "track", "subscribe", "read", "check", "untrack", "unsubscribe"}
    /\ b \in tracked => pc[b] \in {"subscribe", "read", "check", "untrack"}
    /\ pc[b] = "check" => b \in DataBrowsers
    /\ pc[b] = "subscribe" => b \in GlobalBrowsers
    /\ \A k \in Brokers : sub[k][b] # NoSub => pc[b] \notin {"off", "track"} /\ k = KindOf(b)

BrowserInv == \A b \in Browsers : BrowserOK(b)

(* The two subscribers of a relay, in either version: where its handler    *)
(* and its data round are, what is tracked and what is subscribed.         *)
Subscribed2 == {"track", "half", "up", "stop", "stopping", "stopped"}

RelayOK(r) ==
    /\ IF ver[r] = "v2" THEN round[r] = "off" /\ pc[r] \in {"off", "subscribe"} \cup Subscribed2
                        ELSE pc[r] \in {"track", "up", "stop", "closed"}
    /\ Config(r) \in tracked =>
          IF ver[r] = "v2" THEN pc[r] \in {"half", "up", "stop"} ELSE pc[r] \in {"up", "stop"}
    /\ Data(r) \in tracked =>
          IF ver[r] = "v2" THEN pc[r] \in {"up", "stop", "stopping"}
                           ELSE round[r] \in {"subscribe", "up", "untrack"}
    /\ \A k \in Brokers :
          /\ sub[k][Config(r)] # NoSub =>
                /\ k \in {"config", "status"}
                /\ IF ver[r] = "v2" THEN pc[r] \in Subscribed2 ELSE pc[r] = "up"
          /\ sub[k][Data(r)] # NoSub =>
                /\ k \in {"data", "missing"}
                /\ IF ver[r] = "v2" THEN pc[r] \in Subscribed2 ELSE round[r] = "up"

RelayInv == \A r \in Relays : RelayOK(r)

(* A relay has a list only after it was tracked, and none of an earlier    *)
(* connection; before the user is added there is no relay.                 *)
ListedOK(r) ==
    /\ list[r] # NoSub =>
          IF ver[r] = "v2" THEN pc[r] \in {"half", "up", "stop", "stopping", "stopped"}
                           ELSE pc[r] \in {"up", "stop"}
    /\ role = "none" => pc[r] = "off"

ListedInv == \A r \in Relays : ListedOK(r)

(* What a list has to have: of a disabled user, what the user may see when *)
(* the application is passed.                                              *)
Needed == IF role = "admin" THEN Unrestricted ELSE perms

(* A request tells the hub what is in the database; and a list lacks       *)
(* nothing of what was listed when there is no request on its way.         *)
ArgInv ==
    /\ edit # "idle" => role # "none"
    /\ edit \in {"update", "restrict"} /\ role \in {"disabled", "normal", "admin"} => arg = Needed

Quiet ==
    /\ edit = "idle"
    /\ role \in {"disabled", "normal", "admin"}

Complete(r) ==
    Config(r) \in tracked \ cancelled /\ list[r] # NoSub => Filter(listed, Needed) \subseteq list[r]

CompleteInv == Quiet => \A r \in Relays : Complete(r)

HandlerInv == RestrictInv /\ BrowserInv /\ RelayInv /\ IsFiniteSet(tracked)
ListInv == ListedInv /\ ArgInv /\ CompleteInv
Inv == TypeOK /\ HandlerInv /\ ListInv

-----------------------------------------------------------------------------
(* Names and brokers *)

(* The subscribers of a websocket, of a relay's configuration and of its   *)
(* data are different ones.                                                *)
LEMMA Names ==
    /\ \A b \in Browsers : b \in Subs /\ b \notin Relays /\ b \notin ConfigSubs /\ b \notin DataSubs
    /\ \A r \in Relays : /\ Config(r) \in Subs /\ Config(r) \in ConfigSubs
                         /\ Data(r) \in Subs /\ Data(r) \in DataSubs
                         /\ Config(r) \notin Browsers /\ Data(r) \notin Browsers
    /\ \A r, q \in Relays : /\ Config(r) # Data(q)
                            /\ Config(r) = Config(q) => r = q
                            /\ Data(r) = Data(q) => r = q
BY HubAssumption DEF Browsers, Subs, ConfigSubs, DataSubs, Config, Data

(* Subscribe changes one subscriber in some brokers. *)
LEMMA SubscribeEffect ==
    ASSUME sub \in [Brokers -> [Subs -> {NoSub} \cup Scopes]],
           NEW brokers, NEW s \in Subs, NEW topics \in {NoSub} \cup Scopes,
           Subscribe(brokers, s, topics)
    PROVE  /\ sub' \in [Brokers -> [Subs -> {NoSub} \cup Scopes]]
           /\ \A k \in Brokers, t \in Subs :
                 sub'[k][t] = IF k \in brokers /\ t = s THEN topics ELSE sub[k][t]
BY DEF Subscribe

(* Unsubscribe takes it out of them. *)
LEMMA UnsubscribeEffect ==
    ASSUME sub \in [Brokers -> [Subs -> {NoSub} \cup Scopes]],
           NEW brokers, NEW s \in Subs, Unsubscribe(brokers, s)
    PROVE  /\ sub' \in [Brokers -> [Subs -> {NoSub} \cup Scopes]]
           /\ \A k \in Brokers, t \in Subs :
                 sub'[k][t] = IF k \in brokers /\ t = s THEN NoSub ELSE sub[k][t]
BY DEF Unsubscribe, Subscribe

(* A list reaches every config connection that is not cancelled.           *)
LEMMA SendListEffect ==
    ASSUME TypeOK, IsFiniteSet(tracked), NEW items \in SUBSET Items, NEW also \in SUBSET Subs,
           SendList(items, also)
    PROVE  /\ overflows' \in 0..MaxOverflows
           /\ cancelled' \subseteq Subs /\ cancelled \subseteq cancelled'
           /\ list' \in [Relays -> {NoSub} \cup SUBSET Items]
           /\ \A r \in Relays : Config(r) \in tracked \ cancelled' => list'[r] = items
           /\ \A r \in Relays : Config(r) \notin tracked => list'[r] = list[r]
<1>1. PICK full \in Full(tracked \cap ConfigSubs) :
         /\ CountFull(full)
         /\ cancelled' = cancelled \cup full \cup also
         /\ list' = [r \in Relays |-> IF Config(r) \in tracked \ full THEN items ELSE list[r]]
  BY DEF SendList
<1>2. full \subseteq tracked /\ full \subseteq Subs
  BY <1>1 DEF Full, TypeOK
<1>3. Cardinality(full) \in Nat
  BY <1>2, FS_Subset, FS_CardinalityType
<1>4. overflows' \in 0..MaxOverflows
  BY <1>1, <1>3, HubAssumption DEF Full, CountFull, TypeOK
<1>5. list' \in [Relays -> {NoSub} \cup SUBSET Items]
  BY <1>1 DEF TypeOK
<1>6. cancelled' \subseteq Subs /\ cancelled \subseteq cancelled'
  BY <1>1, <1>2 DEF TypeOK
<1>7. \A r \in Relays : Config(r) \in tracked \ cancelled' => list'[r] = items
  BY <1>1
<1>8. \A r \in Relays : Config(r) \notin tracked => list'[r] = list[r]
  BY <1>1
<1> QED BY <1>4, <1>5, <1>6, <1>7, <1>8

-----------------------------------------------------------------------------
(* Types *)

LEMMA AdminType ==
    ASSUME TypeOK, AdminNext
    PROVE  TypeOK'
<1> USE HubAssumption DEF TypeOK, dbVars, editVars, otherVars, hubVars, wsVars, relayVars, boundVars,
                          Scopes, CountEdit
<1>1. ASSUME NEW newRole \in {"disabled", "normal", "admin"}, NEW newPassword \in BOOLEAN,
             EditUser(newRole, newPassword)
      PROVE  TypeOK'
  BY <1>1 DEF EditUser
<1>2. ASSUME NEW newRole \in {"disabled", "normal", "admin"}, AddUser(newRole) PROVE TypeOK'
  BY <1>2 DEF AddUser
<1>3. CASE PassApplication
  BY <1>3 DEF PassApplication
<1>4. ASSUME NEW items \in SUBSET Items, EditPermission(items) PROVE TypeOK'
  BY <1>4 DEF EditPermission
<1>5. CASE DelUser
  BY <1>5 DEF DelUser
<1> QED BY <1>1, <1>2, <1>3, <1>4, <1>5 DEF AdminNext

LEMMA HubType ==
    ASSUME TypeOK, HandlerInv, HubNext
    PROVE  TypeOK'
<1> USE HubAssumption DEF TypeOK, dbVars, editVars, otherVars, hubVars, wsVars, relayVars, boundVars
<1>1. CASE DisconnectUser
  BY <1>1 DEF DisconnectUser
<1>2. CASE UpdatePermissions
  BY <1>2 DEF UpdatePermissions
<1>3. ASSUME NEW b \in Browsers, RestrictLoad(b) PROVE TypeOK'
  <2>1. arg \in SUBSET Items
    BY <1>3 DEF RestrictLoad, HandlerInv, RestrictInv, Scopes
  <2>2. loaded' = <<>> \/ loaded' \in Browsers \X SUBSET Items
    BY <1>3, <2>1 DEF RestrictLoad
  <2> QED BY <1>3, <2>2 DEF RestrictLoad
<1>4. CASE RestrictStore
  <2>1. loaded[1] \in Subs /\ loaded[2] \in {NoSub} \cup Scopes
    BY <1>4, Names DEF RestrictStore, Scopes
  <2>2. sub' \in [Brokers -> [Subs -> {NoSub} \cup Scopes]]
    BY <1>4, <2>1, SubscribeEffect, UnsubscribeEffect DEF RestrictStore
  <2> QED BY <1>4, <2>2 DEF RestrictStore
<1>5. CASE UpdateConnections
  <2>1. Filter(avail, arg) \in SUBSET Items /\ tracked \cap DataSubs \in SUBSET Subs
    BY DEF Filter
  <2>2. /\ overflows' \in 0..MaxOverflows /\ cancelled' \subseteq Subs
        /\ list' \in [Relays -> {NoSub} \cup SUBSET Items]
    BY <1>5, <2>1, SendListEffect, ZenonT(30) DEF UpdateConnections, CancelConfig, HandlerInv
  <2>3. live' = live /\ edits' = edits
    BY <1>5 DEF UpdateConnections
  <2>4. listed' \subseteq Items
    BY <1>5 DEF UpdateConnections
  <2> QED BY <1>5, <2>2, <2>3, <2>4 DEF UpdateConnections, Scopes
<1>6. ASSUME NEW s \in Stations, BroadcastAddItems(s) PROVE TypeOK'
  BY <1>6 DEF BroadcastAddItems
<1>7. ASSUME NEW s \in Stations, BroadcastAvailableChange(s) PROVE TypeOK'
  <2>1. Filter(announce[s], CurrentScope) \in SUBSET Items
    BY DEF Filter
  <2>2. /\ overflows' \in 0..MaxOverflows /\ cancelled' \subseteq Subs
        /\ list' \in [Relays -> {NoSub} \cup SUBSET Items]
    BY <1>7, <2>1, SendListEffect DEF BroadcastAvailableChange, CancelConfig, HandlerInv
  <2>3. live' = live /\ edits' = edits
    BY <1>7 DEF BroadcastAvailableChange
  <2>4. listed' \subseteq Items
    BY <1>7 DEF BroadcastAvailableChange
  <2>5. adder' \in [Stations -> {"idle", "stored", "read"}] /\ announce' \in [Stations -> SUBSET Items]
    BY <1>7 DEF BroadcastAvailableChange
  <2> QED BY <1>7, <2>2, <2>3, <2>4, <2>5 DEF BroadcastAvailableChange
<1> QED BY <1>1, <1>2, <1>3, <1>4, <1>5, <1>6, <1>7 DEF HubNext

LEMMA EnvType ==
    ASSUME TypeOK, EnvNext
    PROVE  TypeOK'
<1> USE HubAssumption DEF TypeOK, dbVars, editVars, otherVars, hubVars, wsVars, relayVars, boundVars
<1>1. ASSUME NEW s \in Stations, NEW i \in Items, AddItem(s, i) \/ DelItem(s, i) PROVE TypeOK'
  BY <1>1 DEF AddItem, DelItem
<1>2. ASSUME NEW s \in Stations, SyncStationInfoReturns(s) PROVE TypeOK'
  BY <1>2 DEF SyncStationInfoReturns
<1>3. ASSUME NEW s \in Stations, NEW stored \in SUBSET Items, NEW body \in SUBSET Items,
             applyAvailableItems(s, stored, body)
      PROVE  TypeOK'
  BY <1>3 DEF applyAvailableItems
<1>4. ASSUME NEW k \in Brokers, NEW s \in Subs, PublishOverflow(k, s) PROVE TypeOK'
  <2>1. sub' \in [Brokers -> [Subs -> {NoSub} \cup Scopes]]
    BY <1>4, UnsubscribeEffect DEF PublishOverflow
  <2>2. Cardinality({s}) = 1
    BY FS_Singleton
  <2>3. overflows' \in 0..MaxOverflows
    BY <1>4, <2>2 DEF PublishOverflow, Full, CountFull
  <2> QED BY <1>4, <2>1, <2>3 DEF PublishOverflow
<1> QED BY <1>1, <1>2, <1>3, <1>4 DEF EnvNext

LEMMA BrowserType ==
    ASSUME TypeOK, NEW b \in Browsers, BrowserNext(b)
    PROVE  TypeOK'
<1> USE DEF TypeOK, dbVars, editVars, otherVars, hubVars, wsVars, relayVars, boundVars, Goto
<1>0. b \in Subs
  BY Names
<1>1. CASE OpenWebsocket(b)
  <2>1. wsAdmin' \in [Browsers -> BOOLEAN]
    BY <1>1 DEF OpenWebsocket
  <2> QED BY <1>1, <2>1 DEF OpenWebsocket
<1>2. CASE TrackWebsocket(b)
  BY <1>0, <1>2 DEF TrackWebsocket, TrackSubscriber
<1>3. ASSUME NEW items \in SUBSET Items, ReadTopics(b, items) PROVE TypeOK'
  <2>1. sub' \in [Brokers -> [Subs -> {NoSub} \cup Scopes]]
    BY <1>0, <1>3, UnsubscribeEffect DEF ReadTopics
  <2> QED BY <1>3, <2>1 DEF ReadTopics
<1>4. ASSUME NEW i \in Items, CheckPermission(b, i) PROVE TypeOK'
  BY <1>4 DEF CheckPermission
<1>5. CASE SubscribeWebsocket(b)
  <2>1. want[b] \in {NoSub} \cup Scopes /\ Unrestricted \in {NoSub} \cup Scopes
    BY DEF Scopes
  <2>2. sub' \in [Brokers -> [Subs -> {NoSub} \cup Scopes]]
    BY <1>0, <1>5, <2>1, SubscribeEffect DEF SubscribeWebsocket
  <2> QED BY <1>5, <2>2 DEF SubscribeWebsocket
<1>6. CASE CloseWebsocket(b)
  BY <1>6 DEF CloseWebsocket
<1>7. CASE UntrackWebsocket(b)
  BY <1>7 DEF UntrackWebsocket, UntrackSubscriber
<1>8. CASE UnsubscribeWebsocket(b)
  <2>1. sub' \in [Brokers -> [Subs -> {NoSub} \cup Scopes]]
    BY <1>0, <1>8, UnsubscribeEffect DEF UnsubscribeWebsocket
  <2>2. wsAdmin' \in [Browsers -> BOOLEAN]
    BY <1>8 DEF UnsubscribeWebsocket
  <2> QED BY <1>8, <2>1, <2>2 DEF UnsubscribeWebsocket
<1> QED BY <1>1, <1>2, <1>3, <1>4, <1>5, <1>6, <1>7, <1>8 DEF BrowserNext

(* The handlers of a relay change the brokers for its two subscribers. *)
LEMMA FramesEffect ==
    ASSUME TypeOK, NEW r \in Relays
    PROVE  /\ FramesSubscribe(r) =>
                /\ sub' \in [Brokers -> [Subs -> {NoSub} \cup Scopes]]
                /\ \A k \in Brokers, t \in Subs :
                      sub'[k][t] = IF k \in {"config", "status"} /\ t = Config(r) THEN Unrestricted
                                   ELSE IF k \in {"data", "missing"} /\ t = Data(r) THEN scope[r]
                                   ELSE sub[k][t]
           /\ FramesUnsubscribe(r) =>
                /\ sub' \in [Brokers -> [Subs -> {NoSub} \cup Scopes]]
                /\ \A k \in Brokers, t \in Subs :
                      sub'[k][t] = IF t \in {Config(r), Data(r)} THEN NoSub ELSE sub[k][t]
<1>1. scope[r] \in Scopes /\ Unrestricted \in Scopes /\ Config(r) # Data(r)
  BY Names DEF TypeOK, Scopes
<1>2. sub \in [Brokers -> [Subs -> {NoSub} \cup Scopes]]
  BY DEF TypeOK
<1>3. CASE FramesSubscribe(r)
  <2>1. sub' = [k \in Brokers |->
                 IF k \in {"config", "status"}
                 THEN [sub[k] EXCEPT ![Config(r)] = Unrestricted]
                 ELSE [sub[k] EXCEPT ![Data(r)] = scope[r]]]
    BY <1>3 DEF FramesSubscribe
  <2>2. \A k \in Brokers : sub[k] \in [Subs -> {NoSub} \cup Scopes]
    BY <1>2
  <2>3. Config(r) \in Subs /\ Data(r) \in Subs
    BY Names
  <2>4. sub' \in [Brokers -> [Subs -> {NoSub} \cup Scopes]]
    BY <1>1, <2>1, <2>2, <2>3
  <2>5. \A k \in Brokers, t \in Subs :
           sub'[k][t] = IF k \in {"config", "status"} /\ t = Config(r) THEN Unrestricted
                        ELSE IF k \in {"data", "missing"} /\ t = Data(r) THEN scope[r]
                        ELSE sub[k][t]
    BY <2>1, <2>2, <2>3 DEF Brokers
  <2> QED BY <1>3, <2>4, <2>5 DEF FramesSubscribe, FramesUnsubscribe
<1>4. CASE FramesUnsubscribe(r)
  <2>1. sub' = [k \in Brokers |-> [sub[k] EXCEPT ![Config(r)] = NoSub, ![Data(r)] = NoSub]]
    BY <1>4 DEF FramesUnsubscribe
  <2>2. \A k \in Brokers : sub[k] \in [Subs -> {NoSub} \cup Scopes]
    BY <1>2
  <2>3. Config(r) \in Subs /\ Data(r) \in Subs
    BY Names
  <2>4. sub' \in [Brokers -> [Subs -> {NoSub} \cup Scopes]]
    BY <1>1, <2>1, <2>2, <2>3
  <2>5. \A k \in Brokers, t \in Subs :
           sub'[k][t] = IF t \in {Config(r), Data(r)} THEN NoSub ELSE sub[k][t]
    BY <2>1, <2>2, <2>3
  <2> QED BY <1>4, <2>4, <2>5 DEF FramesSubscribe, FramesUnsubscribe
<1> QED BY <1>3, <1>4

LEMMA RelayType ==
    ASSUME TypeOK, NEW r \in Relays, RelayNext(r)
    PROVE  TypeOK'
<1> USE DEF TypeOK, dbVars, editVars, otherVars, hubVars, wsVars, relayVars, boundVars, Goto
<1>0. Config(r) \in Subs /\ Data(r) \in Subs /\ Unrestricted \in {NoSub} \cup Scopes /\ {} \in Scopes
  BY Names DEF Scopes
<1>1. CASE StreamRelay(r)
  BY <1>1 DEF StreamRelay, CurrentScope, Scopes
<1>2. CASE FramesSubscribe(r)
  <2>1. sub' \in [Brokers -> [Subs -> {NoSub} \cup Scopes]]
    BY <1>2, FramesEffect
  <2> QED BY <1>2, <2>1 DEF FramesSubscribe
<1>3. CASE FramesTrack(r)
  BY <1>0, <1>3, SMTT(30) DEF FramesTrack, TrackSubscriber
<1>4. CASE FramesStop(r)
  BY <1>0, <1>4 DEF FramesStop
<1>5. CASE FramesUntrack(r)
  BY <1>5, SMTT(30) DEF FramesUntrack, UntrackSubscriber
<1>6. CASE FramesUnsubscribe(r)
  <2>1. sub' \in [Brokers -> [Subs -> {NoSub} \cup Scopes]]
    BY <1>6, FramesEffect
  <2> QED BY <1>0, <1>6, <2>1 DEF FramesUnsubscribe
<1>7. CASE Sync(r)
  BY <1>7 DEF Sync
<1>8. CASE TrackSyncConfig(r)
  <2>1. sub' \in [Brokers -> [Subs -> {NoSub} \cup Scopes]]
    BY <1>0, <1>8, SubscribeEffect DEF TrackSyncConfig
  <2> QED BY <1>0, <1>8, <2>1 DEF TrackSyncConfig, TrackSubscriber
<1>9. CASE ReadScope(r)
  BY <1>9 DEF ReadScope, currentSyncDataScope, CurrentScope, Scopes
<1>10. CASE TrackSyncData(r)
  BY <1>0, <1>10 DEF TrackSyncData, TrackSubscriber
<1>11. CASE SubscribeSyncData(r)
  <2>1. scope[r] \in {NoSub} \cup Scopes
    OBVIOUS
  <2>2. sub' \in [Brokers -> [Subs -> {NoSub} \cup Scopes]]
    BY <1>0, <1>11, <2>1, SubscribeEffect DEF SubscribeSyncData
  <2> QED BY <1>11, <2>2 DEF SubscribeSyncData
<1>12. CASE syncDataServerReturns(r)
  <2>1. sub' \in [Brokers -> [Subs -> {NoSub} \cup Scopes]]
    BY <1>0, <1>12, UnsubscribeEffect DEF syncDataServerReturns
  <2> QED BY <1>12, <2>1 DEF syncDataServerReturns
<1>13. CASE UntrackSyncData(r)
  BY <1>0, <1>13 DEF UntrackSyncData, UntrackSubscriber
<1>14. CASE SyncReturns(r)
  <2>1. sub' \in [Brokers -> [Subs -> {NoSub} \cup Scopes]]
    BY <1>0, <1>14, UnsubscribeEffect DEF SyncReturns
  <2> QED BY <1>14, <2>1 DEF SyncReturns
<1>15. CASE UntrackSyncConfig(r)
  BY <1>15 DEF UntrackSyncConfig, UntrackSubscriber
<1>16. CASE SyncEnds(r)
  BY <1>16 DEF SyncEnds
<1> QED BY <1>1, <1>2, <1>3, <1>4, <1>5, <1>6, <1>7, <1>8, <1>9, <1>10, <1>11, <1>12, <1>13, <1>14,
           <1>15, <1>16 DEF RelayNext

-----------------------------------------------------------------------------
(* Handlers *)

(* What a websocket's invariant looks at. *)
LEMMA SameBrowser ==
    ASSUME NEW c \in Browsers, BrowserOK(c), pc'[c] = pc[c], c \in tracked' => c \in tracked,
           \A k \in Brokers : sub'[k][c] \in {sub[k][c], NoSub}
    PROVE  BrowserOK(c)'
BY DEF BrowserOK, KindOf

(* What a relay's invariant looks at. *)
LEMMA SameRelay ==
    ASSUME NEW q \in Relays, RelayOK(q), pc'[q] = pc[q], ver'[q] = ver[q], round'[q] = round[q],
           Config(q) \in tracked' => Config(q) \in tracked,
           Data(q) \in tracked' => Data(q) \in tracked,
           \A k \in Brokers : /\ sub'[k][Config(q)] \in {sub[k][Config(q)], NoSub}
                              /\ sub'[k][Data(q)] \in {sub[k][Data(q)], NoSub}
    PROVE  RelayOK(q)'
BY DEF RelayOK, Subscribed2, Config, Data

LEMMA AdminHandler ==
    ASSUME TypeOK, HandlerInv, AdminNext
    PROVE  HandlerInv'
<1> USE DEF AdminNext, EditUser, AddUser, PassApplication, EditPermission, DelUser,
            dbVars, editVars, otherVars, hubVars, wsVars, relayVars, boundVars
<1>1. /\ UNCHANGED <<tracked, sub, pc, ver, round, todo, loaded>>
      /\ edit' # edit => edit = "idle"
      /\ edit' # "restrict" \/ edit = "restrict"
  OBVIOUS
<1>2. todo # {} => arg' = arg
  BY DEF HandlerInv, RestrictInv
<1>3. RestrictInv'
  BY <1>1, <1>2 DEF HandlerInv, RestrictInv
<1>4. BrowserInv' /\ RelayInv' /\ IsFiniteSet(tracked)'
  BY <1>1 DEF HandlerInv, BrowserInv, BrowserOK, KindOf, RelayInv, RelayOK
<1> QED BY <1>3, <1>4 DEF HandlerInv

LEMMA HubHandler ==
    ASSUME TypeOK, HandlerInv, HubNext
    PROVE  HandlerInv'
<1> USE DEF dbVars, editVars, otherVars, hubVars, wsVars, relayVars, boundVars
<1>1. UNCHANGED <<tracked, pc, ver, round>>
  BY DEF HubNext, DisconnectUser, UpdatePermissions, RestrictLoad, RestrictStore, UpdateConnections,
         BroadcastAddItems, BroadcastAvailableChange
<1>2. ASSUME sub' = sub PROVE BrowserInv' /\ RelayInv' /\ IsFiniteSet(tracked)'
  BY <1>1, <1>2 DEF HandlerInv, BrowserInv, BrowserOK, KindOf, RelayInv, RelayOK
<1>3. CASE DisconnectUser
  <2>1. RestrictInv'
    BY <1>3 DEF DisconnectUser, HubFree, HandlerInv, RestrictInv
  <2> QED BY <1>2, <1>3, <2>1 DEF DisconnectUser, HandlerInv
<1>4. CASE UpdatePermissions
  <2>1. RestrictInv'
    BY <1>4 DEF UpdatePermissions, HandlerInv, RestrictInv
  <2> QED BY <1>2, <1>4, <2>1 DEF UpdatePermissions, HandlerInv
<1>5. ASSUME NEW b \in Browsers, RestrictLoad(b) PROVE HandlerInv'
  <2>1. sub["data"][b] # NoSub => b \in DataBrowsers
    BY DEF HandlerInv, BrowserInv, BrowserOK, KindOf, Browsers, Brokers
  <2>2. RestrictInv'
    BY <1>5, <2>1 DEF RestrictLoad, HandlerInv, RestrictInv
  <2> QED BY <1>2, <1>5, <2>2 DEF RestrictLoad, HandlerInv
<1>6. CASE RestrictStore
  <2> DEFINE b == loaded[1]
  <2>1. b \in Browsers /\ b \in tracked /\ b \in DataBrowsers /\ b \in Subs
    BY <1>6, Names DEF RestrictStore, HandlerInv, RestrictInv, TypeOK
  <2>3. sub \in [Brokers -> [Subs -> {NoSub} \cup Scopes]]
    BY DEF TypeOK
  <2>4. \A k \in Brokers, t \in Subs : sub'[k][t] # sub[k][t] => k = "data" /\ t = b
    <3>1. CASE Unsubscribe({"data"}, b)
      BY <2>1, <2>3, <3>1, UnsubscribeEffect
    <3>2. CASE Subscribe({"data"}, b, loaded[2])
      BY <2>1, <2>3, <3>2 DEF Subscribe
    <3> QED BY <1>6, <3>1, <3>2 DEF RestrictStore
  <2>5. RestrictInv'
    BY <1>6, <2>1 DEF RestrictStore, HandlerInv, RestrictInv
  <2>6. ASSUME NEW c \in Browsers PROVE BrowserOK(c)'
    <3>1. BrowserOK(c) /\ c \in Subs
      BY Names DEF HandlerInv, BrowserInv
    <3>2. CASE c # b
      BY <1>1, <2>4, <3>1, <3>2, SameBrowser
    <3>3. CASE c = b
      BY <1>1, <2>1, <2>4, <3>1, <3>3, HubAssumption DEF BrowserOK, KindOf
    <3> QED BY <3>2, <3>3
  <2>7. ASSUME NEW q \in Relays PROVE RelayOK(q)'
    BY <1>1, <2>1, <2>4, Names, SameRelay DEF HandlerInv, RelayInv
  <2> QED BY <1>1, <2>5, <2>6, <2>7 DEF HandlerInv, BrowserInv, RelayInv
<1>7. CASE UpdateConnections
  <2>1. RestrictInv'
    BY <1>7 DEF UpdateConnections, HandlerInv, RestrictInv
  <2> QED BY <1>2, <1>7, <2>1 DEF UpdateConnections, HandlerInv
<1>8. ASSUME NEW s \in Stations, BroadcastAddItems(s) \/ BroadcastAvailableChange(s) PROVE HandlerInv'
  <2>1. UNCHANGED <<sub, edit, arg, todo, loaded>>
    BY <1>8 DEF BroadcastAddItems, BroadcastAvailableChange
  <2>2. RestrictInv'
    BY <1>1, <2>1 DEF HandlerInv, RestrictInv
  <2> QED BY <1>2, <2>1, <2>2 DEF HandlerInv
<1> QED BY <1>3, <1>4, <1>5, <1>6, <1>7, <1>8 DEF HubNext

LEMMA EnvHandler ==
    ASSUME TypeOK, HandlerInv, EnvNext
    PROVE  HandlerInv'
<1> USE DEF dbVars, editVars, otherVars, hubVars, wsVars, relayVars, boundVars
<1>1. UNCHANGED <<tracked, pc, ver, round, edit, arg, todo, loaded>>
  BY DEF EnvNext, AddItem, DelItem, SyncStationInfoReturns, applyAvailableItems, PublishOverflow
<1>2. RestrictInv'
  BY <1>1 DEF HandlerInv, RestrictInv
<1>3. ASSUME NEW s \in Stations, NEW i \in Items, AddItem(s, i) \/ DelItem(s, i)
      PROVE  \A k \in Brokers, t \in Subs : sub'[k][t] \in {sub[k][t], NoSub}
  BY <1>3 DEF AddItem, DelItem
<1>4. ASSUME NEW k \in Brokers, NEW s \in Subs, PublishOverflow(k, s)
      PROVE  \A l \in Brokers, t \in Subs : sub'[l][t] \in {sub[l][t], NoSub}
  <2>1. sub \in [Brokers -> [Subs -> {NoSub} \cup Scopes]]
    BY DEF TypeOK
  <2> QED BY <1>4, <2>1, UnsubscribeEffect DEF PublishOverflow
<1>5. \A k \in Brokers, t \in Subs : sub'[k][t] \in {sub[k][t], NoSub}
  BY <1>3, <1>4 DEF EnvNext, SyncStationInfoReturns, applyAvailableItems
<1>6. BrowserInv'
  BY <1>1, <1>5, Names, SameBrowser DEF HandlerInv, BrowserInv
<1>7. RelayInv'
  BY <1>1, <1>5, Names, SameRelay DEF HandlerInv, RelayInv
<1> QED BY <1>1, <1>2, <1>6, <1>7 DEF HandlerInv

(* A websocket's step touches nothing of another websocket or of a relay. *)
LEMMA BrowserFrame ==
    ASSUME TypeOK, NEW b \in Browsers, BrowserNext(b)
    PROVE  /\ UNCHANGED <<ver, round>>
           /\ \A c \in (Browsers \cup Relays) \ {b} : pc'[c] = pc[c]
           /\ \A t \in Subs \ {b} : /\ t \in tracked' <=> t \in tracked
                                    /\ \A k \in Brokers : sub'[k][t] = sub[k][t]
           /\ tracked' \in {tracked, tracked \cup {b}, tracked \ {b}}
<1> USE DEF dbVars, editVars, otherVars, hubVars, wsVars, relayVars, boundVars, Goto,
            OpenWebsocket, TrackWebsocket, ReadTopics, CheckPermission, SubscribeWebsocket, CloseWebsocket,
            UntrackWebsocket, UnsubscribeWebsocket
<1>1. UNCHANGED <<ver, round>>
  BY DEF BrowserNext
<1>2. tracked' \in {tracked, tracked \cup {b}, tracked \ {b}}
  BY DEF BrowserNext, TrackSubscriber, UntrackSubscriber
<1>3. \A c \in (Browsers \cup Relays) \ {b} : pc'[c] = pc[c]
  BY DEF BrowserNext, TypeOK
<1>4. \A t \in Subs \ {b} : \A k \in Brokers : sub'[k][t] = sub[k][t]
  <2>1. \/ UNCHANGED sub
        \/ \E brokers, topics : Subscribe(brokers, b, topics)
    BY DEF BrowserNext, Unsubscribe
  <2>2. sub \in [Brokers -> [Subs -> {NoSub} \cup Scopes]]
    BY DEF TypeOK
  <2> QED BY <2>1, <2>2 DEF Subscribe
<1> QED BY <1>1, <1>2, <1>3, <1>4

LEMMA BrowserHandler ==
    ASSUME TypeOK, HandlerInv, NEW b \in Browsers, BrowserNext(b)
    PROVE  HandlerInv'
<1> USE DEF dbVars, editVars, otherVars, hubVars, wsVars, relayVars, boundVars, Goto
<1>1. ASSUME NEW c \in Browsers, c # b PROVE BrowserOK(c)'
  BY <1>1, Names, BrowserFrame, SameBrowser DEF HandlerInv, BrowserInv
<1>2. ASSUME NEW q \in Relays PROVE RelayOK(q)'
  BY Names, BrowserFrame, SameRelay DEF HandlerInv, RelayInv
<1>3. IsFiniteSet(tracked)'
  BY BrowserFrame, FS_AddElement, FS_RemoveElement DEF HandlerInv
<1>4. RestrictInv'
  <2>1. UNCHANGED <<edit, arg, todo, loaded>>
    BY DEF BrowserNext, OpenWebsocket, TrackWebsocket, ReadTopics, CheckPermission, SubscribeWebsocket,
           CloseWebsocket, UntrackWebsocket, UnsubscribeWebsocket
  <2>2. tracked \subseteq tracked' \/ edit # "restrict"
    BY DEF BrowserNext, OpenWebsocket, TrackWebsocket, ReadTopics, CheckPermission, SubscribeWebsocket,
           CloseWebsocket, UntrackWebsocket, UnsubscribeWebsocket, TrackSubscriber, UntrackSubscriber,
           HubFree
  <2> QED BY <2>1, <2>2 DEF HandlerInv, RestrictInv
<1>5. BrowserOK(b)'
  <2>0. BrowserOK(b) /\ b \in Subs /\ pc = [c \in Browsers \cup Relays |-> pc[c]]
    BY Names DEF HandlerInv, BrowserInv, TypeOK
  <2>1. sub \in [Brokers -> [Subs -> {NoSub} \cup Scopes]]
    BY DEF TypeOK
  <2>3. CASE OpenWebsocket(b)
    BY <2>0, <2>3 DEF OpenWebsocket, BrowserOK, KindOf
  <2>4. CASE TrackWebsocket(b)
    BY <2>0, <2>4 DEF TrackWebsocket, TrackSubscriber, BrowserOK, KindOf, Browsers
  <2>5. ASSUME NEW items \in SUBSET Items, ReadTopics(b, items) PROVE BrowserOK(b)'
    <3>1. \A k \in Brokers : sub'[k][b] \in {sub[k][b], NoSub}
      BY <2>0, <2>1, <2>5, UnsubscribeEffect DEF ReadTopics
    <3> QED BY <2>0, <2>5, <3>1 DEF ReadTopics, BrowserOK, KindOf
  <2>6. ASSUME NEW i \in Items, CheckPermission(b, i) PROVE BrowserOK(b)'
    BY <2>0, <2>6 DEF CheckPermission, BrowserOK, KindOf
  <2>7. CASE SubscribeWebsocket(b)
    <3>1. \A k \in Brokers : sub'[k][b] # sub[k][b] => k = KindOf(b)
      <4>1. CASE pc[b] = "check" /\ Subscribe({"data"}, b, want[b])
        BY <2>0, <2>1, <4>1, HubAssumption DEF Subscribe, BrowserOK, KindOf
      <4>2. CASE pc[b] = "subscribe" /\ Subscribe({"status"}, b, Unrestricted)
        BY <2>0, <2>1, <4>2 DEF Subscribe, BrowserOK, KindOf
      <4> QED BY <2>7, <4>1, <4>2 DEF SubscribeWebsocket
    <3> QED BY <2>0, <2>7, <3>1 DEF SubscribeWebsocket, BrowserOK, KindOf
  <2>8. CASE CloseWebsocket(b)
    BY <2>0, <2>8 DEF CloseWebsocket, BrowserOK, KindOf
  <2>9. CASE UntrackWebsocket(b)
    BY <2>0, <2>9 DEF UntrackWebsocket, UntrackSubscriber, BrowserOK, KindOf
  <2>10. CASE UnsubscribeWebsocket(b)
    <3>1. \A k \in Brokers : k = KindOf(b) => sub'[k][b] = NoSub
      BY <2>0, <2>1, <2>10 DEF UnsubscribeWebsocket, Unsubscribe, Subscribe, KindOf
    <3>2. \A k \in Brokers : k # KindOf(b) => sub'[k][b] = sub[k][b]
      BY <2>0, <2>1, <2>10 DEF UnsubscribeWebsocket, Unsubscribe, Subscribe, KindOf
    <3> QED BY <2>0, <2>10, <3>1, <3>2 DEF UnsubscribeWebsocket, BrowserOK, KindOf
  <2> QED BY <2>3, <2>4, <2>5, <2>6, <2>7, <2>8, <2>9, <2>10 DEF BrowserNext
<1> QED BY <1>1, <1>2, <1>3, <1>4, <1>5 DEF HandlerInv, BrowserInv, RelayInv

(* A relay's step touches nothing of a websocket or of another relay. *)
LEMMA RelayFrame ==
    ASSUME TypeOK, NEW r \in Relays, RelayNext(r)
    PROVE  /\ \A c \in (Browsers \cup Relays) \ {r} : pc'[c] = pc[c]
           /\ \A q \in Relays \ {r} : ver'[q] = ver[q] /\ round'[q] = round[q] /\ list'[q] = list[q]
           /\ \A t \in Subs \ {Config(r), Data(r)} :
                 /\ t \in tracked' <=> t \in tracked
                 /\ \A k \in Brokers : sub'[k][t] = sub[k][t]
           /\ \E t \in {Config(r), Data(r)} : tracked' \in {tracked, tracked \cup {t}, tracked \ {t}}
           /\ tracked \subseteq tracked' \/ HubFree
           /\ UNCHANGED <<dbVars, editVars, otherVars>>
<1> USE DEF dbVars, editVars, otherVars, hubVars, wsVars, relayVars, boundVars, Goto, RelayNext,
            StreamRelay, FramesSubscribe, FramesTrack, FramesStop, FramesUntrack, FramesUnsubscribe,
            Sync, TrackSyncConfig, ReadScope, TrackSyncData, SubscribeSyncData, syncDataServerReturns,
            UntrackSyncData, SyncReturns, UntrackSyncConfig, SyncEnds
<1>1. \A c \in (Browsers \cup Relays) \ {r} : pc'[c] = pc[c]
  BY DEF TypeOK
<1>2. \A q \in Relays \ {r} : ver'[q] = ver[q] /\ round'[q] = round[q] /\ list'[q] = list[q]
  BY DEF TypeOK
<1>3. /\ \E t \in {Config(r), Data(r)} : tracked' \in {tracked, tracked \cup {t}, tracked \ {t}}
      /\ tracked \subseteq tracked' \/ HubFree
  BY DEF TrackSubscriber, UntrackSubscriber
<1>4. UNCHANGED <<dbVars, editVars, otherVars>>
  OBVIOUS
<1>5. \A t \in Subs \ {Config(r), Data(r)} : \A k \in Brokers : sub'[k][t] = sub[k][t]
  <2>1. \/ UNCHANGED sub
        \/ \E brokers, topics : Subscribe(brokers, Config(r), topics) \/ Subscribe(brokers, Data(r), topics)
        \/ FramesSubscribe(r) \/ FramesUnsubscribe(r)
    BY DEF Unsubscribe
  <2>2. sub \in [Brokers -> [Subs -> {NoSub} \cup Scopes]]
    BY DEF TypeOK
  <2>3. CASE \E brokers, topics : Subscribe(brokers, Config(r), topics) \/ Subscribe(brokers, Data(r), topics)
    BY <2>2, <2>3 DEF Subscribe
  <2> QED BY <2>1, <2>3, FramesEffect
<1> QED BY <1>1, <1>2, <1>3, <1>4, <1>5

LEMMA RelayHandler ==
    ASSUME TypeOK, HandlerInv, NEW r \in Relays, RelayNext(r)
    PROVE  HandlerInv'
<1> USE DEF dbVars, editVars, otherVars, hubVars, wsVars, relayVars, boundVars, Goto
<1>1. ASSUME NEW c \in Browsers PROVE BrowserOK(c)'
  BY <1>1, Names, RelayFrame, SameBrowser DEF HandlerInv, BrowserInv
<1>2. ASSUME NEW q \in Relays, q # r PROVE RelayOK(q)'
  BY <1>2, Names, RelayFrame, SameRelay DEF HandlerInv, RelayInv
<1>3. IsFiniteSet(tracked)'
  BY RelayFrame, FS_AddElement, FS_RemoveElement DEF HandlerInv
<1>4. RestrictInv'
  BY RelayFrame DEF HandlerInv, RestrictInv, HubFree
<1>5. RelayOK(r)'
  <2>0. RelayOK(r) /\ Config(r) \in Subs /\ Data(r) \in Subs /\ Config(r) # Data(r)
    BY Names DEF HandlerInv, RelayInv
  <2>1. /\ pc = [c \in Browsers \cup Relays |-> pc[c]]
        /\ ver = [q \in Relays |-> ver[q]] /\ round = [q \in Relays |-> round[q]]
        /\ ver[r] \in {"v1", "v2"}
    BY DEF TypeOK
  <2>2. sub \in [Brokers -> [Subs -> {NoSub} \cup Scopes]]
    BY DEF TypeOK
  <2> USE DEF Subscribed2
  <2>3. CASE StreamRelay(r)
    BY <2>0, <2>1, <2>3 DEF StreamRelay, RelayOK
  <2>4. CASE FramesSubscribe(r)
    <3>1. \A k \in Brokers : /\ sub'[k][Config(r)] # sub[k][Config(r)] => k \in {"config", "status"}
                             /\ sub'[k][Data(r)] # sub[k][Data(r)] => k \in {"data", "missing"}
      BY <2>0, <2>4, FramesEffect
    <3> QED BY <2>0, <2>1, <2>4, <3>1 DEF FramesSubscribe, RelayOK
  <2>5. CASE FramesTrack(r)
    BY <2>0, <2>1, <2>5 DEF FramesTrack, TrackSubscriber, RelayOK
  <2>6. CASE FramesStop(r)
    BY <2>0, <2>1, <2>6 DEF FramesStop, RelayOK
  <2>7. CASE FramesUntrack(r)
    BY <2>0, <2>1, <2>7 DEF FramesUntrack, UntrackSubscriber, RelayOK
  <2>8. CASE FramesUnsubscribe(r)
    <3>1. \A k \in Brokers : sub'[k][Config(r)] = NoSub /\ sub'[k][Data(r)] = NoSub
      BY <2>0, <2>8, FramesEffect
    <3> QED BY <2>0, <2>1, <2>8, <3>1 DEF FramesUnsubscribe, RelayOK
  <2>9. CASE Sync(r)
    BY <2>0, <2>1, <2>9 DEF Sync, RelayOK
  <2>10. CASE TrackSyncConfig(r)
    <3>1. \A k \in Brokers : /\ sub'[k][Config(r)] # sub[k][Config(r)] => k \in {"config", "status"}
                             /\ sub'[k][Data(r)] = sub[k][Data(r)]
      BY <2>0, <2>2, <2>10 DEF TrackSyncConfig, Subscribe
    <3> QED BY <2>0, <2>1, <2>10, <3>1 DEF TrackSyncConfig, TrackSubscriber, RelayOK
  <2>11. CASE ReadScope(r)
    BY <2>0, <2>1, <2>11 DEF ReadScope, RelayOK
  <2>12. CASE TrackSyncData(r)
    BY <2>0, <2>1, <2>12 DEF TrackSyncData, TrackSubscriber, RelayOK
  <2>13. CASE SubscribeSyncData(r)
    <3>1. \A k \in Brokers : /\ sub'[k][Data(r)] # sub[k][Data(r)] => k \in {"data", "missing"}
                             /\ sub'[k][Config(r)] = sub[k][Config(r)]
      BY <2>0, <2>2, <2>13 DEF SubscribeSyncData, Subscribe
    <3> QED BY <2>0, <2>1, <2>13, <3>1 DEF SubscribeSyncData, RelayOK
  <2>14. CASE syncDataServerReturns(r)
    <3>1. \A k \in Brokers : /\ sub'[k][Data(r)] = IF k \in {"data", "missing"} THEN NoSub ELSE sub[k][Data(r)]
                             /\ sub'[k][Config(r)] = sub[k][Config(r)]
      BY <2>0, <2>2, <2>14 DEF syncDataServerReturns, Unsubscribe, Subscribe
    <3> QED BY <2>0, <2>1, <2>14, <3>1 DEF syncDataServerReturns, RelayOK
  <2>15. CASE UntrackSyncData(r)
    BY <2>0, <2>1, <2>15 DEF UntrackSyncData, UntrackSubscriber, RelayOK
  <2>16. CASE SyncReturns(r)
    <3>1. \A k \in Brokers : /\ sub'[k][Config(r)] = IF k \in {"config", "status"} THEN NoSub ELSE sub[k][Config(r)]
                             /\ sub'[k][Data(r)] = sub[k][Data(r)]
      BY <2>0, <2>2, <2>16 DEF SyncReturns, Unsubscribe, Subscribe
    <3> QED BY <2>0, <2>1, <2>16, <3>1 DEF SyncReturns, RelayOK
  <2>17. CASE UntrackSyncConfig(r)
    BY <2>0, <2>1, <2>17 DEF UntrackSyncConfig, UntrackSubscriber, RelayOK
  <2>18. CASE SyncEnds(r)
    BY <2>0, <2>1, <2>18 DEF SyncEnds, RelayOK
  <2> QED BY <2>3, <2>4, <2>5, <2>6, <2>7, <2>8, <2>9, <2>10, <2>11, <2>12, <2>13, <2>14, <2>15, <2>16,
             <2>17, <2>18 DEF RelayNext
<1> QED BY <1>1, <1>2, <1>3, <1>4, <1>5 DEF HandlerInv, BrowserInv, RelayInv

-----------------------------------------------------------------------------
(* Lists *)

LEMMA AdminList ==
    ASSUME Inv, AdminNext
    PROVE  ListInv'
<1> USE DEF dbVars, editVars, otherVars, hubVars, wsVars, relayVars, boundVars
<1>1. UNCHANGED <<avail, listed, tracked, cancelled, list, pc, ver>>
  BY DEF AdminNext, EditUser, AddUser, PassApplication, EditPermission, DelUser
<1>2. role' # "none"
  BY DEF AdminNext, EditUser, AddUser, PassApplication, EditPermission, DelUser
<1>3. ListedInv'
  BY <1>1, <1>2 DEF Inv, ListInv, ListedInv, ListedOK
<1>4. ArgInv'
  BY DEF AdminNext, EditUser, AddUser, PassApplication, EditPermission, DelUser, Inv, ListInv, ArgInv,
         Needed, UserExists
<1>5. ASSUME Quiet', NEW r \in Relays PROVE Complete(r)'
  <2>1. Filter(listed, perms) \subseteq listed /\ Filter(listed, Unrestricted) = listed
    BY DEF Filter
  <2>2. CASE role = "none"
    <3>1. pc[r] = "off" /\ RelayOK(r)
      BY <2>2 DEF Inv, ListInv, ListedInv, ListedOK, HandlerInv, RelayInv
    <3>2. Config(r) \notin tracked
      BY <3>1 DEF RelayOK
    <3> QED BY <1>1, <3>2 DEF Complete, Config
  <2>3. CASE role # "none"
    <3>1. /\ edit = "idle" /\ UNCHANGED perms
          /\ role' = role \/ role' = "normal"
          /\ role \in {"disabled", "normal", "admin"}
      BY <1>5, <2>3 DEF AdminNext, EditUser, AddUser, PassApplication, EditPermission, DelUser, Quiet,
                        UserExists, Inv, TypeOK
    <3>2. Complete(r)
      BY <1>1, <1>5, <3>1 DEF Inv, ListInv, CompleteInv, Quiet
    <3>3. Filter(listed, Needed)' \subseteq Filter(listed, Needed)
      BY <1>1, <2>1, <3>1 DEF Needed
    <3> QED BY <1>1, <3>2, <3>3 DEF Complete, Config
  <2> QED BY <2>2, <2>3
<1> QED BY <1>3, <1>4, <1>5 DEF ListInv, CompleteInv

LEMMA HubList ==
    ASSUME Inv, HubNext
    PROVE  ListInv'
<1> USE DEF dbVars, editVars, otherVars, hubVars, wsVars, relayVars, boundVars
<1>0. TypeOK /\ IsFiniteSet(tracked)
  BY DEF Inv, HandlerInv
<1>1. UNCHANGED <<dbVars, tracked, pc, ver>>
  BY DEF HubNext, DisconnectUser, UpdatePermissions, RestrictLoad, RestrictStore, UpdateConnections,
         BroadcastAddItems, BroadcastAvailableChange
<1>2. ASSUME UNCHANGED list PROVE ListedInv'
  BY <1>1, <1>2 DEF Inv, ListInv, ListedInv, ListedOK
<1>3. ASSUME NEW items \in SUBSET Items, NEW also \in SUBSET Subs, SendList(items, also)
      PROVE  /\ ListedInv'
             /\ \A r \in Relays : Config(r) \in (tracked \ cancelled)' => list'[r] = items
  <2>1. \A r \in Relays : /\ Config(r) \in tracked \ cancelled' => list'[r] = items
                          /\ Config(r) \notin tracked => list'[r] = list[r]
    BY <1>0, <1>3, SendListEffect
  <2>2. ASSUME NEW r \in Relays PROVE ListedOK(r)'
    <3>1. ListedOK(r) /\ RelayOK(r)
      BY DEF Inv, ListInv, ListedInv, HandlerInv, RelayInv
    <3>2. CASE Config(r) \notin tracked
      BY <1>1, <2>1, <3>1, <3>2 DEF ListedOK
    <3>3. CASE Config(r) \in tracked
      BY <1>1, <3>1, <3>3 DEF ListedOK, RelayOK
    <3> QED BY <3>2, <3>3
  <2> QED BY <1>1, <2>1, <2>2 DEF ListedInv
<1>4. ASSUME NEW also, CancelConfig(also)
      PROVE  ListedInv' /\ \A r \in Relays : Config(r) \notin (tracked \ cancelled)'
  BY <1>1, <1>2, <1>4, Names DEF CancelConfig
<1>5. CASE DisconnectUser
  <2>1. ArgInv'
    BY <1>5 DEF DisconnectUser, Inv, ListInv, ArgInv, Needed
  <2>2. \A r \in Relays : Config(r) \notin (tracked \ cancelled)'
    BY <1>5 DEF DisconnectUser
  <2> QED BY <1>2, <1>5, <2>1, <2>2 DEF DisconnectUser, ListInv, CompleteInv, Complete, Config
<1>6. CASE UpdatePermissions \/ (\E b \in Browsers : RestrictLoad(b)) \/ RestrictStore
  <2>1. ArgInv'
    BY <1>6 DEF UpdatePermissions, RestrictLoad, RestrictStore, Inv, ListInv, ArgInv, Needed
  <2>2. edit' # "idle"
    BY <1>6 DEF UpdatePermissions, RestrictLoad, RestrictStore, Inv, HandlerInv, RestrictInv
  <2>3. UNCHANGED list
    BY <1>6 DEF UpdatePermissions, RestrictLoad, RestrictStore
  <2> QED BY <1>2, <2>1, <2>2, <2>3 DEF ListInv, CompleteInv, Quiet
<1>7. CASE UpdateConnections
  <2>1. ArgInv'
    BY <1>7 DEF UpdateConnections, ArgInv
  <2>2. CASE SendList(Filter(avail, arg), tracked \cap DataSubs) /\ listed' = avail
    <3>1. Filter(avail, arg) \in SUBSET Items /\ tracked \cap DataSubs \in SUBSET Subs
      BY <1>0 DEF Filter, TypeOK
    <3>2. Quiet' => arg = Needed
      BY <1>1, <1>7 DEF UpdateConnections, Quiet, Inv, ListInv, ArgInv
    <3>3. Filter(listed, Needed)' = Filter(avail, Needed)
      BY <1>1, <2>2 DEF Filter, Needed
    <3>4. CompleteInv'
      BY <1>3, <2>2, <3>1, <3>2, <3>3 DEF CompleteInv, Complete, Config
    <3> QED BY <1>3, <2>1, <2>2, <3>1, <3>4 DEF ListInv
  <2>3. CASE CancelConfig(tracked \cap DataSubs)
    BY <1>4, <2>1, <2>3 DEF ListInv, CompleteInv, Complete, Config
  <2> QED BY <1>7, <2>2, <2>3 DEF UpdateConnections
<1>8. ASSUME NEW s \in Stations, BroadcastAddItems(s) PROVE ListInv'
  <2>1. ArgInv'
    BY <1>8 DEF BroadcastAddItems, Inv, ListInv, ArgInv, Needed
  <2>2. Quiet' => Quiet
    BY <1>1, <1>8 DEF BroadcastAddItems, Quiet
  <2>3. Filter(listed, Needed)' = Filter(listed, Needed)
    BY <1>1, <1>8 DEF BroadcastAddItems, Filter, Needed
  <2>4. CompleteInv'
    BY <1>1, <1>8, <2>2, <2>3 DEF BroadcastAddItems, Inv, ListInv, CompleteInv, Complete, Config
  <2> QED BY <1>2, <1>8, <2>1, <2>4 DEF BroadcastAddItems, ListInv
<1>9. ASSUME NEW s \in Stations, BroadcastAvailableChange(s) PROVE ListInv'
  <2>1. ArgInv'
    BY <1>9 DEF BroadcastAvailableChange, Inv, ListInv, ArgInv, Needed
  <2>2. CASE /\ UserExists
             /\ SendList(Filter(announce[s], CurrentScope), {})
             /\ listed' = announce[s]
    <3>1. Filter(announce[s], CurrentScope) \in SUBSET Items /\ {} \in SUBSET Subs
      BY <1>0 DEF Filter, TypeOK
    <3>2. Quiet' => Filter(listed, Needed)' \subseteq Filter(announce[s], CurrentScope)
      BY <1>1, <2>2 DEF Quiet, Filter, Needed, CurrentScope
    <3>3. CompleteInv'
      BY <1>3, <2>2, <3>1, <3>2 DEF CompleteInv, Complete, Config
    <3> QED BY <1>3, <2>1, <2>2, <3>1, <3>3 DEF ListInv
  <2>3. CASE CancelConfig({})
    BY <1>4, <2>1, <2>3 DEF ListInv, CompleteInv, Complete, Config
  <2> QED BY <1>9, <2>2, <2>3 DEF BroadcastAvailableChange
<1> QED BY <1>5, <1>6, <1>7, <1>8, <1>9 DEF HubNext

LEMMA EnvList ==
    ASSUME Inv, EnvNext
    PROVE  ListInv'
<1> USE DEF dbVars, editVars, otherVars, hubVars, wsVars, relayVars, boundVars
<1>1. UNCHANGED <<role, perms, edit, arg, listed, tracked, list, pc, ver>> /\ cancelled \subseteq cancelled'
  BY DEF EnvNext, AddItem, DelItem, SyncStationInfoReturns, applyAvailableItems, PublishOverflow
<1>2. ListedInv' /\ ArgInv' /\ (Quiet' => Quiet)
  BY <1>1 DEF Inv, ListInv, ListedInv, ListedOK, ArgInv, Needed, Quiet
<1>3. Filter(listed, Needed)' = Filter(listed, Needed)
  BY <1>1 DEF Filter, Needed
<1>4. CompleteInv'
  BY <1>1, <1>2, <1>3 DEF Inv, ListInv, CompleteInv, Complete, Config
<1> QED BY <1>2, <1>4 DEF ListInv

LEMMA BrowserList ==
    ASSUME Inv, NEW b \in Browsers, BrowserNext(b)
    PROVE  ListInv'
<1> USE DEF dbVars, editVars, otherVars, hubVars, wsVars, relayVars, boundVars
<1>1. UNCHANGED <<dbVars, editVars, otherVars, list, ver>> /\ cancelled \ {b} \subseteq cancelled'
  BY DEF BrowserNext, OpenWebsocket, TrackWebsocket, ReadTopics, CheckPermission, SubscribeWebsocket,
         CloseWebsocket, UntrackWebsocket, UnsubscribeWebsocket
<1>2. \A r \in Relays : pc'[r] = pc[r] /\ (Config(r) \in tracked' <=> Config(r) \in tracked) /\ Config(r) # b
  BY Names, BrowserFrame DEF Inv
<1>3. ListedInv'
  BY <1>1, <1>2 DEF Inv, ListInv, ListedInv, ListedOK
<1>4. ArgInv' /\ (Quiet' => Quiet)
  BY <1>1 DEF Inv, ListInv, ArgInv, Needed, Quiet
<1>5. Filter(listed, Needed)' = Filter(listed, Needed)
  BY <1>1 DEF Filter, Needed
<1>6. CompleteInv'
  BY <1>1, <1>2, <1>4, <1>5 DEF Inv, ListInv, CompleteInv, Complete, Config
<1> QED BY <1>3, <1>4, <1>6 DEF ListInv

LEMMA RelayList ==
    ASSUME Inv, NEW r \in Relays, RelayNext(r)
    PROVE  ListInv'
<1> USE DEF dbVars, editVars, otherVars, hubVars, wsVars, relayVars, boundVars
<1>0. TypeOK /\ RelayOK(r) /\ ListedOK(r)
  BY DEF Inv, HandlerInv, RelayInv, ListInv, ListedInv
<1>1. UNCHANGED <<dbVars, editVars, otherVars>>
  BY <1>0, RelayFrame
<1>2. /\ \A q \in Relays \ {r} : list'[q] = list[q] /\ pc'[q] = pc[q] /\ ver'[q] = ver[q]
      /\ \A q \in Relays \ {r} : Config(q) \in tracked' <=> Config(q) \in tracked
  BY <1>0, Names, RelayFrame
<1>3. cancelled \ {Config(r), Data(r)} \subseteq cancelled'
  BY DEF RelayNext, StreamRelay, FramesSubscribe, FramesTrack, FramesStop, FramesUntrack, FramesUnsubscribe,
         Sync, TrackSyncConfig, ReadScope, TrackSyncData, SubscribeSyncData, syncDataServerReturns,
         UntrackSyncData, SyncReturns, UntrackSyncConfig, SyncEnds
<1>4. ArgInv' /\ (Quiet' => Quiet)
  BY <1>1 DEF Inv, ListInv, ArgInv, Needed, Quiet
<1>5. Filter(listed, Needed)' = Filter(listed, Needed)
  BY <1>1 DEF Filter, Needed
<1>6. ListedOK(r)'
  BY <1>0, <1>1 DEF RelayNext, StreamRelay, FramesSubscribe, FramesTrack, FramesStop, FramesUntrack,
         FramesUnsubscribe, Sync, TrackSyncConfig, ReadScope, TrackSyncData, SubscribeSyncData,
         syncDataServerReturns, UntrackSyncData, SyncReturns, UntrackSyncConfig, SyncEnds,
         Goto, UserExists, ListedOK, RelayOK, Subscribed2, TypeOK
<1>7. list'[r] = NoSub
      \/ (list'[r] = list[r] /\ (Config(r) \in (tracked \ cancelled)' => Config(r) \in tracked \ cancelled))
  <2>1. CASE FramesTrack(r)
    BY <1>0, <2>1 DEF FramesTrack, TrackSubscriber, ListedOK, RelayOK, Config, Data
  <2>2. CASE TrackSyncConfig(r)
    BY <1>0, <2>2 DEF TrackSyncConfig, ListedOK
  <2>3. CASE FramesUnsubscribe(r) \/ UntrackSyncConfig(r)
    BY <1>0, <2>3 DEF FramesUnsubscribe, UntrackSyncConfig, TypeOK
  <2>4. CASE FramesStop(r) \/ FramesUntrack(r)
    BY <2>4 DEF FramesStop, FramesUntrack, UntrackSubscriber, Config
  <2>5. CASE TrackSyncData(r) \/ UntrackSyncData(r)
    BY <2>5 DEF TrackSyncData, TrackSubscriber, UntrackSyncData, UntrackSubscriber, Config, Data
  <2>6. CASE UNCHANGED <<tracked, cancelled, list>>
    BY <2>6 DEF Config
  <2> QED BY <2>1, <2>2, <2>3, <2>4, <2>5, <2>6 DEF RelayNext, StreamRelay, FramesSubscribe, Sync,
             ReadScope, SubscribeSyncData, syncDataServerReturns, SyncReturns, SyncEnds
<1>8. ASSUME Quiet', NEW q \in Relays PROVE Complete(q)'
  <2>1. Complete(q)
    BY <1>4, <1>8 DEF Inv, ListInv, CompleteInv
  <2>2. CASE q = r
    BY <1>5, <1>7, <2>1, <2>2 DEF Complete, Config
  <2>3. CASE q # r
    <3>1. Config(q) \notin {Config(r), Data(r)}
      BY <2>3, Names
    <3> QED BY <1>2, <1>3, <1>5, <2>1, <2>3, <3>1 DEF Complete, Config
  <2> QED BY <2>2, <2>3
<1>9. ListedInv'
  BY <1>1, <1>2, <1>6 DEF Inv, ListInv, ListedInv, ListedOK
<1> QED BY <1>4, <1>8, <1>9 DEF ListInv, CompleteInv

-----------------------------------------------------------------------------
(* The invariant *)

LEMMA InitInv == Init => Inv
<1> SUFFICES ASSUME Init PROVE Inv
  OBVIOUS
<1>1. TypeOK
  <2>1. sub \in [Brokers -> [Subs -> {NoSub} \cup Scopes]]
    BY DEF Init
  <2>2. wsAdmin \in [Browsers -> BOOLEAN] /\ deleting \in BOOLEAN /\ listed \subseteq Items
    BY DEF Init
  <2>3. edits \in 0..MaxEdits /\ overflows \in 0..MaxOverflows
    BY HubAssumption DEF Init
  <2>4. pc \in [Browsers \cup Relays -> {"off"}] /\ list \in [Relays -> {NoSub}]
    BY DEF Init
  <2> QED BY <2>1, <2>2, <2>3, <2>4 DEF Init, TypeOK, Scopes
<1>2. RestrictInv /\ IsFiniteSet(tracked)
  BY FS_EmptySet DEF Init, RestrictInv
<1>3. BrowserInv
  BY Names DEF Init, BrowserInv, BrowserOK
<1>4. RelayInv
  BY Names DEF Init, RelayInv, RelayOK
<1>5. ListInv
  BY DEF Init, ListInv, ListedInv, ListedOK, ArgInv, CompleteInv, Quiet
<1> QED BY <1>1, <1>2, <1>3, <1>4, <1>5 DEF Inv, HandlerInv

LEMMA NextInv == Inv /\ [Next]_vars => Inv'
<1> SUFFICES ASSUME Inv, [Next]_vars PROVE Inv'
  OBVIOUS
<1>0. TypeOK /\ HandlerInv
  BY DEF Inv
<1>1. CASE AdminNext
  BY <1>0, <1>1, AdminType, AdminHandler, AdminList DEF Inv
<1>2. CASE HubNext
  BY <1>0, <1>2, HubType, HubHandler, HubList DEF Inv
<1>3. CASE EnvNext
  BY <1>0, <1>3, EnvType, EnvHandler, EnvList DEF Inv
<1>4. ASSUME NEW b \in Browsers, BrowserNext(b) PROVE Inv'
  BY <1>0, <1>4, BrowserType, BrowserHandler, BrowserList DEF Inv
<1>5. ASSUME NEW r \in Relays, RelayNext(r) PROVE Inv'
  BY <1>0, <1>5, RelayType, RelayHandler, RelayList DEF Inv
<1>6. CASE UNCHANGED vars
  <2> USE <1>6 DEF vars, dbVars, editVars, otherVars, hubVars, wsVars, relayVars, boundVars
  <2>1. TypeOK'
    BY <1>0 DEF TypeOK
  <2>2. HandlerInv'
    BY <1>0 DEF HandlerInv, RestrictInv, BrowserInv, BrowserOK, KindOf, RelayInv, RelayOK
  <2>3. ListInv'
    BY DEF Inv, ListInv, ListedInv, ListedOK, ArgInv, CompleteInv, Quiet, Complete, Needed, Filter
  <2> QED BY <2>1, <2>2, <2>3 DEF Inv
<1> QED BY <1>1, <1>2, <1>3, <1>4, <1>5, <1>6 DEF Next

LEMMA SpecInv == Spec => []Inv
BY InitInv, NextInv, PTL DEF Spec

(* Every variable of the hub, of its requests and of its handlers keeps    *)
(* its type, however many connections, requests and full channels there    *)
(* are.                                                                    *)
THEOREM TypeCorrect == Spec => []TypeOK
<1>1. Inv => TypeOK
  BY DEF Inv
<1> QED BY <1>1, SpecInv, PTL

(* When the handler of a websocket or of a relay has returned, the hub and *)
(* the brokers have nothing of its subscribers: although RestrictTopics    *)
(* stores topics it loaded earlier, and StreamRelay and Sync track and     *)
(* subscribe in different orders.                                          *)
THEOREM NothingLeaks == Spec => []NoLeak
<1>1. ASSUME Inv PROVE NoLeak
  <2>1. BrowserInv /\ RelayInv /\ TypeOK
    BY <1>1 DEF Inv, HandlerInv
  <2>2. ASSUME NEW b \in Browsers, ~Running(b)
        PROVE  b \notin tracked /\ \A k \in Brokers : sub[k][b] = NoSub
    BY <2>1, <2>2 DEF Running, BrowserInv, BrowserOK
  <2>3. ASSUME NEW r \in Relays, ~Running(Config(r))
        PROVE  Config(r) \notin tracked /\ \A k \in Brokers : sub[k][Config(r)] = NoSub
    <3>1. pc[r] \in {"off", "closed"}
      BY <2>3, Names DEF Running, Config
    <3> QED BY <2>1, <3>1 DEF RelayInv, RelayOK, Subscribed2
  <2>4. ASSUME NEW r \in Relays, ~Running(Data(r))
        PROVE  Data(r) \notin tracked /\ \A k \in Brokers : sub[k][Data(r)] = NoSub
    <3>1. IF ver[r] = "v2" THEN pc[r] = "off" ELSE round[r] = "off"
      BY <2>4, Names DEF Running, Data, DataSubs, ConfigSubs
    <3> QED BY <2>1, <3>1 DEF RelayInv, RelayOK, Subscribed2
  <2>5. \A s \in Subs : s \in Browsers \/ \E r \in Relays : s \in {Config(r), Data(r)}
    BY DEF Subs, ConfigSubs, DataSubs, Config, Data
  <2> QED BY <2>2, <2>3, <2>4, <2>5 DEF NoLeak
<1> QED BY <1>1, SpecInv, PTL

(* However a broadcast, a change of the user and a relay that connects      *)
(* interleave: when no request is on its way the list a relay was sent last *)
(* lacks nothing, of what was listed last, of what its user may see.        *)
THEOREM ListsFollowPermissions == Spec => []ListFollowsPermissions
<1>1. ASSUME Inv PROVE ListFollowsPermissions
  BY <1>1 DEF Inv, ListInv, CompleteInv, Quiet, Complete, Needed, CurrentScope, ListFollowsPermissions
<1> QED BY <1>1, SpecInv, PTL
=============================================================================
