------------------------------- MODULE SyncHub -------------------------------
(***************************************************************************)
(* SyncHub: who is connected, what each connection is subscribed to, and   *)
(* what happens to it when the user's role or permissions change.          *)
(*                                                                         *)
(* One user, from AddUser to DelUser (a name that is added again is        *)
(* another user), with websockets (Browsers) and connections of downstream *)
(* servers (Relays, of either protocol).  Every one of them has its        *)
(* subscribers in the brokers (sync.Maps, no lock) and in                  *)
(* subscribersByUser (under subscribersMu).  Administrators change the     *)
(* user under editMu, except DelUser and ApplyAccount, which take no lock; *)
(* stations and upstreams add items without a lock.                        *)
(*                                                                         *)
(* What the hub reads from the database it reads at once; a reader that    *)
(* keeps what it has read until a later step has it in a variable.  Calls  *)
(* on different brokers in a row are one step: nothing else looks at two   *)
(* brokers.  A full channel is a choice of the sender.  Failed database    *)
(* calls that change nothing and end the request are left out.             *)
(***************************************************************************)
EXTENDS Naturals, FiniteSets

CONSTANTS
    Items,
    Stations,        \* stations that announce items, and upstreams that list theirs
    DataBrowsers,    \* data websockets
    GlobalBrowsers,  \* status websockets
    Relays,          \* connections of downstream servers
    Versions,        \* the protocols they use
    Unrestricted,    \* a nil TopicSet
    NoSub,           \* not in a broker; no list
    Populations,     \* the sets of connections that may be open together
    MaxEdits,        \* bound on the requests that change the user
    MaxOverflows     \* bound on the times a channel is full

ASSUME HubAssumption ==
    /\ Versions \subseteq {"v1", "v2"}
    /\ MaxEdits \in Nat /\ MaxOverflows \in Nat
    /\ Unrestricted # NoSub
    /\ \A items \in SUBSET Items : items \notin {Unrestricted, NoSub}
    /\ DataBrowsers \cap GlobalBrowsers = {}
    /\ \A b \in DataBrowsers \cup GlobalBrowsers :
          b \notin Relays \cup (Relays \X {"config", "data"})

VARIABLES
    \* PostgreSQL.
    role,      \* the user's role; "none" before it is added, "deleted" after
    perms,     \* the items the user may see
    avail,     \* the available items
    \* The request that holds editMu.
    edit,      \* where it is
    arg,       \* the permissions it passes to UpdatePermissions
    todo,      \* the websockets UpdatePermissions has not come to
    loaded,    \* what RestrictTopics is about to store, for which subscriber
    \* DelUser and the stations.
    deleting,  \* has DelUser deleted the user and not yet disconnected it?
    adder,     \* station -> where SyncStationInfo or applyAvailableItems is
    announce,  \* station -> the list it is about to broadcast
    listed,    \* the list that was sent last, before it was filtered
    \* SyncHub.
    tracked,   \* the subscribers in subscribersByUser
    cancelled, \* the subscribers whose context is cancelled
    sub,       \* broker -> subscriber -> its topics
    list,      \* relay -> the last available list in its channel
    \* The handlers.
    pc,        \* websocket or relay -> where it is
    wsAdmin,   \* websocket -> was its request an administrator's?
    want,      \* websocket -> the topics it asks for ...
    left,      \* ... and those it has not checked yet
    ver,       \* relay -> its protocol
    round,     \* relay -> where its data round is (v1)
    scope,     \* relay -> the permissions it has read for its data
    \* The environment.
    live,      \* the connections that may be opened
    edits,     \* requests so far
    overflows  \* full channels so far

dbVars == <<role, perms, avail>>
editVars == <<edit, arg, todo, loaded>>
otherVars == <<deleting, adder, announce, listed>>
hubVars == <<tracked, cancelled, sub, list>>
wsVars == <<wsAdmin, want, left>>
relayVars == <<ver, round, scope>>
boundVars == <<live, edits, overflows>>
vars == <<dbVars, editVars, otherVars, hubVars, pc, wsVars, relayVars, boundVars>>

Browsers == DataBrowsers \cup GlobalBrowsers
Config(r) == <<r, "config">>
Data(r) == <<r, "data">>
ConfigSubs == Relays \X {"config"}
DataSubs == Relays \X {"data"}
Subs == Browsers \cup ConfigSubs \cup DataSubs
Brokers == {"data", "missing", "status", "config"}
Scopes == {Unrestricted} \cup SUBSET Items

-----------------------------------------------------------------------------
(***************************************************************************)
(* What the steps are made of.                                             *)
(***************************************************************************)
\* What a user may see: nil for everyone but a normal user.
UserExists == role \notin {"none", "deleted"}
CurrentScope == IF role = "normal" THEN perms ELSE Unrestricted

\* The data round asks for the user first: an unknown user sees nothing.
currentSyncDataScope == IF UserExists THEN CurrentScope ELSE {}

Filter(items, allowed) == IF allowed = Unrestricted THEN items ELSE items \cap allowed

\* subscribersMu is held from the start of UpdatePermissions to its end.
HubFree == edit # "restrict"

Subscribe(brokers, s, topics) ==
    sub' = [k \in Brokers |-> IF k \in brokers THEN [sub[k] EXCEPT ![s] = topics] ELSE sub[k]]

Unsubscribe(brokers, s) == Subscribe(brokers, s, NoSub)

TrackSubscriber(s) ==
    /\ HubFree
    /\ tracked' = tracked \cup {s}

\* Mutant: without taking subscribersMu.
UntrackSubscriber_Unlocked(s) == tracked' = tracked \ {s}

UntrackSubscriber(s) ==
    /\ HubFree
    /\ tracked' = tracked \ {s}

CountEdit ==
    /\ edits < MaxEdits
    /\ edits' = edits + 1

\* Full channels, as far as the bound allows.
Full(subs) == {full \in SUBSET subs : overflows + Cardinality(full) <= MaxOverflows}
CountFull(full) == overflows' = overflows + Cardinality(full)

\* The list goes to every config connection; one whose channel is full is
\* cancelled instead, as are the subscribers in also.
SendList(items, also) ==
    \E full \in Full(tracked \cap ConfigSubs) :
        /\ CountFull(full)
        /\ cancelled' = cancelled \cup full \cup also
        /\ list' = [r \in Relays |-> IF Config(r) \in tracked \ full THEN items ELSE list[r]]

CancelConfig(also) ==
    /\ cancelled' = cancelled \cup (tracked \cap ConfigSubs) \cup also
    /\ UNCHANGED <<list, live, overflows>>

Init ==
    /\ role = "none"
    /\ perms = {}
    /\ avail = {}
    /\ edit = "idle"
    /\ arg = Unrestricted
    /\ todo = {}
    /\ loaded = <<>>
    /\ deleting = FALSE
    /\ adder = [s \in Stations |-> "idle"]
    /\ announce = [s \in Stations |-> {}]
    /\ listed = {}
    /\ tracked = {}
    /\ cancelled = {}
    /\ sub = [k \in Brokers |-> [s \in Subs |-> NoSub]]
    /\ list = [r \in Relays |-> NoSub]
    /\ pc = [c \in Browsers \cup Relays |-> "off"]
    /\ wsAdmin = [b \in Browsers |-> FALSE]
    /\ want = [b \in Browsers |-> {}]
    /\ left = [b \in Browsers |-> {}]
    /\ ver = [r \in Relays |-> "v2"]
    /\ round = [r \in Relays |-> "off"]
    /\ scope = [r \in Relays |-> {}]
    /\ live \in Populations
    /\ edits = 0
    /\ overflows = 0

-----------------------------------------------------------------------------
(***************************************************************************)
(* Requests of administrators.                                             *)
(***************************************************************************)
\* EditUser on another user: the role is stored, then the hub is told.
\* If the permissions of a user that became a normal one cannot be read,
\* the hub is not told at all.
EditUser(newRole, newPassword) ==
    /\ edit = "idle"
    /\ UserExists
    /\ role' = newRole
    /\ \/ /\ newPassword \/ newRole = "disabled"
          /\ edit' = "disconnect"
          /\ UNCHANGED arg
       \/ /\ ~newPassword /\ newRole # "disabled" /\ newRole # role
          /\ edit' = "update"
          /\ arg' = IF newRole = "normal" THEN perms ELSE Unrestricted
       \/ /\ ~newPassword
          /\ newRole # "disabled" /\ (newRole = role \/ newRole = "normal")
          /\ UNCHANGED <<edit, arg>>
    /\ CountEdit
    /\ UNCHANGED <<perms, avail, todo, loaded, otherVars, hubVars, pc, wsVars,
                   relayVars, live, overflows>>

\* EditUser on an unknown user, or ApplyAccount: no permissions yet.
AddUser(newRole) ==
    /\ edit = "idle" \/ newRole = "disabled"
    /\ role = "none"
    /\ role' = newRole
    /\ UNCHANGED <<perms, avail, editVars, otherVars, hubVars, pc, wsVars, relayVars,
                   boundVars>>

PassApplication ==
    /\ edit = "idle"
    /\ role = "disabled"
    /\ role' = "normal"
    /\ CountEdit
    /\ UNCHANGED <<perms, avail, editVars, otherVars, hubVars, pc, wsVars, relayVars,
                   live, overflows>>

\* Mutant: the hub is told what was in the database before.
EditPermission_Before(items) ==
    /\ edit = "idle"
    /\ role \in {"disabled", "normal"}
    /\ perms' = items
    /\ edit' = "update"
    /\ arg' = perms
    /\ CountEdit
    /\ UNCHANGED <<role, avail, todo, loaded, otherVars, hubVars, pc, wsVars,
                   relayVars, live, overflows>>

\* The permissions are replaced in one transaction, then the hub is told.
EditPermission(items) ==
    /\ edit = "idle"
    /\ role \in {"disabled", "normal"}
    /\ perms' = items
    /\ edit' = "update"
    /\ arg' = items
    /\ CountEdit
    /\ UNCHANGED <<role, avail, todo, loaded, otherVars, hubVars, pc, wsVars,
                   relayVars, live, overflows>>

\* The permissions go with the user (ON DELETE CASCADE).
DelUser ==
    /\ ~deleting
    /\ UserExists
    /\ role' = "deleted"
    /\ perms' = {}
    /\ deleting' = TRUE
    /\ CountEdit
    /\ UNCHANGED <<avail, editVars, adder, announce, listed, hubVars, pc, wsVars,
                   relayVars, live, overflows>>

\* DisconnectUser for every kind of connection, called by EditUser and DelUser.
DisconnectUser ==
    /\ HubFree
    /\ \/ /\ edit = "disconnect"
          /\ edit' = "idle"
          /\ UNCHANGED deleting
       \/ /\ deleting
          /\ deleting' = FALSE
          /\ UNCHANGED edit
    /\ cancelled' = cancelled \cup tracked
    /\ UNCHANGED <<dbVars, arg, todo, loaded, adder, announce, listed, tracked, sub,
                   list, pc, wsVars, relayVars, boundVars>>

\* Mutant: every kind of connection is restricted, not websockets only.
UpdatePermissions_All ==
    /\ edit = "update"
    /\ edit' = "restrict"
    /\ todo' = IF arg = Unrestricted THEN {} ELSE tracked
    /\ UNCHANGED <<dbVars, arg, loaded, otherVars, hubVars, pc, wsVars, relayVars,
                   boundVars>>

\* UpdatePermissions takes subscribersMu; with nil permissions RestrictTopics
\* does nothing.
UpdatePermissions ==
    /\ edit = "update"
    /\ edit' = "restrict"
    /\ todo' = IF arg = Unrestricted THEN {} ELSE tracked \cap Browsers
    /\ UNCHANGED <<dbVars, arg, loaded, otherVars, hubVars, pc, wsVars, relayVars,
                   boundVars>>

\* RestrictTopics loads the topics of a subscriber of dataBroker ...
RestrictLoad(b) ==
    /\ edit = "restrict" /\ loaded = <<>>
    /\ b \in todo
    /\ IF sub["data"][b] = NoSub
       THEN todo' = todo \ {b} /\ UNCHANGED loaded
       ELSE loaded' = <<b, sub["data"][b] \cap arg>> /\ UNCHANGED todo
    /\ UNCHANGED <<dbVars, edit, arg, otherVars, hubVars, pc, wsVars, relayVars,
                   boundVars>>

\* ... and stores what is left of them, or unsubscribes it.
RestrictStore ==
    /\ loaded # <<>>
    /\ LET b == loaded[1]
           topics == loaded[2]
       IN /\ IF topics = {} THEN Unsubscribe({"data"}, b) ELSE Subscribe({"data"}, b, topics)
          /\ todo' = todo \ {b}
    /\ loaded' = <<>>
    /\ UNCHANGED <<dbVars, edit, arg, otherVars, tracked, cancelled, list, pc, wsVars,
                   relayVars, boundVars>>

\* Data connections are cancelled, config connections get the list of
\* available items the new permissions leave; or, when it cannot be read or
\* their channel is full, they are cancelled too.
UpdateConnections ==
    /\ edit = "restrict" /\ todo = {}
    /\ edit' = "idle"
    /\ arg' = Unrestricted
    /\ \/ SendList(Filter(avail, arg), tracked \cap DataSubs) /\ listed' = avail
       \/ CancelConfig(tracked \cap DataSubs) /\ UNCHANGED listed
    /\ UNCHANGED <<dbVars, todo, loaded, deleting, adder, announce, tracked, sub, pc,
                   wsVars, relayVars, live, edits>>

-----------------------------------------------------------------------------
(***************************************************************************)
(* Stations.                                                               *)
(***************************************************************************)
\* SyncStationInfo stores an item: available at once (EditItem).  It counts
\* as new unless it was there when SyncStationInfo read the items, and has
\* gone with its device since.
AddItem(s, i) ==
    /\ adder[s] \in {"idle", "stored"}
    /\ i \notin avail
    /\ avail' = avail \cup {i}
    /\ \/ adder' = [adder EXCEPT ![s] = "stored"]
       \/ UNCHANGED adder
    /\ UNCHANGED <<role, perms, editVars, deleting, announce, listed, hubVars, pc,
                   wsVars, relayVars, boundVars>>

\* A later write fails: SyncStationInfo returns and broadcasts nothing; next
\* time the items are not new any more.
SyncStationInfoReturns(s) ==
    /\ adder[s] = "stored"
    /\ adder' = [adder EXCEPT ![s] = "idle"]
    /\ UNCHANGED <<dbVars, editVars, deleting, announce, listed, hubVars, pc, wsVars,
                   relayVars, boundVars>>

\* A device or an item it no longer has is deleted; nothing is broadcast.
DelItem(s, i) ==
    /\ adder[s] = "idle"
    /\ i \in avail
    /\ avail' = avail \ {i}
    /\ UNCHANGED <<role, perms, editVars, otherVars, hubVars, pc, wsVars, relayVars,
                   boundVars>>

\* BroadcastAddItems reads the list before BroadcastAvailableChange locks; if
\* it cannot, nothing is broadcast.
BroadcastAddItems(s) ==
    /\ adder[s] = "stored"
    /\ \/ /\ adder' = [adder EXCEPT ![s] = "read"]
          /\ announce' = [announce EXCEPT ![s] = avail]
       \/ /\ adder' = [adder EXCEPT ![s] = "idle"]
          /\ UNCHANGED announce
    /\ UNCHANGED <<dbVars, editVars, deleting, listed, hubVars, pc, wsVars, relayVars,
                   boundVars>>

\* A downstream stores the list of an upstream, of which it may not have all
\* items; if that changes anything it hands on the list as it came.
applyAvailableItems(s, stored, body) ==
    /\ adder[s] = "idle"
    /\ stored # avail
    /\ avail' = stored
    /\ adder' = [adder EXCEPT ![s] = "read"]
    /\ announce' = [announce EXCEPT ![s] = body]
    /\ UNCHANGED <<role, perms, editVars, deleting, listed, hubVars, pc, wsVars,
                   relayVars, boundVars>>

\* BroadcastAvailableChange reads the user and the permissions under
\* subscribersMu; without them the config connections are cancelled.
BroadcastAvailableChange(s) ==
    /\ adder[s] = "read"
    /\ HubFree
    /\ \/ /\ UserExists
          /\ SendList(Filter(announce[s], CurrentScope), {})
          /\ listed' = announce[s]
       \/ CancelConfig({}) /\ UNCHANGED listed
    /\ adder' = [adder EXCEPT ![s] = "idle"]
    /\ announce' = [announce EXCEPT ![s] = {}]
    /\ UNCHANGED <<dbVars, editVars, deleting, tracked, sub, pc, wsVars, relayVars,
                   live, edits>>

\* Broker.Publish finds the channel of a subscriber full.
PublishOverflow(k, s) ==
    /\ sub[k][s] # NoSub
    /\ {s} \in Full({s})
    /\ CountFull({s})
    /\ Unsubscribe({k}, s)
    /\ cancelled' = cancelled \cup {s}
    /\ UNCHANGED <<dbVars, editVars, otherVars, tracked, list, pc, wsVars, relayVars,
                   live, edits>>

-----------------------------------------------------------------------------
(***************************************************************************)
(* Websockets.                                                             *)
(***************************************************************************)
Goto(c, label) == pc' = [pc EXCEPT ![c] = label]

\* validateWsMiddleware: the user is read once, for the whole connection.
OpenWebsocket(b) ==
    /\ b \in live /\ pc[b] = "off"
    /\ UserExists
    /\ Goto(b, "track")
    /\ wsAdmin' = [wsAdmin EXCEPT ![b] = role = "admin"]
    /\ UNCHANGED <<dbVars, editVars, otherVars, hubVars, want, left, relayVars,
                   boundVars>>

TrackWebsocket(b) ==
    /\ pc[b] = "track"
    /\ TrackSubscriber(b)
    /\ Goto(b, IF b \in GlobalBrowsers THEN "subscribe" ELSE "read")
    /\ UNCHANGED <<dbVars, editVars, otherVars, cancelled, sub, list, wsVars,
                   relayVars, boundVars>>

\* DataWebsocket: an empty message unsubscribes; topics are checked one by
\* one, unless the request came from an administrator.
ReadTopics(b, items) ==
    /\ pc[b] = "read" /\ b \in DataBrowsers
    /\ b \notin cancelled
    /\ IF items = {}
       THEN Unsubscribe({"data"}, b) /\ UNCHANGED <<pc, want, left>>
       ELSE /\ Goto(b, "check")
            /\ want' = [want EXCEPT ![b] = items]
            /\ left' = [left EXCEPT ![b] = IF wsAdmin[b] THEN {} ELSE items]
            /\ UNCHANGED sub
    /\ UNCHANGED <<dbVars, editVars, otherVars, tracked, cancelled, list, wsAdmin,
                   relayVars, boundVars>>

CheckPermission(b, i) ==
    /\ pc[b] = "check"
    /\ i \in left[b]
    /\ IF i \in perms
       THEN left' = [left EXCEPT ![b] = @ \ {i}] /\ UNCHANGED <<pc, want>>
       ELSE /\ Goto(b, "untrack")
            /\ left' = [left EXCEPT ![b] = {}]
            /\ want' = [want EXCEPT ![b] = {}]
    /\ UNCHANGED <<dbVars, editVars, otherVars, hubVars, wsAdmin, relayVars, boundVars>>

SubscribeWebsocket(b) ==
    /\ \/ /\ pc[b] = "check" /\ left[b] = {}
          /\ Subscribe({"data"}, b, want[b])
       \/ /\ pc[b] = "subscribe"
          /\ Subscribe({"status"}, b, Unrestricted)
    /\ want' = [want EXCEPT ![b] = {}]
    /\ Goto(b, "read")
    /\ UNCHANGED <<dbVars, editVars, otherVars, tracked, cancelled, list, wsAdmin,
                   left, relayVars, boundVars>>

\* A read fails: the context is cancelled or the peer is gone.
CloseWebsocket(b) ==
    /\ pc[b] = "read"
    /\ Goto(b, "untrack")
    /\ UNCHANGED <<dbVars, editVars, otherVars, hubVars, wsVars, relayVars, boundVars>>

\* The deferred function: untrack first, ...
UntrackWebsocket(b) ==
    /\ pc[b] = "untrack"
    /\ UntrackSubscriber(b)
    /\ Goto(b, "unsubscribe")
    /\ UNCHANGED <<dbVars, editVars, otherVars, cancelled, sub, list, wsVars,
                   relayVars, boundVars>>

\* ... then unsubscribe.
UnsubscribeWebsocket(b) ==
    /\ pc[b] = "unsubscribe"
    /\ Unsubscribe({IF b \in GlobalBrowsers THEN "status" ELSE "data"}, b)
    /\ Goto(b, "off")
    /\ cancelled' = cancelled \ {b}
    /\ wsAdmin' = [wsAdmin EXCEPT ![b] = FALSE]
    /\ UNCHANGED <<dbVars, editVars, otherVars, tracked, list, want, left, relayVars,
                   boundVars>>

-----------------------------------------------------------------------------
(***************************************************************************)
(* Downstream servers, protocol v2: StreamRelay.                           *)
(***************************************************************************)
\* The role and the permissions are read ...
StreamRelay(r) ==
    /\ "v2" \in Versions
    /\ r \in live /\ pc[r] = "off"
    /\ UserExists
    /\ Goto(r, "subscribe")
    /\ ver' = [ver EXCEPT ![r] = "v2"]
    /\ scope' = [scope EXCEPT ![r] = CurrentScope]
    /\ UNCHANGED <<dbVars, editVars, otherVars, hubVars, wsVars, round, boundVars>>

\* ... before the two subscribers are known to anyone: to the brokers first, ...
FramesSubscribe(r) ==
    /\ ver[r] = "v2" /\ pc[r] = "subscribe"
    /\ sub' = [k \in Brokers |->
                 IF k \in {"config", "status"}
                 THEN [sub[k] EXCEPT ![Config(r)] = Unrestricted]
                 ELSE [sub[k] EXCEPT ![Data(r)] = scope[r]]]
    /\ Goto(r, "track")
    /\ UNCHANGED <<dbVars, editVars, otherVars, tracked, cancelled, list, wsVars,
                   relayVars, boundVars>>

\* ... then to the hub, one after the other.
FramesTrack(r) ==
    /\ ver[r] = "v2"
    /\ \/ pc[r] = "track" /\ TrackSubscriber(Config(r)) /\ Goto(r, "half")
       \/ pc[r] = "half" /\ TrackSubscriber(Data(r)) /\ Goto(r, "up")
    /\ UNCHANGED <<dbVars, editVars, otherVars, cancelled, sub, list, wsVars,
                   relayVars, boundVars>>

\* StreamRelay returns: a subscriber was cancelled or the stream broke.
FramesStop(r) ==
    /\ ver[r] = "v2" /\ pc[r] = "up"
    /\ cancelled' = cancelled \cup {Config(r), Data(r)}
    /\ Goto(r, "stop")
    /\ UNCHANGED <<dbVars, editVars, otherVars, tracked, sub, list, wsVars, relayVars,
                   boundVars>>

FramesUntrack(r) ==
    /\ ver[r] = "v2"
    /\ \/ pc[r] = "stop" /\ UntrackSubscriber(Config(r)) /\ Goto(r, "stopping")
       \/ pc[r] = "stopping" /\ UntrackSubscriber(Data(r)) /\ Goto(r, "stopped")
    /\ UNCHANGED <<dbVars, editVars, otherVars, cancelled, sub, list, wsVars,
                   relayVars, boundVars>>

FramesUnsubscribe(r) ==
    /\ ver[r] = "v2" /\ pc[r] = "stopped"
    /\ sub' = [k \in Brokers |-> [sub[k] EXCEPT ![Config(r)] = NoSub, ![Data(r)] = NoSub]]
    /\ cancelled' = cancelled \ {Config(r), Data(r)}
    /\ list' = [list EXCEPT ![r] = NoSub]
    /\ scope' = [scope EXCEPT ![r] = {}]
    /\ Goto(r, "off")
    /\ UNCHANGED <<dbVars, editVars, otherVars, tracked, wsVars, ver, round, boundVars>>

-----------------------------------------------------------------------------
(***************************************************************************)
(* Downstream servers, protocol v1: Sync.  One handler for the config      *)
(* stream, and under it one round of data streams after another.           *)
(***************************************************************************)
\* The permissions Sync reads only filter the first list of available items.
Sync(r) ==
    /\ "v1" \in Versions
    /\ r \in live /\ pc[r] = "off"
    /\ UserExists
    /\ ver' = [ver EXCEPT ![r] = "v1"]
    /\ Goto(r, "track")
    /\ UNCHANGED <<dbVars, editVars, otherVars, hubVars, wsVars, round, scope,
                   boundVars>>

TrackSyncConfig(r) ==
    /\ ver[r] = "v1" /\ pc[r] = "track"
    /\ TrackSubscriber(Config(r))
    /\ Subscribe({"config", "status"}, Config(r), Unrestricted)
    /\ Goto(r, "up")
    /\ UNCHANGED <<dbVars, editVars, otherVars, cancelled, list, wsVars, relayVars,
                   boundVars>>

\* syncDataServer reads the permissions of the round ...
ReadScope(r) ==
    /\ ver[r] = "v1" /\ pc[r] = "up" /\ round[r] = "off"
    /\ scope' = [scope EXCEPT ![r] = currentSyncDataScope]
    /\ round' = [round EXCEPT ![r] = "track"]
    /\ UNCHANGED <<dbVars, editVars, otherVars, hubVars, pc, wsVars, ver, boundVars>>

\* ... before its subscriber is tracked, ...
TrackSyncData(r) ==
    /\ ver[r] = "v1" /\ round[r] = "track"
    /\ TrackSubscriber(Data(r))
    /\ round' = [round EXCEPT ![r] = "subscribe"]
    /\ UNCHANGED <<dbVars, editVars, otherVars, cancelled, sub, list, pc, wsVars, ver,
                   scope, boundVars>>

\* ... and subscribed.
SubscribeSyncData(r) ==
    /\ ver[r] = "v1" /\ round[r] = "subscribe"
    /\ Subscribe({"data", "missing"}, Data(r), scope[r])
    /\ round' = [round EXCEPT ![r] = "up"]
    /\ UNCHANGED <<dbVars, editVars, otherVars, tracked, cancelled, list, pc, wsVars,
                   ver, scope, boundVars>>

\* stream3 is closed: by the cancelled context, by the peer, or with the session.
syncDataServerReturns(r) ==
    /\ ver[r] = "v1" /\ round[r] = "up"
    /\ Unsubscribe({"data", "missing"}, Data(r))
    /\ round' = [round EXCEPT ![r] = "untrack"]
    /\ UNCHANGED <<dbVars, editVars, otherVars, tracked, cancelled, list, pc, wsVars,
                   ver, scope, boundVars>>

UntrackSyncData(r) ==
    /\ ver[r] = "v1" /\ round[r] = "untrack"
    /\ UntrackSubscriber(Data(r))
    /\ cancelled' = cancelled \ {Data(r)}
    /\ scope' = [scope EXCEPT ![r] = {}]
    /\ round' = [round EXCEPT ![r] = "off"]
    /\ UNCHANGED <<dbVars, editVars, otherVars, sub, list, pc, wsVars, ver, boundVars>>

\* stream1 is closed: the deferred calls run, last one first.
SyncReturns(r) ==
    /\ ver[r] = "v1" /\ pc[r] = "up"
    /\ Unsubscribe({"config", "status"}, Config(r))
    /\ Goto(r, "stop")
    /\ UNCHANGED <<dbVars, editVars, otherVars, tracked, cancelled, list, wsVars,
                   relayVars, boundVars>>

UntrackSyncConfig(r) ==
    /\ ver[r] = "v1" /\ pc[r] = "stop"
    /\ UntrackSubscriber(Config(r))
    /\ cancelled' = cancelled \ {Config(r)}
    /\ list' = [list EXCEPT ![r] = NoSub]
    /\ Goto(r, "closed")
    /\ UNCHANGED <<dbVars, editVars, otherVars, sub, wsVars, relayVars, boundVars>>

\* The session is closed: the goroutine of the data rounds ends after the
\* round it is in.
SyncEnds(r) ==
    /\ ver[r] = "v1" /\ pc[r] = "closed" /\ round[r] = "off"
    /\ Goto(r, "off")
    /\ ver' = [ver EXCEPT ![r] = "v2"]
    /\ UNCHANGED <<dbVars, editVars, otherVars, hubVars, wsVars, round, scope,
                   boundVars>>

-----------------------------------------------------------------------------
AdminNext ==
    \/ \E newRole \in {"disabled", "normal", "admin"} :
          \/ \E newPassword \in BOOLEAN : EditUser(newRole, newPassword)
          \/ AddUser(newRole)
    \/ PassApplication
    \/ \E items \in SUBSET Items : EditPermission(items)
    \/ DelUser

HubNext ==
    \/ DisconnectUser
    \/ UpdatePermissions
    \/ \E b \in Browsers : RestrictLoad(b)
    \/ RestrictStore
    \/ UpdateConnections
    \/ \E s \in Stations : BroadcastAddItems(s) \/ BroadcastAvailableChange(s)

EnvNext ==
    \/ \E s \in Stations, i \in Items : AddItem(s, i) \/ DelItem(s, i)
    \/ \E s \in Stations : SyncStationInfoReturns(s)
    \/ \E s \in Stations, stored, body \in SUBSET Items :
          applyAvailableItems(s, stored, body)
    \/ \E k \in Brokers, s \in Subs : PublishOverflow(k, s)

BrowserNext(b) ==
    \/ OpenWebsocket(b) \/ TrackWebsocket(b)
    \/ \E items \in SUBSET Items : ReadTopics(b, items)
    \/ \E i \in Items : CheckPermission(b, i)
    \/ SubscribeWebsocket(b)
    \/ CloseWebsocket(b) \/ UntrackWebsocket(b) \/ UnsubscribeWebsocket(b)

RelayNext(r) ==
    \/ StreamRelay(r) \/ FramesSubscribe(r) \/ FramesTrack(r)
    \/ FramesStop(r) \/ FramesUntrack(r) \/ FramesUnsubscribe(r)
    \/ Sync(r) \/ TrackSyncConfig(r)
    \/ ReadScope(r) \/ TrackSyncData(r) \/ SubscribeSyncData(r)
    \/ syncDataServerReturns(r) \/ UntrackSyncData(r)
    \/ SyncReturns(r) \/ UntrackSyncConfig(r) \/ SyncEnds(r)

Next ==
    \/ AdminNext
    \/ HubNext
    \/ EnvNext
    \/ \E b \in Browsers : BrowserNext(b)
    \/ \E r \in Relays : RelayNext(r)

Spec == Init /\ [][Next]_vars

-----------------------------------------------------------------------------
(***************************************************************************)
(* Properties.                                                             *)
(***************************************************************************)
\* Types: every variable holds what the code's variables can hold.
TypeOK ==
    /\ role \in {"none", "disabled", "normal", "admin", "deleted"}
    /\ perms \subseteq Items
    /\ avail \subseteq Items
    /\ edit \in {"idle", "disconnect", "update", "restrict"}
    /\ arg \in Scopes
    /\ todo \subseteq Browsers
    /\ loaded = <<>> \/ loaded \in Browsers \X SUBSET Items
    /\ deleting \in BOOLEAN
    /\ adder \in [Stations -> {"idle", "stored", "read"}]
    /\ announce \in [Stations -> SUBSET Items]
    /\ listed \subseteq Items
    /\ tracked \subseteq Subs
    /\ cancelled \subseteq Subs
    /\ sub \in [Brokers -> [Subs -> {NoSub} \cup Scopes]]
    /\ list \in [Relays -> {NoSub} \cup SUBSET Items]
    /\ pc \in [Browsers \cup Relays ->
                 {"off", "track", "subscribe", "half", "read", "check", "untrack",
                  "unsubscribe", "up", "stop", "stopping", "stopped", "closed"}]
    /\ wsAdmin \in [Browsers -> BOOLEAN]
    /\ want \in [Browsers -> SUBSET Items]
    /\ left \in [Browsers -> SUBSET Items]
    /\ ver \in [Relays -> {"v1", "v2"}]
    /\ round \in [Relays -> {"off", "track", "subscribe", "up", "untrack"}]
    /\ scope \in [Relays -> Scopes]
    /\ live \in Populations
    /\ edits \in 0..MaxEdits
    /\ overflows \in 0..MaxOverflows

\* Does the handler of the subscriber still run?
Running(s) ==
    IF s \in Browsers THEN pc[s] # "off"
    ELSE IF s \in ConfigSubs THEN pc[s[1]] \notin {"off", "closed"}
    ELSE IF ver[s[1]] = "v2" THEN pc[s[1]] # "off" ELSE round[s[1]] # "off"

\* When a handler is gone nothing is left of its subscriber: neither in
\* subscribersByUser nor in a broker, where messages would pile up in a
\* channel nobody reads.  RestrictTopics stores what it loaded some steps
\* earlier; the websocket's deferred function is safe because it untracks
\* under subscribersMu before it unsubscribes.
NoLeak ==
    \A s \in Subs : ~Running(s) =>
        /\ s \notin tracked
        /\ \A k \in Brokers : sub[k][s] = NoSub

\* The list of available items a relay was sent last lacks nothing because of
\* permissions that have changed: of what was listed last it has all its user
\* may see, although a broadcast and a change of role or permissions read
\* the permissions at different times.  BroadcastAvailableChange reads them
\* under subscribersMu, and UpdatePermissions comes after the commit.  What
\* is listed is another matter: a list can be read before another station's
\* item comes and be sent after that item's list, a query can fail, and an
\* item may never be broadcast; it is missed until the next list.
ListFollowsPermissions ==
    edit = "idle" /\ ~deleting /\ role \in {"normal", "admin"} =>
        \A r \in Relays :
            Config(r) \in tracked \ cancelled /\ list[r] # NoSub =>
                Filter(listed, CurrentScope) \subseteq list[r]
=============================================================================
