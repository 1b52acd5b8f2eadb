----------------------------- MODULE RelayConfig -----------------------------
(***************************************************************************)
(* The configuration of one station on its way from the station, through   *)
(* the server it is connected to (the upstream), to a downstream server:   *)
(* devices, the items they carry, and which items are available.           *)
(*                                                                         *)
(* A table of items maps an item to its device; items.device_name is a     *)
(* foreign key with ON DELETE CASCADE.  At the upstream every item it has  *)
(* is available (EditItem), at the downstream those the upstream says.     *)
(* The relay's user is an administrator: nothing is filtered.  No item has *)
(* the name of a device.  Data, status and the further downstreams the     *)
(* changes are published to are left out.                                  *)
(*                                                                         *)
(* The downstream uses version 1 or 2 of the relay protocol, as its        *)
(* configuration says when it starts; the upstream serves both.  Version 2 *)
(* has one stream; version 1 has two: the full configuration comes on the  *)
(* second, everything else on the first, and the downstream reads the      *)
(* second to its end before the first.                                     *)
(***************************************************************************)
EXTENDS Integers, Sequences

CONSTANTS
    Items,
    Devices,
    NoDevice,     \* the device of an item that is not in a table
    Versions,     \* the versions of the protocol the downstream may use
    QueueCap,     \* capacity of the relay's config queue
    MaxSyncs,     \* bound on the StationInfos the station sends
    MaxFaults     \* bound on crashes, breaks and failed operations

ASSUME ConfigAssumption ==
    /\ NoDevice \notin Devices
    /\ Versions \subseteq {1, 2} /\ Versions # {}
    /\ QueueCap \in Nat \ {0}
    /\ MaxSyncs \in Nat
    /\ MaxFaults \in Nat

VARIABLES
    \* The upstream: PostgreSQL.
    uDev,         \* devices
    uItem,        \* item -> its device
    \* The upstream: SyncStationInfo.
    spc,          \* where it is
    info,         \* item -> device, as the station announced them
    oldDev,       \* the devices ...
    oldItem,      \* ... and the items it read at the start
    edited,       \* the items its loop has dealt with
    announce,     \* what BroadcastAddItems read
    unpublished,  \* the event it has written to the tables and not yet published
    \* The upstream: StreamRelay.
    upc,          \* where it is
    readDev,      \* the devices GetStationsFullInfo read
    subscribed,   \* is the config subscriber in configBroker?
    tracked,      \* is it in subscribersByUser?
    queue,        \* its channel
    closed,       \* has it overflowed?
    \* The connection.
    version,      \* of the protocol
    u2d,          \* frames on their way down
    broken,       \* no frame sent from now on arrives
    \* The downstream.
    dpc,          \* where RunDownstreamWithRetry is
    dDev,
    dItem,
    dAvail,       \* the available items
    missed,       \* the reads of the full configuration that failed ("devices",
                  \* "items"), and whether an event since could not be written
    \* The environment.
    syncs,        \* StationInfos so far
    faults        \* faults so far

upstreamDB == <<uDev, uItem>>
syncInfo   == <<spc, info, oldDev, oldItem, edited, announce>>
relay      == <<version, upc, readDev>>
config     == <<subscribed, tracked, queue, closed>>
tables     == <<dDev, dItem, dAvail>>
downDB     == <<tables, missed>>
vars == <<upstreamDB, syncInfo, unpublished, relay, config, u2d, broken, dpc, downDB,
          syncs, faults>>

-----------------------------------------------------------------------------
Table == [Items -> Devices \cup {NoDevice}]
Event == [type : {"syncDevice", "delDevice"}, dev : Devices]
         \cup [type : {"syncItem"}, item : Items, dev : Devices]
         \cup [type : {"delItem"}, item : Items]
         \cup [type : {"available"}, items : SUBSET Items]
Frame == Event \cup [type : {"full"}, devs : SUBSET Devices, items : Table]

(* Every variable stays in its type; the queue within its capacity, and the *)
(* tables keep the foreign key and have no availability without an item.    *)
TypeOK ==
    /\ uDev \subseteq Devices
    /\ uItem \in [Items -> uDev \cup {NoDevice}]
    /\ spc \in {"idle", "addDevices", "delDevices", "delItems", "editItems", "addItems",
                "broadcast", "cameras"}
    /\ info \in Table
    /\ oldDev \subseteq Devices
    /\ oldItem \in Table
    /\ edited \subseteq Items
    /\ announce \subseteq Items
    /\ unpublished \in Seq(Event) /\ Len(unpublished) <= 1
    /\ version \in Versions
    /\ upc \in {"gone", "hello", "track", "subscribe", "available", "devices", "items",
                "run"}
    /\ readDev \subseteq Devices
    /\ subscribed \in BOOLEAN
    /\ tracked \in BOOLEAN
    /\ queue \in Seq(Event) /\ Len(queue) <= QueueCap
    /\ closed \in BOOLEAN
    /\ u2d \in Seq(Frame)
    /\ broken \in BOOLEAN
    /\ dpc \in {"idle", "available", "full", "write", "run", "cleanup"}
    /\ dDev \subseteq Devices
    /\ dItem \in [Items -> dDev \cup {NoDevice}]
    /\ dAvail \subseteq {i \in Items : dItem[i] # NoDevice}
    /\ missed \subseteq {"devices", "items", "event"}
    /\ syncs \in Nat
    /\ faults \in Nat

Fault == faults < MaxFaults /\ faults' = faults + 1

NoItems == [i \in Items |-> NoDevice]

(* The items of a table, and the devices they are on. *)
ItemsOf(table)   == {i \in Items : table[i] # NoDevice}
DevicesOf(table) == {table[i] : i \in ItemsOf(table)}

(* Mutant: the items of a deleted device stay. *)
Without_Keeps(table, d) == table

(* The table without a device: its items go with it. *)
Without(table, d) == [i \in Items |-> IF table[i] = d THEN NoDevice ELSE table[i]]

-----------------------------------------------------------------------------
(* The broker, and the hub's direct sends to the tracked subscribers *)

(* Mutant: an event is dropped when the channel is full. *)
Offer_Drops(open, event) ==
    /\ queue' = IF open /\ Len(queue) < QueueCap THEN Append(queue, event) ELSE queue
    /\ UNCHANGED closed

(* A non-blocking send; a full channel cancels the subscriber. *)
Offer(open, event) ==
    \/ /\ ~open \/ closed
       /\ UNCHANGED <<queue, closed>>
    \/ /\ open /\ ~closed
       /\ Len(queue) < QueueCap
       /\ queue' = Append(queue, event)
       /\ UNCHANGED closed
    \/ /\ open /\ ~closed
       /\ Len(queue) = QueueCap
       /\ closed' = TRUE
       /\ UNCHANGED queue

(* SyncStationInfo publishes what it has just written. *)
PublishWritten ==
    /\ unpublished # <<>>
    /\ unpublished' = <<>>
    /\ Offer(subscribed, Head(unpublished))
    /\ UNCHANGED <<upstreamDB, syncInfo, relay, subscribed, tracked, u2d, broken, dpc,
                   downDB, syncs, faults>>

-----------------------------------------------------------------------------
(* SyncStationInfo *)

(* The station is connected and has sent its StationInfo. *)
SyncStationInfo(announced) ==
    /\ spc = "idle"
    /\ syncs < MaxSyncs
    /\ syncs' = syncs + 1
    /\ spc' = "addDevices"
    /\ info' = announced
    /\ oldDev' = uDev
    /\ oldItem' = uItem
    /\ edited' = {}
    /\ UNCHANGED <<upstreamDB, announce, unpublished, relay, config, u2d, broken, dpc,
                   downDB, faults>>

(* One of its loops, in phase p, writes to the tables. *)
Writes(p) == spc = p /\ unpublished = <<>>

AddDevice(d) ==
    /\ Writes("addDevices")
    /\ d \in DevicesOf(info) \ oldDev
    /\ d \notin uDev
    /\ uDev' = uDev \cup {d}
    /\ unpublished' = <<[type |-> "syncDevice", dev |-> d]>>
    /\ UNCHANGED <<uItem, syncInfo, relay, config, u2d, broken, dpc, downDB, syncs,
                   faults>>

DelDevice(d) ==
    /\ Writes("delDevices")
    /\ d \in oldDev \ DevicesOf(info)
    /\ d \in uDev
    /\ uDev' = uDev \ {d}
    /\ uItem' = Without(uItem, d)
    /\ unpublished' = <<[type |-> "delDevice", dev |-> d]>>
    /\ UNCHANGED <<syncInfo, relay, config, u2d, broken, dpc, downDB, syncs, faults>>

(* An item that went with its device is deleted again, to no effect. *)
DelItem(i) ==
    /\ Writes("delItems")
    /\ i \in ItemsOf(oldItem) \ ItemsOf(info)
    /\ i \notin edited
    /\ edited' = edited \cup {i}
    /\ uItem' = [uItem EXCEPT ![i] = NoDevice]
    /\ unpublished' = <<[type |-> "delItem", item |-> i]>>
    /\ UNCHANGED <<uDev, spc, info, oldDev, oldItem, announce, relay, config, u2d,
                   broken, dpc, downDB, syncs, faults>>

(* Mutant: only a new item is written. *)
EditsItem_New(i) == oldItem[i] = NoDevice

(* The item's name is compared with the device's: every item is written. *)
EditsItem(i) == TRUE

EditItem(i) ==
    /\ Writes("editItems")
    /\ i \in ItemsOf(info) \ edited
    /\ EditsItem(i)
    /\ edited' = edited \cup {i}
    /\ uItem' = [uItem EXCEPT ![i] = info[i]]
    /\ unpublished' = <<[type |-> "syncItem", item |-> i, dev |-> info[i]]>>
    /\ UNCHANGED <<uDev, spc, info, oldDev, oldItem, announce, relay, config, u2d,
                   broken, dpc, downDB, syncs, faults>>

(* A loop has nothing left to do. *)
LoopDone(p) ==
    CASE p = "addDevices" -> DevicesOf(info) \ oldDev \subseteq uDev
      [] p = "delDevices" -> uDev \subseteq DevicesOf(info)
      [] p = "delItems"   -> ItemsOf(oldItem) \ ItemsOf(info) \subseteq edited
      [] p = "editItems"  -> \A i \in ItemsOf(info) \ edited : ~EditsItem(i)
      [] OTHER            -> FALSE

(* What follows the loop: the available items are sent only for new items. *)
AfterLoop(p) ==
    CASE p = "addDevices" -> "delDevices"
      [] p = "delDevices" -> "delItems"
      [] p = "delItems"   -> "editItems"
      [] OTHER -> IF ItemsOf(info) \subseteq ItemsOf(oldItem) THEN "cameras" ELSE "addItems"

(* The next loop; after the last one what was there before is of no use. *)
NextLoop ==
    /\ Writes(spc)
    /\ LoopDone(spc)
    /\ spc' = AfterLoop(spc)
    /\ edited' = {}
    /\ IF spc = "editItems" THEN oldDev' = {} /\ oldItem' = NoItems
                            ELSE UNCHANGED <<oldDev, oldItem>>
    /\ UNCHANGED <<upstreamDB, info, announce, unpublished, relay, config, u2d, broken,
                   dpc, downDB, syncs, faults>>

(* BroadcastAddItems reads the available items ... *)
BroadcastAddItems ==
    /\ spc = "addItems"
    /\ spc' = "broadcast"
    /\ announce' = ItemsOf(uItem)
    /\ UNCHANGED <<upstreamDB, info, oldDev, oldItem, edited, unpublished, relay,
                   config, u2d, broken, dpc, downDB, syncs, faults>>

(* ... and BroadcastAvailableChange sends them to the tracked subscribers. *)
BroadcastAvailableChange ==
    /\ spc = "broadcast"
    /\ spc' = "cameras"
    /\ announce' = {}
    /\ Offer(tracked, [type |-> "available", items |-> announce])
    /\ UNCHANGED <<upstreamDB, info, oldDev, oldItem, edited, unpublished,
                   relay, subscribed, tracked, u2d, broken, dpc, downDB, syncs,
                   faults>>

(* SyncStationInfo is not running: it has no locals. *)
Returned ==
    /\ spc' = "idle"
    /\ info' = NoItems
    /\ oldDev' = {}
    /\ oldItem' = NoItems
    /\ edited' = {}
    /\ announce' = {}

(* The last write, of the cameras. *)
SyncStationCannotEdit ==
    /\ spc = "cameras"
    /\ Returned
    /\ UNCHANGED <<upstreamDB, unpublished, relay, config, u2d, broken, dpc, downDB,
                   syncs, faults>>

(* A write fails: SyncStationInfo returns, the station will connect again. *)
SyncStationInfoFails ==
    /\ spc \notin {"idle", "broadcast"}
    /\ unpublished = <<>>
    /\ Fault
    /\ Returned
    /\ UNCHANGED <<upstreamDB, unpublished, relay, config, u2d, broken, dpc, downDB,
                   syncs>>

-----------------------------------------------------------------------------
(* StreamRelay *)

(* A frame is sent down: it is lost when the connection is broken. *)
Arrives(frame) == IF broken THEN u2d ELSE Append(u2d, frame)

(* Mutant: the brokers are subscribed to when the configuration has been sent. *)
SubscribesAt_Run(p) == p = "run"

(* The phase before which the brokers are subscribed to. *)
SubscribesAt(p) == p = IF version = 2 THEN "track" ELSE "devices"

Subscribe(p) == subscribed' = (subscribed \/ SubscribesAt(p))

RecvDownstreamHello ==
    /\ version = 2
    /\ upc = "hello"
    /\ upc' = "track"
    /\ Subscribe("track")
    /\ UNCHANGED <<upstreamDB, syncInfo, unpublished, version, readDev, tracked, queue,
                   closed, u2d, broken, dpc, downDB, syncs, faults>>

TrackSubscriber ==
    /\ upc = "track"
    /\ upc' = IF version = 2 THEN "available" ELSE "subscribe"
    /\ tracked' = TRUE
    /\ UNCHANGED <<upstreamDB, syncInfo, unpublished, version, readDev, subscribed,
                   queue, closed, u2d, broken, dpc, downDB, syncs, faults>>

sendAvailableItems ==
    /\ upc = "available"
    /\ upc' = "devices"
    /\ u2d' = Arrives([type |-> "available", items |-> ItemsOf(uItem)])
    /\ UNCHANGED <<upstreamDB, syncInfo, unpublished, version, readDev, config, broken,
                   dpc, downDB, syncs, faults>>

(* handleSyncServerConn of version 1 sends the available items, if there are *)
(* any, before it has a subscriber.                                          *)
handleSyncServerConn ==
    /\ version = 1
    /\ upc = "hello"
    /\ upc' = "track"
    /\ u2d' = IF ItemsOf(uItem) = {} THEN u2d
              ELSE Arrives([type |-> "available", items |-> ItemsOf(uItem)])
    /\ UNCHANGED <<upstreamDB, syncInfo, unpublished, version, readDev, config, broken,
                   dpc, downDB, syncs, faults>>

SubscribeConfig ==
    /\ upc = "subscribe"
    /\ upc' = "devices"
    /\ Subscribe("devices")
    /\ UNCHANGED <<upstreamDB, syncInfo, unpublished, version, readDev, tracked, queue,
                   closed, u2d, broken, dpc, downDB, syncs, faults>>

(* GetStationsFullInfo reads the devices, and then, in another query, the items. *)
GetDevices ==
    /\ upc = "devices"
    /\ upc' = "items"
    /\ readDev' = uDev
    /\ UNCHANGED <<upstreamDB, syncInfo, unpublished, version, config, u2d, broken,
                   dpc, downDB, syncs, faults>>

SendFull ==
    /\ upc = "items"
    /\ upc' = "run"
    /\ Subscribe("run")
    /\ u2d' = Arrives([type |-> "full", devs |-> readDev, items |-> uItem])
    /\ readDev' = {}
    /\ UNCHANGED <<upstreamDB, syncInfo, unpublished, version, tracked, queue, closed,
                   broken, dpc, downDB, syncs, faults>>

sendFullConfig       == version = 2 /\ SendFull
fullSyncConfigServer == version = 1 /\ SendFull

ForwardHead ==
    /\ queue # <<>>
    /\ queue' = Tail(queue)
    /\ u2d' = Arrives(Head(queue))
    /\ UNCHANGED <<upstreamDB, syncInfo, unpublished, relay, subscribed, tracked,
                   closed, broken, dpc, downDB, syncs, faults>>

forwardIncremental == version = 2 /\ upc = "run" /\ ForwardHead

(* NewSubscriber starts a goroutine that writes to the first stream while   *)
(* the second is still in use.                                              *)
NewSubscriber == version = 1 /\ ForwardHead

(* What StreamRelay notices by itself: the connection, a queue that closed. *)
Ended == broken \/ (upc = "run" /\ closed /\ (version = 1 \/ queue = <<>>))

RelayGone ==
    /\ upc' = "gone"
    /\ readDev' = {}
    /\ subscribed' = FALSE
    /\ tracked' = FALSE
    /\ queue' = <<>>
    /\ closed' = FALSE
    /\ broken' = TRUE

StreamRelayReturns ==
    /\ upc # "gone"
    /\ \/ Ended /\ UNCHANGED faults
       \/ ~Ended /\ Fault
    /\ RelayGone
    /\ UNCHANGED <<upstreamDB, syncInfo, unpublished, version, u2d, dpc, downDB, syncs>>

(* The upstream's process dies and is started again. *)
UpstreamRestart ==
    /\ Fault
    /\ RelayGone
    /\ Returned
    /\ unpublished' = <<>>
    /\ UNCHANGED <<upstreamDB, version, u2d, dpc, downDB, syncs>>

Break ==
    /\ Fault
    /\ ~broken
    /\ broken' = TRUE
    /\ UNCHANGED <<upstreamDB, syncInfo, unpublished, relay, config, u2d, dpc, downDB,
                   syncs>>

-----------------------------------------------------------------------------
(* RunDownstream *)

Receives(ty) == u2d # <<>> /\ Head(u2d).type = ty

(* The full configuration: the next frame in version 2, alone on its stream *)
(* in version 1.                                                            *)
IsFull(frame) == frame.type = "full"
ReceivesFull == IF version = 2 THEN Receives("full") ELSE \E k \in DOMAIN u2d : IsFull(u2d[k])
Full == SelectSeq(u2d, IsFull)[1]
AfterFull == SelectSeq(u2d, LAMBDA frame : ~IsFull(frame))

(* The downstream dials; the handler of its old connection is gone, or has  *)
(* no effect on the new one.                                                *)
openDownstreamStream ==
    /\ dpc = "idle"
    /\ dpc' = IF version = 2 THEN "available" ELSE "write"
    /\ upc' = "hello"
    /\ readDev' = {}
    /\ subscribed' = FALSE
    /\ tracked' = FALSE
    /\ queue' = <<>>
    /\ closed' = FALSE
    /\ u2d' = <<>>
    /\ broken' = FALSE
    /\ UNCHANGED <<upstreamDB, syncInfo, unpublished, version, downDB, syncs, faults>>

(* UpdateAvailableItems: those listed that are in the table. *)
UpdateAvailableItems(listed) == listed \cap ItemsOf(dItem)

(* An error of the first list ends the connection, of a later one it is     *)
(* logged.                                                                  *)
applyAvailableItems ==
    /\ version = 2
    /\ dpc \in {"available", "run"}
    /\ Receives("available")
    /\ dpc' = IF dpc = "available" THEN "full" ELSE dpc
    /\ u2d' = Tail(u2d)
    /\ \/ dAvail' = UpdateAvailableItems(Head(u2d).items) /\ UNCHANGED faults
       \/ dpc = "run" /\ UNCHANGED dAvail /\ Fault
    /\ UNCHANGED <<upstreamDB, syncInfo, unpublished, relay, config, broken, dDev,
                   dItem, missed, syncs>>

(* The writes of the downstream's store. *)
StoreDevice(d) == dDev' = dDev \cup {d} /\ UNCHANGED <<dItem, dAvail>>

RemoveDevice(d) ==
    /\ dDev' = dDev \ {d}
    /\ dItem' = Without(dItem, d)
    /\ dAvail' = {i \in dAvail : dItem[i] # d}

StoreItem(i, d) == dItem' = [dItem EXCEPT ![i] = d] /\ UNCHANGED <<dDev, dAvail>>

RemoveItem(i) ==
    /\ dItem' = [dItem EXCEPT ![i] = NoDevice]
    /\ dAvail' = dAvail \ {i}
    /\ UNCHANGED dDev

(* The downstream reads what it has, to delete what is surplus.  Version 2   *)
(* ignores an error, and then deletes no devices, or no items; in version 1 *)
(* an error ends the connection, and this is no step of its own.            *)
ReadOld ==
    /\ dpc = "full"
    /\ Receives("full")
    /\ dpc' = "write"
    /\ \/ UNCHANGED <<missed, faults>>
       \/ /\ missed' \in {{"devices"}, {"items"}, {"devices", "items"}}
          /\ Fault
    /\ UNCHANGED <<upstreamDB, syncInfo, unpublished, relay, config, u2d, broken,
                   tables, syncs>>

(* The devices and items it deletes, and whether each loop is done. *)
SurplusDevices(full) == IF "devices" \in missed THEN {} ELSE dDev \ full.devs
SurplusItems(full) ==
    IF "items" \in missed THEN {} ELSE ItemsOf(dItem) \ ItemsOf(full.items)

DevicesWritten(full) == full.devs \subseteq dDev /\ SurplusDevices(full) = {}
ItemsStored(full)    == \A i \in ItemsOf(full.items) : dItem[i] = full.items[i]

(* One write of the full configuration: new devices, old devices, items, old *)
(* items.  A write that changes nothing is left out.                         *)
WriteFull(full) ==
    /\ dpc = "write"
    /\ \/ \E d \in full.devs \ dDev : StoreDevice(d)
       \/ /\ full.devs \subseteq dDev
          /\ \E d \in SurplusDevices(full) : RemoveDevice(d)
       \/ /\ DevicesWritten(full)
          /\ \E i \in ItemsOf(full.items) :
                /\ dItem[i] # full.items[i]
                /\ full.items[i] \in dDev
                /\ StoreItem(i, full.items[i])
       \/ /\ DevicesWritten(full)
          /\ ItemsStored(full)
          /\ \E i \in SurplusItems(full) : RemoveItem(i)
    /\ UNCHANGED <<upstreamDB, syncInfo, unpublished, relay, config, u2d, broken,
                   dpc, missed, syncs, faults>>

FullWritten(full) ==
    /\ dpc = "write"
    /\ DevicesWritten(full) /\ ItemsStored(full) /\ SurplusItems(full) = {}
    /\ dpc' = "run"
    /\ u2d' = AfterFull
    /\ UNCHANGED <<upstreamDB, syncInfo, unpublished, relay, config, broken, downDB,
                   syncs, faults>>

(* In version 2 the full configuration is the next frame ... *)
applyFullConfig ==
    version = 2 /\ Receives("full")
    /\ (ReadOld \/ WriteFull(Head(u2d)) \/ FullWritten(Head(u2d)))

(* ... in version 1 it comes on the second stream. *)
fullSyncConfigClient ==
    version = 1 /\ ReceivesFull /\ (WriteFull(Full) \/ FullWritten(Full))

(* An item of the full configuration on a device it does not have: the two  *)
(* were read at different times, and the foreign key refuses the item.      *)
ForeignKeyFails ==
    /\ dpc = "write"
    /\ ReceivesFull
    /\ DevicesWritten(Full)
    /\ ~ DevicesOf(Full.items) \subseteq dDev

(* The same for an item of an event. *)
EventFails == dpc = "run" /\ Receives("syncItem") /\ Head(u2d).dev \notin dDev

(* The write an event asks for. *)
ApplyEvent(e) ==
    \/ e.type = "syncDevice" /\ StoreDevice(e.dev)
    \/ e.type = "delDevice" /\ RemoveDevice(e.dev)
    \/ e.type = "syncItem" /\ e.dev \in dDev /\ StoreItem(e.item, e.dev)
    \/ e.type = "delItem" /\ RemoveItem(e.item)

TakeEvent ==
    /\ dpc = "run"
    /\ u2d # <<>>
    /\ u2d' = Tail(u2d)
    /\ UNCHANGED <<upstreamDB, syncInfo, unpublished, relay, config, broken, dpc,
                   syncs>>

(* An event that fails, by the foreign key or by any other error of the     *)
(* database, is logged, and the next one taken.                             *)
applyConfigEvent ==
    /\ version = 2
    /\ TakeEvent
    /\ \/ ApplyEvent(Head(u2d)) /\ UNCHANGED <<missed, faults>>
       \/ EventFails /\ UNCHANGED <<downDB, faults>>
       \/ /\ Head(u2d).type # "available"
          /\ missed' = missed \cup {"event"}
          /\ Fault
          /\ UNCHANGED tables

(* In version 1 an event that fails ends the connection. *)
handleSyncConfigMsg ==
    /\ version = 1
    /\ TakeEvent
    /\ \/ ApplyEvent(Head(u2d))
       \/ /\ Head(u2d).type = "available"
          /\ dAvail' = UpdateAvailableItems(Head(u2d).items)
          /\ UNCHANGED <<dDev, dItem>>
    /\ UNCHANGED <<missed, faults>>

RunDownstreamEnds    == version = 2 /\ (broken \/ ForeignKeyFails)
handleSyncClientEnds == version = 1 /\ (broken \/ ForeignKeyFails \/ EventFails)
DownstreamEnds       == RunDownstreamEnds \/ handleSyncClientEnds

DownstreamReturns ==
    /\ dpc \in {"available", "full", "write", "run"}
    /\ \/ DownstreamEnds /\ UNCHANGED faults
       \/ ~DownstreamEnds /\ Fault
    /\ dpc' = "cleanup"
    /\ missed' = {}
    /\ broken' = TRUE
    /\ u2d' = <<>>
    /\ UNCHANGED <<upstreamDB, syncInfo, unpublished, relay, config, tables, syncs>>

(* onDisconnect: an error is only logged. *)
RemoveAvailableByUpstreamId ==
    /\ dpc = "cleanup"
    /\ dpc' = "idle"
    /\ \/ dAvail' = {} /\ UNCHANGED faults
       \/ UNCHANGED dAvail /\ Fault
    /\ UNCHANGED <<upstreamDB, syncInfo, unpublished, relay, config, u2d, broken, dDev,
                   dItem, missed, syncs>>

(* The downstream's process dies; setAllNotAvailable runs when it starts,   *)
(* perhaps with another version.                                            *)
DownstreamRestart ==
    /\ Fault
    /\ version' \in Versions
    /\ dpc' = "idle"
    /\ dAvail' = {}
    /\ missed' = {}
    /\ u2d' = <<>>
    /\ RelayGone
    /\ UNCHANGED <<upstreamDB, syncInfo, unpublished, dDev, dItem, syncs>>

-----------------------------------------------------------------------------
Init ==
    /\ uDev = {} /\ uItem = NoItems
    /\ spc = "idle" /\ info = NoItems /\ oldDev = {} /\ oldItem = NoItems
    /\ edited = {} /\ announce = {} /\ unpublished = <<>>
    /\ version \in Versions
    /\ upc = "gone" /\ readDev = {}
    /\ subscribed = FALSE /\ tracked = FALSE /\ queue = <<>> /\ closed = FALSE
    /\ u2d = <<>> /\ broken = TRUE
    /\ dpc = "idle"
    /\ dDev = {} /\ dItem = NoItems /\ dAvail = {} /\ missed = {}
    /\ syncs = 0 /\ faults = 0

SyncStep ==
    \/ PublishWritten
    \/ \E d \in Devices : AddDevice(d) \/ DelDevice(d)
    \/ \E i \in Items : DelItem(i) \/ EditItem(i)
    \/ NextLoop
    \/ BroadcastAddItems
    \/ BroadcastAvailableChange
    \/ SyncStationCannotEdit

StreamRelay ==
    \/ RecvDownstreamHello
    \/ handleSyncServerConn
    \/ TrackSubscriber
    \/ SubscribeConfig
    \/ sendAvailableItems
    \/ GetDevices
    \/ sendFullConfig
    \/ fullSyncConfigServer
    \/ forwardIncremental
    \/ NewSubscriber

RunDownstream ==
    \/ openDownstreamStream
    \/ applyAvailableItems
    \/ applyFullConfig
    \/ fullSyncConfigClient
    \/ applyConfigEvent
    \/ handleSyncConfigMsg
    \/ RemoveAvailableByUpstreamId

(* Nothing is on its way to the downstream. *)
Settled ==
    /\ spc = "idle" /\ unpublished = <<>>
    /\ upc = "run" /\ queue = <<>> /\ ~closed
    /\ u2d = <<>> /\ ~broken
    /\ dpc = "run"

Quiescent == syncs = MaxSyncs /\ Settled /\ UNCHANGED vars

Next ==
    \/ \E announced \in Table : SyncStationInfo(announced)
    \/ SyncStep
    \/ SyncStationInfoFails
    \/ StreamRelay
    \/ StreamRelayReturns
    \/ UpstreamRestart
    \/ Break
    \/ RunDownstream
    \/ DownstreamReturns
    \/ DownstreamRestart
    \/ Quiescent

Spec == Init /\ [][Next]_vars

(* The goroutines of both servers run, the downstream dials again after its *)
(* pause, and a broken connection is noticed by both ends.                  *)
Fairness ==
    /\ WF_vars(SyncStep)
    /\ WF_vars(StreamRelay)
    /\ WF_vars(StreamRelayReturns /\ Ended)
    /\ WF_vars(RunDownstream)
    /\ WF_vars(DownstreamReturns /\ DownstreamEnds)

FairSpec == Spec /\ Fairness

-----------------------------------------------------------------------------
(* SyncStationInfo leaves the server with what the station announced, also  *)
(* for items that moved to another device and went with the old one.        *)
AnnouncedStored ==
    spc \in {"addItems", "broadcast", "cameras"} => uItem = info /\ uDev = DevicesOf(info)

(* When nothing is on its way, the downstream has the devices and items of  *)
(* the upstream: no change is lost between the subscription, the full       *)
(* configuration and the events that follow it, although they overlap and   *)
(* some are refused by the foreign key.  A write or a read that a database  *)
(* error has cost (missed) is made good by the next full configuration, and *)
(* by nothing else.                                                         *)
InStep == Settled /\ missed = {} => dDev = uDev /\ dItem = uItem

(* The downstream ends up with the upstream's devices and items, whatever   *)
(* breaks on the way, once faults stop: for good, unless its last connection *)
(* has missed a write or a read.                                            *)
ItemsConverge == <>[](missed = {} => dDev = uDev /\ dItem = uItem)

(* The items available at the upstream end up available downstream. *)
AvailableConverges == <>[](dAvail = ItemsOf(uItem))
=============================================================================
