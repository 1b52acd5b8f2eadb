# A TLA+ model of TideGauge

TideGauge collects readings at tide stations (`tide_client`), replicates them to a
central server (`tide_server`) and relays them from server to server. Everything it
promises hangs on one idea: *a receiver remembers only the latest timestamp (or status
row) it has, asks for what is later, and then follows the live stream.* A point that is
overtaken by a later one is therefore lost for good. Most of this project is about
whether that can happen.

Paths below are relative to `src/`.

## 1. The system

| Component | State | Operations | Talks to |
|---|---|---|---|
| **Station ingest** (`tide_client/controller/common.go`, `tide_client/db`) | SQLite: one table of points per item, `item_status_log`; memory: `itemsStatus`, `ingestMu` | `receiveData`, `addDevices` at start | pollers through `DataReceive`; the local `Broker` |
| **Station session v2** (`tide_client/syncv2`) | replay cursors, a subscriber channel | hello, station info, latest positions, replay under `ingestMu`, subscription, realtime forwarding, retry every 10 s | the server over yamux on an upgraded HTTP connection |
| **Station handler v2** (`tide_server/syncv2/station`) | registry of connections; PostgreSQL: points, status log, item and station status | `StreamStation`, `handleDataBatch`, `handleItemStatusBatch`, deferred clean-up, `RequestSnapshot` | the hub's brokers, `SyncStationInfo` |
| **Broker, DelayedBroker** (`pkg/pubsub`) | subscriber channels; `scheduledQueue`, `mu`, `wakeCh`, a timer | `Publish`, `Subscribe`, `RestrictTopics`; `dispatchLoop` | every publisher and subscriber of a process |
| **SyncStationInfo** (`tide_server/controller/station_sync_func.go`) | devices, items and cameras of a station in PostgreSQL | four loops of single writes, each published; broadcast of new items | `SyncHub` |
| **SyncHub** (`tide_server/controller/sync_hub.go`) | four brokers, subscribers by user | `TrackSubscriber`, `BroadcastAddItems`, `BroadcastAvailableChange`, `UpdatePermissions` | relays, websockets |
| **Relay v2, upstream** (`tide_server/syncv2/relay/upstream.go`) | subscriptions of one downstream | `StreamRelay`: subscribe, full configuration, missing status, missing data, incremental | hub, database, the downstream |
| **Relay v2, downstream** (`relay/downstream.go`, `relay/apply.go`) | its own copy of every table | `RunDownstreamWithRetry`, `apply*` | the upstream; its own hub |
| **Upstream management and login** (`sync_client.go`, `auth.go`, `internal/upstreamauth`) | running upstreams, tokens | start, edit, delete an upstream; `DoWithAuth` | relay downstream |
| **Permissions, websockets, HTTP API** | users, permissions, websocket subscribers | check and edit permissions, subscribe to topics | hub |
| **Protocol v1** (station and relay) | registries of its own | the older equivalents | the same tables and brokers |
| **Devices** (`connWrap`, `device`, `protocol`) | one reconnecting port per bus | request and response, polling by cron | `DataReceive` |

What is hard about it: a session starts in the middle of a live stream (readings are
ingested, rows are stored and configuration changes while it takes its snapshot);
subscribers are cut off when their channel is full; batches are written row by row
without a transaction; both ends crash, reconnect and time out on their own; a broker
delays one kind of message and not the other; a mutex is held across network writes and
another across a channel send. `hazards` in `PROJECT.json` lists each at its line with
the property that watches it, or the reason why none does.

What makes each part correct:

* station sync: no gap, a status log without holes, statuses never older than their log, one session per
  station, a station shown as connected while it is, nothing lost for ever, ingest never
  blocked for ever;
* delayed broker: it delays and does nothing else, and it does hand messages on;
* relay: the same as station sync from the downstream's first point on, and a status
  that never goes back;
* configuration: what a station announces is stored, and downstreams end up with it;
* hub: nothing is left of a connection that has gone, and the last list of items that was
  broadcast to a relay has all of them that its user may see now, however role and
  permissions changed around the broadcast;
* upstreams: each one is served with its current settings, the stations only a deleted
  one had go with it or with the next deletion, and what is linked to one that is away is
  not available from it;
* camera: requests that overlap on a token and on a directory do no lasting harm.

## 2. Modules

| Module | What it is |
|---|---|
| `StationSync` | ingest, session, network, handler and both databases for one station |
| `MCStationSync` | its instance for TLC, with the inductive invariant |
| `StationSyncInv` | the inductive invariants behind `GapFree` (`NoGapInv`) and behind `StatusLogPrefix` and `ItemStatusFresh` (`LogInv`) |
| `StationSyncProofs` | types, registry, station status, `GapFree`, `StatusLogPrefix` and `ItemStatusFresh`, proved |
| `DelayQueue` | what a delayed broker promises |
| `DelayedBroker` | `pkg/pubsub`'s implementation, mapped to `DelayQueue` |
| `MCDelayedBroker`, `DelayedBrokerProofs` | its instance and its proofs |
| `StationV1`, `MCStationV1`, `StationV1Proofs` | version 1 of the station protocol beside version 2, and live snapshots |
| `RelaySync`, `MCRelaySync`, `RelaySyncProofs` | points and status rows from an upstream to a downstream, over either version |
| `RelayConfig`, `MCRelayConfig` | devices, items and availability, from a station through its server to a downstream, over either version |
| `SyncHub`, `MCSyncHub`, `SyncHubProofs` | who is connected and subscribed to what, and what a change of role or permissions does to it |
| `Upstreams`, `MCUpstreams`, `UpstreamsProofs` | adding, editing and deleting upstreams while their loops run |
| `UpstreamAuth` | the token that all requests to an upstream share |
| `CameraLatest`, `MCCameraLatest`, `CameraLatestProofs` | the latest snapshots of an upstream's camera; composes `UpstreamAuth`, whose proofs are here too |
| `DeviceBus`, `MCDeviceBus`, `DeviceBusProofs` | the devices of a station on one bus, the port and its reopening |

### StationSync

A point is its timestamp, a status row its ROWID. `hist` and `log` are the station's
SQLite, `stored`, `statusLog`, `itemStatus` (the row whose status an item shows) and
`stationStatus` the server's PostgreSQL. `cpc` says where `runOnConn` is, `spc[k]` where
`StreamStation` is on connection `k`; `c2s`, `reply`, `broken` are the connection. A
`DataBatch` is a run of single-point frames, because the server saves it point by point.

`receiveData` is one action, since it runs under `ingestMu`; whether each of its two
writes succeeds is an input. A failed status write is not published although the status
in memory has changed; a failed data write *is* published. The session's actions are
named after the functions (`recvLatestFrames`, `sendReplayData`, ...). `LockIngest`
and `SubscribeAndUnlock` are the two ends of the critical section. `runOnConnReturns`
covers every error return and the retry loop. On the server a replayed status batch is
several actions (`UpdateReplayedItem` per item, `SaveReplayedLog` per row), since a
crash can fall between any two; a realtime one is one transaction. `DeferredDisconnect`
and `DeferredDelete` are the deferred calls in their order. A station may dial while the
handler of its last connection is still there: hence two connection slots.

### StationV1

The older protocol has no batches: `SendMissData` is one JSON value with the points of
all items, `SendMissStatus` one with the rows, and the server stores them one by one
(`ReadMissData`, `ReadMissStatusLogs`). `Write` is the goroutine of `newSubscriber`: a
write that fails ends it and leaves the session open. The server only logs a realtime
row it cannot save (`lost`). `reg[1]` is `recvConnections`, `reg[2]` the registry of
version 2: a station that is started again with the other version can meet the handler
of its old session. A session of version 2 stores, in order, what the server misses:
that is what `StationSync` checks and proves of it. `snap` is one request for a live
snapshot, which prefers the session of version 2; only that one has a timer. `Deregister`
is the deferred `Delete` of either registry.

### DelayedBroker and DelayQueue

Time is counted in ticks and kept as time left, so it needs no bound. `Publish` is
`Call`, `LockQueue`, `Wake` and `AppendAndUnlock`, since the send on the unbuffered
`wakeCh` happens with `mu` held; the delay is one of `Delays`, where 0 is the direct path
of `Publish`; `dispatchLoop` is `ResetTimer`, `TimerFires`,
`TakeNext`, `PublishNext`. The refinement mapping takes the message in the loop's hand
together with the queue as `pending`.

### RelaySync

The upstream's side of a station is `StorePoint`/`StoreRow` followed by `PublishSaved`:
saving and publishing are two steps, and a relay may subscribe or take its snapshot
between them. A realtime point goes through `delayed`. `StreamRelay` subscribes when it
has the downstream's hello, then answers the two requests for missing data. The
downstream shows a missed status and saves its row in two steps, as the code does. A
point or a row its database refuses is in `skipped`. The functions of the two versions
are actions of their own (`applyDataBatch` and `syncDataClient`, ...) on top of what they
share. In version 1 data has two streams of its own and comes in rounds
(`syncDataClientReturns`), so a round may end and begin again while the statuses go on.

### RelayConfig

`SyncStationInfo` runs its loops write by write, and publishes after each write.
`items.device_name` cascades, so deleting a device deletes its items
(`Without`). The upstream reads devices and items in two queries. The downstream applies
the full configuration write by write; an item whose device it lacks is refused by the
foreign key, which ends the connection in the full configuration. In version 2 any error
of an event's write is only logged, and the errors of the two reads that say what has
become surplus (`ReadOld`) are ignored: the downstream then differs from its upstream on a
healthy connection. The model does the same and records it in `missed`, until the next
full configuration. In version 1 an event that fails ends the connection, and the
downstream reads the full configuration from a second stream before it reads the first.

### SyncHub

One user. `tracked` is `subscribersByUser`, under `subscribersMu`; `sub` holds the topics
of each subscriber in each broker, which are `sync.Map`s without a lock. Requests of
administrators run under `editMu` (`edit`), except `DelUser`. `UpdatePermissions` holds
`subscribersMu` while it goes through the subscribers, and `RestrictTopics` is two steps,
`RestrictLoad` and `RestrictStore`, between which a websocket may subscribe or leave. A
websocket checks one permission after the other and then subscribes; its deferred
function untracks under the lock and then unsubscribes. Relays of both versions subscribe
and track in the order of their code. `SyncStationInfo` adds items (`AddItem`) and
broadcasts them: `BroadcastAddItems` reads the available items, and only then does
`BroadcastAvailableChange` take the lock and read the permissions. An added item need not
reach the relays: an older list can be sent after a newer one, the query of
`BroadcastAddItems` can fail, `SyncStationInfo` can return before it
(`SyncStationInfoReturns`, and the retry finds nothing new), an item that moves with its
device is not counted as new, and a server that is itself a downstream hands on the list
it got (`applyAvailableItems`). `listed` is the list sent last, before it was filtered, and
`ListFollowsPermissions` compares with that what has been broadcast to each relay: it is
about permissions, not about which items are broadcast, nor about the list a relay reads
for itself before it is tracked. Any channel may be found full (`PublishOverflow`).

### Upstreams

A loop is one goroutine of `startSync`; `registry` is `recvConnections`, which knows one
loop of each upstream. `EditUpstream` cancels the loop it finds and starts another, which
stores itself only when it runs. `DelUpstream` is its transaction, in two steps
(`DelUpstream` reads and deletes, `DelUpstreamCommit` shows it), and `DelUpstreamCancel`.
A loop dials, takes the list of available items, syncs station by station and follows the
events. Version 2 cleans up after every dial, version 1 after a connection only; the
clean-up looks at the stations linked to the upstream, and at no others.

### UpstreamAuth and CameraLatest

`DoWithAuth` is the calls of `getToken` (the cached token, or a login under `tokenMu`),
the request without the lock, and after a 401 one more login and request. `LockForRefresh`
clears the token whoever put it there. Tokens expire at any time and logins fail.
`CameraLatest` has two requests for a camera, and the loop that dials, as callers. A
request lists the directory, fetches what is newer, writes the files one by one, newest
first, removes the surplus and reads the rest; nothing keeps two requests apart.

### DeviceBus

A job is a cron entry of `AddCronJob`; while it runs, `inQuery` makes cron's next calls
do nothing, so a job is `idle` or it is running. An exchange takes the lock of the bus,
waits the quiet time, and then does its operations; each loads the port anew (`held`),
so that the port can be replaced between two of them or during one. Every error leads to
`failed` and from there to `unlockBus`; one of the port starts a goroutine of
`reopenUntilSuccess`, whose steps are `CompareAndSwap`, `ClosePort`, `OpenPort` and
`ReopenReturns`. An answer is the job it is for, and `Late` once that job's exchange is
over. A goroutine started by the error of a port that has meanwhile been replaced closes
the new, healthy one and opens a third: the code does this, and so the model claims that
a port returns, not that it stays.

## 3. Runs

| Run | Bounds | Shows |
|---|---|---|
| `station` | 2 items, one GPIO; 2 connections; queue 2; clock to 2; 2 faults | `GapFree`, `StatusLogPrefix`, `ItemStatusFresh`, `OneConnection`, `ServedIsNormal`, `EventuallyReplicated`, `IngestResumes` |
| `station_v1` | 1 item, both versions, 2 connections, queue 1, 2 readings, 1 row, 2 faults | `ReplicaPrefix`, `HeldBack`, `SnapshotsReach` |
| `broker_delay` | 3 publishers, 4 messages, delay 0 or 2 | `NoOversleep`, `ImplementsDelayQueue` |
| `broker_wedged` | 2 publishers, 2 messages, delay 1 | **violated** (`EventuallyPublished`): publisher and loop wait for each other for ever |
| `relay_data` | 1 item, both versions, 3 points, 2 rows, queue 2, 1 fault | `RelayGapFree`, `RelayedLogPrefix`, `RelayedStatusFresh`, `EventuallyRelayed` |
| `relay_overtaken` | 1 item, version 2, 3 points, 1 fault | **violated** (`GapsFilled`): a point replayed while an earlier one is still delayed can stay missing downstream |
| `config_relay` | 1 item, both versions, 2 devices, 2 announcements, queue 2, 1 fault | `AnnouncedStored`, `InStep`, `ItemsConverge` |
| `config_available` | 1 item, version 2, 1 device, 1 announcement, no fault | **violated** (`AvailableConverges`): items a downstream meets for the first time stay unavailable there |
| `hub` | 2 items, 1 station, 1 websocket for data or 1 for the rest or 1 relay of either version, 1 edit, 1 full channel | `NoLeak`, `ListFollowsPermissions` |
| `upstreams` | 2 upstreams, 3 loops, 1 station, 2 edits, 1 fault | `Served`, `OrphansSwept`, `LinkedUnavailable` |
| `camera` | 2 requests at a time, 3 in all, 4 snapshots of which 2 are kept, 1 fault | `RefusedTokenGoes`, `AnswerComplete`, `CacheTrimmed` |
| `bus` | 2 jobs of up to 2 commands, 3 port handles, 2 reopening goroutines, channel 1, 1 fault | `OwnAnswer`, `NoPortLeftOpen`, `PortReturns`, `JobEnds` |

Each passing run also checks its module's `TypeOK`. Where a module has channels or queues
it includes their capacity; `SyncHub`, `Upstreams` and `CameraLatest` have none.

The bounds let every interesting case happen: a queue of 2 overflows (one reading can
publish two messages), and so does a queue of 1; two connection slots are a session and
its predecessor, and the code admits no third that matters, since a refused handler
leaves no trace; two faults allow a break and a crash during the recovery from it; three
points are an earlier one, a missing one and a later one; two devices are what moving an
item takes; three port handles are one that a job still holds, the one in use and its
replacement. In `hub` connections meet only at
the lock and in `UpdatePermissions`, which takes them one by one, so each kind is checked
by itself (`Populations`); one station that adds items is enough for a list that is out of
date when it is sent, because permissions change between its read and its lock.
In `config_relay` the first device to be announced is always the same one
(`FirstAnnounced`): until then the devices are alike. Three loops are the two of an upstream that has been edited
twice and the one just started. Three requests are two that overlap and one that comes
after them. Faults are crashes of either process, broken connections and failed
operations.

`HeldBack` counts what a failed realtime write of version 1 leaves behind: the channel's
capacity and the message in hand, 1001 messages in the code, stay at the station until
the channel overflows or the session ends. `SnapshotsReach` says that once faults stop no
request for a snapshot is made of, or waits on, a session the station has left, although
the registry of version 2 is asked first. It does not say that a request ends: over
version 1 the code has no timer, and a camera that never answers holds the request for as
long as the session lasts. `EventuallyRelayed` has a premise (`BrokerServes`): the
upstream's delayed broker goes on handing messages on, which violation 1 shows it may not.
`InStep` and `ItemsConverge` exempt a downstream that has skipped a failed write or read
(`missed`), until its next full configuration; that this configuration makes it good is
part of what they say. `LinkedUnavailable` is about linked stations, see below. `Served`
does not say that loops with old
settings are gone: two edits in a row can leave one behind, because the second finds the
loop before the first in `recvConnections`. `OrphansSwept` says that such leftovers of a
deletion go with the next one.

**The three violations.**

1. *Wedged broker.* `DelayedBroker.Publish` sends on `wakeCh` while it holds `mu`
   (`pkg/pubsub/pubsub.go:124`). If the loop has just handed on the last message (or has
   not reached its first `select`) it needs `mu` before it can receive. With
   `DataDelaySec` positive, one more reading at that moment stops all delayed data and
   every station handler that publishes.
2. *Overtaken point.* Replayed points are published at once, realtime ones after the
   delay. A downstream that connects in between takes its position from a point later
   than one it has not seen.
3. *Availability before items.* `RunDownstream` applies the list of available items
   before the full configuration that creates them, and `SyncItem` inserts an item as
   not available.

Three differences have no run. `docs/protocols/sync-v2-protocol.md:133` gives the station's
retry as 3 s, the code waits 10 s (`tide_client/controller/common.go:64`). And a station
stamps readings with the wall clock (`tide_client/device/common.go`) and replays
`timestamp > latest` (`tide_client/db/data.go:18`): readings taken after the clock was set
back while the station was disconnected are not replayed, although `README.md:16` says
that missing data is. `StationSync` has that step behind `ClockMayStepBack`.
The third is in `Upstreams`: the comment at `tide_server/controller/sync_client.go:66` says
that the available items are cleaned up after a connection. Those of a station that is not
linked to the upstream are not (`tide_server/db/item.go:212`), and a station of another
upstream can be marked without a link: version 2 applies the list of available items
before it links the stations (`relay/downstream.go:151` and `163`), and `DelUpstreamStation`
(`tide_server/db/station.go:166`) removes the link and leaves the mark. Such a station
stays available from an upstream that is away for good. Both steps are in the model, and
`LinkedUnavailable` says what does hold.

## 4. Fairness

`Fairness` in each module asks for no more than the runtime gives: a goroutine that can
step does (weak fairness of the session, of each handler, of each relay loop); the retry
loops dial again; `forwardIncremental` takes from each channel that stays ready, because
Go's `select` picks at random; a waiter for a mutex gets it in the end (strong fairness
in `DelayedBroker`: Go's mutex hands over to a starving waiter). A broken connection is
noticed: by the server's yamux keepalive (100 s) or a read error, at the station by a
read error or, since its keepalive is off, by the failing write of its next reading.
In `DeviceBus` cron fires again and again, the mutex of the bus and the channel let each
waiter in (strong fairness: both queue their waiters), a port that is dead is reported
by some `Read` (keep-alive), and it can be opened again some time (`Plug`).
In `StationSync` and `StationV1` the fairness of a handler is that of a server without
`DataDelaySec`: with a delay its `Publish` can block for ever (violation 1), and
`EventuallyReplicated`, `IngestResumes`, `HeldBack` and `SnapshotsReach` say nothing of
such a server. In `RelaySync` nothing is assumed of the delayed broker: `PublishSaved` is
fair when it does not go through it. In `StationV1` nothing is assumed of the camera. In
`Upstreams` a loop goes on to dial and to clean up, but it is not assumed that a connection
makes progress; an upstream may be away for good. `SyncHub` and `CameraLatest` are checked for safety only.
Nothing else is assumed of failures: no fault action is fair, and each run bounds their
number, so liveness reads "once faults stop". `openDownstreamStream` and `Connect` are
fair because their loops never give up.

## 5. What is proved

`tlapm` checks the following for every value of the constants, within `ASSUME`s that
only say that bounds are naturals, capacities are positive and "none" is not a member.

* `StationSyncProofs!TypeCorrect`: `Spec => []TypeOK`. Inductive with `CurInv` (a
  session that runs has a connection), which `TInv` adds.
* `StationSyncProofs!ServedAlone`, `ServedShownNormal`: `OneConnection` and
  `ServedIsNormal`. `RegistryInv` says that a handler between its registration and its
  deferred `Delete` is the one in the registry; then two cannot be, and the
  `Disconnected` of one cannot land after the `Normal` of the next, because the status
  is written before the entry is deleted.
* `StationSyncProofs!NoGap`: `~ClockMayStepBack => (Spec => []GapFree)`. `GapFree` speaks
  of the two databases; the points in between are in frames, in the queue and behind
  the replay cursor. `NoGapInv` says of each place that it can be emptied, message by
  message, without a gap: `StampInv` (a new reading is later than anything known),
  `FramesInv` (every frame on every connection, also on a dead one whose frames are
  still being handled), `ReplyInv` (the position the server reports is complete),
  `CursorInv` (up to the cursor everything is stored or on its way), `ReplayInv`
  (nothing is ingested during the replay), `RealtimeInv` and `QueueInv` (once
  subscribed, everything is stored, on its way or queued, and the queue is in order).
  `Carried` and `Backed` carry the argument, with a lemma for each channel operation;
  then there is one lemma per action or group of actions. The hypothesis about the
  clock is needed, see the end of section 3.
* `StationSyncProofs!LogIsPrefix`, `StatusIsFresh`: `StatusLogPrefix` and `ItemStatusFresh`,
  with no hypothesis about the clock. `LogInv` follows the rows as `NoGapInv` follows the
  points, with three differences. A batch is saved row by row, so a handler holds part of
  one (`WorkInv`: the rows in hand are new, continue the log, and the items it has dealt
  with show them). The latest row a station was told is compared once, so it must not
  age: `PhaseInv` and `LatestInv` say that no status frame is on the way until then. And a
  handler that has lost its connection may still be saving.
* `StationV1Proofs!TypeCorrect`, `ReplicaIsPrefix`: `TypeOK` and `ReplicaPrefix`. The items
  and the status log are treated alike, as *streams*: `StreamOK` says of one stream what
  is saved, stored, reported as latest, on each connection and in the channel, and how
  they follow each other. Each step of the model is an operation on a stream (something is
  sent, stored, published, dropped with the line), each operation has a lemma over plain
  sets and sequences, and each action a lemma that says which operation it is. It holds
  for every mixture of the two versions.
* `RelaySyncProofs!TypeCorrect`, `GapFreeRelay`, `LogRelayed`: `TypeOK`,
  `~ReplayMayOvertake => (Spec => []RelayGapFree)` and `RelayedLogPrefix`, for both versions
  of the protocol. The points of an item and the rows of the status log are each a *series*
  of numbers in five places: saved at the upstream and still to be published, in the
  relay's queue, in live frames, in frames with what the downstream missed, and stored (or
  refused) at the downstream. `GapFree` says of the numbers in these places that none
  between them is left out, and which follow which; it is a predicate of plain sets, and
  what can happen to a number (it is saved, published, dropped with a full queue,
  forwarded, lost with the connection, sent as missed, stored, refused) is a lemma about
  plain sets (`MoveSave`, `MoveDrop`, ...). What must hold in addition depends on where the
  two ends are: once the missed numbers are sent they meet the live ones (`Joined`), as
  long as the queue is open everything saved is on its way (`LiveRest`). `SeriesOK` ties
  the predicate to the state, and `PhaseInv` says which frames can be on the way in each
  phase, that the two ends keep in step (`Stages`) and that the latest row and timestamps
  the upstream was told are still the latest when it answers (`LatestInv`); without that a
  history could begin too late or too early. A downstream with an empty status log asks
  for all of it, so the log is a series that begins with 0; an item of which it has no
  point gets none, so its series begins anywhere. The hypothesis of `GapFreeRelay` is what
  run `relay_overtaken` is about; the status log needs none. `Inv` was model-checked on
  the bounds of `relay_data` before it was proved.
* `RelaySyncProofs!StatusFresh`: `Spec => RelayedStatusFresh`, an invariant and an action
  property, from `Inv` and `StatusInv`. Version 2 shows the missed rows one by one
  (`ShownNext`: whatever row comes before one that is shown is in the log, or was refused).
  Version 1 shows the latest missed row of every item before it saves any, so an item may
  run ahead of the log; it does so only to a row of the batch in flight, also when an
  earlier batch was cut off half way. `MissedLater` says that a batch begins after the log,
  `ShownMarked` which of its rows count as shown. What each step does to the log and the
  rows on their way is read off the series of the status log.
* `DelayedBrokerProofs!LoopServesQueue`: `Spec => []NoOversleep`. The invariant adds
  who holds `mu` (`MuInv`), that a publisher about to append to an empty queue has woken
  the loop, which now waits for `mu` (`WakeInv`), what publishers and loop have in hand
  (`HandInv`), and that the loop takes a message only when its timer is at zero
  (`PopInv`).
* `DelayedBrokerProofs!DelaysOnly`: `Spec => ImplementsDelayQueue`, from the same
  invariant: each step of the broker is a step of `DelayQueue` or a stutter.
  `TypeCorrect` follows from it too, since what the loop has in hand depends on `PopInv`.
* `SyncHubProofs!TypeCorrect`, `NothingLeaks`, `ListsFollowPermissions`: `TypeOK`, `NoLeak`
  and `ListFollowsPermissions`. `RestrictInv` says that while `UpdatePermissions` holds the lock the
  websockets it has yet to visit stay tracked, so that the topics it stores belong to a
  handler that still has its `Unsubscribe` before it. `BrowserOK` and `RelayOK` say which
  of a handler's subscriptions exist at each of its steps, for the orders of both
  versions. `ArgInv` says that a request under way carries what the database has, and what
  is said of the lists is kept for disabled users as well, since one may be enabled.
* `UpstreamsProofs!TypeCorrect`, `EveryUpstreamServed`, `DelUpstreamSweeps`: `TypeOK` (with
  the foreign keys), `Served` and the action property `OrphansSwept`. `LoopInv` ties the
  registry to the loops, `DelInv` says what the transaction of `DelUpstream` has seen. A
  restart numbers the upstreams to start a loop for each; that this reaches all of them is
  the lemma `RankNumbers`.
* `CameraLatestProofs!TypeCorrect`, `RefusedTokensGo`, `AnswersAreComplete`,
  `CacheStaysTrimmed`: `TypeOK`, `RefusedTokenGoes`, `AnswerComplete`, `CacheTrimmed`.
  Overlapping requests write and remove in one directory; `WindowInv` says that without a
  torn write there is always some newest snapshot `m` such that the last `Count` up to `m`
  are there, or about to be written by someone, and nobody will remove them. A request
  that then runs alone starts from such a directory (`Filled`).
* `DeviceBusProofs!TypeCorrect`, `AnswersAreOwn`, `OnePortOpen`: `TypeOK`, `OwnAnswer`,
  `NoPortLeftOpen`. `LineInv` says whose answers can be on the line or in the buffer at
  each step of an exchange; `ReopenInv` that one goroutine at a time is past the
  `CompareAndSwap`, and that no port is open between its close and its open.

The proofs that need induction over data take the least counterexample, from the
well-ordering of the naturals (`CameraLatestProofs!Least`, `RelaySyncProofs!Greatest`),
since the induction theorems with an operator as parameter cannot be used.

Only model-checked: liveness, all of it, which is out of the prover's reach
(`EventuallyReplicated`, `IngestResumes`, `HeldBack`, `SnapshotsReach`, `EventuallyRelayed`,
`ItemsConverge`, `PortReturns`, `JobEnds`, `LinkedUnavailable`), and the invariants of
`RelayConfig` (`TypeOK`, `AnnouncedStored`, `InStep`). `InStep` compares the tables of the
two ends after all events in flight have been applied, so its invariant has to say of every
event which later ones supersede it; that is the next proof to write.

## 6. What is assumed

* A `Send` that fails either arrives or the connection is broken from there on. A frame
  that timed out in yamux's queue is still sent; a torn one makes the rest unreadable.
  That the server could misread the rest as valid frames is not modelled.
* The station's clock is not set back (`ClockMayStepBack` is `FALSE`). Two readings of
  an item do not have the same millisecond.
* What a downstream's database refuses is skipped and nothing brings it back
  (`apply.go:434`); the same goes for a realtime row of version 1 on the server
  (`station_sync.go:206`). `skipped` and `lost` are exempt from the properties, which say
  that nothing else is lost with them.
* `ReplayMayOvertake` is `FALSE` in `relay_data`: violation 2 is `relay_overtaken`.
* Except in `SyncHub`, one station and one administrator's relay: the relay's items are
  those its user may read, and permissions do not change. An item of which a downstream
  has no point yet gets no history (`relay/upstream.go:303`); this is taken as intended.
* What an error of the downstream's database costs it in version 2, an event or the
  deletions of a full configuration, stays lost until the next full configuration
  (`missed`), and the properties of `RelayConfig` exempt it until then. There a device
  always comes with an item.
* The server has no `DataDelaySec` where a handler is fair (section 4).
* Statements and transactions of PostgreSQL are atomic, except that of `DelUpstream`,
  whose queries see what others commit in between.
* Both servers keep the same number of snapshots, and a camera has one upstream. The
  server does not die between two file writes of a request: that would leave the same hole
  as a failed write, which `torn` marks and exempts.
* No operator sends a command by hand: `CustomCommand` reads until a time-out and holds the
  bus for as long as the device goes on sending (`protocol/textline/session.go:58`).
* No item has the name of a device (`station_sync_func.go:86` compares the two).
* In the relay models, the handler of a connection the downstream has given up has no
  effect on the next one.
* The quiet time of the bus (500 ms) outlasts an answer that was late for the exchange
  before. An answer is read as a whole, from one port.

## 7. What is not modelled, and the plan

In the order planned:

1. Proofs: types, `AnnouncedStored` and `InStep` of `RelayConfig`.
2. The station status when handlers of both versions are there: the `Disconnected` of the
   old one lands on the `Normal` of the new one. Deleting a station closes a session of
   version 1 only (`controller/station.go:62`).
3. The other direction of permissions in `SyncHub`: what a relay or a websocket may still
   receive of items its user no longer sees (`relay/upstream.go:56`, `websocket.go:66`).
4. A crash of the server between the file writes of a camera request.

Left out for good: sensor protocols and drivers (sequential byte formats), the UART to
TCP forwarder, the generated protobuf code, users and login, the Raspberry Pi status, the sea-level pages and the HTTP handlers around one query each, logging
and configuration files, the camera images themselves.
