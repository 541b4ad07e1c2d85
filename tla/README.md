# TLA+ models of the Matter server

`matter_server` is a Matter controller behind a websocket. It commissions devices
onto its fabric, interviews them, subscribes to their attributes, keeps what it
learnt in a JSON file, manages group keys on the devices and in its own SDK, updates
their firmware, and mirrors all of it to websocket clients. Almost everything on the
server runs on one asyncio event loop, so what makes it hard is what other coroutines
and callbacks do between two awaits, what the SDK's thread does beside the loop, what
a crash leaves behind, and what devices refuse or never answer.

This directory holds a TLA+ model of each of these parts, the TLC configurations that
check them on small instances, and proofs that TLAPS checks for every instance.

Paths below are relative to `src/matter_server/`; `dc` stands for
`server/device_controller.py`.

## How to run

    tlc -workers 2 -config MatterServer.cfg MCMatterServer.tla
    tlapm MatterServerProofs.tla                       # any *Proofs.tla

A configuration `X.cfg` or `X_y.cfg` belongs to module `MCX`; where no `MCX` exists,
it belongs to `X` itself.

## The parts of the system

| part | state | operations | interacts with |
|---|---|---|---|
| persistent storage (`server/storage.py`) | the dictionary, the timer handle, the lock, the file and its backup | `set`, `remove`, `save`, `do_save`, `stop`, `_load` | every part that persists something |
| node life cycle (`dc`, `server/sdk.py`) | `_nodes`, `_setup_node_tasks`, `_subscriptions`, mDNS records and debounce timers | setup, interview, subscription and its callbacks, `remove_node`, `_node_offline`, mDNS | SDK, mDNS, devices; events to clients |
| commissioning (`dc`) | `last_node_id`, `_nodes`, what is stored of both | four commissioning commands, `interview_node`, `remove_node` | storage, node life cycle, devices |
| group keys on devices (`dc`) | `_group_key_store`, `_group_provisioned_nodes`, `_known_keysets_per_node`; on each device its keyset table, GroupKeyMap, group table and ACL | `group_add`, `group_remove`, `group_remove_all`, `group_reset_node`, `group_key_set_remove`, `group_add_key_set`, `group_bind_key_set`, `set_acl_entry`, `send_group_command` | devices, storage, the controller's own keys |
| group keys of the controller (`dc`, `server/server.py`) | the entries of the SDK's key-value store: FabricData, key maps, keysets | injection, groupcast with its retry, start-up cleanup | the SDK, which walks these lists |
| software updates (`dc`, `server/ota/provider.py`) | `_nodes_in_ota`, `_attribute_update_callbacks`, a provider process and a future per call | `update_node` and the provider's start, wait and stop | the device, the subscription's reports |
| update selection (`server/ota/__init__.py`, `server/ota/dcl.py`) | the local update files | `load_local_updates`, `check_for_update` | the DCL |
| attribute cache (`dc`, `client/client.py`, `client/models/node.py`) | the node objects, the client's copy | reports, `read_attribute`, interviews, endpoints of bridges | devices, clients |
| client session (`server/client_handler.py`, `server/server.py`, `client/`) | queue, writer, subscribers, futures | connect, listen, events, commands, teardown | clients |
| server process (`server/server.py`, `__main__.py`) | how far `start()` or `stop()` is | start and stop of every part, in order | storage, SDK, certificates, vendors |
| PAA certificates (`server/helpers/`) | the directory and its marker | `fetch_certificates` at start | DCL, GitHub |
| vendor information (`server/vendor_info.py`) | a table | fetch, store, read | DCL, storage |
| SDK stack (`server/stack.py`, `server/sdk.py`) | the native stack, its subscriptions | set-up, `shutdown` | every part that talks to devices |
| commissioning windows (`dc`) | parameters and a timer per node | `open_commissioning_window` | devices |
| bindings and ACL commands (`dc`) | lists on the device | read, change, write back | devices |
| custom attribute poller (`dc`) | the attributes polled, a timer, a task | rounds of reads | node life cycle, devices |
| fabrics, ping, device commands (`dc`) | none of the server's | one call to the SDK each | SDK |
| messages and conversions (`common/`) | none | dataclasses to JSON and back | |
| device types and clusters (generated) | none | tables | |
| dashboard and scripts | user interface | | client session |

What is hard in each part, and what makes it correct:

- **Storage.** A save is delayed by cancelling and re-arming a timer, or forced as a
  task; saves queue on a lock and work in an executor thread in four steps, any of
  which may be the last before a crash. A request must not be dropped, and a restart
  must find the last completed save.
- **Node life cycle.** Setup, removal, going offline and mDNS interleave at every
  await; setup tasks are cancelled and reaped by callbacks that act later. At most one
  setup works on a node, subscriptions are neither leaked nor handed out while they
  are shut down, and a device that stays up is subscribed in the end.
- **Commissioning.** Ids are handed out before they are saved, commands overlap and
  fail half way, also after the device has joined. Ids stay unique, and a device stays on
  the fabric unknown only by one of the failures the property lists.
- **Group keys.** Every call reads device lists, changes them and writes them back with
  awaits between; tables fill up, keysets are evicted and shared, exchanges fail before
  or after their effect. A recorded node can be reached, no keyset is orphaned, no call
  harms another group or node.
- **Controller's keys.** The lists are edited behind the SDK's back; the SDK must still
  find its own IPK and the right group key.
- **Updates.** The verdict depends on seeing every state of the device in order, through
  a thread, a cache that is compared against, and a loop. Processes are reaped,
  callbacks belong to calls; the verdict is true and each call ends, outside the
  misreadings the properties name.
- **Attribute cache.** Reports are posted from a thread, reads and interviews resume
  later with what was sampled earlier. Server and client catch up with the bridge.
- **Client session.** A bounded queue, a slow reader, two ends that may go away. A
  client has every event in order or its session ends.
- **Server process.** `start()` may fail at any await and the loop then goes on without a
  server; `stop()` walks over subscriptions that change meanwhile and may fail before it
  comes to the storage; the power may go at any time. What was requested is saved, what
  is loaded is the last save, and a certificate directory that is marked is complete.
- **Windows and bindings.** A command looks at state, awaits the device, and acts on
  what it saw; timers of earlier windows are still to fire. Parameters handed out are
  those of the open window; no binding command undoes another.
- **Poller.** Every setup arms its timer, also in the middle of a round; nodes come and go
  meanwhile. One round at a time, and a node that stays available is polled for ever,
  unless setups keep coming.

## The modules

| module | models | variables ↔ code |
|---|---|---|
| `DurableStore` | what `StorageController` promises | memory, newest change, what a restart would load |
| `Storage` | `server/storage.py` | `timer` = `_timer_handle`, waiting, due or fired; `queued`, `phase` = callers of `async_save` at the lock and the steps of `do_save`; `main`, `backup` = the files; `stopAhead` = saves `stop()` stands behind |
| `NodeLifecycle` | `_setup_node*`, `_subscribe_node`, `_interview_node`, `remove_node`, `_node_offline` and the mDNS callbacks of `dc`; subscriptions in `server/sdk.py` | `known`, `avail`, `fresh` = the object in `_nodes`; `entry` = `_setup_node_tasks`; `pc`, `hold` = each setup task and the object it captured; `tracked`, `sub` = `_subscriptions` and the SDK's own; `ahead` = the order at the node's lock; `view` = what clients were told |
| `GroupKeys` | the group, keyset, binding and ACL commands of `dc` that touch group keys | `keyStore`, `provisioned` (`_group_provisioned_nodes`), `tracker` (`_known_keysets_per_node`), `savedNodes` (stored copy); `keyset`, `keyMap`, `member`, `acl` = the device; `call` = what a call read and still holds; `setting` = the circumstances of a behaviour |
| `ControllerKvs` | injection, `send_group_command`'s retry, `_cleanup_corrupted_group_storage` | `fabric`, `keysets`, `maps` = the KVS entries |
| `OtaUpdate` | `update_node`, `ExternalOtaProvider` | `done` = `_ota_done`; `proc` = the process; `loop` = posted callbacks; `stored` = the cached UpdateState; `sample` = what an interview read; `device`, `reported` = the node; `may` = the circumstances of a behaviour |
| `UpdateCheck` | `check_for_update`, both of them | `dcl` = what the DCL lists; `todo` = versions still to try |
| `AttributeCache` | reports, reads, interviews, endpoints, the client's copy | `bridge`, `objects`, `live`, `posted`, `mirror` |
| `EventStream` | what a session promises a client that listens | events that happened, the last one the client has, before / listening / over |
| `ClientSession` | both ends of a websocket session | `queue` = `_to_write`; `handler`, `writer` = the two tasks; `futures` = `_result_futures` |
| `Commissioning` | node ids and what the four commissioning commands do with them, with the scan of `commission_with_mac` | `last`, `nodes` and their saved copy `disk`; `call`, `reading`, `removing`; `fabric` = the id each device has |
| `MatterServer` | `start()` and `stop()` of `server/server.py`, `server/helpers/paa_certificates.py`, `shutdown()` of `server/sdk.py`; EXTENDS `Storage` and takes its actions where the server calls them | `stage` = how far start or stop is; `certs`, `marker`, `wanted` = the directory; `subs`, `visited` = the walk of `shutdown()` |
| `DeviceCommands` | `open_commissioning_window`, `set_node_binding`, `binding_add`, `binding_remove` | `known`, `timer`, `armed` = parameters and timers; `window`, `bindings` = the device; `call` = what a command saw |
| `AttributePoller` | the poller of custom attributes and the setups and removals that change its table | `polled` = `_polled_attributes`; `timer` = the poller's timer; `rounds` = its tasks |

`MC*` modules hold what TLC needs beside a module: symmetry and the sets a
configuration names. `*Proofs` modules hold the proofs about the module they name,
`MatterServerProofs` also those about `Storage`, `DeviceCommandsProofs` those about
`ControllerKvs`, `OtaUpdateProofs` those about `UpdateCheck` and `AttributeCacheProofs`
those about `AttributePoller`. Two modules that share a `*Proofs` module share no state;
`ControllerKvs`, `UpdateCheck` and `AttributePoller` give their definitions names of
their own (`KvsNext`, `SearchNext`, `PollerNext`) so that both can be extended.

`MatterServer` is a composition: its steps on the storage are `Storage`'s own actions, so
what is checked and proved about one holds of the other. The other modules share state
only through what they name: `AttributePoller` takes the setups and removals of
`NodeLifecycle` at the points where they touch its table; `ControllerKvs` takes the
key store of `GroupKeys` as changed by whole calls, since nothing is awaited between the
change and the injection; `OtaUpdate` takes one attribute of `AttributeCache`.

An action is what the code runs between two awaits, with every call it makes.
Comments name the method. Data is abstracted to what guards and properties tell
apart: the stored dictionary is the number of its last change, a node object the two
facts the code tests, an epoch key the number of its generation, an event its index.

Each module ends its actions with a few definitions named after another one with a
suffix, such as `AdmitKeepsCallback` or `RunPartsKeepsRemoved`. No action uses them.
They are the mistakes a change of the code could make (a dropped guard, a forgotten
reset, a swapped order); putting one in the place of the definition it is named after
makes the property it was written for fail, so every property of a run is known to
depend on that line of the code.

Each module has a `TypeOK` (`ServerTypeOK`, `KvsTypeOK`, `SearchTypeOK`, `PollerTypeOK` in
`MatterServer`, `ControllerKvs`, `UpdateCheck`, `AttributePoller`). It holds on the
instances below and can be added to a `.cfg` when a module is changed; where proofs rest
on it, it is proved.

## What the runs check

| run | module | distinct states | question |
|---|---|---|---|
| `server` | `MCMatterServer` | 471 thousand | start, stop, failures and power cuts around the storage |
| `node_kept` | `MCNodeLifecycle` | 51 thousand | setup, loss and recovery of a node nobody removes |
| `node_removal` | `MCNodeLifecycle` | 1.5 million | the same against two removals |
| `groups` | `MCGroupKeys` | 1.9 million | group, keyset and binding calls in six settings |
| `kvs` | `ControllerKvs` | 28 thousand | the SDK's lists of keys |
| `ota` | `MCOtaUpdate` | 691 thousand | overlapping updates with failures |
| `update_search` | `MCUpdateCheck` | 971 thousand | which update is found |
| `attributes` | `MCAttributeCache` | 2.5 million | server and client catch up with a bridge |
| `session` | `ClientSession` | 169 thousand | events and commands over a session |
| `commissioning` | `MCCommissioning` | 1.9 million | ids and stray devices |
| `device_commands` | `MCDeviceCommands` | 95 thousand | windows and bindings |
| `poller` | `AttributePoller` | 524 thousand | rounds of the poller |

All of them are exhaustive; the longest takes under three minutes with two
workers.

### `server`: MatterServer.cfg

Three changes of the data (`MaxVersion`), two forced saves waiting at the lock
(`MaxQueued`; a third cannot get further than the second), one subscription, two
certificates of one source; starts, stops, failures and power cuts without bound.

- `RequestedSaveScheduled`: what `set()` or `remove()` asked to save is on disk, armed,
  queued or under way.
- `StopWritesPending`: what the storage's `stop()` undertakes to save, deciding by the
  timer handle, is on disk when it returns. It promises nothing about forced saves still
  queued; those are lost if no handle is set.
- `StopKeepsRequests`: the same seen from the server's `stop()`. What was to be saved
  when the last subscription went down is on disk at its end, but for forced saves
  that nobody waits for.
- `MarkedIsComplete`: a certificate directory with a marker, which is not looked at
  again for a day, has every certificate unless a download failed.
- `ImplementsDurableStore`: refinement of `DurableStore`; a restart begins from the
  last completed save after a crash at any step.
- `RequestReachesDisk`: a request reaches the disk unless the process ends first, or
  delayed requests come again and again, each before the timer of the one before is due
  (`Postponed`): `save()` cancels that timer and arms another one of 120 seconds. A timer
  is armed, then due (`TimerExpires`), then fired; only the last two steps are the loop's,
  and a timer that is not due yet can be cancelled any number of times.

Three versions suffice for a request before, during and after a save with a crash
between: the code compares versions only through the order of its own steps. One
subscription that comes and goes is enough for the walk of `shutdown()` to meet a
dictionary of another size.

### `node_kept`, `node_removal`: NodeLifecycle_kept.cfg, NodeLifecycle_removal.cfg

`node_kept`: nobody removes the node; two setup tasks (one being reaped while the next
works), one interview, one offline task, two subscriptions, power cycles without bound.
`node_removal`: two concurrent removals instead of the interview. Three of the
properties hold only while nobody removes the node, and the two runs draw that line:
a setup that mDNS starts while `remove_node` awaits the shutdown keeps working on a
node that is gone.

- `OneSetupTask`, `NoLeakedSubscription`, `AvailableIsSubscribed` (kept).
- `SubscribedAgain` (kept): a device that stays up is subscribed in the end.
- `TrackedIsOpen` (removal): `_subscriptions` never names one being shut down.
- `ViewIsCurrent` (removal): clients know the availability of a known node.

### `groups`: GroupKeys.cfg

Groups 1 and 257 (the brute-force sweep of a reset reaches the keyset of the first and not
that of the second), two nodes. The questions need different
circumstances, and all of them together are beyond enumeration, so a behaviour begins
by choosing one of six settings (`AllSettings`):

- `Sequential`: every sequence of calls for two nodes, tables with room for both groups.
- `Concurrent`: two calls at a time for different nodes that expose GroupKeyTable.
- `Resetting`: the same with resets, which drop keys that an addition elsewhere is using.
- `Faulty`: one node, one slot in each table (so that the second group meets eviction and
  reuse of the other's keyset), exchanges that fail before or after their effect, restarts;
  every command but the reset, which `FaultyReset` has beside additions, keyset removals and
  groupcasts.
- `Direct`: one node whose tables a client also writes itself, by `group_add_key_set`,
  `group_bind_key_set` and `set_acl_entry`.

`ProvisionedIsUsable`, `KeysetsAccounted` and `OthersUndisturbed` speak of a healthy
network (`Healthy`: no faults or restarts, room in the tables, no client that writes them
itself; calls at a time are for different nodes, and where there are resets, keyset
removals or groupcasts, one call at a time). `NoNodeForgotten` and `ProvisionedHasKey` hold in all
settings; the latter excepts a group whose key a reset dropped while a node was being
added to it. `CallsAdvance` says that every exchange brings a call nearer to its end, by
a ranking of its stages and of the lists it works through: a call whose exchanges
all end, ends, and no fairness need be assumed to say so.

Concurrent calls for one node are left out of the settings on purpose: they lose each
other's ACL entries and bindings, see below.

### `kvs`: ControllerKvs.cfg

Two groups, six key map ids (as many injections between restarts), four epoch keys.
`KeysetListSound` (the keyset list reaches the IPK, is as long as its count, and ends
there) holds until a keyset is listed a second time (`relisted`); `SentUnderStoredKey`
excepts keysets whose key was replaced while another group still stored the old one
(`replaced`). Both history variables name a defect the code has; the properties say it
is the only one.

### `ota`: OtaUpdate.cfg

One node with every state of `UpdateStateEnum` (a delay for the user's consent counts as
one on the query), one loss of the connection, two callbacks posted at a time, and one of
three settings (`ThreeSettings`), since all that may happen at once is beyond enumeration:
two overlapping calls whose steps fail; one call against delays, refusals, rollbacks and
failed downloads; one call against these, but for the delays, and interviews, which
sample the node and write what they sampled later. An interview may thus put an old
state over a newer one.

`NoProviderLeft` and `CallbacksAreOfCalls` hold without exception. `OutcomeIsTrue` has two
halves. "ok" means that the image was applied, unless a state went past the callbacks
(`"state"`: a report dropped because the cached value was compared too early or written by
an interview, a state left before it was reported), or the node went back to idle from
something else than querying without the update (`"abandoned"`: a failed download, an
update called off while it was delayed, a rollback), which `check_update_state` takes for
success. "failed" means that it was not applied, unless a state went past the callbacks
or the node was offline. `UpdateEnds` excepts, besides such states, announcements
without a subscription (`unseen`: `update_node` needs none, and a whole update may go
unreported while the call waits) and a node that is delayed again and again.

The queries a node makes on its own, with no announcement, are not modelled.

### `update_search`: UpdateCheck.cfg

Every DCL of three versions with descriptions that fail at most one guard, every
request, three local files in every order. `SearchIsRight`: the newest applicable update,
and what was asked for.

### `attributes`: AttributeCache.cfg

A bridge with two endpoints that changes twice, a read, two interviews, removals.
`CacheConverges`, `MirrorMatches`: `raced` and `parted` name the attributes a known race has
touched; every other one converges. `OnlyOrphanReadsFail`: a client's session breaks on an
attribute event only when a `read_attribute` ends while the node is gone; reports posted
before a removal, and everything after an interview put the node back, do not break it.

### `session`: ClientSession.cfg

A queue of two, a socket that takes one unread message, two events, two commands;
connections drop, either side stops, a command's task is cancelled in the server, the
client may listen twice or send an invalid command. `NothingMissed`: the message taken
for the dump is the dump; and while the client is served, the events in the socket, in
the queue and posted to the loop are, one after the other, all those after the last one
it has. `ImplementsEventStream`: refinement of `EventStream`; the client begins with a
state the server has had, an event is applied only after the one before it and after it
was signalled, also while the session is torn down, and none once it has ended.
`SessionEnds`, `CommandsEnd`.
`hurried` is set when a command is sent before the client listens; `cut` are commands
whose task was cancelled by somebody else, which nobody answers. A wrong first message
(`confused`) ends the client's session as any other exception does.

### `commissioning`: Commissioning.cfg

Two devices, two commands at a time of the four kinds, two interview tries (three in the
code), ids up to 2, one crash, one `interview_node` at a time (`MaxReading`; those of
different ids touch different entries). `UniqueIds`, `NextIdIsFree`, `NoStrayDevice`.
`lost` are ids handed out and unsaved at a crash. `causes` are ids whose device was left
on the fabric by one of five things: commissioning that failed after the device had
joined (`CommissionFailsLate`), an interview that raised anything but
`NodeInterviewFailed` (`InterviewBreaks`), interviews that used up their tries, an
unpairing that failed, a crash. `NoStrayDevice` says that nothing else leaves one: no
overlap of commands, interviews, removals and resets.

### `device_commands`: DeviceCommands.cfg

Two commands at once, four windows (one open, one timer each of two earlier ones, and
one that another administrator opens), three binding targets of two nodes in a list with
room for two; windows close early or time out; restarts. Window commands and binding
commands share nothing, so a behaviour has one kind of them. `ParamsOfOpenWindow` excepts
overlapping window commands (`overlapped`) and windows another administrator opened;
`BindingsAsAsked` excepts writes of a list that had changed since it was read (`tangled`).

### `poller`: AttributePoller.cfg

Three nodes, setups without bound, removals at any point. `OneRoundOfKnownNodes`: rounds do
not overlap although setups arm the timer in the middle of one, and only known nodes are
polled, unless mDNS set one up during its removal (`revived`). `PolledAgain`: a node that
stays available is polled again and again, unless setups keep coming (each arms the timer
anew, and the timer cancels the round at work: TLC finds the later nodes of the table
starving without the exception), or a round met a node that is gone (`broken`).

### Where a model may stop

Deadlock is checked for `server`, `node_*`, `groups`, `kvs` and `device_commands`.
`OtaUpdate`, `UpdateCheck`, `AttributeCache`, `ClientSession`, `Commissioning` and
`AttributePoller` have calls and sessions that happen a bounded number of times, or nodes
that may all be removed, so their behaviours end, and `CHECK_DEADLOCK FALSE` says
so; whether something waits for ever there is asked by `UpdateEnds`, `SessionEnds`,
`CommandsEnd` and `PolledAgain`.

## Fairness

- `Storage`, `MatterServer`: a timer that nobody cancels becomes due, the loop runs it, the
  executor thread takes the steps of a save. Nothing is assumed of callers, who may re-arm
  the timer for ever (`Postponed`, which `RequestReachesDisk` excepts), of crashes or starts.
- `NodeLifecycle`: the loop runs every ready task; the SDK notices a lost subscription
  and finishes a shutdown; a device that is up keeps announcing itself. Strong fairness
  for connecting, interviewing, subscribing and resubscribing: of an unending series of
  attempts on a device that is up some succeed. `SubscribedAgain` assumes the device
  stays up and is only then a claim about the server.
- `GroupKeys`: none. That calls end is stated as a ranking (`CallsAdvance`).
- `AttributePoller`: the loop fires due timers and runs the round; its reads have an SDK
  timeout. Nothing is assumed of removals or nodes; setups that keep coming are the
  exception `PolledAgain` states, not an assumption on them.
- `OtaUpdate`: the loop and the calls progress, a node that is connected reports and acts on
  announcements. External steps may still fail instead of succeed, a node that lost its
  subscription need not get it back, and one may be delayed for ever (excepted).
- `ClientSession`: both event loops run what is ready, commands of the server end.
- The other modules are checked for safety only.

## What is proved

Each argument is an inductive invariant: the property itself is seldom one.

`MatterServerProofs`, of the storage alone, for every `MaxVersion` and `MaxQueued`:
`TypeCorrect`, `RequestsAreScheduled`, `StopIsDurable` and `StorageRefinesDurableStore`.
`IInv` adds `FilesInv` (the main file is never torn, there is no backup without it, and
it exists while it is copied), `OrderInv` (the dump under way lies between what is
loadable and what is in memory, nothing requested is newer than memory) and `LifeInv`
(what `stop()` undertook is in memory, and is in the dump when its own save is about to
rename). `RequestedSaveScheduled` needs `OrderInv`, because a rename must not replace
the file by an older dump; `StopWritesPending` needs `LifeInv`, which follows the saves
ahead of `stop()`'s own to the last one. The refinement maps a change of the data to
`Change`, a completed rename to `Persist`, the end of the process (by `Exit` or `Crash`)
to `Restart`; the other steps stutter.

`MatterServerProofs`, of the server, for every set of devices, certificates and sources:

- The server's steps on the storage are `Storage`'s actions by construction (lemma
  `ServerUsesStorage`, which claims nothing about the code), so `IInv` holds of the server
  (`ServerIInv`).
- `CertificatesComplete`. `CertInv` adds that, unless a download failed, what is in the
  directory and what is still wanted make up the whole list.
- `StopKeepsWhatWasRequested`. `DueInv` relates how far `stop()` is to what was requested,
  what the storage's `stop()` took over, and what is in memory.

`NodeLifecycleProofs`, for every set of actors and subscriptions:

- `TypeCorrect` and `TrackedSubscriptionIsOpen` without further assumptions. The latter
  is inductive with the type invariant: whoever shuts a subscription down takes it out of
  `_subscriptions` in the same step.
- `SetupIsExclusive`, `SubscriptionsAreTracked`, `AvailableNodesAreSubscribed` from
  `Removers = {}`. `KeptInv` adds that the node stays known, that only the registered
  setup task is not idle, its done callback included (`OnlyRegistered`), and that a task
  that has not ended works for a node without a subscription (`WorksUnsubscribed`). The
  second needs the first, since another setup could subscribe meanwhile; together they
  exclude that a setup overwrites a subscription, which is the leak. The assumption is
  needed: with a removal TLC finds the setup that works on unregistered.
- `ClientsSeeTheNode` from `Interviewers = {}`, removals included. `MirrorInv` adds that a
  setup is about to subscribe with the object `_nodes` holds (`HoldsCurrent`), because
  only setups that come before the first subscription interview (`InterviewsOnce`,
  `NeverSubscribed`). An interview on request replaces the object meanwhile and takes
  the assumption away, see below.

`CommissioningProofs`, for any number of devices, commands, ids, tries and crashes:
`NodeIdsAreUnique`, `NextIdIsUnused`, `StrayDevicesAreKnown`. `IInv` says that commands
have ids of their own, none beyond `last_node_id` (`CallIds`; a crash takes `last` back but
ends the commands), that ids in use beyond it are those a crash lost while their device
stayed on the fabric (`UsedIds`, `Stale`), that the id a command is about to give away
is no device's (`FreshIds`), and that of the commands only one that interviews its
device answers for a device the server does not know (`NoStray`), while one that failed
after the device had joined, or left its interviews by an exception, is a cause.

`GroupKeysProofs`, for any nodes, groups, concurrent calls and settings:

- With faults, full tables, direct writes and restarts: `GroupTypes`,
  `NodesAreNotForgotten`, `KeysOutliveNodes`, `CallsComeToAnEnd`. `TypeInv` says at which
  of its awaits each command may be and what it holds there (`Shape`). `CallsAdvance`
  compares the stages and the sizes of the lists a call works through before and after
  each of its exchanges.
- In a healthy network: `GroupcastReaches`, `NoOrphanedKeysets`, `OtherGroupsKeepWorking`.
  `HealthyOK` adds what the properties cannot say about calls under way: a `group_add`
  holds the key of its group and all it did so far is in place (`AddOK`); a list that is
  about to be written back is still what was read, because the calls for a node are not
  concurrent; keysets without a binding are those a call has still to deal with
  (`CallOK`); every binding is to the group's own keyset, which needs that different
  groups have different keyset ids (`NodeOK`, `KeysetIds`).

`OtaUpdateProofs`, for any number of calls and whatever fails:

- `OtaTypes`, and `ProvidersAreReaped`: `ProviderInv` says between which steps of a call
  its process exists.
- `CallsAreCalledBack`: `CallbacksInv` adds that the list has no call twice, so that
  removing one entry removes the call.
- `OutcomesAreTrue`. `OutcomeInv` adds that whomever the node, the loop and the callbacks
  name was let through (`CallsInv`, `NodeInv`), and that the reports, the posted states and
  the future of a call that is alone are true of the node until it is told that the node
  is offline (`TruthInv`). An announcement needs no subscription: then nothing the node did
  since has been reported or waits on the loop (`Silent`), and the subscription that comes
  later reads the state as it is then.
- Of `UpdateCheck`, for any finite set of versions and any descriptions, files and
  requests: `SearchTypes`, `NewestOfferedIsFound`. `SearchInv` says that every version that
  may be offered is still to be tried while the search goes on: what was tried was
  refused. `GreatestNatural` gives the newest of them, `LocalUpdateMatches` the local file
  found for a request.

`ClientSessionProofs`, for any number of commands and events and any size of queue and
socket: `SessionTypes`, `NothingIsMissed`, `SessionIsAStream`.

- `StreamInv` follows the numbers: the dump counts as the number it carries, so that dump
  and events form one run. There are two numbers between what the client has and the last
  event, such that the socket carries the messages up to the first, the queue those up to
  the second, and what is posted are the others (`Carries`). While the session closes, the
  queue counts only up to the mark that ends it, and nothing once the writer is gone.
- `StartInv` and `HurriedInv` give the beginning: the server's information is the first
  message, and nothing but the dump and what follows it comes after, unless a command
  was sent. Hence the message taken for the dump has the first number, and is the dump.
- The refinement maps a signalled event to `Happen`, the receipt of the dump to `Begin`
  and of an event to `Tell`, the end of the session to `End`; the other steps stutter.
  `StreamInv` makes the next event the one after the last; that it has happened needs
  `PastInv`: no number on its way or applied is beyond the last one signalled.

`AttributeCacheProofs`, for any endpoints and any number of reads, interviews, removals
and changes of the bridge, as long as the interviews of a behaviour are finitely many:

- `CacheTypes`. `ObjectsInv` says that node objects are taken up one after the other, so
  that an interview always finds one of its own, which was empty.
- `ClientHandlesEvents`. `NodeInv`: the client has the node as long as `_nodes` has it,
  since both change in the same step. Callbacks check that the node is there before they
  send; a read does not, and is the step the property leaves.
- `ServerCatchesUp`. `ServerInv` is about an endpoint no race has touched: what was sampled
  of it is still so (`ServerReads`), a value that waits on the loop is the bridge's or a
  newer one is still to be reported (`ServerGets`), and what the server has is the
  bridge's, or something that will replace it is on its way (`ServerAgrees`).
- `ClientCatchesUp`. `ClientInv` needs more than that the client has what the server has,
  or a list or an interview is on its way (`ClientAgrees`): the client drops the value of
  an endpoint it does not have, the server keeps it. So whatever waits must be of an
  endpoint the bridge has (`Settled`, `ClientReads`), and an endpoint the bridge has must
  be the client's, or be expected from a list or an interview that will find it
  (`ClientHas`). `Settled` rests on `ListsInv`: a waiting list was compared with one the
  server had, so an endpoint that comes for the first time cannot be in it.
- Of the poller, for any nodes: `PollerTypeCorrect`,
  `PollerIsConsistent`, `OneRoundAtATime`. `PollerInv` adds that the table has a node once,
  so that `remove_node` takes all of it out (`WithoutOne`, from what `RemoveAt` does to the
  positions), that a setup at work is of a node of the server or began while that was
  being removed, and that a round that reads or pauses has a node to come back to.

`DeviceCommandsProofs`, for any number of commands, windows and targets:

- `BindingsComeOutAsAsked`. `BindingInv` adds that what a command is about to write is its
  own change of what it read.
- `KeptParametersAreOfOpenWindow`. `WindowInv` adds that, unless they overlapped, one
  window command is at work at a time, that the timer kept is the one of the parameters
  kept and the only one that may still drop them, and that what a command has seen so
  far leads to the window it will store.
- Of `ControllerKvs`, for any groups, map ids and keys: `KvsTypeCorrect`,
  `KeysetListCorrect`, `GroupcastKey`. `KeysetsListed` says that, until a keyset is listed
  twice, the walk of the SDK visits as many keysets as are counted, each once and the IPK
  among them, and ends (`IsList`); `MapsListed` says the same of the key map entries,
  always, because a draw of an id in use is left out of the model. `FirstEntryCurrent`
  says that the first entry of a group names the keyset the server stores for it, which holds the stored key unless
  it was replaced. `ListPrepended` is what an injection does to a walk.
  The walk is a recursive function, and there is no induction over it: were it to leave
  the list, there would be a least step at which it does (`LeastNatural`, from the
  library's well-foundedness of `<`), and the step before excludes that (`WalkOfList`).

Only model-checked: the liveness properties (`RequestReachesDisk`, `SubscribedAgain`,
`UpdateEnds`, `SessionEnds`, `CommandsEnd`, `PolledAgain`) and the consequence of `CallsAdvance`
that calls end, since fairness and ENABLED are beyond TLAPS. Every safety property and
every action property of a run is also a theorem.
`DurableStore` and `EventStream` promise no progress, so their refinements are matters of
safety; `RequestReachesDisk` is the liveness of the store, `SessionEnds` and `CommandsEnd`
that of the session.

The constants are assumed to be what the code makes them, in an `ASSUME` of each module
that TLC evaluates on every run: `KvsAssumption` has the ranges of group ids
(1 to 0xFFF7) and of drawn map ids, `SearchAssumption` that versions are finitely many
naturals and no version is also a name.

## Assumptions about devices and libraries

- A `KeySetRemove` leaves the device's GroupKeyMap bindings in place.
- A request and its reply are one exchange; with `Faults` the reply may be lost after the
  effect, or the request before it.
- A node queries once for every OTA announcement, and at no other time.
- The PartsList comes before the attributes of new endpoints in a report.
- The SDK finds keys by walking its lists for at most their count, prepends, and lists
  the IPK when it creates the controller.
- Websocket messages arrive in order or not at all.

## What the models show the code does not do

Properties are stated as strongly as the code keeps them. Where it falls short of what
one might expect, the model contains the behaviour and the property says where it ends.

Storage and nodes
- A node's stored value is the live object, so `set()` compares it with itself and
  schedules no save for attribute updates (`server/storage.py`:73, `UpdateNode`).
- Delayed saves less than 120 seconds apart postpone each other for ever
  (`server/storage.py`:138): `save()` cancels the timer and arms it anew (`Postponed`).
- A forced save still queued when the process stops is lost if no handle is set.
- An interview that runs while `_subscribe_node` awaits its read replaces the object the
  setup marks available; the node is then subscribed and shown as unavailable.
- `stop()` before `start()` has finished raises "Server not started." and saves nothing. A
  `stop()` that meets a change of `_subscriptions` while it walks over them
  (`server/sdk.py`:128) raises too, and the storage is not stopped.
- A failed start leaves the loop running without a server.
- Failed certificate downloads are marked as done for a day, and `fetch_certificates`
  returns the count of its last source only.
- The vendor table has ids as numbers when they were fetched and as strings when they
  were loaded.
- mDNS during a removal starts a setup, whose subscription outlives the node; an
  interview that was reading stores the removed node again.

Commissioning
- The branch that unpairs a device whose interviews failed (`dc`:454) tests `retries <= 0`
  inside `while retries`, so it is never taken. Commissioning goes on with the setup task.
- Removing a node cancels the setup task that the commissioning command awaits; the
  command is never answered (`cut` of `ClientSession`).
- The discriminator parsed from an advertisement (`dc`:868) always has bits 4 to 7 at zero;
  the comment above it describes all twelve bits.
- An id handed out but not saved before a crash is handed out again.
- A device that joined before its commissioning failed (a lost reply, an id that does not
  match) is never unpaired. Neither is one whose interview raised something else than an
  SDK error: `InteractionModelError`, a read that returned `None`, or a `KeyError` at
  `dc`:1088 leave the retry loop at once.

Group keys
- The comments at `server/server.py`:100 and :130 say `start()` recreates the controller's
  group entries after the cleanup; `start()` (`dc`:218) says they are still there and
  injects none. In the model (`Restart`) groupcasts after a restart are served by the
  0xAC retry alone, which is why `SentUnderStoredKey` is about what leaves.
- Injecting a keyset that is listed already (purge and re-add, a reused keyset, the retry)
  makes it its own successor or cuts off the IPK, and counts it twice.
- A failed read of GroupKeyMap looks like an empty map, and cleanup then removes
  keysets that are in use.
- Two calls for one node lose each other's ACL entries and bindings.
- A device that does not report the capacity of its group table is taken to have room; if
  it has not, `AddGroup` is refused unnoticed and the node is recorded all the same.
- A group mapped to another keyset leaves the old binding's keyset to be cleaned up
  later; a reuse moves the group to another group's key on all later nodes.
- `group_reset_node` and `group_key_set_remove` do not write `group_nodes` when a group
  loses its last node, so a restart brings those nodes back.
- `remove_node` leaves the node in the group records.
- A reset that takes a group's last node off drops the group's key, also while a
  `group_add` for another node is under way; that node is then recorded for a group
  without a key (`dc`:1562).

Windows, bindings, poller
- Two overlapping `open_commissioning_window` calls leave the parameters of one window
  with the timer of the other; while a window that another administrator opened is open,
  the parameters of an earlier one are handed out.
- Overlapping binding commands undo each other.
- A round of the poller that meets a removed node, or one that was set up while it was
  being removed, raises, and nothing is polled until the next setup.
- Setups that keep coming cancel each round before it gets to the later nodes (`dc`:3756).

Updates
- A call refused because the node is being updated clears the mark of the one in
  progress, so that a third is let in and the first ends in a `KeyError`.
- Every way back to "idle" that does not come from querying is reported as success, a
  failed download, a rollback and an update called off while it was delayed included
  (`server/ota/provider.py`:376). States that are coalesced or skipped make a success look
  refused; a dropped report leaves the call waiting without a timeout.
- `update_node` needs no subscription. Announced without one, an update may run to its end
  unseen, and the call waits for ever; so it does for a node that is delayed for ever.
- An interview writes the state it sampled before an await over what was reported since.
- A local update file is used whatever its version is, also an older one.

Clients
- A new endpoint that returns before the server took up its removal goes unnoticed, and
  one that vanishes between two interviews stays at the client.
- A `read_attribute` that ends after the node was removed sends its event all the same; the
  client raises on it and its session ends.
- A failed `connect` cannot be repeated; the first message after START_LISTENING is taken
  for the dump, whatever it answers. An answer that is a list of nodes itself would pass
  for it; the model does not follow such a client.

## What is not modelled

- Single SDK calls without state of the server: fabrics, ping, device commands,
  `write_attribute`, diagnostics, the read-only group commands.
- Conversions and messages (`common/models.py`, `common/helpers/`): dataclasses to JSON and
  back. The modules take messages as records; what is open to question there is the
  round trip of `parse_value`, see the plan.
- Generated tables (device types, clusters), the decoding of vendor attributes, the table
  of vendors, the dashboard and the scripts.
- Inside the modelled parts: the throttling of Thread devices, durations (timers only
  order events), labels of fabrics, discovery and credentials of commissioning, the
  conversion of certificates, the QR code of the provider's log, events of devices other
  than their attributes.

## Plan

Done: the parts that carry the server (storage, node life cycle, group keys, updates,
attributes, sessions, commissioning), then the server process around the storage, the
certificates, windows, bindings and the poller.

1. `remove_node` composed with the group records and `send_group_command`.
2. The round trip of `parse_value` and `dataclass_to_dict`, as functions over the
   annotations the models use.
3. Runs that state the comment at `server/server.py`:100 and the layout above `dc`:863 as
   properties and show where the code departs from them.
