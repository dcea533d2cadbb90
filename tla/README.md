# The Ufanet intercom integration in TLA+

This directory models `src/custom_components/ufanet_intercom`, a Home Assistant
integration (one asyncio event loop, no threads of its own) that talks to the
Ufanet/UCAMS cloud, with the archive tab of its dashboard card (`src/frontend`) and
those research probes of `src/tools` that change an account. It holds TLA+ modules
translated from the source, TLC configurations that check them on small instances, and
TLAPS proofs of what matters most for every instance.  `PROJECT.json` relates every
definition to the lines it stands for.

## Inventory

| part | source | state | operations | what makes it correct |
|---|---|---|---|---|
| calls | `coordinator.py:292-431`, `__init__.py:297-589`, `fcm.py:725-767` | seen uuids, batch of new calls, media cache, latest call per camera; the entry's stage | refresh (poll, push, trailing), failures, publication, reload | each call fired once, none after a newer batch, none lost while somebody listens, polling never dead |
| key passages | `coordinator.py:67-289`, `key_coordinator.py`, `__init__.py:459-478` | one persisted cursor per intercom, batch, key counts | refresh in three requests, cursor advance, save and rollback | no passage twice across reloads, none lost while the entry listens |
| cloud sessions | `api.py` | access/refresh token, UCAMS token, two locks | request with one retry after 401, login, refresh, UCAMS login | one retry; a valid login is never reported as rejected |
| cloud requests | `api.py`, `services.py`, `analytics.py`, `private_cameras.py` | a cache and a lock per camera; pages under way | look up a camera, use its tokens, read a list page by page | tokens are good when handed out, lists are complete |
| push transport | `fcm.py`, `__init__.py` | registration, listener, health, watchdog, save loop | start, watchdog tick, restart with backoff, stop, unregister | at most one device, bounded outages, no orphaned registration |
| key management | `key_management.py`, `key_inventory.py`, `key_history.py`, `key_enrollment.py` | opaque references over the inventory | list, rename and verify | one write, reported verified only when it is seen |
| motion analytics | `analytics.py` | one persisted cursor per camera | windowed queries, split, save and rollback | no event twice, none passed over, also when refreshes overlap |
| archive and exports | `archive.py`, `auto_export.py`, `services.py` | position of the player, files, temporary files, last archive | move, open a stream, export, retention, deletion | what plays is what is shown; no half-written file is published |
| last-call image | `image.py`, `image_status.py` | current load, cached JPEG, failures, repair issue | load, cancel, retry, reload | the image belongs to the call it shows |
| private cameras | `private_cameras.py`, `private_runtime.py`, `private_services.py`, `private_entities.py` | set of cameras, their runtime and entities | add, remove, resynchronise | one runtime; it and the entities match the inventory |
| authorised devices, FCM sessions, guest links | `authorized_devices.py`, `fcm_sessions.py`, `guest_store.py`, `services.py` | lists behind opaque references, stored invitations | list, revoke, bulk revoke, create, forget | nothing but what was confirmed is revoked, never an own device |
| dashboard resources | `__init__.py:45-268`, `authorized_devices.py` | Lovelace resources, extra scripts | register at every start, update by version | every card is served once, in the version that runs |
| entities | `event.py`, `sensor.py`, `button.py`, `binary_sensor.py`, ... | which entities have been made, timers | set-up, dynamic addition, ring and turn off | nothing in the account is without its entity |
| frontend cards | `frontend/ufanet-archive-card.js` and three more | position, inputs, player, cached events | choose, shift, load, export | what is shown is what plays |
| research tools | `tools/research` | a state file | enrol, remove, test, restore | the device is put back; a conclusion is so |
| flows, diagnostics, push status check, blueprint, scripts, docs | the rest | none or derived | read-only presentation | outside these models |

The parts meet in `async_setup_entry`: it builds the coordinators one after another,
awaits their first refresh, starts the push manager and only then registers the
listeners that turn batches into bus events.  All of it runs on one event loop, so a
handler is atomic between two `await`s, and everything that is hard lies at the awaits:
a push during a poll, a reload during a refresh, a failure between two of several
requests, a token dropped by one task while another waits for a lock, a position moved
while a stream is fetched for the one before.  The card runs in a browser on an event
loop of its own, with the same consequences; a probe is a script that can be
interrupted.

Each component below keeps to the same reading of the source: an action is the code from
one await that really waits to the next, with everything it calls; the answers of the
cloud, of the store and of the user are nondeterministic.

## The modules

| module | models | proved in |
|---|---|---|
| `CallHistory` | calls, from the history page to the event bus | `CallHistoryProofs` |
| `CallDelivery` | what the call path promises an automation | `CallHistoryProofs` |
| `KeyPassages` | key passages, their cursors and the store | `KeyPassagesProofs` |
| `KeyRename` | the service calls about physical keys | `ServiceProofs` |
| `UfanetAuth` | the tokens, locks and retries of `UfanetApi` | `UfanetAuthProofs` |
| `CameraTokens` | the cache and lock of one camera and what uses its tokens | `EntryProofs` |
| `PagedReads` | lists read page by page or window by window while they change | `CameraProofs` |
| `FcmRegistration` | the device registration across modes, reloads, removal | `DeviceProofs` |
| `FcmWatchdog` | the supervision of the push transport | `ServiceProofs` |
| `OwnDevice` | what the account may rely on about an entry's device | `DeviceProofs` |
| `AccountActions` | the service calls that remove and create things in the account | `DeviceProofs` |
| `MotionAnalytics` | motion events, their cursors, and the cameras that change | `CameraProofs` |
| `ArchiveTimes` | positions, days and recordings as pure functions | `ArchiveProofs` |
| `ArchiveView` | playback by the archive entities | `ArchiveProofs` |
| `ArchiveCard` | the archive tab of the dashboard card | `ArchiveProofs` |
| `ArchiveExport` | fragments saved as files, and their clean-up | `ArchiveProofs` |
| `CallImage` | the image of the last call and its status | `CameraProofs` |
| `Entities` | which entities are made while the entry runs | `EntryProofs` |
| `CallSensor` | the sensor that rings for a while | `EntryProofs` |
| `CardResources` | the cards as dashboard resources, over upgrades | `EntryProofs` |
| `DeviceProbes` | the research probes that remove devices | `EntryProofs` |
| `MCCameras` | independent parts checked in one run | `CameraProofs` |
| `MCDevices` | independent parts checked in one run | `EntryProofs` |
| `MCServices` | `KeyRename` and `FcmWatchdog` in one run | |
| other `MC*` | the constants TLC uses | |

`MCCameras`, `MCDevices` and `MCServices` put modules side by side that share no state:
`part` (or `side`) is chosen at the start, that module moves and the others keep their
initial state, so the run explores the sum of their state spaces and not the product.
Where modules do share state they are composed in earnest: `OwnDevice` is implemented by
`FcmRegistration` and relied on by `AccountActions`, `ArchiveView` and `ArchiveCard`
compute with `ArchiveTimes`, and `Entities` has the platforms and the runtime they
share.

### CallHistory and CallDelivery

A call is its position in the provider's history; call `i` is older than `j` when `i <
j`.  `seen`, `newCalls`, `media` and `data` are `_seen_uuids`, `new_calls`,
`_media_cache` and `coordinator.data`; `stage` and `step` are where the config entry and
the refresh in progress stand.  A refresh is `BeginRefresh`, `HistoryArrives` or
`HistoryFails`, one `EnrichMedia` per call to look up (one after another in the code, in
any order here), and `FinishRefresh`, in which Home Assistant stores the result and runs
the listeners.  What starts a refresh is modelled from the use made of
`DataUpdateCoordinator`: the scheduled poll (`ScheduledPoll`), and the debouncer, which
runs a request at once, postpones it to the end of the cooldown, or drops it while a
refresh holds the lock (`PushRefresh*`, `CooldownEnds`, `TrailingRefreshRuns`).
`Unload` stands for unload, reload and crash: nothing of this is persisted.  Pushes come
from the first moment of the manager's start, before there is a listener. What such a
push finds is remembered and published by nobody, and so is what is found by a second
failure in a row that nobody handles (`MediaBreaks`): Home Assistant then calls no
listener.  The history variable `unheard` holds exactly these calls. A batch is a set:
the sorting of its calls (`coordinator.py:385`) is not modelled, and what is claimed of
the order is claimed between batches.  `Reordering` lets rows swap across the end of the
page.

`CallDelivery` has four steps, a call placed, a batch delivered, a baseline taken, a
batch passed over; `DeliversAsPromised` is the refinement, in which the calls that are
`unheard` count as skipped and all else is mapped to itself.

### KeyPassages

Passage `i` of intercom `s` is the `i`-th the provider recorded there, with a time in
whole seconds and a key; a cursor is the last second seen and the keys seen in it, as in
`_advance_passage_cursor`.  A refresh asks for the capability, the inventory and all
histories (three actions, each with its failure), advances the cursors in place, and
saves them if they moved (`CursorsSaved`, `SaveFails` with its rollback).  `Setup` may
read the store or find it unreadable; `Unload` during the save leaves open whether the
save got through.  `excused` records the rows nobody promised to report: the baseline,
what a burst pushed off the page, what was found by the refresh of the setup (its
cursors are saved although no listener exists yet), what was saved when the entry
stopped before the events, and what happened at an intercom that the call coordinator no
longer `listed` when the listener ran, which skips it.  The histories of one refresh end
as a page, a provider error or fatally in any combination; `aborted` holds the rows that
were read by a refresh which another history ended fatally, `unheard` those of them for
which no listener was called.

### KeyRename

`asked[c]` is one service call: it resolves its key in `inventory`
(`api.physical_key_inventory`) after a refresh it asked for, sends its rename, and reads
back after each of `Delays`.  `refreshing` holds the scheduled refresh and the asked
one, each in the three requests of the passage coordinator; `cooling` and `again` are
the debouncer.  Listing the keys clears the inventory until the answer is there, which
other calls see.  Time is in half seconds, the delays and the cooldown are constants.
`keyName` and `keyList` are the truth and the list, which may lag; a rename may be
carried out although its answer is lost.

### UfanetAuth

Each member of `Calls` is one call of `_async_ufanet_json` or, in `UcamsCalls`, of
`_async_ucams_json`.  Tokens are numbers in order of issue.  `pc` is the await a call is
at: waiting for `_auth_lock` or `_ucams_lock`, a refresh, a login, a UCAMS login, or its
own request.  A free lock without waiters is taken without waiting, as `asyncio.Lock`
does.  A renewed session may answer the next request with a refusal all the same.  A
malformed refresh answer counts as "makes no sense" and ends the call like any other
error.

### CameraTokens

One camera stands for all, since cache and lock are per camera.  An answer of UCAMS is a
number; `young` and `accepted` say which answers' tokens have five minutes to live and
are taken by the media server.  Each operation of `api.py` and the services is the
sequence of things it does with the camera (`look`, `try`, `hand`), and one refused by
the media server forces one new lookup.

### PagedReads

The calls of a day by numbered pages, the inventory of private cameras by pages, motion
by windows of time that are halved when an answer is cut short.  The list changes
between two requests.  `ReadsAreComplete` compares what is shown with what was there
when the reading began.

### FcmRegistration and OwnDevice

The store, the manager's state and the provider's list of devices are three variables,
and the entry's life (`stage`) runs through the cleanup owed from an earlier mode, the
start of the manager, the save loop, the unload with or without unregistering, and the
removal.  A request is two steps, its effect (`RegisterReaches`, `UnregisterReaches`)
and its answer, so an answer can be lost after the effect; a request the client has
given up on has been carried out by then or never will be.  The user may switch the mode
and Home Assistant may be killed at any moment.  Three history variables say what
follows: `orphans` are ids whose manager died before it had saved them, `unseen` says
that FCM was switched off where no manager saw it, or the one that did died before its
mark was saved, `unsure` that the unregister request of the removal failed.
`StoreFails` lets the store be unreadable.

`OwnDevice` is the abstract view: an id is named before something is registered under it
and stays named while it is, and only the entry itself withdraws it; `Lose` is the loss
of all knowledge of an orphan. `ImplementsOwnDevice` is the refinement mapping from
manager, store and list; `OwnDevicesAreSpared` says of the service calls that each of
their steps is a step of `OwnDevice` for every entry, in which only that entry
withdraws; excepted is a call that takes a device of `late[c]`, registered after the
call had asked its entry.

### FcmWatchdog

One tick is `FCM_WATCHDOG_INTERVAL_SECONDS`.  `transport` is what `run_state` says
(`none` for no client, `terminal` for `STOPPING`/`STOPPED`), `started` and `running` are
`listener_started` and `listener_running`, `outage` the age of `_unhealthy_since`.
`Evaluate` is `_async_evaluate_transport`, which has no await and is therefore part of
the action that calls it.  `GiveUp` waits `Delay` before the next `Attempt`.

### AccountActions

Each of `Calls` is a service call that removes or creates something: it reads the owners
of devices, lists, picks its targets, sends its requests one by one and looks again;
`call[c].pc` is the await it is at.  Meanwhile phones and guests come and go, entries
register and withdraw, Home Assistant restarts.  A device id stands for its opaque
reference.  `memory` and `saved` are the invite store and its file.

### MotionAnalytics

Events of a camera are numbered; a cursor is the number it has passed (how a time and an
id make a cursor is `KeyPassages`' matter).  The runtime reconciles its cameras with the
inventory (`Reconcile`, `Reconciled`) and refreshes the analytics itself, beside the
coordinator's own refreshes: `refresh` has a record for the poll and one for the
reconciliation, which share cursors and batch.  A refresh ends with success, with a
provider error or a failed save, which roll back (`RollBack`), or with another error,
which does not (`Breaks`).  `PublishMotion` passes over cameras that are not in
`coordinator.data` by then.  `doubtful` holds the events that were new to a refresh
beside another one, or lie behind an error that nobody rolled back.

### ArchiveTimes, ArchiveView, ArchiveCard

`ArchiveTimes` has the arithmetic: `Resolve` (where a move lands), `Newest`, and the
three ways recordings become days and segments.  `ArchiveView` is the controller behind
the entities and the open stream: a control waits for the recordings before it moves, a
fetch brings a URL for the position at which it was started, and each change of
position, duration or step starts one for the open stream.  Several are under way at
once and end in any order.  `missed` is set when the latest of them fails, when an
earlier one is answered after it, and when the selection changes while a stream is being
opened and there is none to move yet.  `ArchiveCard` is the archive tab: `work` holds
the handlers that await recordings, events or an export, `loading` the playback being
started (`opening` while it is the card's first, `_initializing`), `awaited` the events
asked for; two requests that are alike and under way count as one, since their answers
do the same.

### ArchiveExport

A job is an export or a clean-up.  Two paths belong to each fragment; files are numbered
by the run of ffmpeg that made them, so a path can come to hold another file.  A
clean-up lists, sorts, deletes by age and then by size, one file operation after
another.  `Reload` cancels the automatic exports, whose ffmpeg goes on.  Exports of one
fragment may overlap: `crowded` are the fragments at whose temporary path an export
found another one, or a run of ffmpeg, and `suspect` the files that got their names
while it was so.

### CallImage

`entity[c]` holds the load under way, what is loaded, and what is given up; `ending` the
cancelled loads that have not ended yet.  `health` and `issue` are the status manager
and its repair issue.

### Entities, CallSensor, CardResources, DeviceProbes

`Entities`: platforms await one runtime of private cameras, which one of them begins;
factories make what is missing with each update.  `CallSensor`: calls arm a timer.
`CardResources`: each start registers each packaged card, as a resource if storage can
be written and else as an extra script; resources outlive upgrades and users edit them.
`DeviceProbes`: seven scripts of `tools/research` as sequences of steps, each of which
may fail on either side of its effect or be interrupted.

## What is checked

| run | instance | shows |
|---|---|---|
| `calls` | 4 calls, 2 cameras, page of 2, 2 unloads, trim above 2 | each call fires once, no batch after a newer one, none the coordinator has read is lost but the `unheard`, and the path implements `CallDelivery` |
| `calls_live` | 3 calls, 1 camera, fair | every call that stays on the page is settled in the end: fired, baseline, or unheard |
| `key_passages` | 2 intercoms, 2 keys, 3 passages, 2 seconds, 1 unload, page of 2 | cursors, store and events stay together; no passage twice but what a fatal history left unsaved, and that once for each life of the entry; none passed over |
| `auth` | 1 Ufanet and 2 UCAMS calls, 1 ageing, fair | one exchange for all, one retry, nothing carried out twice, nobody waits for ever |
| `auth_refused` | no ageing | a call is given up as unauthorised although nothing it sent was refused (finding) |
| `services` | 2 rename calls, 1 key, 2 names, 2 delays, 1 change by others; stall after 3 ticks, repair after 2, delays 1 to 4, 2 losses; fair | what is answered as renamed was seen in the list, every call is answered; polling restored in time, the issue true, every outage ends |
| `fcm_backoff` | no losses, one attempt that never connects | a stalled listener is recreated without backoff (finding) |
| `fcm_switch` | 2 switches, no kill | the mode changes without a manager: the registration stays and nobody is told (finding) |
| `rename_unconfirmed` | 1 call, the five delays and the cooldown of the code | all read-backs fall into the cooldown (finding) |
| `export_overlap` | 2 exports of one fragment | a half-written file gets its final name (finding) |
| `cameras` | two jobs, controls, intercoms and cameras, part by part | see below |
| `devices` | an entry, two service calls, the camera tokens, entities, cards and probes, side by side | see below |

`cameras`: what exports leave is whole (`OnlyWholeFilesStay`), but of exports that
overlap, and a clean-up keeps the limit (`LimitIsKept`) through kills, reloads and
crashes; once the latest of three fetches is answered, what plays is what is selected
(`PlaysTheSelected`), and a shift skips only gaps (`ShiftsSkipOnlyGaps`); the card's
inputs, lists and download are of what plays (`CardShowsWhatPlays`); days and segments
show exactly the recordings (`DaysShowTheArchive`); an image is of the latest call
(`OnlyTheLatestIsShown`), its status and issue true (in `CamerasInv`); motion is
published once (`MotionIsPublishedOnce`) and the analytics follow the inventory
(`TargetsAreCurrent`); lists are complete (`ReadsAreComplete`).

`devices`: an entry has one known device at most (`OneDevice`), its leftovers are
announced unless no manager could (`LeftoversAreAnnounced`), its removal leaves nothing
(`RemovalLeavesNothing`), and the registration implements `OwnDevice`
(`ImplementsOwnDevice`), over four switches of the mode and two kills or restarts;
removals were confirmed (in `DevicesInv`), reported truly (`RevokedMeansGone`) and spare
own devices but those registered meanwhile (`OwnDevicesAreSpared`); camera tokens are
good when they are handed out (`TokensLast`); every intercom and camera has its entities
(`NothingIsMissing`) and platforms share one runtime (in `DevicesInv`, as are the call
sensor and the cards); probes put their device back and conclude nothing wrong
(`ProbesAreHonest`).

Every property of a passing run is paired in `PROJECT.json` with a mutant, a plausible
bug of the code it is about (a batch not cleared, a rollback left out, a lock not
rechecked, ...), under which TLC finds it violated.

**Bounds.**  The call page holds two rows: one row cannot show an order within a page,
and four calls are needed to fill a page, trim, and push a call off.  The trim at more
than two remembered uuids is reached with the third call.  Two unloads give two
baselines.  At the intercoms, three passages in two seconds give both the shared second
and the passage pushed off a page of two, and a second intercom is needed because
failures are per intercom.  Three calls are the fewest for which one holds `_auth_lock`,
one `_ucams_lock`, and one waits.  Of three device ids, two can be orphans of the two
kills beside one that is known, and four switches go to and fro twice. The watchdog's
thresholds only need their order (tick < repair < stall), the shortest delay of one tick
and room to double twice.  A rename needs one key, another name it may get meanwhile,
and two read-backs; the second call clears the inventory under it.  A clean-up needs two
files and a limit of one, and two runs of ffmpeg replace a file under it.  Recordings
whose days are compared are all sets of up to three within eight seconds, of two days of
four; the archives of the player are three recordings with gaps, and two that touch, of
which the second contains a third, before two that overlap.  Two clicks and two waiting
handlers are what the card's races take (a third click was checked once by itself and
adds nothing). Three fetches are needed for one to be overtaken while the stream is
open, the first being that which opens it.  Two events of one camera, with two changes
of the inventory and a close, let a cursor stand between them; two cameras, with one
change or close and an event each (one event when the inventory changes), let two
refreshes share a batch and one of them fail (`FewChangesOfTwo` of `MCCameras`).  Two
intercoms show that failures are counted over all.  Pages of two and three of them put
one row behind the last page.  `OneFamily` of `MCDevices` lets either guests or devices
move in the account, and one call about devices at a time, because the two families
share no state and others do all that a second call could.

**Symmetry** is used where the constants' members are told apart by nothing: the two
jobs, controls, intercoms and cameras (`cameras`, without liveness), the two calls and
the two foreign devices (`devices`), and the two exports (`export_overlap`).

**Deadlock.**  It is checked except where the system may really stop: a removed entry, a
stopped watchdog, calls, jobs, loads and scripts that have all ended.

**Fairness.**  `CallHistory`: timers and the entry's own steps are weakly fair (event
loop); a history answer, the end of a refresh and the scheduled poll are strongly fair,
since an outage, a new scan interval or an unload may interrupt them any finite number
of times but nobody promises they fail for ever.  Visitors, pushes and unloads owe
nothing.  `UfanetAuth`: each call's step is weakly fair, because every request has a
timeout and `asyncio.Lock` serves in order.  `KeyRename`: time passes, and refreshes and
calls go on, for the same reason; changes by others, scheduled refreshes and the list's
catching up owe nothing.  `MCServices` states both per side.  Of `FcmWatchdog`, time and
the task are weakly fair; `Launch` and `Connect` are strongly fair.  The last is
generous: a client that always needs longer than the five seconds the stalled watchdog
gives it would never connect (see the findings), and `OutagesEnd` (`Reconnects` where
the watchdog moves) does not claim that it does.

## What is proved

Every invariant and every action property of a passing run is a theorem, and so are both
refinements.  The proofs hold for all constants that satisfy the modules' `ASSUME`s.
Two assumptions about the surroundings are made besides, and said with each theorem that
needs one: `~Reordering` in `CallHistoryProofs`, `~StoreFails` of the registration (see
the windows below).  All other theorems are unconditional.  TLC checks the inductive
invariants first, in the passing runs: as `IInv` and `KeyInv`, and inside `CamerasInv`
(`ExportInv`, `CleanupInv`, `ViewInv`, `CardInv`, `ImageInv`, `MotionInv`, `SyncInv`)
and `DevicesInv` (`AccountInv`, `TokenInv` and the types).  Those of the paged reads, of
the entities, the probes, the call sensor and the resources are stated beside their
proofs.

* `CallHistoryProofs`.  `TypeCorrect` is unconditional.  `CallPathInvariant` (the
  inductive `IInv`), `NoCallIsSwallowed`, `OnlyNewerCallsFire` and `NothingIsRedetected`
  (an action property, `NeverRedetected`, that is implied by the invariant) assume an
  orderly provider (`~Reordering`) and no more: pushes during the start are in, and what
  they lose is named by `unheard`.  A call in `seen` may be forgotten by the trim, so
  `seen` alone cannot carry the proof: the invariant's core is `ForgottenIsOffThePage`,
  a call no longer remembered though a newer one has been read has left the page, and
  `BatchIsNewest`, which makes the batch newer than all that was fired, through the
  awaits for media.  `QuietUntilListening` says that nobody but a push refreshes before
  the listeners, and it not before the first refresh.  `CallPathDelivers` is the
  refinement of `CallDelivery` under the same assumption: what is published is all that
  was new (`PublishingDelivers`), since a batch is made of one page (`BatchIsAPage`) and
  what lies beyond the page has been reported (`BeyondAllReported`).
* `KeyPassagesProofs`.  All its theorems are unconditional: `PassagesTypeCorrect`,
  `PassagesInvariant`, `PassagesFireOnce` and `CursorsNeverRunAhead` (which states
  `NoPassageSwallowed` and `StoreNeverAhead`).  The invariant relates three cursors, the
  one in memory, the one to roll back to and the saved one, to the events: what was
  fired lies behind all of them, but what a fatal history `aborted` only behind those of
  the running life (`FiredAreBehind`), which is why it comes at most once in each
  (`OncePerLife`); and what lies behind the settled one was fired, is excused, or is
  `unheard`.  `CursorsWereRead` is needed for shared seconds: a key in a cursor was
  really seen in that second.
* `UfanetAuthProofs`.  All its theorems are unconditional, for any set of calls. The
  invariant (`Invariance`) says who holds which lock at which await, that tokens are
  issued in order, and `RefusedIsGone`: while a call recovers, the token it was refused
  never becomes current again.
* `ServiceProofs`.  *The watchdog*: `SupervisionInvariant`, `PollingIsRestored` and
  `RepairIssueHolds` rest on `PowersAssumption` as well, that powers of two are natural
  numbers: exponentiation is beyond the provers, so the module assumes it of the
  exponents in use and TLC evaluates it.  *Keys*: `RenamesAreVerified` is unconditional.
  That a rename is answered for what was listed is not inductive: `NewNameIsFresh` adds
  that, while a call has chosen a key, the inventory shows another name for it or one
  that was listed since the call chose.
* `DeviceProofs`.  *The registration*: `FcmTypesCorrect` is unconditional; the other
  theorems assume `~StoreFails`, and neither that the mode is switched at a convenient
  moment nor that nobody kills the process.  `LeftoversAreKept` includes
  `RegistrationIsKnown`.  The invariant says at each stage which of manager and store
  knows what is registered, `Owed`, that once only the store can tell it tells that a
  removal is owed, unless FCM was switched off `unseen`, and `OrphansStayApart`, that no
  later manager comes by an id that was lost.  `OwnDeviceIsImplemented` follows: each
  action is one of `OwnDevice`'s, or changes nothing it speaks of.  *The account* is the
  other side of `OwnDevice`. `RevokedIsGone`, `RemovalIsConfirmed` and
  `DevicesAreSpared` (every step is, for every entry, one that `OwnDevice` allows, or
  takes a device that was `late`) are unconditional. Owners are read one by one before
  the list, so the invariant says of each call which entries it has read and that what
  is registered for those is spared or came late (`OwnersAreRead`); from there the
  targets, once chosen, are nobody's own device and within what was confirmed
  (`TargetsAreConfirmed`).  The proof follows a call `c` through its step
  (`CallStaysSound`) and shows apart that the step disturbs no other call
  (`OthersStaySound`).  *The invite store*: `InvitesSurvive` is unconditional.  An
  invite may go only when it was forgotten or `MaxStoredInvites` newer ones came, so the
  invariant counts how many newer ones there are of the one at each place of the list
  (`FollowedBy`).
* `EntryProofs`.  All but the composition are unconditional.  *Tokens*
  (`TokenInvariant`, `TokensAreGood`): a token that was refused is older than the cache
  (`RefusedAreOld`), because the answers only get newer and a refused operation asks
  again.  *Entities*: `PlatformsShareOne` by `RuntimesInTurn`, a runtime that is not
  that of the key is broken or not begun; `EntitiesAreComplete` by `NothingIsForgotten`,
  the factories have run for what a runtime was told, or will.  *Probes*
  (`ProbesHonest`): where a script stands (`InPlace`), that it takes its device away
  only once it has marked that it is to be put back (`LeavesNothing`), and what it has
  seen at each step supports what it would conclude there (`ConcludesRightly`). *The
  call sensor* (`SensorRings`): a timer exactly while it is on, due `RingTime` after the
  last call (`TimerInv`).  *Cards* (`CardsServed`): a card on disk is served, has its
  turn yet, or was edited by the user (`TurnsInv`), with a resource's id given once
  (`ResourcesInv`) and a path served once (`PathsInv`).  `DevicesInvariant` is the
  composition, under `~StoreFails`: a step of one part leaves the others as they are, so
  a behaviour of all is one of each (`PartsByThemselves`) and the parts' theorems apply.
* `CameraProofs`.  *Images* (`ImageInvariant`, `LatestIsShown`): what was cancelled or
  given up is older than what is loaded (`LoadsAreInOrder`), so the late end of a
  cancelled load cannot unmark the current one.  *Motion* (`MotionTypesCorrect`,
  `MotionInvariant`, `MotionOnce`): refreshes overlap and break off in the proof as in
  the code, and what is said is said of each event that is not doubtful (`EventIsKept`):
  where it is while it lies behind a cursor, that no refresh under way would roll back
  past it once it is published (`KeepsBehind`), asks for it again while it is in the
  batch (`AsksForNew`), or saves a cursor that nobody has (`SavesWhatIs`). *Analytics*
  (`AnalyticsFollowInventory`): a reconciliation under way has the inventory's cameras
  or goes round again (`SyncInv`).  *Reads* (`ReadTypesCorrect`, `NothingIsPassedOver`):
  what was there when the reading began is shown, or still lies where the reading goes
  on (`CallsInv`, `InventoryInv`, `MotionReadInv`). *All of it*: `CamerasInvariant`,
  composed as in `EntryProofs` and as unconditional as its parts, and
  `DaysShowWhatIsRecorded`.
* `ArchiveProofs`.  *Exports* (`ExportTypesCorrect`, `ExportInvariant`,
  `OnlyWholeFiles`): exports may overlap.  At a fragment where they have not (it is not
  `crowded`), the temporary file has one ffmpeg that writes it and one job that waits
  for it, until a reload abandons both (`FragmentIsInOrder`); everywhere a run writes
  its own file and no other (`RunsWriteTheirFiles`), and a file has one maker
  (`FilesAreMadeOnce`). *Clean-ups* (`CleanupsCount`, `CleanupKeepsLimit`): a file is at
  one path, and the size counted down is that of what is left of the list
  (`CountIsRight`). *Playback* (`SelectedPlays`, `ViewInvariant`) by `SelectionArrives`:
  of however many fetches are under way the latest is of what is selected, so that its
  answer, if it is the last, brings that (else `missed`); `ShiftsPassGaps` from what
  `Resolve` returns.  *The card* (`CardIsTrue`, `CardInvariant`): what plays has the
  address of what is shown (`PlaysWhatItShows`).  *Days* (`DaysShowArchives`): for any
  finite archive and any day.

Three points of method.  An induction over data (segments joined one after another, the
length of an archive) is done by least counterexample: if some index failed there were a
first (`WFMin` over the naturals), and the recursive definition, unfolded once there,
contradicts it.  A recursive function needs its existence first (`JoinedExists`,
`OrderExists`).  Nothing is asked of the constants beyond their `ASSUME`s; those that
speak of finiteness (`Fragments`, the card's archives) are there because a size or a
newest element is taken of them.

Only model-checked: `EveryCallReported`, `EveryCallEnds`, `CallsAreAnswered` and
`OutagesEnd`, since liveness under fairness is beyond the proof system.

## Findings

`PROJECT.json` lists these with their lines and quotations, and a run shows each:

* a UCAMS call can be reported unauthorised though nothing was refused (`auth_refused`);
* switching FCM off without a manager leaves the registration (`fcm_switch`);
* stalled listeners are restarted without backoff, each after the five seconds of one
  tick (`fcm_backoff`);
* the read-backs of a rename are all swallowed by the cooldown that the rename's own
  first refresh started (`rename_unconfirmed`);
* two exports of one fragment share a temporary path and may publish a part, although
  the export is called atomic (`export_overlap`).

Here the code breaks what the repository says as well; no run is set aside for them, and
the passing runs reach them, except from their properties exactly what they affect (by
the history variables of the next section), and show that nothing else is affected:

* a fatal history leaves the cursors of the other intercoms advanced but unsaved, and a
  reload repeats their passages, where `README.md:173` promises no repetition;
* an error that is not the provider's, after a motion cursor moved, loses the events
  behind it, against `docs/api/analytics.md:119`;
* two motion refreshes at once publish an event twice, against
  `docs/api/analytics.md:114`;
* a bulk revocation takes the device of an entry that registered it after the call had
  asked that entry and before it listed the account, where `CHANGELOG.md:55` says that
  own devices are excluded.

With `Reordering = TRUE` in `CallHistory.cfg` TLC shows one more: after a trim of the
memory, a page in another order makes an old call new, although the comment at the trim
says the memory is kept to avoid that.

### Windows

What the code does is in the models without a switch, windows included, and where a
promise breaks the property excepts exactly the calls, rows, events, files, devices or
positions that met the window.  A history variable collects them, and nothing in the
model depends on it:

| variable | what it collects | where |
|---|---|---|
| `unheard` (calls) | found where Home Assistant ran no listener: a push before the listeners exist, a second failure in a row that nobody handles | `__init__.py:518`, `coordinator.py:345-387` |
| `aborted`, `unheard`, `excused` (passages) | read by a refresh that another history ended; not listened to; promised by nobody | `key_coordinator.py:98-116`, `__init__.py:462-464` |
| `doubtful` (motion) | new to a refresh beside another one, or behind an error that nobody rolled back | `private_runtime.py:247`, `analytics.py:358` |
| `crowded`, `suspect` (exports) | fragments at whose temporary path two exports met, and the files named meanwhile | `services.py:1339` |
| `late` (account) | devices registered after a call had asked their entry | `fcm_sessions.py:150` |
| `unseen`, `orphans`, `unsure` (registration) | FCM switched off where no manager saw it; ids lost by a kill before the first save; a removal whose request failed | `__init__.py:575`, `fcm.py:425-431` |
| `missed` (playback) | the latest fetch failed or was overtaken; a selection that changed while a stream was only being opened | `archive.py:165`, `camera.py:176` |

Two constants are assumptions about the surroundings, not about the code:

* `Reordering` (`coordinator.py:359`): whether the provider's first page may come in
  another order.  The properties of calls are claimed of a provider that does not; TRUE
  shows what happens then.
* `StoreFails`: whether Home Assistant's private storage may be unreadable at a start.
  If it is, the entry makes a second device, since nothing tells it of the first.

### Visible in the models, and not findings

* Calls and keys: a quiet camera's last call disappears when other cameras fill the
  page; a refresh clears the key inventory while it lists the keys, so a call that looks
  at that moment finds none.
* Sessions: a late 401 discards an access token another call has just renewed, at the
  price of one more exchange; an access token that was revoked but is locally still
  valid makes a UCAMS login fail without a renewal; a camera answer without an archive
  token is never cached.
* Lists: calls of a day are cut without a word after 40 pages of 25; a camera removed
  between two pages may hide another until the next poll; motion older than 24 hours is
  lost after a long stop.
* Exports: the prefix `ufanet_<camera>_` of a clean-up also matches cameras whose id
  begins alike; clean-ups at the same time delete more than either needs; a cancelled
  export leaves its ffmpeg running.
* Registration: a kill between the registration and the save leaves a device nobody
  knows; a change of the Firebase project withdraws a pending removal.
* Playback: a stream opened while the position moves, a latest answer that fails or is
  overtaken leave the stream at the old position (`camera.py:176`, `archive.py:165`;
  `missed`).  A shift back from a gap goes to the end of the recording that began last
  of those that have ended, and if another contains it passes what that one has after
  this end (`archive.py:216-223`); `ShiftsSkipOnlyGaps` says no more than that.
* Card: a date chosen while a load is under way is lost (the inputs return to what
  plays); a failed read of calls leaves the rows of the earlier day under the message; a
  "next" moves to a target computed before it waited for the recordings; an export
  answered after the position moved offers the earlier fragment (`late`); a second
  inside a gap that was joined for display can be chosen but not played; a card attached
  to the page again keeps a player that is not in the page (`lost`), and one configured
  for another camera keeps the first camera's caches.
* Image: a cancelled load's `mark_cancelled` runs after the new load's `mark_loading`
  (`image.py:189`); only diagnostics see it.
* Account: after a revocation whose list refresh failed, the card's "forget" reports an
  error although it was carried out.
* Entities: an intercom added later takes its camera from the standalone ones, while its
  own live and call entities are made at the next reload; a change between the runtime's
  reading and its listeners waits for the next poll (`noticed`).
* Cards: when updating a resource fails, the old resource and the new extra script are
  both loaded.
* Probes: the logout and delete probes conclude "rejected" also from a failing server;
  the unregister probe's conclusion rests on one reading of a list that may lag; the
  verifying probes do not restore when the removal's answer is lost (`probe.py:394`,
  `:468`), and an interrupt during the restoration leaves the device removed.

## Not modelled

* Validation of provider rows, request building, wording, logging: functions of one
  answer without state; what a reader of the model needs of them is that an answer is
  used, refused or fatal.
* `push status check`, `configuration and diagnostics`: read-only reports and forms. The
  one choice with consequences, the call update mode, is `SwitchMode`.
* What entities display (names, attributes, icons): functions of coordinator data.
* Live, guest, device and key tabs of the cards, rendering and the zoom of the timeline:
  each sends one service call, whose effect is in `AccountActions` and `KeyRename`; the
  rest is layout.
* Research tools that only read and print, the latency probe, which correlates two
  lists, and the enrolment of a key, which is one request.
* The order of the events inside one batch of calls, which one statement sorts
  (`coordinator.py:385`).
* The removal of an entry whose platforms did not unload (`__init__.py:571-572`): Home
  Assistant then goes on with the manager alive.  No platform here has an unload of its
  own, so it takes an error of an entity on its way out.
* Firebase credentials and persistent push ids, the slow paths of `client.stop()`, and
  the branch of `async_retry_pending_fcm_unregister` for an invalid stored id, which the
  code cannot write itself.
* Blueprint, release scripts, documentation.

## Plan

Done, in this order: the call path and its promise, key passages, cloud sessions, the
registration, the supervision; renames, motion, exports, images, the account and its
refinement, camera tokens, paged reads, playback, the card, entities, resources and
probes; and the proofs of all their safety and action properties, and of both
refinements.

Done as well: no window of the code is shut by a constant any more; what breaks in one
is excepted by name, and listed under the findings where the repository promises
otherwise.

Left: whether the order of events inside a batch deserves a model of its own, the
removal of an entry that did not unload, and shorter proofs of the largest steps.
