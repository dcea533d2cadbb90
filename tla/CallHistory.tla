----------------------------- MODULE CallHistory -----------------------------
(***************************************************************************)
(* The call half of the integration: UfanetCallCoordinator                 *)
(* (coordinator.py), the listener that turns its batches into              *)
(* ufanet_intercom_call events (__init__.py), the push-driven refreshes of *)
(* UfanetFcmManager (fcm.py), and, from its use, the refresh lock and the  *)
(* request debouncer of Home Assistant's DataUpdateCoordinator.            *)
(*                                                                         *)
(* A call is the position at which the provider recorded it, so i < j says *)
(* that call i is older than call j (called_at).  One coordinator refresh  *)
(* is three kinds of step, one per suspension of _async_update_data: the   *)
(* history request, one media request per call, and the synchronous end in *)
(* which Home Assistant stores the result and runs the listeners.          *)
(***************************************************************************)
EXTENDS Integers, FiniteSets, FiniteSetsExt

CONSTANTS
  MaxCalls,       \* bound: calls ever placed
  MaxUnloads,     \* bound: unloads, reloads and restarts
  PageSize,       \* rows of the first history page (25 in the code)
  SeenLimit,      \* remembered uuids that trigger the trim (250 in the code)
  PushRefreshes,  \* refreshes one SIP push asks for (3 in the code)
  Cameras,        \* camera numbers
  CameraOf,       \* CameraOf[c]: the camera that call c belongs to
  Reordering      \* TRUE: the provider may reorder rows across the page's end

Calls == 1..MaxCalls

ASSUME BoundsAssumption ==
  /\ MaxCalls \in Nat /\ MaxUnloads \in Nat
  /\ PageSize \in Nat \ {0}
  /\ SeenLimit \in Nat
  /\ PushRefreshes \in Nat \ {0}
ASSUME CamerasAssumption == CameraOf \in [Calls -> Cameras]
ASSUME FlagsAssumption == Reordering \in BOOLEAN

VARIABLES
  placed,       \* calls the provider has recorded: 1..placed
  unloads,      \* how often the entry has been unloaded
  stage,        \* config entry: "down", "setup", "starting", "running"
  step,         \* refresh in progress: "none", "history", "media"
  requested,    \* the refresh in progress came from async_request_refresh
  armed,        \* the next scheduled poll is armed
  cooldown,     \* the debouncer's cooldown timer runs
  trailing,     \* a request waits for the end of the cooldown
  attempts,     \* refreshes the SIP push task still has to ask for
  initialized,  \* self._initialized
  seen,         \* self._seen_uuids
  newCalls,     \* self.new_calls
  todo,         \* calls whose media this refresh still has to look up
  media,        \* self._media_cache: calls with a cached media answer
  latest,       \* latest_by_camera of the refresh in progress
  data,         \* coordinator.data: the latest call per camera, 0 for none
  lastOk,       \* coordinator.last_update_success
  reauth,       \* a rejected login made Home Assistant ask for a new one
  known,        \* calls this coordinator has read so far (history variable)
  deliveries,   \* deliveries[c]: ufanet_intercom_call events fired for c
  skipped,      \* calls some coordinator took as baseline (history variable)
  unheard       \* calls of batches that ended where Home Assistant ran no listener:
                \* none was registered yet, or two refreshes failed on end (history)

outside   == <<placed, unloads>>
gate      == <<requested, armed, cooldown, trailing>>
batch     == <<initialized, seen, newCalls, known>>
result    == <<latest, data, lastOk, reauth>>
bus       == <<deliveries, skipped, unheard>>
vars == <<placed, unloads, stage, step, requested, armed, cooldown, trailing, attempts,
          initialized, seen, newCalls, todo, media, latest, data, lastOk, reauth,
          known, deliveries, skipped, unheard>>

NoLatest == [k \in Cameras |-> 0]

-----------------------------------------------------------------------------
(* What the provider answers, and what the code computes from a page.      *)

\* The PageSize newest calls.
Window == {c \in 1..placed : c > placed - PageSize}

\* A reordered page swaps its oldest row with the row just beyond its end.
Pages ==
  {Window} \cup
    IF Reordering /\ placed > PageSize
    THEN {(Window \ {placed - PageSize + 1}) \cup {placed - PageSize}}
    ELSE {}

\* The newest call of every camera on a page, 0 where the page has none.
LatestByCamera(page) ==
  [k \in Cameras |->
    LET of == {c \in page : CameraOf[c] = k} IN IF of = {} THEN 0 ELSE Max(of)]

\* Past the limit only `recent` survives, and that is read from the page.
Remember(uuids, page) ==
  IF Cardinality(uuids \cup page) > SeenLimit THEN page ELSE uuids \cup page

\* A faulty NewOn: of several new calls only the newest is kept.
NewestOn(page) ==
  IF initialized /\ page # {} THEN {Max(page)} \ seen ELSE {}

\* A faulty NewOn: the first page is news as well.
\* A faulty NewOn, which has no baseline.
NewOnFromStart(page) == page \ seen

\* The calls of a page that are news; the first page is baseline.
NewOn(page) == IF initialized THEN page \ seen ELSE {}

-----------------------------------------------------------------------------
Init ==
  /\ placed = 0 /\ unloads = 0
  /\ stage = "down"
  /\ step = "none"
  /\ requested = FALSE /\ armed = FALSE /\ cooldown = FALSE /\ trailing = FALSE
  /\ attempts = 0
  /\ initialized = FALSE /\ seen = {} /\ newCalls = {} /\ known = {}
  /\ todo = {} /\ media = {}
  /\ latest = NoLatest /\ data = NoLatest /\ lastOk = TRUE /\ reauth = FALSE
  /\ deliveries = [c \in Calls |-> 0]
  /\ skipped = {} /\ unheard = {}

\* A visitor presses the button: the provider records one more call.
PlaceCall ==
  /\ placed < MaxCalls
  /\ placed' = placed + 1
  /\ UNCHANGED <<unloads, stage, step, gate, attempts, batch, todo, media, result, bus>>

-----------------------------------------------------------------------------
(* The life of the config entry.                                           *)

\* async_setup_entry builds a fresh coordinator and awaits its first refresh.
Setup ==
  /\ stage = "down"
  /\ stage' = "setup"
  /\ step' = "history"
  /\ UNCHANGED <<outside, gate, attempts, batch, todo, media, result, bus>>

\* The FCM manager has been started; only now are the listeners registered,
\* and the first listener arms the scheduled polls.
RegisterListeners ==
  /\ stage = "starting"
  /\ stage' = "running"
  /\ armed' = TRUE
  /\ UNCHANGED <<outside, step, requested, cooldown, trailing, attempts, batch,
                 todo, media, result, bus>>

\* Unload, reload or a Home Assistant restart: every task is cancelled, and
\* nothing of the call coordinator is persisted.
Unload ==
  /\ stage # "down" /\ unloads < MaxUnloads
  /\ unloads' = unloads + 1
  /\ stage' = "down"
  /\ step' = "none"
  /\ requested' = FALSE /\ armed' = FALSE /\ cooldown' = FALSE /\ trailing' = FALSE
  /\ attempts' = 0
  /\ initialized' = FALSE /\ seen' = {} /\ newCalls' = {} /\ known' = {}
  /\ todo' = {} /\ media' = {}
  /\ latest' = NoLatest /\ data' = NoLatest /\ lastOk' = TRUE /\ reauth' = FALSE
  /\ UNCHANGED <<placed, bus>>

-----------------------------------------------------------------------------
(* Who starts a refresh.  A refresh cancels the poll timer and whatever the *)
(* debouncer still holds.                                                   *)

\* A faulty BeginRefresh: the last batch survives into the next refresh.
BeginRefreshKeepingBatch(onRequest) ==
  /\ step' = "history"
  /\ requested' = onRequest
  /\ armed' = FALSE /\ cooldown' = FALSE /\ trailing' = FALSE
  /\ UNCHANGED <<outside, stage, batch, todo, media, result, bus>>

BeginRefresh(onRequest) ==
  /\ step' = "history"
  /\ requested' = onRequest
  /\ armed' = FALSE /\ cooldown' = FALSE /\ trailing' = FALSE
  /\ newCalls' = {}
  /\ UNCHANGED <<outside, stage, initialized, seen, known, todo, media, result, bus>>

ScheduledPoll ==
  /\ armed /\ step = "none"
  /\ BeginRefresh(FALSE)
  /\ UNCHANGED attempts

\* The FCM manager runs before the listeners are registered, so its first
\* pushes can come while the entry is still starting.
PushStages == {"starting", "running"}

\* A SIP push starts one task that asks for PushRefreshes refreshes (bound:
\* one such task at a time).
PushArrives ==
  /\ stage \in PushStages
  /\ attempts = 0
  /\ attempts' = PushRefreshes
  /\ UNCHANGED <<outside, stage, step, gate, batch, todo, media, result, bus>>

\* async_request_refresh: dropped while a refresh runs, postponed during the
\* cooldown, otherwise run at once.
PushRefreshDropped ==
  /\ attempts > 0 /\ step # "none"
  /\ attempts' = attempts - 1
  /\ UNCHANGED <<outside, stage, step, gate, batch, todo, media, result, bus>>

PushRefreshPostponed ==
  /\ attempts > 0 /\ step = "none" /\ cooldown
  /\ attempts' = attempts - 1
  /\ trailing' = TRUE
  /\ UNCHANGED <<outside, stage, step, requested, armed, cooldown, batch, todo,
                 media, result, bus>>

PushRefreshRuns ==
  /\ attempts > 0 /\ step = "none" /\ ~cooldown
  /\ attempts' = attempts - 1
  /\ BeginRefresh(TRUE)

CooldownEnds ==
  /\ cooldown /\ step = "none" /\ ~trailing
  /\ cooldown' = FALSE
  /\ UNCHANGED <<outside, stage, step, requested, armed, trailing, attempts,
                 batch, todo, media, result, bus>>

TrailingRefreshRuns ==
  /\ cooldown /\ step = "none" /\ trailing
  /\ BeginRefresh(TRUE)
  /\ UNCHANGED attempts

\* async_set_scan_interval: push health changed, and a coordinator somebody
\* listens to re-arms its poll, even one whose login was rejected.
ScanIntervalChanges ==
  /\ stage = "running"
  /\ armed' = TRUE
  /\ UNCHANGED <<outside, stage, step, requested, cooldown, trailing, attempts,
                 batch, todo, media, result, bus>>

-----------------------------------------------------------------------------
(* One refresh: _async_update_data and the end of the coordinator's turn.  *)

AfterRefresh == IF stage = "setup" THEN "starting" ELSE stage

\* The listener, if Home Assistant runs it, fires one event per call of the batch.
Publish(runs) ==
  /\ deliveries' = [c \in Calls |->
                      IF runs /\ c \in newCalls THEN deliveries[c] + 1 ELSE deliveries[c]]
  /\ unheard' = IF runs THEN unheard ELSE unheard \cup newCalls

\* A faulty HistoryFails, after which nobody polls any more.
HistoryFailsForGood(rejected) ==
  /\ step = "history"
  /\ step' = "none"
  /\ stage' = AfterRefresh
  /\ Publish(stage = "running" /\ lastOk)
  /\ lastOk' = FALSE
  /\ reauth' = (reauth \/ rejected)
  /\ cooldown' = requested
  /\ requested' = FALSE
  /\ UNCHANGED <<outside, armed, trailing, attempts, batch, todo, media, latest, data,
                 skipped>>

\* A refresh that fails after a good one still runs the listeners, with
\* whatever new_calls then holds; after a rejected login polling stops.
HistoryFails(rejected) ==
  /\ step = "history"
  /\ step' = "none"
  /\ stage' = AfterRefresh
  /\ Publish(stage = "running" /\ lastOk)
  /\ lastOk' = FALSE
  /\ reauth' = (reauth \/ rejected)
  /\ armed' = (armed \/ (stage = "running" /\ ~rejected))
  /\ cooldown' = requested
  /\ requested' = FALSE
  /\ UNCHANGED <<outside, trailing, attempts, batch, todo, media, latest, data,
                 skipped>>

HistoryArrives(page) ==
  /\ step = "history"
  /\ step' = "media"
  /\ initialized' = TRUE
  /\ newCalls' = NewOn(page)
  /\ skipped' = IF initialized THEN skipped ELSE skipped \cup page
  /\ seen' = Remember(seen, page)
  /\ known' = known \cup page
  /\ latest' = LatestByCamera(page)
  /\ todo' = (newCalls' \cup {latest'[k] : k \in Cameras}) \ {0}
  /\ UNCHANGED <<outside, stage, gate, attempts, media, data, lastOk, reauth, deliveries,
                 unheard>>

\* A faulty EnrichMedia: a call whose media cannot be found is dropped.
EnrichMediaOrDrop(c) ==
  /\ step = "media" /\ c \in todo
  /\ todo' = todo \ {c}
  /\ \/ media' = media \cup {c} /\ UNCHANGED newCalls
     \/ newCalls' = newCalls \ {c} /\ UNCHANGED media
  /\ UNCHANGED <<outside, stage, step, gate, attempts, initialized, seen, known,
                 result, bus>>

\* _async_enrich_media: a failed lookup is ignored, a good one is cached.
EnrichMedia(c) ==
  /\ step = "media" /\ c \in todo
  /\ todo' = todo \ {c}
  /\ media' \in {media, media \cup {c}}
  /\ UNCHANGED <<outside, stage, step, gate, attempts, batch, result, bus>>

\* An answer that is not even text (api.py:1038-1049) ends the refresh with an error,
\* and the batch is published as it is if the refresh before was a good one.
MediaBreaks ==
  /\ step = "media" /\ todo # {}
  /\ step' = "none" /\ todo' = {}
  /\ stage' = AfterRefresh
  /\ Publish(stage = "running" /\ lastOk)
  /\ lastOk' = FALSE /\ latest' = NoLatest
  /\ armed' = (armed \/ stage = "running")
  /\ cooldown' = requested
  /\ requested' = FALSE
  /\ UNCHANGED <<outside, trailing, attempts, batch, media, data, reauth, skipped>>

\* A cached media answer grows older than media_refresh_seconds.
MediaExpires(c) ==
  /\ c \in media
  /\ media' = media \ {c}
  /\ UNCHANGED <<outside, stage, step, gate, attempts, batch, todo, result, bus>>

FinishRefresh ==
  /\ step = "media" /\ todo = {}
  /\ step' = "none"
  /\ stage' = AfterRefresh
  /\ data' = latest /\ latest' = NoLatest
  /\ lastOk' = TRUE
  /\ Publish(stage = "running")
  /\ armed' = (stage = "running")
  /\ cooldown' = requested
  /\ requested' = FALSE
  /\ UNCHANGED <<outside, trailing, attempts, batch, todo, media, reauth, skipped>>

-----------------------------------------------------------------------------
Entry   == Setup \/ RegisterListeners
Request == PushRefreshDropped \/ PushRefreshPostponed \/ PushRefreshRuns
Timer   == ScheduledPoll \/ CooldownEnds \/ TrailingRefreshRuns
Answer  == \E page \in Pages : HistoryArrives(page)
Fails   == \E rejected \in BOOLEAN : HistoryFails(rejected)
Enrich  == \E c \in Calls : EnrichMedia(c)
Expire  == \E c \in Calls : MediaExpires(c)

Next ==
  \/ PlaceCall
  \/ Entry
  \/ Unload
  \/ PushArrives
  \/ Request
  \/ Timer
  \/ ScanIntervalChanges
  \/ Answer
  \/ Fails
  \/ Enrich
  \/ MediaBreaks
  \/ Expire
  \/ FinishRefresh

Spec == Init /\ [][Next]_vars

\* Timers fire, requests end, and the outside, reached again and again, does
\* not fail for ever; visitors, pushes and unloads owe nothing.
Fairness ==
  /\ WF_vars(Entry)
  /\ SF_vars(Answer)
  /\ WF_vars(Enrich)
  /\ SF_vars(FinishRefresh)
  /\ SF_vars(ScheduledPoll)
  /\ WF_vars(Timer)

FairSpec == Spec /\ Fairness

-----------------------------------------------------------------------------
(* Properties.                                                             *)

FlagsTypeOK ==
  /\ requested \in BOOLEAN /\ armed \in BOOLEAN
  /\ cooldown \in BOOLEAN /\ trailing \in BOOLEAN
  /\ initialized \in BOOLEAN /\ lastOk \in BOOLEAN /\ reauth \in BOOLEAN

DataTypeOK ==
  /\ placed \in 0..MaxCalls /\ unloads \in 0..MaxUnloads
  /\ stage \in {"down", "setup", "starting", "running"}
  /\ step \in {"none", "history", "media"}
  /\ attempts \in 0..PushRefreshes
  /\ seen \in SUBSET Calls /\ newCalls \in SUBSET Calls
  /\ known \in SUBSET Calls /\ skipped \in SUBSET Calls
  /\ unheard \in SUBSET Calls
  /\ todo \in SUBSET Calls /\ media \in SUBSET Calls
  /\ latest \in [Cameras -> 0..MaxCalls] /\ data \in [Cameras -> 0..MaxCalls]
  /\ deliveries \in [Calls -> Nat]

TypeOK == FlagsTypeOK /\ DataTypeOK

\* Fired, taken as baseline, or in a batch that no listener was run for.
Settled(c) == deliveries[c] > 0 \/ c \in skipped \cup unheard

\* Across polls, pushes, failures, trims and restarts, an event is fired only
\* for a call newer than every call already settled: none twice, none late
\* (coordinator.py:345-363, __init__.py:432-457).
FiresOnlyNewer ==
  [][\A c, d \in Calls :
       deliveries'[c] > deliveries[c] /\ Settled(d) => d < c]_vars

\* One coordinator never detects as new a call it has already read, however it trims
\* its memory: it retains "enough recent UUIDs to suppress duplicates if the server
\* reorders the first history page" (coordinator.py:352-363).
NeverRedetected == [][newCalls' # newCalls => newCalls' \cap known = {}]_vars

\* A call the coordinator has read is reported, was there before it started, or is
\* in the batch about to be fired: remembering a uuid loses no call, but those of a
\* batch that a push has asked for before the listeners exist, or that breaks off
\* after a failed refresh (coordinator.py:352-387, __init__.py:432-457, 518-523).
NoCallSwallowed ==
  \A c \in known : Settled(c) \/ (step = "media" /\ c \in newCalls)

\* Every call that is not pushed off the page by a burst is settled in the
\* end, unless the account's login is rejected: no failure and no order of
\* polls, pushes and reloads leaves polling dead (coordinator.py:328-337).
EveryCallReported ==
  \A c \in Calls :
    (c \in Window) ~> (Settled(c) \/ c \notin Window \/ reauth)

\* The automations see what CallDelivery promises them (the whole path from
\* the history page to the event bus, __init__.py:432-457).
Promise == INSTANCE CallDelivery WITH skipped <- skipped \cup unheard
DeliversAsPromised == Promise!Spec

-----------------------------------------------------------------------------
(* Why FiresOnlyNewer, NeverRedetected, NoCallSwallowed and the promise hold *)
(* while the page is not reordered: an inductive invariant.                 *)

\* Before its first refresh has read a page the coordinator knows nothing.
BlankUntilFirstPage ==
  /\ ~initialized => seen = {} /\ known = {}
  /\ stage = "down" => step = "none" /\ ~initialized /\ newCalls = {}
  /\ stage = "setup" => step # "none" /\ newCalls = {}
  /\ stage = "setup" /\ step = "history" => ~initialized
  /\ step = "history" => newCalls = {}

\* Nobody but a push refreshes before the listeners, and it not before the first refresh.
QuietUntilListening ==
  /\ stage \in {"down", "setup"} => ~cooldown /\ ~requested /\ attempts = 0
  /\ stage \in {"down", "setup", "starting"} => ~armed

OnlyPlacedCalls ==
  \A c \in Calls : Settled(c) \/ c \in known => c <= placed

\* A call that is not remembered, though a newer one has been read or
\* settled, has left the page for good.
ForgottenIsOffThePage ==
  initialized =>
    \A c, d \in Calls :
      (Settled(c) \/ c \in known) /\ d <= c /\ d \notin seen
        => d <= placed - PageSize

\* The batch being prepared is newer than everything settled before.
BatchIsNewest ==
  step = "media" => \A c \in newCalls, d \in Calls : Settled(d) => d < c

\* And it is all of that on a page, whose newest call it contains.
BatchIsAPage ==
  step = "media" /\ newCalls # {} =>
    \E newest \in newCalls :
      newCalls = {c \in 1..newest : c > newest - PageSize /\ \A d \in Calls : Settled(d) => d < c}

IInv ==
  /\ TypeOK
  /\ BlankUntilFirstPage
  /\ QuietUntilListening
  /\ seen \cup newCalls \subseteq known
  /\ OnlyPlacedCalls
  /\ ForgottenIsOffThePage
  /\ BatchIsNewest
  /\ BatchIsAPage
  /\ NoCallSwallowed
==============================================================================
