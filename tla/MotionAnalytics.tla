-------------------------- MODULE MotionAnalytics --------------------------
(***************************************************************************)
(* Motion events: UfanetMotionAnalyticsCoordinator (analytics.py), its     *)
(* cursors and its store, the listeners that publish its batches, and the  *)
(* reconciliation of UfanetPrivateCameraRuntime (private_runtime.py),      *)
(* which gives it new cameras and refreshes it on its own.                 *)
(*                                                                         *)
(* A camera's events are numbered as they happen, and a cursor is the      *)
(* number of events it has passed; how timestamps and ids make a cursor is *)
(* the matter of KeyPassages, and how a time window is split into requests *)
(* is left out.  A refresh asks for the capabilities and then for one      *)
(* camera after the other; a request and its answer are two steps only     *)
(* where the code reads something before it sends the request.  A poll and *)
(* the refresh of a reconciliation may be under way at once: they share    *)
(* the cursors and the batch.                                              *)
(***************************************************************************)
EXTENDS Integers, FiniteSets

CONSTANTS
  Cameras,
  MaxEvents,     \* bound: events of each camera
  MaxChanges,    \* bound: changes of the camera inventory
  MaxCloses,     \* bound: unloads of the entry
  FirstPage      \* events in the newest page of an answer

NoCursor == -1
NoCamera == "none"
Refreshes == {"poll", "sync"}

ASSUME MotionBounds ==
  /\ MaxEvents \in Nat /\ MaxChanges \in Nat /\ MaxCloses \in Nat
  /\ FirstPage \in Nat \ {0}

VARIABLES
  happened,    \* happened[c]: events of camera c at UCAMS
  stage,       \* of the runtime: "closed", "setup", "open"
  closes,
  source,      \* standalone cameras with motion in the coordinators' data
  changes,
  heard,       \* a change has been handled since the runtime was loaded (history)
  pending,     \* self._sync_pending
  sync,        \* _async_sync_runner: "idle", "controllers", "refresh"
  synced,      \* the cameras the reconciliation under way has read
  targets,     \* camera_by_skud
  refresh,     \* each refresh, see NoRefresh
  cursors,     \* self._cursors
  savedCursors, \* the cursors in the store
  batch,       \* self.new_events: for each camera the events in it
  published,   \* how often each event of each camera was published (history)
  excused,     \* excused[c]: events of c nobody promised to publish (history)
  doubtful     \* doubtful[c]: events of c that were new to a refresh which ran
               \* beside another, or passed by one that broke off (history)

runtime == <<source, changes, heard, pending, sync, synced>>
motionHistory == <<published, excused>>
motionVars == <<happened, stage, closes, runtime, targets, refresh, cursors, savedCursors,
                batch, motionHistory, doubtful>>

Numbers == 1..MaxEvents
Empty == [c \in Cameras |-> {}]
Forgotten == [c \in Cameras |-> NoCursor]
NoRefresh == [pc |-> "none", previous |-> Forgotten, now |-> Forgotten, todo |-> {},
              camera |-> NoCamera, read |-> NoCursor, saving |-> Forgotten]

MotionInit ==
  /\ happened = [c \in Cameras |-> 0]
  /\ stage = "closed" /\ closes = 0
  /\ source \in SUBSET Cameras /\ changes = 0 /\ heard = FALSE
  /\ pending = FALSE /\ sync = "idle" /\ synced = {} /\ targets = {}
  /\ refresh = [r \in Refreshes |-> NoRefresh]
  /\ cursors = Forgotten /\ savedCursors = Forgotten /\ batch = Empty
  /\ published = [c \in Cameras |-> [i \in Numbers |-> 0]]
  /\ excused = Empty /\ doubtful = Empty

-----------------------------------------------------------------------------
(* A refresh.                                                              *)

\* The listeners publish the batch, but for cameras that have none: an intercom that is
\* gone from the coordinator's data, a private camera without an entity.  In the setup
\* there is no listener yet.
PublishMotion ==
  \E listened \in SUBSET Cameras :
    LET heardOf(c) == IF stage # "setup" /\ c \in listened THEN batch[c] ELSE {} IN
    /\ published' = [c \in Cameras |-> [i \in Numbers |->
                       published[c][i] + IF i \in heardOf(c) THEN 1 ELSE 0]]
    /\ excused' = [c \in Cameras |-> excused[c] \cup (batch[c] \ heardOf(c))]

\* The setup is over with its refresh, however that went.
SetUp == stage' = IF stage = "setup" THEN "open" ELSE stage

\* A refresh starts, whether or not the other one is under way; without cameras it is
\* over at once.
Start(r) ==
  /\ refresh[r].pc = "none"
  /\ batch' = Empty
  /\ refresh' = [refresh EXCEPT ![r] =
       IF targets' = {} THEN NoRefresh
       ELSE [NoRefresh EXCEPT !.pc = "capabilities", !.previous = cursors,
                              !.todo = targets']]

Poll ==
  /\ stage = "open"
  /\ UNCHANGED targets
  /\ Start("poll")
  /\ UNCHANGED <<happened, stage, closes, runtime, cursors, savedCursors, motionHistory>>

\* The next camera is asked: its cursor is read before the request.  After the last
\* one cursors that moved are to be saved, as they are now.
Asks(r, now, todo) ==
  LET asking == [refresh[r] EXCEPT !.now = now, !.todo = todo, !.camera = NoCamera,
                                   !.read = NoCursor] IN
  \/ /\ todo = {}
     /\ refresh' = [refresh EXCEPT ![r] =
          IF cursors' # asking.previous
          THEN [asking EXCEPT !.pc = "save", !.now = Forgotten, !.saving = cursors']
          ELSE [asking EXCEPT !.pc = "success", !.now = Forgotten]]
  \/ \E c \in todo :
       refresh' = [refresh EXCEPT ![r] =
         [asking EXCEPT !.pc = "report", !.todo = todo \ {c}, !.camera = c,
                        !.read = cursors'[c]]]

\* The capabilities of the cameras the refresh began with: those still polled are asked
\* for what has happened until now.
Capabilities(r) ==
  /\ refresh[r].pc = "capabilities"
  /\ \E supported \in SUBSET refresh[r].todo :
       cursors' = cursors /\ Asks(r, happened, supported \cap targets)
  /\ UNCHANGED <<happened, stage, closes, runtime, targets, savedCursors, batch, motionHistory>>

Later(read, now) == IF read > now THEN read ELSE now

\* The report of a camera: the first makes the baseline, and the older events
\* are excused; the next bring what is unseen.
Report(r) ==
  /\ refresh[r].pc = "report"
  /\ LET c == refresh[r].camera
         now == refresh[r].now[c]
         read == refresh[r].read
         unseen == IF read = NoCursor THEN {} ELSE read + 1 .. now IN
     /\ cursors' = [cursors EXCEPT ![c] = Later(read, now)]
     /\ batch' = [batch EXCEPT ![c] = IF unseen = {} THEN @ ELSE unseen]
     /\ excused' = [excused EXCEPT ![c] = IF read = NoCursor THEN @ \cup (1..now) ELSE @]
     /\ Asks(r, refresh[r].now, refresh[r].todo)
  /\ UNCHANGED <<happened, stage, closes, runtime, targets, savedCursors, published>>

\* The store is locked while it is written, and who has written it goes on first.
SaveCursors(r) ==
  /\ refresh[r].pc = "save"
  /\ \A q \in Refreshes : refresh[q].pc # "success"
  /\ savedCursors' = refresh[r].saving
  /\ refresh' = [refresh EXCEPT ![r].pc = "success", ![r].saving = Forgotten]
  /\ UNCHANGED <<happened, stage, closes, runtime, targets, cursors, batch, motionHistory>>

\* The refresh is done, and the events are published.
Succeed(r) ==
  /\ refresh[r].pc = "success"
  /\ refresh' = [refresh EXCEPT ![r] = NoRefresh]
  /\ PublishMotion /\ SetUp
  /\ UNCHANGED <<happened, closes, runtime, targets, cursors, savedCursors, batch>>

\* A faulty RollBack, which takes back only the camera that failed.
RollBackOfOne(r) ==
  /\ refresh[r].pc \in {"capabilities", "report", "save"}
  /\ batch' = Empty
  /\ cursors' = [c \in Cameras |-> IF c = refresh[r].camera THEN refresh[r].previous[c]
                                  ELSE cursors[c]]
  /\ refresh' = [refresh EXCEPT ![r] = NoRefresh]
  /\ SetUp
  /\ UNCHANGED <<happened, closes, runtime, targets, savedCursors, motionHistory>>

\* UCAMS or the store fails: everything is as it was before the refresh.
RollBack(r) ==
  /\ refresh[r].pc \in {"capabilities", "report", "save"}
  /\ batch' = Empty
  /\ cursors' = refresh[r].previous
  /\ refresh' = [refresh EXCEPT ![r] = NoRefresh]
  /\ SetUp
  /\ UNCHANGED <<happened, closes, runtime, targets, savedCursors, motionHistory>>

\* Any other error is not handled: nothing is rolled back, and if it is the
\* first failure the listeners publish what is in the batch.
Breaks(r) ==
  /\ refresh[r].pc \in {"capabilities", "report"}
  /\ refresh' = [refresh EXCEPT ![r] = NoRefresh]
  /\ PublishMotion \/ UNCHANGED motionHistory
  /\ SetUp
  /\ UNCHANGED <<happened, closes, runtime, targets, cursors, savedCursors, batch>>

-----------------------------------------------------------------------------
(* The runtime.                                                            *)

\* async_initialize: the store, the cameras, and a refresh of its own.  A store
\* that cannot be read is an empty one.
Initialize ==
  /\ stage = "closed" /\ stage' = "setup"
  /\ \/ cursors' = savedCursors /\ UNCHANGED excused
     \/ /\ cursors' = Forgotten
        /\ excused' = [c \in Cameras |-> excused[c] \cup (1..happened[c])]
  /\ targets' = source
  /\ refresh' = [refresh EXCEPT !["poll"] =
       [NoRefresh EXCEPT !.pc = IF source = {} THEN "success" ELSE "capabilities",
                         !.previous = cursors', !.todo = source]]
  /\ UNCHANGED <<happened, closes, runtime, savedCursors, batch, published>>

\* A faulty Changes, which trusts the reconciliation that is under way.
ChangesUnnoticed ==
  /\ stage # "closed" /\ changes < MaxChanges /\ changes' = changes + 1
  /\ source' \in SUBSET Cameras
  /\ heard' = (stage = "open")
  /\ IF stage = "setup" THEN UNCHANGED <<pending, sync, synced>>
     ELSE IF sync = "idle"
     THEN pending' = FALSE /\ sync' = "controllers" /\ synced' = source'
     ELSE UNCHANGED <<pending, sync, synced>>
  /\ UNCHANGED <<happened, stage, closes, targets, refresh, cursors, savedCursors, batch,
                 motionHistory>>

\* The inventory, or the intercoms whose cameras are not standalone, changed.  In
\* the setup nobody listens.
Changes ==
  /\ stage # "closed" /\ changes < MaxChanges /\ changes' = changes + 1
  /\ source' \in SUBSET Cameras
  /\ heard' = (stage = "open")
  /\ IF stage = "setup" THEN UNCHANGED <<pending, sync, synced>>
     ELSE IF sync = "idle"
     THEN pending' = FALSE /\ sync' = "controllers" /\ synced' = source'
     ELSE pending' = TRUE /\ UNCHANGED <<sync, synced>>
  /\ UNCHANGED <<happened, stage, closes, targets, refresh, cursors, savedCursors, batch,
                 motionHistory>>

\* The new archive controllers are there; the analytics get the cameras that
\* were read before, and are refreshed if there are others.
Reconcile ==
  /\ sync = "controllers"
  /\ targets' = synced
  /\ IF targets' = targets
     THEN sync' = "refresh" /\ UNCHANGED <<refresh, batch>>
     ELSE sync' = "refresh" /\ Start("sync")
  /\ UNCHANGED <<happened, stage, closes, source, changes, heard, pending, synced, cursors,
                 savedCursors, motionHistory>>

\* _async_sync_runner goes round again if there was a change meanwhile.
Reconciled ==
  /\ sync = "refresh" /\ refresh["sync"].pc = "none"
  /\ pending' = FALSE
  /\ IF pending THEN sync' = "controllers" /\ synced' = source
                ELSE sync' = "idle" /\ synced' = {}
  /\ UNCHANGED <<happened, stage, closes, source, changes, heard, targets, refresh, cursors,
                 savedCursors, batch, motionHistory>>

\* close() and the end of the coordinator, also by a crash: what was saved and
\* not published is lost, and so is what was not saved.
UnloadMotion ==
  /\ stage # "closed" /\ closes < MaxCloses /\ closes' = closes + 1
  /\ stage' = "closed" /\ pending' = FALSE /\ sync' = "idle" /\ synced' = {} /\ heard' = FALSE
  /\ refresh' = [r \in Refreshes |-> NoRefresh]
  /\ batch' = Empty /\ targets' = {} /\ cursors' = Forgotten
  /\ excused' = [c \in Cameras |-> excused[c] \cup
       {i \in batch[c] : \E r \in Refreshes : refresh[r].pc = "success"}]
  /\ UNCHANGED <<happened, source, changes, savedCursors, published>>

Motion ==
  /\ \E c \in Cameras :
       happened[c] < MaxEvents /\ happened' = [happened EXCEPT ![c] = @ + 1]
  /\ UNCHANGED <<stage, closes, runtime, targets, refresh, cursors, savedCursors, batch,
                 motionHistory>>

Advances(r) ==
  \/ Capabilities(r) \/ Report(r) \/ SaveCursors(r) \/ Succeed(r) \/ RollBack(r) \/ Breaks(r)

MotionSteps ==
  \/ Initialize \/ Changes \/ Reconcile \/ Reconciled \/ UnloadMotion \/ Motion \/ Poll
  \/ \E r \in Refreshes : Advances(r)

Busy(r) == refresh[r].pc # "none"
Overlap == \A r \in Refreshes : Busy(r)

\* History: what is new to one of two refreshes under way, what the other takes out of
\* the batch of one that goes on, and what a refresh that breaks off has passed.
Doubt ==
  doubtful' = [c \in Cameras |-> doubtful[c] \cup
    {i \in Numbers :
       \E r \in Refreshes :
         \/ Overlap' /\ refresh'[r].previous[c] < i /\ i <= happened'[c]
         \/ Busy(r) /\ Busy(r)' /\ i \in batch[c] \ batch'[c]
         \/ Breaks(r) /\ refresh[r].previous[c] < i /\ i <= cursors[c]}]

MotionNext == MotionSteps /\ Doubt

MotionSpec == MotionInit /\ [][MotionNext]_motionVars

-----------------------------------------------------------------------------
(* Properties.                                                             *)

RefreshRecord ==
  [pc : {"none", "capabilities", "report", "save", "success"},
   previous : [Cameras -> NoCursor..MaxEvents], now : [Cameras -> NoCursor..MaxEvents],
   todo : SUBSET Cameras, camera : Cameras \cup {NoCamera}, read : NoCursor..MaxEvents,
   saving : [Cameras -> NoCursor..MaxEvents]]

MotionTypeOK ==
  /\ happened \in [Cameras -> 0..MaxEvents]
  /\ stage \in {"closed", "setup", "open"} /\ heard \in BOOLEAN
  /\ closes \in 0..MaxCloses /\ changes \in 0..MaxChanges /\ pending \in BOOLEAN
  /\ source \subseteq Cameras /\ synced \subseteq Cameras /\ targets \subseteq Cameras
  /\ sync \in {"idle", "controllers", "refresh"}
  /\ cursors \in [Cameras -> NoCursor..MaxEvents]
  /\ savedCursors \in [Cameras -> NoCursor..MaxEvents]
  /\ batch \in [Cameras -> SUBSET Numbers] /\ excused \in [Cameras -> SUBSET Numbers]
  /\ doubtful \in [Cameras -> SUBSET Numbers]
  /\ published \in [Cameras -> [Numbers -> Nat]]
  /\ refresh \in [Refreshes -> RefreshRecord]

Accounted(c, i) == published[c][i] > 0 \/ i \in excused[c]

\* No event is published twice, and no cursor passes one that was promised and is
\* not published, whatever fails, is rolled back, saved or reloaded: between
\* refreshes the cursor in memory, and at any time that in the store except for the
\* batch about to be published (analytics.py:292-412).  Excepted are exactly the doubtful
\* events, which the code repeats or loses, although "cursor updates are transactional
\* across cameras" (docs/api/analytics.md:119).
MotionIsPublishedOnce ==
  \A c \in Cameras : \A i \in Numbers \ doubtful[c] :
    LET aboutToBe == i \in batch[c] /\ \E r \in Refreshes : refresh[r].pc = "success" IN
    /\ published[c][i] <= 1
    /\ (i <= cursors[c] /\ \A r \in Refreshes : refresh[r].pc = "none") => Accounted(c, i)
    /\ i <= savedCursors[c] => Accounted(c, i) \/ aboutToBe

\* At rest the analytics poll the cameras of the inventory: a change that comes
\* while another is reconciled is not lost (private_runtime.py:180-238).
TargetsAreCurrent == sync = "idle" /\ heard => targets = source

-----------------------------------------------------------------------------
(* The inductive invariant behind MotionIsPublishedOnce: what is true of    *)
(* each event that is not doubtful.                                        *)

Sure(c) == Numbers \ doubtful[c]

Lives ==
  /\ stage # "open" => sync = "idle" /\ ~Busy("sync")
  /\ stage = "closed" => ~Busy("poll") /\ batch = Empty

\* A refresh asks for a camera once, and began before the capabilities came.
AsksInOrder ==
  \A r \in Refreshes : refresh[r].pc = "report" =>
    /\ refresh[r].camera \in Cameras \ refresh[r].todo
    /\ \A c \in Cameras : refresh[r].previous[c] <= refresh[r].now[c]

\* Nothing is ahead of what has happened.
NothingIsEarly ==
  \A c \in Cameras :
    /\ cursors[c] <= happened[c] /\ savedCursors[c] <= happened[c]
    /\ \A r \in Refreshes : /\ refresh[r].previous[c] <= happened[c]
                            /\ refresh[r].now[c] <= happened[c]
                            /\ refresh[r].saving[c] <= happened[c]
                            /\ refresh[r].camera = c => refresh[r].read <= happened[c]
    /\ \A i \in Numbers : i \in batch[c] \/ published[c][i] > 0 => i <= happened[c]

\* Cursors that may become those in memory: i was not published if they are behind it.
Sound(someCursors, c, i) ==
  published[c][i] > 0 => someCursors[c] = NoCursor \/ i <= someCursors[c]

\* A refresh under way can be rolled back: what it began behind stays behind every
\* cursor, and was published or excused.
KeepsBehind(r, c, i) ==
  LET asked == refresh[r] IN
  /\ Sound(asked.previous, c, i)
  /\ i <= asked.previous[c] =>
       /\ Accounted(c, i) /\ i <= cursors[c] /\ i \notin batch[c]
       /\ asked.pc = "report" /\ c = asked.camera => i <= asked.read

\* What is new to it is ahead of the cursors it still has to ask for, and what was
\* published had happened before the capabilities came.
AsksForNew(r, c, i) ==
  LET asked == refresh[r] IN
  /\ asked.pc = "report" /\ published[c][i] > 0 => i <= asked.now[c]
  /\ asked.previous[c] < i =>
       /\ asked.pc = "capabilities" \/ (asked.pc = "report" /\ c \in asked.todo)
            => cursors[c] < i
       /\ asked.pc = "report" /\ c = asked.camera =>
            /\ cursors[c] < i /\ asked.read < i
            /\ asked.read = NoCursor \/ published[c][i] = 0

\* What it saves is what is in memory, and then the batch is behind the saved cursors.
SavesWhatIs(r, c, i) ==
  LET asked == refresh[r] IN
  /\ asked.pc = "save" => /\ Sound(asked.saving, c, i)
                          /\ i <= asked.saving[c] <=> i <= cursors[c]
  /\ asked.pc = "success" /\ i \in batch[c] => i <= savedCursors[c]

\* What the cursors have passed was published, excused, or is in the batch, and what is
\* in the batch of a refresh under way was not published.  Two that are under way both
\* began behind the event.
EventIsKept(c, i) ==
  /\ Sound(cursors, c, i) /\ Sound(savedCursors, c, i)
  /\ \A r \in Refreshes :
       Busy(r) => KeepsBehind(r, c, i) /\ AsksForNew(r, c, i) /\ SavesWhatIs(r, c, i)
  /\ i <= cursors[c] => Accounted(c, i) \/ (i \in batch[c] /\ \E r \in Refreshes : Busy(r))
  /\ i \in batch[c] => /\ i <= cursors[c]
                       /\ (\E r \in Refreshes : Busy(r)) => published[c][i] = 0
  /\ Overlap /\ i <= happened[c] => \A r \in Refreshes : i <= refresh[r].previous[c]

MotionInv ==
  /\ MotionTypeOK /\ Lives /\ AsksInOrder /\ NothingIsEarly
  /\ \A c \in Cameras : \A i \in Sure(c) : EventIsKept(c, i)
  /\ MotionIsPublishedOnce

\* And of TargetsAreCurrent: a reconciliation under way has the cameras of the
\* inventory, or goes round again.
SyncInv ==
  /\ stage # "open" => sync = "idle"
  /\ sync = "controllers" /\ ~pending => synced = source
  /\ sync = "refresh" /\ ~pending => targets = source
  /\ TargetsAreCurrent
=============================================================================
