----------------------------- MODULE CallImage -----------------------------
(***************************************************************************)
(* The image of the last call: a frame cut from the call's preview         *)
(* (image.py, image_status.py).  The entity hears of every refresh of the  *)
(* call history and starts, replaces or suppresses a load; the status      *)
(* manager of the entry counts failures over all intercoms and raises one  *)
(* repair issue.  A load that is cancelled ends later, when ffmpeg has     *)
(* been killed or the connection closed.                                   *)
(***************************************************************************)
EXTENDS Naturals, FiniteSets

CONSTANTS
  Doors,         \* the intercoms with a camera
  MaxImageCalls, \* bound: calls of one intercom
  MaxSetUps,     \* bound: times the entry is set up
  ImageFailures  \* IMAGE_FAILURES_BEFORE_REPAIR

ASSUME ImageAssumption ==
  MaxImageCalls \in Nat /\ MaxSetUps \in Nat /\ ImageFailures \in Nat \ {0}

NoUuid == 0
Uuids == 1..MaxImageCalls

VARIABLES
  latest,    \* of each intercom: the latest call and whether it has a preview
  entity,    \* the image entity and its current load, see NoEntity
  ending,    \* the cancelled loads that have not ended
  health,    \* the status of the image: loading, failures in a row, suppressed
  ffmpegOk,  \* what is known of ffmpeg: "unknown", "yes", "no"
  issue,     \* the repair issue is shown
  setUps,    \* how often the entry has been set up
  managed,   \* the status manager is there
  givenUp    \* calls whose preview failed for good since the set-up (history)

imageVars == <<latest, entity, ending, health, ffmpegOk, issue, setUps, managed, givenUp>>

\* loaded stands for _image_bytes too, load for _load_task and its progress.
NoEntity == [is |-> "new", loaded |-> NoUuid, loading |-> NoUuid, attempted |-> NoUuid,
             terminal |-> NoUuid, recent |-> FALSE, load |-> NoUuid, step |-> "none"]
NoHealth == [loading |-> FALSE, failures |-> 0, suppressed |-> FALSE]

ImageInit ==
  /\ latest = [c \in Doors |-> [uuid |-> NoUuid, preview |-> FALSE]]
  /\ entity = [c \in Doors |-> NoEntity] /\ ending = [c \in Doors |-> {}]
  /\ health = [c \in Doors |-> NoHealth]
  /\ ffmpegOk = "unknown" /\ issue = FALSE /\ setUps = 0 /\ managed = FALSE
  /\ givenUp = [c \in Doors |-> {}]

Problem == ffmpegOk = "no" \/ \E c \in Doors : health[c].failures >= ImageFailures

\* _update_repair_issue, at the end of a step that changes the status.
UpdateIssue == issue' = Problem'

-----------------------------------------------------------------------------
(* The entity hears of the latest call.                                    *)

\* _handle_call_update of the entity e: it asks for no image; has it or loads it;
\* knows that it will fail; waits for PREVIEW_FRAME_RETRY_SECONDS; or loads it
\* in place of what it loads now.
HandleCallUpdate(c, e, call) ==
  IF call.uuid = NoUuid \/ ~call.preview THEN
    /\ health' = [health EXCEPT ![c].suppressed = FALSE]
    /\ entity' = [entity EXCEPT ![c] = e] /\ UNCHANGED ending
  ELSE IF call.uuid \in {e.loaded, e.loading} THEN
    entity' = [entity EXCEPT ![c] = e] /\ UNCHANGED <<ending, health>>
  ELSE IF call.uuid = e.terminal THEN
    /\ health' = [health EXCEPT ![c].suppressed = TRUE]
    /\ entity' = [entity EXCEPT ![c] = e] /\ UNCHANGED ending
  ELSE IF call.uuid = e.attempted /\ e.recent THEN
    entity' = [entity EXCEPT ![c] = e] /\ UNCHANGED <<ending, health>>
  ELSE
    /\ ending' = [ending EXCEPT ![c] = IF e.load = NoUuid THEN @ ELSE @ \cup {e.load}]
    /\ entity' = [entity EXCEPT ![c] = [e EXCEPT !.loading = call.uuid,
         !.attempted = call.uuid, !.recent = TRUE, !.load = call.uuid, !.step = "download"]]
    /\ health' = [health EXCEPT ![c] = [@ EXCEPT !.loading = TRUE, !.suppressed = FALSE]]

\* The status manager is made and looks for ffmpeg.
SetUpImages ==
  /\ ~managed /\ setUps < MaxSetUps
  /\ managed' = TRUE /\ setUps' = setUps + 1
  /\ health' = [c \in Doors |-> NoHealth] /\ givenUp' = [c \in Doors |-> {}]
  /\ ending' = [c \in Doors |-> {}]
  /\ entity' = [c \in Doors |-> NoEntity]
  /\ ffmpegOk' \in {"yes", "no"} /\ UpdateIssue
  /\ UNCHANGED latest

\* async_added_to_hass: the entity subscribes and looks at the latest call.
AddImage(c) ==
  /\ managed /\ entity[c].is = "new"
  /\ HandleCallUpdate(c, [NoEntity EXCEPT !.is = "there"], latest[c])
  /\ UNCHANGED <<latest, ffmpegOk, issue, setUps, managed, givenUp>>

\* The call history has been refreshed, perhaps with a new call.
Refreshed(c) ==
  /\ \/ UNCHANGED latest
     \/ \E p \in BOOLEAN :
          /\ latest[c].uuid < MaxImageCalls
          /\ latest' = [latest EXCEPT ![c] = [uuid |-> latest[c].uuid + 1, preview |-> p]]
  /\ IF entity[c].is = "there" THEN HandleCallUpdate(c, entity[c], latest'[c])
     ELSE UNCHANGED <<entity, ending, health>>
  /\ UNCHANGED <<ffmpegOk, issue, setUps, managed, givenUp>>

RetryIsDue(c) ==
  /\ entity[c].recent
  /\ entity' = [entity EXCEPT ![c].recent = FALSE]
  /\ UNCHANGED <<latest, ending, health, ffmpegOk, issue, setUps, managed, givenUp>>

-----------------------------------------------------------------------------
(* _async_refresh_image, after normalize_call_preview_url.                 *)

\* A faulty Over, which keeps _loading_uuid.
OverStillLoading(e, u) == [e EXCEPT !.load = NoUuid, !.step = "none"]

\* The finally clause of the load of u.
Over(e, u) == [e EXCEPT !.loading = IF @ = u THEN NoUuid ELSE @,
                        !.load = NoUuid, !.step = "none"]

Downloaded(c) ==
  /\ entity[c].step = "download"
  /\ entity' = [entity EXCEPT ![c].step = "extract"]
  /\ UNCHANGED <<latest, ending, health, ffmpegOk, issue, setUps, managed, givenUp>>

\* It failed: for good if the preview is at fault, and ffmpeg has been seen or not.
LoadFails(c, forGood, ffmpeg) ==
  LET u == entity[c].load
      e == Over(entity[c], u)
      h == health[c] IN
  /\ entity' = [entity EXCEPT ![c] = IF forGood THEN [e EXCEPT !.terminal = u] ELSE e]
  /\ health' = [health EXCEPT ![c] = [h EXCEPT !.loading = FALSE,
       !.failures = IF h.failures < ImageFailures THEN h.failures + 1 ELSE h.failures,
       !.suppressed = forGood \/ h.suppressed]]
  /\ givenUp' = IF forGood THEN [givenUp EXCEPT ![c] = @ \cup {u}] ELSE givenUp
  /\ ffmpegOk' = ffmpeg /\ UpdateIssue
  /\ UNCHANGED <<latest, ending, setUps, managed>>

\* UfanetCallPreviewError, or the connection; no ffmpeg, a frame that cannot be
\* cut with or without seeking, or anything else.
DownloadFails(c) ==
  entity[c].step = "download" /\ \E forGood \in BOOLEAN : LoadFails(c, forGood, ffmpegOk)

ExtractFails(c) ==
  /\ entity[c].step = "extract"
  /\ LoadFails(c, FALSE, "no") \/ LoadFails(c, TRUE, "yes") \/ LoadFails(c, FALSE, ffmpegOk)

PublishImage(c) ==
  /\ entity' = [entity EXCEPT ![c] =
       [Over(@, entity[c].load) EXCEPT !.loaded = entity[c].load, !.terminal = NoUuid]]
  /\ health' = [health EXCEPT ![c] = NoHealth]
  /\ ffmpegOk' = "yes" /\ UpdateIssue
  /\ UNCHANGED <<latest, ending, setUps, managed, givenUp>>

\* A faulty Extracted, which publishes what it has loaded.
ExtractedForAnything(c) == entity[c].step = "extract" /\ PublishImage(c)

\* There is a frame: it is published if the call is still the latest.
Extracted(c) ==
  /\ entity[c].step = "extract"
  /\ IF latest[c].uuid = entity[c].load THEN PublishImage(c)
     ELSE /\ entity' = [entity EXCEPT ![c] = Over(@, entity[c].load)]
          /\ health' = [health EXCEPT ![c].loading = FALSE]
          /\ UNCHANGED <<latest, ending, ffmpegOk, issue, setUps, managed, givenUp>>

\* A cancelled load gets to run, and ends: mark_cancelled, and the finally clause.
CancelledEnds(c) ==
  /\ \E u \in ending[c] :
       /\ ending' = [ending EXCEPT ![c] = @ \ {u}]
       /\ entity' = [entity EXCEPT ![c].loading = IF @ = u THEN NoUuid ELSE @]
  /\ health' = [health EXCEPT ![c].loading = FALSE]
  /\ UNCHANGED <<latest, ffmpegOk, issue, setUps, managed, givenUp>>

-----------------------------------------------------------------------------
(* The entry is unloaded.                                                  *)

Removed(c) ==
  /\ entity[c].is = "there"
  /\ ending' = [ending EXCEPT ![c] = IF entity[c].load = NoUuid THEN @
                                     ELSE @ \cup {entity[c].load}]
  /\ entity' = [entity EXCEPT ![c] = [NoEntity EXCEPT !.is = "gone"]]
  /\ health' = [health EXCEPT ![c].loading = FALSE]
  /\ UNCHANGED <<latest, ffmpegOk, issue, setUps, managed, givenUp>>

\* stop, when the entities have gone.
StopImages ==
  /\ managed /\ \A c \in Doors : entity[c].is = "gone"
  /\ managed' = FALSE /\ issue' = FALSE
  /\ UNCHANGED <<latest, entity, ending, health, ffmpegOk, setUps, givenUp>>

ImageNext ==
  \/ SetUpImages \/ StopImages
  \/ \E c \in Doors :
       \/ AddImage(c) \/ Refreshed(c) \/ RetryIsDue(c) \/ Downloaded(c) \/ DownloadFails(c)
       \/ ExtractFails(c) \/ Extracted(c) \/ CancelledEnds(c) \/ Removed(c)

ImageSpec == ImageInit /\ [][ImageNext]_imageVars

-----------------------------------------------------------------------------
(* Properties.                                                             *)

EntityRecord ==
  [is : {"new", "there", "gone"}, loaded : 0..MaxImageCalls, loading : 0..MaxImageCalls,
   attempted : 0..MaxImageCalls, terminal : 0..MaxImageCalls, recent : BOOLEAN,
   load : 0..MaxImageCalls, step : {"none", "download", "extract"}]

ImageTypeOK ==
  /\ latest \in [Doors -> [uuid : 0..MaxImageCalls, preview : BOOLEAN]]
  /\ entity \in [Doors -> EntityRecord]
  /\ ending \in [Doors -> SUBSET Uuids] /\ givenUp \in [Doors -> SUBSET Uuids]
  /\ health \in [Doors -> [loading : BOOLEAN, failures : 0..ImageFailures,
                          suppressed : BOOLEAN]]
  /\ ffmpegOk \in {"unknown", "yes", "no"} /\ setUps \in 0..MaxSetUps
  /\ issue \in BOOLEAN /\ managed \in BOOLEAN

\* What is marked as loading is loaded by a task that will unmark it: otherwise no
\* update would ever load this call (image.py:131, 254).
LoadingHasATask ==
  \A c \in Doors : entity[c].loading = entity[c].load

\* A new image is of the call that is the latest at that moment, and it never gives
\* way to the image of an earlier call, however slow its load (image.py:240-246).
OnlyTheLatestIsShown ==
  [][\A c \in Doors : LET shown == entity'[c].loaded IN
       shown # entity[c].loaded /\ shown # NoUuid
         => shown = latest'[c].uuid /\ shown > entity[c].loaded]_imageVars

\* A call whose preview cannot give an image is not loaded again, whatever
\* calls, failures and refreshes follow (image.py:134-137, 194, 219).
GivenUpForGood ==
  \A c \in Doors : entity[c].load \notin givenUp[c]

\* The repair issue is shown exactly while there is a problem, and goes with the
\* entry even if cancelled loads end later (image_status.py:216-256).
ImageIssueIsTrue == issue = (managed /\ Problem)

\* Loads follow the calls: what is cancelled or was given up is older than what is
\* loaded, and only an entity that is there has anything.
LoadsAreInOrder(c) ==
  LET e == entity[c] IN
  /\ e.load = NoUuid <=> e.step = "none"
  /\ e.loaded <= latest[c].uuid /\ e.load <= latest[c].uuid
  /\ \A g \in givenUp[c] : g <= latest[c].uuid /\ (e.load # NoUuid => g < e.load)
  /\ e.is = "new" => ending[c] = {} /\ givenUp[c] = {}
  /\ e.is # "there" => e.load = NoUuid /\ e.loaded = NoUuid
  /\ e.is = "there" =>
       /\ managed
       /\ \A u \in ending[c] : u < latest[c].uuid /\ u # e.load
       /\ \A g \in givenUp[c] : g = e.terminal \/ g < latest[c].uuid

ImageInv ==
  /\ ImageTypeOK /\ LoadingHasATask /\ GivenUpForGood /\ ImageIssueIsTrue
  /\ \A c \in Doors : LoadsAreInOrder(c)
=============================================================================
