----------------------------- MODULE MCCameras -----------------------------
(* Instances for TLC of what is done with the cameras: exports, playback    *)
(* by the entities and by the dashboard card, images of calls, motion       *)
(* events, and lists read page by page.  They share no state, so one part   *)
(* moves and the others stay as they are at the start.                      *)
EXTENDS ArchiveExport, ArchiveView, ArchiveCard, CallImage, MotionAnalytics, PagedReads

CONSTANTS
  ring, night,  \* archive fragments, that of a call and another
  theRing       \* the call

VARIABLES
  part,      \* what moves
  recorded   \* recordings of which the archive card shows the days

OneCall == [f \in Fragments |-> IF f = ring THEN theRing ELSE NoCall]

\* Three with gaps; and two that touch, of which the second contains a third whose end a
\* shift back moves to, and after a gap two that overlap.
SomeArchives ==
  { {<<0, 2>>, <<3, 4>>, <<6, 9>>},
    {<<0, 1>>, <<1, 4>>, <<2, 3>>, <<6, 8>>, <<7, 9>>} }

\* Three days, of which the first and the last come and go.
SomeCardArchives == {{<<1, 3>>, <<5, 7>>}, {<<5, 7>>, <<9, 10>>}}

\* A window of whole seconds, and one that is not.
SomeWindows == {<<0, 12>>, <<3, 7>>}

\* The jobs, controls, doors and cameras are the same two model values.
Symmetric == Permutations(Jobs)

\* Bound: the motion of one camera goes through all changes and closes, that of two
\* through one of them, with an event each or, when the inventory changes, with one.
Untouched(c) == c \notin source \cup targets /\ happened[c] = 0 /\ cursors[c] = NoCursor

FewChangesOfTwo ==
  \/ \E c \in Cameras : \A d \in Cameras \ {c} : Untouched(d)
  \/ /\ changes + closes <= 1
     /\ \A c \in Cameras : happened[c] <= 1
     /\ changes = 0 \/ \E c \in Cameras : happened[c] = 0

camerasVars ==
  <<exportVars, viewVars, cardVars, imageVars, motionVars, readVars, part, recorded>>

CamerasInit ==
  /\ part \in {"exports", "view", "card", "days", "image", "motion", "reads"}
  /\ ExportInit
  /\ ViewInit /\ (part # "view" => archive = {<<0, 2>>, <<3, 4>>, <<6, 9>>} /\ duration = 2)
  /\ CardInit /\ (part # "card" => held = {<<1, 3>>, <<5, 7>>})
  /\ ImageInit
  /\ MotionInit /\ (part # "motion" => source = {})
  /\ ReadInit /\ (part # "reads" => reader = "calls" /\ listed = <<>>)
  /\ recorded \in IF part = "days" THEN Recordings ELSE {{}}

CamerasNext ==
  \/ part = "exports" /\ ExportNext
     /\ UNCHANGED <<viewVars, cardVars, imageVars, motionVars, readVars, part, recorded>>
  \/ part = "view" /\ ViewNext
     /\ UNCHANGED <<exportVars, cardVars, imageVars, motionVars, readVars, part, recorded>>
  \/ part = "card" /\ CardNext
     /\ UNCHANGED <<exportVars, viewVars, imageVars, motionVars, readVars, part, recorded>>
  \/ part = "image" /\ ImageNext
     /\ UNCHANGED <<exportVars, viewVars, cardVars, motionVars, readVars, part, recorded>>
  \/ part = "motion" /\ MotionNext
     /\ UNCHANGED <<exportVars, viewVars, cardVars, imageVars, readVars, part, recorded>>
  \/ part = "reads" /\ ReadNext
     /\ UNCHANGED <<exportVars, viewVars, cardVars, imageVars, motionVars, part, recorded>>

CamerasSpec == CamerasInit /\ [][CamerasNext]_camerasVars

\* The invariant of the part that moves: its types, and of the images also that what
\* is marked as loading is loaded, that the calls which cannot give one are known and
\* the repair issue is true.
CamerasInv ==
  CASE part = "exports" -> ExportInv /\ CleanupInv
    [] part = "view" -> ViewInv
    [] part = "card" -> CardInv
    [] part = "image" -> ImageInv
    [] part = "motion" -> MotionInv /\ SyncInv
    [] part = "reads" -> ReadTypeOK
    [] part = "days" -> recorded \in Recordings

\* The days that are shown are those of the recordings, whatever these are
\* (services.py:2204-2279).
DaysShowTheArchive ==
  \A day \in 0..(MaxSecond \div DayLength) : ShowsTheArchive(recorded, day)
=============================================================================
