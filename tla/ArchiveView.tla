---------------------------- MODULE ArchiveView ----------------------------
(***************************************************************************)
(* Playback of the archive of one camera: the controller that the archive  *)
(* entities share (archive.py), the archive camera whose open stream is    *)
(* moved to what they select (camera.py, private_entities.py), and what    *)
(* UCAMS answers (api.py).                                                 *)
(* A request is a control that waits for the recordings, or a fetch of a   *)
(* stream URL; several may be under way and are answered in any order.     *)
(***************************************************************************)
EXTENDS ArchiveTimes

CONSTANTS
  Controls,     \* calls of the controller that may be under way at once
  Archives,     \* what UCAMS may have recorded, at any time
  Durations,    \* what can be chosen as the duration, and as the step
  Steps,
  Positions,       \* the positions a user may choose
  MaxFetches    \* bound: fetches of a stream URL

ASSUME ViewAssumption ==
  /\ Positions \subseteq Nat /\ Durations \subseteq Nat \ {0} /\ Steps \subseteq Nat \ {0}
  /\ \A a \in Archives : \A r \in a : r[1] \in Nat /\ r[2] \in Nat /\ r[1] < r[2]
  /\ MaxFetches \in Nat

Nothing == [start |-> -1, for |-> 0, length |-> 0]

VARIABLES
  archive,   \* what UCAMS has recorded
  position,  \* the controller's position, duration and step
  duration,
  step,
  last,      \* last_archive: the URL that was fetched last, or Nothing
  control,   \* each call of the controller: its kind, target and direction
  stream,    \* what the open stream plays, or Nothing
  fetch,     \* the fetches under way: [n, start, for, opens]
  fetches,   \* how many there have been
  missed     \* the latest fetch failed, an earlier one was answered after it, or the
             \* selection changed while the stream was only being opened (history)

viewVars ==
  <<archive, position, duration, step, last, control, stream, fetch, fetches, missed>>

NoControl == [kind |-> "none", target |-> 0, direction |-> 0]

ViewInit ==
  /\ archive \in Archives
  /\ position = 0 /\ duration \in Durations /\ step \in Steps
  /\ last = Nothing /\ stream = Nothing /\ fetch = {} /\ fetches = 0 /\ missed = FALSE
  /\ control = [c \in Controls |-> NoControl]

-----------------------------------------------------------------------------
(* The entities.                                                           *)

\* A faulty Invalidate, which does not tell the archive camera.
InvalidateSilently ==
  /\ last' = Nothing
  /\ missed' = (stream = Nothing /\ fetch # {})
  /\ UNCHANGED <<stream, fetch, fetches>>

\* _notify: the archive camera moves its stream, if it is open, to what is selected now.
Notify ==
  /\ IF stream # Nothing
     THEN /\ fetches < MaxFetches /\ fetches' = fetches + 1
          /\ fetch' = fetch \cup
               {[n |-> fetches', start |-> position', for |-> duration', opens |-> FALSE]}
     ELSE UNCHANGED <<fetch, fetches>>
  /\ UNCHANGED stream

\* _invalidate, after the position or the duration has changed.
Invalidate ==
  /\ last' = Nothing
  /\ missed' = (stream = Nothing /\ fetch # {})
  /\ Notify

\* What the date-time entity and the buttons ask for.
Moves ==
  {[kind |-> "set", target |-> t, direction |-> 0] : t \in Positions}
  \cup {[kind |-> "shift", target |-> 0, direction |-> d] : d \in {-1, 1}}
  \cup {[kind |-> "latest", target |-> 0, direction |-> 0]}

\* The recordings are asked for before anything moves.
Press(c) ==
  /\ control[c] = NoControl
  /\ \E m \in Moves : control' = [control EXCEPT ![c] = m]
  /\ UNCHANGED <<archive, position, duration, step, last, stream, fetch, fetches, missed>>

\* async_set_position, async_shift and async_go_latest, when UCAMS has answered;
\* what is now selected counts, not what was when it was asked.
Targets(m) ==
  CASE m.kind = "set"    -> IF IsRecorded(archive, m.target) THEN {m.target} ELSE {}
    [] m.kind = "shift"  -> Resolve(archive, position + m.direction * step, m.direction)
    [] m.kind = "latest" -> Newest(archive, duration)

Move(c) ==
  /\ control[c] # NoControl
  /\ position' \in Targets(control[c])
  /\ control' = [control EXCEPT ![c] = NoControl]
  /\ UNCHANGED <<archive, duration, step>>
  /\ Invalidate

\* There is nothing to move to, or UCAMS does not answer.
Refuse(c) ==
  /\ control[c] # NoControl
  /\ control' = [control EXCEPT ![c] = NoControl]
  /\ UNCHANGED <<archive, position, duration, step, last, stream, fetch, fetches, missed>>

SetDuration ==
  /\ duration' \in Durations
  /\ UNCHANGED <<archive, position, step, control>>
  /\ Invalidate

\* Nothing that plays depends on the step, but the camera is notified all the same.
SetStep ==
  /\ step' \in Steps
  /\ UNCHANGED <<archive, position, duration, last, control>>
  /\ missed' = IF stream # Nothing THEN FALSE ELSE missed
  /\ Notify

-----------------------------------------------------------------------------
(* The archive camera.                                                     *)

\* stream_source, for a stream that Home Assistant opens, one at a time.
OpenStream ==
  /\ stream = Nothing /\ \A f \in fetch : ~f.opens
  /\ fetches < MaxFetches /\ fetches' = fetches + 1
  /\ fetch' = fetch \cup {
       [n |-> fetches', start |-> position, for |-> duration, opens |-> TRUE]}
  /\ missed' = FALSE
  /\ UNCHANGED <<archive, position, duration, step, last, control, stream>>

\* Home Assistant ends a stream that nobody watches.
CloseStream ==
  /\ stream # Nothing /\ stream' = Nothing
  /\ UNCHANGED <<archive, position, duration, step, last, control, fetch, fetches, missed>>

LatestIsUnderWay == \E f \in fetch : f.n = fetches

\* async_get_archive_url: a recording must hold the start, and clips the length;
\* async_get_stream_url keeps the answer and the camera plays it.
FetchAnswers ==
  /\ \E f \in fetch : \E r \in {q \in archive : q[1] <= f.start /\ f.start < q[2]} :
       LET left == r[2] - f.start
           url == [start |-> f.start, for |-> f.for,
                   length |-> IF f.for < left THEN f.for ELSE left] IN
       /\ fetch' = fetch \ {f}
       /\ last' = url
       /\ stream' = IF f.opens \/ stream # Nothing THEN url ELSE stream
       /\ missed' = (missed \/ (f.n # fetches /\ ~LatestIsUnderWay))
  /\ UNCHANGED <<archive, position, duration, step, control, fetches>>

\* The start is not recorded, or UCAMS does not answer: what plays goes on.
FetchFails ==
  /\ \E f \in fetch : fetch' = fetch \ {f} /\ missed' = (missed \/ f.n = fetches)
  /\ UNCHANGED <<archive, position, duration, step, last, control, stream, fetches>>

\* UCAMS records, and forgets what is older than dvr_hours.
Records ==
  /\ archive' \in Archives \ {archive}
  /\ UNCHANGED <<position, duration, step, last, control, stream, fetch, fetches, missed>>

ViewNext ==
  \/ \E c \in Controls : Press(c) \/ Move(c) \/ Refuse(c)
  \/ SetDuration \/ SetStep \/ OpenStream \/ CloseStream \/ FetchAnswers \/ FetchFails
  \/ Records

ViewSpec == ViewInit /\ [][ViewNext]_viewVars

-----------------------------------------------------------------------------
(* Properties.                                                             *)

ViewTypeOK ==
  LET urls == [start : Int, for : Durations \cup {0}, length : Nat] IN
  /\ archive \in Archives /\ position \in Int /\ duration \in Durations /\ step \in Steps
  /\ last \in urls /\ stream \in urls /\ fetches \in 0..MaxFetches /\ missed \in BOOLEAN
  /\ fetch \subseteq [n : 1..fetches, start : Int, for : Durations, opens : BOOLEAN]
  /\ control \in [Controls -> Moves \cup {NoControl}]

\* Once the latest fetch has been answered, the open stream and last_archive are those of
\* the position and the duration that the entities show, although the selection moved
\* while earlier fetches were under way, and whatever becomes of these (archive.py:92-112,
\* 152-168, camera.py:175-193).  Excepted are exactly a latest fetch that failed, an
\* earlier one that was answered after it, and a selection that changed while there was
\* only a fetch and no stream to be moved.
PlaysTheSelected ==
  ~LatestIsUnderWay /\ ~missed =>
    \A url \in {last, stream} \ {Nothing} : url.start = position /\ url.for = duration

\* A shift moves in its direction, into a recording, and past nothing recorded but
\* what the step passes, and, on the way back, the end of a recording that contains
\* the one it moves to the end of (archive.py:120-142, 199-223).
ShiftsSkipOnlyGaps ==
  [][\A c \in Controls :
       LET d == control[c].direction
           skipped == IF d > 0 THEN (position + step)..(position' - 1)
                      ELSE (position' + 1)..(position - step) IN
       control[c].kind = "shift" /\ control'[c] = NoControl /\ position' # position =>
         /\ position' > position <=> d > 0
         /\ IsRecorded(archive, position')
         /\ \A t \in skipped : \A r \in archive : r[1] <= t /\ t < r[2] =>
              d < 0 /\ \E q \in archive : r[1] <= q[1] /\ q[2] = position' + 1 /\ q[2] < r[2]
       ]_viewVars

-----------------------------------------------------------------------------
(* The inductive invariant behind PlaysTheSelected: the latest fetch is of   *)
(* what is selected.                                                       *)

SelectionArrives ==
  /\ PlaysTheSelected
  /\ ~missed => \A f \in fetch : f.n = fetches => f.start = position /\ f.for = duration

ViewInv == ViewTypeOK /\ SelectionArrives
=============================================================================
