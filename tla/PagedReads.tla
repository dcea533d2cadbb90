----------------------------- MODULE PagedReads -----------------------------
(***************************************************************************)
(* Lists that are read in several requests while they change: the calls of *)
(* a day (services.py), the motion of a time window (analytics.py) and the *)
(* inventory of private cameras (private_cameras.py).                      *)
(*                                                                         *)
(* A request and its answer are one step, and the list may change between  *)
(* two of them.  Calls come newest first and cameras in the order of their *)
(* addresses, by numbered pages; motion by windows of time, of which an    *)
(* answer brings the newest events and says whether these are all.  Times  *)
(* are in half seconds, because requests carry whole ones.                 *)
(***************************************************************************)
EXTENDS Naturals, Sequences, FiniteSets, SequencesExt

CONSTANTS
  PageSize,      \* page_size of the call history and of the inventory
  MaxPages,      \* pages that are asked for
  MaxListed,     \* bound: calls or cameras there are
  SplitDepth,    \* _MOTION_SPLIT_MAX_DEPTH
  TimeWindows,   \* the windows of time that are asked for
  MaxMotion,     \* bound: motion events there are
  MaxArrivals    \* bound: changes of a list while it is read

MinWindow == 2   \* _MOTION_SPLIT_MIN_WINDOW, one second
ReportLimit == 1 \* _MOTION_REQUEST_LIMIT

ASSUME ReadBounds ==
  /\ {PageSize, MaxPages} \subseteq Nat \ {0}
  /\ {MaxListed, SplitDepth, MaxMotion, MaxArrivals} \subseteq Nat
  /\ \A w \in TimeWindows : w \in Nat \X Nat /\ w[1] < w[2]

VARIABLES
  reader,     \* see Readers
  listed,     \* calls, newest first, or cameras, in their order
  motion,     \* times of the motion events
  promised,   \* what was there at the start and is asked for (history)
  asked,      \* the window of time asked for
  ahead,      \* the requests to be made: numbers of pages, or windows with a depth
  visited,    \* pages that have been asked for
  shown,      \* what has been found
  outcome,    \* "checking", "reading", "unsupported", "complete" or "failed"
  arrivals,
  disturbed   \* a camera has gone while they were read (history)

readVars == <<reader, listed, motion, promised, asked, ahead, visited, shown, outcome,
              arrivals, disturbed>>

MotionReaders == {"motion", "private motion"}
Readers == {"calls", "inventory"} \cup MotionReaders
CallKinds == {"later", "wanted", "elsewhere", "earlier", "undated"}
Ordered(kinds) == \* newest first; an undated call may be anywhere
  \A i, j \in DOMAIN kinds :
    i < j => /\ kinds[i] = "earlier" => kinds[j] \in {"earlier", "undated"}
             /\ kinds[j] = "later" => kinds[i] \in {"later", "undated"}

Second(t) == t - (t % 2)

ReadInit ==
  /\ reader \in Readers
  /\ outcome = IF reader \in MotionReaders THEN "checking" ELSE "reading"
  /\ visited = {} /\ shown = <<>> /\ arrivals = 0 /\ disturbed = FALSE
  /\ \/ /\ reader = "calls" /\ motion = {} /\ asked = <<0, 0>> /\ ahead = <<1>>
        /\ \E n \in 0..MaxListed : \E kinds \in [1..n -> CallKinds] :
             /\ Ordered(kinds)
             /\ listed = [i \in 1..n |-> <<i, kinds[i]>>]
             /\ promised = {<<i, "wanted">> : i \in {j \in 1..n : kinds[j] = "wanted"}}
     \/ /\ reader \in MotionReaders /\ listed = <<>> /\ asked \in TimeWindows
        /\ motion \in {m \in SUBSET (0..asked[2]) : Cardinality(m) <= MaxMotion}
        /\ promised = {t \in motion : Second(asked[1]) <= t /\ t < Second(asked[2])}
        /\ ahead = <<<<asked, 0>>>>
     \/ /\ reader = "inventory" /\ motion = {} /\ asked = <<0, 0>> /\ ahead = <<1>>
        /\ \E n \in 0..MaxListed : listed = [i \in 1..n |-> <<i, "camera">>]
        /\ promised = Range(listed)

-----------------------------------------------------------------------------
(* Reading.                                                                *)

\* What was found before is not shown again; the order of what is new is left out.
Adds(items) == shown' = shown \o SetToSeq(items \ Range(shown))

Page(p) ==
  SubSeq(listed, (p - 1) * PageSize + 1,
         IF p * PageSize < Len(listed) THEN p * PageSize ELSE Len(listed))

Asking(who) == reader \in who /\ outcome = "reading" /\ ahead # <<>>

\* Nothing more of the day can follow: the page is short, all dated calls on it are
\* older than the day, or it is the last that is asked for.
LastPage(p) ==
  \/ Len(Page(p)) < PageSize
  \/ p = MaxPages
  \/ LET dated == {x \in Range(Page(p)) : x[2] # "undated"} IN
       dated # {} /\ \A x \in dated : x[2] = "earlier"

ReadCalls ==
  /\ Asking({"calls"})
  /\ LET p == Head(ahead) IN
     /\ Adds({x \in Range(Page(p)) : x[2] = "wanted"})
     /\ visited' = visited \cup {p}
     /\ IF LastPage(p) THEN ahead' = <<>> /\ outcome' = "complete"
                       ELSE ahead' = <<p + 1>> /\ UNCHANGED outcome
  /\ UNCHANGED <<reader, listed, motion, promised, asked, arrivals, disturbed>>

\* Whether the camera has motion analytics is known from the last refresh, if that
\* was a success, or asked for.
Checked ==
  /\ outcome = "checking"
  /\ outcome' \in {"reading", "unsupported"}
  /\ ahead' = IF outcome' = "reading" THEN ahead ELSE <<>>
  /\ UNCHANGED <<reader, listed, motion, promised, asked, visited, shown, arrivals, disturbed>>

CheckMotion == reader = "motion" /\ Checked
CheckPrivateMotion == reader = "private motion" /\ Checked

\* A faulty Halves, whose newer half begins with the next second.
HalvesApart(w, depth) ==
  LET middle == w[1] + (w[2] - w[1]) \div 2 IN
    <<<<<<w[1], middle>>, depth + 1>>, <<<<middle + 2, w[2]>>, depth + 1>>>>

\* The older half of a window, then the newer one.
Halves(w, depth) ==
  LET middle == w[1] + (w[2] - w[1]) \div 2 IN
    <<<<<<w[1], middle>>, depth + 1>>, <<<<middle, w[2]>>, depth + 1>>>>

\* The events of a window, with or without those at its end; a page that does not
\* bring them all is asked for again in two halves, or the window is too dense.
ReadMotion ==
  /\ Asking(MotionReaders)
  /\ LET w == Head(ahead)[1]
         depth == Head(ahead)[2] IN
     \E hits \in { {t \in motion : Second(w[1]) <= t /\ t < Second(w[2])},
                   {t \in motion : Second(w[1]) <= t /\ t <= Second(w[2])} } :
       IF Cardinality(hits) <= ReportLimit
       THEN /\ Adds(hits)
            /\ ahead' = Tail(ahead)
            /\ outcome' = IF Tail(ahead) = <<>> THEN "complete" ELSE "reading"
       ELSE /\ UNCHANGED shown
            /\ IF depth >= SplitDepth \/ w[2] - w[1] <= MinWindow
               THEN ahead' = <<>> /\ outcome' = "failed"
               ELSE ahead' = Halves(w, depth) \o Tail(ahead) /\ UNCHANGED outcome
  /\ UNCHANGED <<reader, listed, motion, promised, asked, visited, arrivals, disturbed>>

\* A page of cameras, with the number of the next one, which the provider may get
\* wrong: a page that was read before is refused, and so is one too many.
ReadInventory ==
  /\ Asking({"inventory"})
  /\ LET p == Head(ahead) IN
     IF p \in visited \/ Cardinality(visited) >= MaxPages
     THEN ahead' = <<>> /\ outcome' = "failed" /\ UNCHANGED <<visited, shown>>
     ELSE /\ visited' = visited \cup {p}
          /\ Adds(Range(Page(p)))
          /\ IF p * PageSize < Len(listed)
             THEN /\ \E next \in visited \cup {p, p + 1} : ahead' = <<next>>
                  /\ UNCHANGED outcome
             ELSE ahead' = <<>> /\ outcome' = "complete"
  /\ UNCHANGED <<reader, listed, motion, promised, asked, arrivals, disturbed>>

\* A request fails, or its answer cannot be used, or the device is not found: the
\* whole reading does.
ReadFails ==
  /\ outcome \in {"checking", "reading"}
  /\ ahead' = <<>> /\ outcome' = "failed"
  /\ UNCHANGED <<reader, listed, motion, promised, asked, visited, shown, arrivals, disturbed>>

-----------------------------------------------------------------------------
(* Changes of the lists.                                                   *)

Changed ==
  /\ outcome = "reading" /\ arrivals < MaxArrivals /\ arrivals' = arrivals + 1
  /\ UNCHANGED <<reader, promised, asked, ahead, visited, shown, outcome>>

\* Somebody calls.
NewCall ==
  /\ reader = "calls" /\ Changed
  /\ \E kind \in CallKinds :
       LET longer == <<<<MaxListed + arrivals + 1, kind>>>> \o listed IN
         /\ Ordered([i \in DOMAIN longer |-> longer[i][2]])
         /\ listed' = longer
  /\ UNCHANGED <<motion, disturbed>>

\* A camera detects motion, or the analysis of earlier video is ready.
NewMotion ==
  /\ reader \in MotionReaders /\ Changed
  /\ \E t \in 0..asked[2] : motion' = motion \cup {t}
  /\ UNCHANGED <<listed, disturbed>>

NewCamera ==
  /\ reader = "inventory" /\ Changed
  /\ \E i \in 0..Len(listed) :
       listed' = SubSeq(listed, 1, i) \o <<<<MaxListed + arrivals + 1, "camera">>>>
                   \o SubSeq(listed, i + 1, Len(listed))
  /\ UNCHANGED <<motion, disturbed>>

\* A camera has gone, and those behind it move up.
CameraGone ==
  /\ reader = "inventory" /\ Changed /\ disturbed' = TRUE
  /\ \E i \in DOMAIN listed :
       listed' = SubSeq(listed, 1, i - 1) \o SubSeq(listed, i + 1, Len(listed))
  /\ UNCHANGED motion

ReadNext ==
  \/ ReadCalls \/ CheckMotion \/ CheckPrivateMotion \/ ReadMotion \/ ReadInventory \/ ReadFails
  \/ NewCall \/ NewMotion \/ NewCamera \/ CameraGone

ReadSpec == ReadInit /\ [][ReadNext]_readVars

-----------------------------------------------------------------------------
(* Properties.                                                             *)

ReadTypeOK ==
  /\ reader \in Readers
  /\ outcome \in {"checking", "reading", "unsupported", "complete", "failed"}
  /\ arrivals \in 0..MaxArrivals /\ disturbed \in BOOLEAN
  /\ visited \subseteq 1..MaxPages /\ motion \subseteq Nat
  /\ asked \in {<<0, 0>>} \cup TimeWindows
  /\ outcome \in {"unsupported", "complete", "failed"} => ahead = <<>>

BehindTheLastPage == {listed[i] : i \in MaxPages * PageSize + 1 .. Len(listed)}

\* A reading that is not refused shows everything that was asked for and was there
\* when it began, and nothing twice, however the list grows and pages shift
\* meanwhile and even if the provider sends the reader back to a page it has read.
\* Two exceptions the code makes: calls behind the last page it asks for, and, when
\* a camera goes, the ones that move up a page (services.py:696-758; analytics.py:195-231;
\* private_cameras.py:131-166).
ReadsAreComplete ==
  outcome = "complete" =>
    /\ IsInjective(shown)
    /\ \A x \in promised :
         \/ x \in Range(shown)
         \/ disturbed
         \/ reader = "calls" /\ x \in BehindTheLastPage
=============================================================================
