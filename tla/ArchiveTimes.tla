---------------------------- MODULE ArchiveTimes ----------------------------
(***************************************************************************)
(* Positions and days in the archive of a camera, as the controller of the *)
(* archive entities (archive.py), the services (services.py) and the       *)
(* archive card (ufanet-archive-card.js) compute them.  Times are seconds; *)
(* the archive is a set of recordings <<from, end>>, the end excluded,     *)
(* which may touch or overlap; the zone of the camera has no clock change. *)
(***************************************************************************)
EXTENDS Integers, Sequences, FiniteSets, SequencesExt, FiniteSetsExt

CONSTANTS
  DayLength,    \* 86400
  MaxSecond,    \* bound: the recordings whose days are compared lie before it
  Jitter        \* 3: gaps that _archive_days closes

ASSUME TimesAssumption == MaxSecond \in Nat /\ DayLength \in Nat \ {0} /\ Jitter \in Nat

-----------------------------------------------------------------------------
(* Where a control moves to.                                               *)

IsRecorded(ranges, t) == \E r \in ranges : r[1] <= t /\ t < r[2]

\* A faulty Resolve, which lands behind the end of the older recording.
ResolveBehindTheEnd(ranges, target, direction) ==
  IF IsRecorded(ranges, target) THEN {target}
  ELSE IF direction > 0
  THEN LET later == {r[1] : r \in {q \in ranges : q[1] > target}} IN
       IF later = {} THEN {} ELSE {Min(later)}
  ELSE LET earlier == {r \in ranges : r[2] <= target} IN
       {r[2] : r \in {q \in earlier : \A p \in earlier : p[1] <= q[1]}}

\* _resolve_target: the target, or the nearest recording in the direction; none if
\* there is none.
Resolve(ranges, target, direction) ==
  IF IsRecorded(ranges, target) THEN {target}
  ELSE IF direction > 0
  THEN LET later == {r[1] : r \in {q \in ranges : q[1] > target}} IN
       IF later = {} THEN {} ELSE {Min(later)}
  ELSE LET earlier == {r \in ranges : r[2] <= target} IN
       {IF r[1] > r[2] - 1 THEN r[1] ELSE r[2] - 1 :
          r \in {q \in earlier : \A p \in earlier : p[1] <= q[1]}}

\* The beginning of the last stretch of the newest recording.
Newest(ranges, length) ==
  {IF r[1] > r[2] - length THEN r[1] ELSE r[2] - length :
     r \in {q \in ranges : \A p \in ranges : p[2] <= q[2]}}

-----------------------------------------------------------------------------
(* The days of the archive, for the archive card (services.py).            *)

Before(a, b) == a[1] < b[1] \/ (a[1] = b[1] /\ a[2] < b[2])

\* The recordings cut at midnight: those of one day.
CutAtMidnight(ranges, day) ==
  LET from == day * DayLength
      end == from + DayLength IN
  {<<IF r[1] > from THEN r[1] ELSE from, IF r[2] < end THEN r[2] ELSE end>> :
     r \in {q \in ranges : q[1] < end /\ q[2] > from}}

\* The segments of a day in order.
InOrder(cut) ==
  CHOOSE s \in [1..Cardinality(cut) -> cut] : \A i, j \in DOMAIN s : i < j => Before(s[i], s[j])

\* A faulty Join, in which a contained recording ends the interval.
JoinToTheNext(merged, item) ==
  IF merged # <<>> /\ item[1] <= merged[Len(merged)][2] + Jitter
  THEN [merged EXCEPT ![Len(merged)][2] = item[2]]
  ELSE Append(merged, item)

\* A segment that follows the last one within the jitter, or overlaps it, is
\* joined to it.
Join(merged, item) ==
  IF merged # <<>> /\ item[1] <= merged[Len(merged)][2] + Jitter
  THEN [merged EXCEPT ![Len(merged)][2] = IF item[2] > @ THEN item[2] ELSE @]
  ELSE Append(merged, item)

\* _archive_days: the intervals of one day.
ArchiveDay(ranges, day) ==
  LET segments == InOrder(CutAtMidnight(ranges, day))
      joined[n \in 0..Len(segments)] ==
        IF n = 0 THEN <<>> ELSE Join(joined[n - 1], segments[n]) IN
  joined[Len(segments)]

\* Up to three recordings.
Recordings ==
  LET all == {r \in (0..MaxSecond) \X (0..MaxSecond) : r[1] < r[2]} IN
  {{p, q, r} : p, q, r \in all}

-----------------------------------------------------------------------------
(* What the archive card selects in the days it was given.                 *)

DayOf(t) == t \div DayLength

RecordedDays(ranges) ==
  {day \in {DayOf(t) : t \in UNION {r[1]..(r[2] - 1) : r \in ranges}} :
     ArchiveDay(ranges, day) # <<>>}

Distance(i, j) == IF i < j THEN j - i ELSE i - j

\* The first of those at the least distance; none of none.
Nearest(set, to) ==
  LET least == {e \in set : \A f \in set : Distance(e, to) <= Distance(f, to)} IN
  {e \in least : \A f \in least : e <= f}

\* _nearestRecordedDate
NearestDay(ranges, day) == Nearest(RecordedDays(ranges), day)

\* _resolveLocalSelection: the second of that day, or the nearest first or last
\* second of an interval, on the nearest day; none if nothing is recorded.
LocalSelection(ranges, day, second) ==
  LET on(d) == ToSet(ArchiveDay(ranges, d))
      ends(d) == UNION {{i[1], i[2] - 1} : i \in on(d)}
      at(d) == d * DayLength + second IN
  UNION {IF IsRecorded(on(d), at(d)) THEN {at(d)} ELSE Nearest(ends(d), at(d)) :
           d \in NearestDay(ranges, day)}

-----------------------------------------------------------------------------
(* Properties.                                                             *)

\* The days show every recorded second once, on its day, and nothing else but gaps
\* within the jitter, whatever the recordings are (services.py:2204-2279).
ShowsTheArchive(ranges, day) ==
  LET intervals == ArchiveDay(ranges, day)
      seconds == (day * DayLength)..((day + 1) * DayLength - 1)
      shown(i) == intervals[i][1]..(intervals[i][2] - 1)
      recorded == {t \in seconds : IsRecorded(ranges, t)} IN
  /\ UNION {shown(i) : i \in DOMAIN intervals} \subseteq seconds
  /\ \A t \in recorded : Cardinality({i \in DOMAIN intervals : t \in shown(i)}) = 1
  /\ \A i \in DOMAIN intervals : \A t \in shown(i) :
       \E u \in recorded : u <= t /\ t <= u + Jitter
  /\ \A i, j \in DOMAIN intervals : i < j => intervals[j][1] > intervals[i][2] + Jitter
=============================================================================
