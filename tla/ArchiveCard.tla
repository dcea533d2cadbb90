---------------------------- MODULE ArchiveCard ----------------------------
(***************************************************************************)
(* The archive tab of the dashboard card (ufanet-archive-card.js) for one  *)
(* camera: what it plays, the date and time in its inputs, and the calls   *)
(* and motion events it lists.  Handlers run until they await an answer of *)
(* Home Assistant, and answers come in any order.  The other tabs, what a  *)
(* row looks like, and the zoom of the timeline are left out.              *)
(***************************************************************************)
EXTENDS ArchiveTimes

CONSTANTS
  CardArchives,   \* what is recorded, at any time
  CardStep, CardLength,
  Lead,           \* how long before an event the playback begins
  EventTimes,     \* when there was a call, and motion
  Seconds,        \* the times of a day a user may choose
  MaxWork,        \* bound: handlers that await something
  MaxClicks       \* bound: what the user and the dashboard do

ASSUME CardAssumption ==
  /\ \A a \in CardArchives :
       a # {} /\ IsFiniteSet(a) /\ \A r \in a : r \in Nat \X Nat /\ r[1] < r[2]
  /\ CardStep \in Nat \ {0} /\ CardLength \in Nat \ {0} /\ Lead \in Nat
  /\ EventTimes \subseteq Nat /\ Seconds \subseteq 0..(DayLength - 1)
  /\ MaxWork \in Nat \ {0} /\ MaxClicks \in Nat

Unset == -1
Lists == {"calls", "motion"}
Workers == 1..MaxWork
CardDates == UNION {0..DayOf(r[2] - 1) : r \in UNION CardArchives}

NoWork == [do |-> "none", at |-> Unset]

VARIABLES
  held,       \* what UCAMS holds
  ranges,     \* _ranges and _days, as they were answered
  ready,      \* _initialized
  opening,    \* _initializing goes on: its first playback is being loaded
  work,       \* the handlers that wait: for the ranges (init, latest, next), for the
              \* events of a date, for an export; and what they are to move to
  loading,    \* the start that _loadStart has asked a URL for
  disabled,   \* the buttons of the card
  current,    \* _currentEpoch
  date, time, \* the inputs
  player,     \* none yet, in the page, or no longer in the page
  dateOf,     \* the date whose events are shown, for each list
  known,      \* the dates in the cache, for each list
  awaited,      \* the events asked for: [list, date, for a handler]
  label,      \* the line above the calls: the list, or why there is none
  status,     \* the status line
  offered,    \* the start of the exported fragment that is offered
  late,       \* it was exported before the position moved (history)
  clicks

inputs == <<date, time>>
playback == <<loading, disabled, current, player, offered, late>>
events == <<dateOf, known, awaited, label>>
cardVars == <<held, ranges, ready, opening, work, status, clicks, inputs, playback, events>>

\* setConfig and the first connectedCallback are over.
CardInit ==
  /\ held \in CardArchives /\ ranges = {} /\ ready = FALSE /\ opening = FALSE
  /\ work = [w \in Workers |-> IF w = 1 THEN [do |-> "init", at |-> Unset] ELSE NoWork]
  /\ loading = Unset /\ disabled = FALSE /\ current = Unset /\ date = Unset /\ time = Unset
  /\ player = "none" /\ offered = Unset /\ late = FALSE
  /\ dateOf = [l \in Lists |-> Unset] /\ known = [l \in Lists |-> {}] /\ awaited = {}
  /\ label = "list" /\ status = "info" /\ clicks = 0

-----------------------------------------------------------------------------
(* Loading, and the events of a date.                                      *)

Click == clicks < MaxClicks /\ clicks' = clicks + 1
Idle(w) == work[w] = NoWork
Begins(w, do, at) ==
  /\ Idle(w) /\ \A v \in 1..(w - 1) : ~Idle(v)
  /\ work' = [work EXCEPT ![w] = [do |-> do, at |-> at]]
Ends(w) == work' = [work EXCEPT ![w] = NoWork]

\* _loadStart up to its request: one at a time, and another is not made up for.
Load(start) ==
  /\ loading' = IF loading = Unset THEN start ELSE loading
  /\ disabled' = (disabled \/ loading = Unset)
  /\ status' = IF loading = Unset THEN "info" ELSE status
  /\ UNCHANGED <<current, player, offered, late>>

\* _refreshCallEvents and _refreshMotionEvents, for these lists: from the cache, or
\* by a request.
ShowLists(which, day, for) ==
  LET cached == {l \in which : day \in known[l]} IN
  /\ dateOf' = [l \in Lists |-> IF l \in cached THEN day ELSE dateOf[l]]
  /\ awaited' = awaited \cup {[list |-> l, date |-> day, for |-> for] : l \in which \ cached}
  /\ label' = IF "calls" \notin which THEN label
              ELSE IF "calls" \in cached THEN "list" ELSE "loading"
  /\ UNCHANGED known

\* _loadFromInputs, with these inputs.
LoadInputs(day, second) ==
  LET to == IF day = Unset THEN {} ELSE LocalSelection(ranges, day, second) IN
  IF to # {}
  THEN \E t \in to : date' = DayOf(t) /\ time' = t % DayLength /\ Load(t)
  ELSE /\ date' = day /\ time' = second
       /\ status' = IF day = Unset THEN status ELSE "warning"
       /\ UNCHANGED playback

TimeShown == IF time = Unset THEN 0 ELSE time

\* _handleDateChange, when the events are there: the time nearest to the one shown,
\* unless the date has gone from the archive; and then whatever the inputs show now.
Continue(day) ==
  IF day \notin RecordedDays(ranges) THEN UNCHANGED <<inputs, status, playback>>
  ELSE \E t \in LocalSelection(ranges, day, TimeShown) : LoadInputs(date, t % DayLength)

\* _setDateTimeInputs: the events follow where they are of another date.
SetDateTimeInputs(t) ==
  /\ date' = DayOf(t) /\ time' = t % DayLength
  /\ ShowLists({l \in Lists : dateOf[l] # DayOf(t)}, DayOf(t), 0)

\* A URL has come; a start is answered if it is recorded.
UrlAnswered ==
  /\ loading # Unset /\ IsRecorded(held, loading)
  /\ loading' = Unset /\ disabled' = FALSE /\ current' = loading
  /\ SetDateTimeInputs(loading)
  /\ offered' = Unset /\ late' = FALSE
  /\ player' = IF player = "none" THEN "shown" ELSE player
  /\ status' = "playing" /\ opening' = FALSE
  /\ UNCHANGED <<held, ranges, ready, work, clicks>>

UrlFails ==
  /\ loading # Unset /\ loading' = Unset /\ disabled' = FALSE /\ status' = "error"
  /\ opening' = FALSE
  /\ UNCHANGED <<held, ranges, ready, work, clicks, inputs, current, player, offered, late,
                 events>>

\* A faulty EventsAnswered, which shows them whatever the date is by now.
EventsAnsweredAnyDate(r) ==
  LET done == \A q \in awaited \ {r} : q.for # r.for IN
  /\ awaited' = awaited \ {r}
  /\ known' = [known EXCEPT ![r.list] = @ \cup {r.date}]
  /\ dateOf' = [dateOf EXCEPT ![r.list] = r.date]
  /\ label' = IF r.list = "calls" THEN "list" ELSE label
  /\ IF r.for # 0 /\ done
     THEN Ends(r.for) /\ Continue(work[r.for].at)
     ELSE UNCHANGED <<work, inputs, status, playback>>
  /\ UNCHANGED <<held, ranges, ready, opening, clicks>>

\* Events have come: they are kept, and shown if the date is still theirs.  A change
\* of the date goes on when both lists have come or failed.
EventsAnswered(r) ==
  LET done == \A q \in awaited \ {r} : q.for # r.for
      theirs == date = r.date IN
  /\ awaited' = awaited \ {r}
  /\ known' = [known EXCEPT ![r.list] = @ \cup {r.date}]
  /\ dateOf' = IF theirs THEN [dateOf EXCEPT ![r.list] = r.date] ELSE dateOf
  /\ label' = IF theirs /\ r.list = "calls" THEN "list" ELSE label
  /\ IF r.for # 0 /\ done
     THEN Ends(r.for) /\ Continue(work[r.for].at)
     ELSE UNCHANGED <<work, inputs, status, playback>>
  /\ UNCHANGED <<held, ranges, ready, opening, clicks>>

\* No motion event is shown then; the calls stay those shown before, under an error.
EventsFail(r) ==
  LET done == \A q \in awaited \ {r} : q.for # r.for IN
  /\ awaited' = awaited \ {r}
  /\ dateOf' = IF r.list = "motion" /\ date = r.date THEN [dateOf EXCEPT ![r.list] = r.date]
               ELSE dateOf
  /\ label' = IF r.list = "calls" THEN "error" ELSE label
  /\ IF r.for # 0 /\ done
     THEN Ends(r.for) /\ Continue(work[r.for].at)
     ELSE UNCHANGED <<work, inputs, status, playback>>
  /\ UNCHANGED <<held, ranges, ready, opening, clicks, known>>

-----------------------------------------------------------------------------
(* The life of the card.                                                   *)

Initializing == opening \/ \E w \in Workers : work[w].do = "init"

\* _renderSkeleton: empty inputs and lists, and the player is no longer in the page.
Render ==
  /\ date' = Unset /\ time' = Unset /\ label' = "list" /\ status' = "info" /\ disabled' = FALSE
  /\ player' = IF player = "none" THEN "none" ELSE "lost"
  /\ UNCHANGED <<loading, current, offered, late, dateOf, known, awaited>>

StartUp(isReady) ==
  IF isReady \/ Initializing THEN UNCHANGED work
  ELSE \E w \in Workers : Begins(w, "init", Unset)

\* connectedCallback, when the card is put into the page, also for the second time.
Attach ==
  /\ Click /\ Render /\ StartUp(ready)
  /\ UNCHANGED <<held, ranges, ready, opening>>

\* setConfig, with another title, say.
Configure ==
  /\ Click /\ Render /\ ready' = FALSE /\ StartUp(FALSE)
  /\ UNCHANGED <<held, ranges, opening>>

\* Any change of a state in Home Assistant tries again what failed.
HassChanges ==
  /\ ~ready /\ ~Initializing /\ StartUp(FALSE)
  /\ status' = "info"
  /\ UNCHANGED <<held, ranges, ready, opening, clicks, inputs, playback, events>>

\* _refreshRanges, and what waits for it.  The target was computed before.
RangesAnswered(w) ==
  /\ work[w].do \in {"init", "latest", "next"} /\ Ends(w)
  /\ ranges' = held
  /\ ready' = (ready \/ work[w].do = "init")
  /\ opening' = IF work[w].do = "init" /\ loading = Unset THEN TRUE ELSE opening
  /\ LET to == IF work[w].do = "next" THEN Resolve(held, work[w].at, 1)
               ELSE Newest(held, CardLength) IN
     IF to = {} THEN status' = "warning" /\ UNCHANGED playback ELSE \E t \in to : Load(t)
  /\ UNCHANGED <<held, clicks, inputs, events>>

RangesFail(w) ==
  /\ work[w].do \in {"init", "latest", "next"} /\ Ends(w)
  /\ status' = IF work[w].do = "init" THEN "error" ELSE status
  /\ UNCHANGED <<held, ranges, ready, opening, clicks, inputs, playback, events>>

-----------------------------------------------------------------------------
(* The user.                                                               *)

\* The buttons are disabled while a URL is awaited; the inputs and the timeline are not.
Pushed == ~disabled /\ Click

\* _handleDateChange: the nearest recorded date, and its events.
ChooseDate(day) ==
  /\ Click /\ day # date
  /\ \E near \in NearestDay(ranges, day) :
       IF \A l \in Lists : near \in known[l]
       THEN /\ ShowLists(Lists, near, 0)
            /\ \E t \in LocalSelection(ranges, near, TimeShown) :
                 LoadInputs(near, t % DayLength)
            /\ UNCHANGED work
       ELSE /\ \E w \in Workers : Begins(w, "date", near) /\ ShowLists(Lists, near, w)
            /\ date' = near /\ status' = IF near = day THEN status ELSE "warning"
            /\ UNCHANGED <<time, playback>>
  /\ UNCHANGED <<held, ranges, ready, opening>>

\* The same before the ranges are known.
ChooseDateEarly(day) ==
  /\ Click /\ ranges = {} /\ date' = day
  /\ UNCHANGED <<held, ranges, ready, opening, work, time, status, playback, events>>

ChooseTime(second) ==
  /\ Click /\ LoadInputs(date, second)
  /\ UNCHANGED <<held, ranges, ready, opening, work, events>>

\* _handleTimelineClick: the time follows at once, the date when it is loaded.
ClickTimeline(second) ==
  /\ Click /\ date # Unset
  /\ LET to == LocalSelection(ranges, date, second) IN
     IF to = {} THEN status' = "warning" /\ UNCHANGED <<time, playback>>
     ELSE \E t \in to : time' = t % DayLength /\ Load(t)
  /\ UNCHANGED <<held, ranges, ready, opening, work, date, events>>

\* _shift, and _goLatest of a card that plays nothing yet or at the user's wish: they
\* ask for the ranges where those that are known do not suffice.
Shift(direction) ==
  /\ Pushed
  /\ LET target == current + direction * CardStep
         to == Resolve(ranges, target, direction) IN
     IF current = Unset
     THEN (\E w \in Workers : Begins(w, "latest", Unset)) /\ UNCHANGED <<status, playback>>
     ELSE IF to # {}
     THEN (\E t \in to : Load(t)) /\ UNCHANGED work
     ELSE IF direction > 0
     THEN (\E w \in Workers : Begins(w, "next", target)) /\ UNCHANGED <<status, playback>>
     ELSE status' = "warning" /\ UNCHANGED <<work, playback>>
  /\ UNCHANGED <<held, ranges, ready, opening, inputs, events>>

GoLatest ==
  /\ Pushed /\ \E w \in Workers : Begins(w, "latest", Unset)
  /\ UNCHANGED <<held, ranges, ready, opening, status, inputs, playback, events>>

\* What of the archive the timeline or the intervals of the date let one choose.
PlayInterval ==
  /\ Pushed
  /\ \E i \in ToSet(ArchiveDay(ranges, date)) : \E t \in i[1]..(i[2] - 1) : Load(t)
  /\ UNCHANGED <<held, ranges, ready, opening, work, inputs, events>>

\* A row of the calls that are listed, or a marker on the timeline, which has those
\* of the date only.
Clickable(list, t) == dateOf[list] = DayOf(t) /\ (list = "motion" => dateOf[list] = date)

\* _loadCallEvent and _loadMotionEvent: from a moment before the event on.
OpenEvent(list, t) ==
  /\ Pushed /\ Clickable(list, t)
  /\ LET before == Resolve(ranges, t - Lead, 1)
         to == IF before # {} THEN before ELSE Resolve(ranges, t, -1) IN
     IF to = {} THEN status' = "warning" /\ UNCHANGED playback ELSE \E s \in to : Load(s)
  /\ UNCHANGED <<held, ranges, ready, opening, work, inputs, events>>

\* Another duration loads the position again.
ChooseDuration ==
  /\ Click /\ current # Unset /\ Load(current)
  /\ UNCHANGED <<held, ranges, ready, opening, work, inputs, events>>

\* The button above the calls: both lists again, from the server.
RefreshEvents ==
  /\ Pushed /\ date # Unset
  /\ awaited' = awaited \cup {[list |-> l, date |-> date, for |-> 0] : l \in Lists}
  /\ label' = "loading"
  /\ UNCHANGED <<held, ranges, ready, opening, work, status, inputs, playback, dateOf, known>>

\* _prepareArchiveDownload
Export ==
  /\ Pushed
  /\ IF current = Unset \/ loading # Unset THEN status' = "warning" /\ UNCHANGED work
     ELSE status' = "info" /\ \E w \in Workers : Begins(w, "export", current)
  /\ UNCHANGED <<held, ranges, ready, opening, inputs, playback, events>>

ExportAnswered(w) ==
  /\ work[w].do = "export" /\ Ends(w)
  /\ \/ offered' = work[w].at /\ late' = (current # work[w].at) /\ status' = "saved"
     \/ offered' = Unset /\ late' = FALSE /\ status' = "error"
  /\ UNCHANGED <<held, ranges, ready, opening, clicks, inputs, loading, disabled, current, player,
                 events>>

\* UCAMS records, and forgets.
ArchiveMoves ==
  /\ Click /\ held' \in CardArchives \ {held}
  /\ UNCHANGED <<ranges, ready, opening, work, status, inputs, playback, events>>

CardNext ==
  \/ UrlAnswered \/ UrlFails \/ Attach \/ Configure \/ HassChanges
  \/ \E r \in awaited : EventsAnswered(r) \/ EventsFail(r)
  \/ \E w \in Workers : RangesAnswered(w) \/ RangesFail(w) \/ ExportAnswered(w)
  \/ \E day \in CardDates : ChooseDate(day) \/ ChooseDateEarly(day)
  \/ \E second \in Seconds : ChooseTime(second) \/ ClickTimeline(second)
  \/ \E direction \in {-1, 1} : Shift(direction)
  \/ \E list \in Lists, t \in EventTimes : OpenEvent(list, t)
  \/ GoLatest \/ PlayInterval \/ ChooseDuration \/ RefreshEvents \/ Export \/ ArchiveMoves

CardSpec == CardInit /\ [][CardNext]_cardVars

-----------------------------------------------------------------------------
(* Properties.                                                             *)

CardTypeOK ==
  LET Times == {Unset} \cup Nat IN
  /\ held \in CardArchives /\ ranges \in CardArchives \cup {{}} /\ {ready, opening} \subseteq BOOLEAN
  /\ work \in [Workers -> [do : {"init", "latest", "next", "date", "none"}, at : Int]
                           \cup [do : {"export"}, at : Nat]]
  /\ {loading, current, offered, time} \subseteq Times /\ date \in CardDates \cup {Unset}
  /\ dateOf \in [Lists -> CardDates \cup {Unset}] /\ known \in [Lists -> SUBSET CardDates]
  /\ awaited \subseteq [list : Lists, date : CardDates, for : 0..MaxWork]
  /\ player \in {"none", "shown", "lost"} /\ label \in {"list", "loading", "error"}
  /\ status \in {"info", "warning", "error", "playing", "saved"}
  /\ {late, disabled} \subseteq BOOLEAN /\ clicks \in 0..MaxClicks

\* When nothing is awaited and the status says what plays, the inputs show its date
\* and time, the calls and the motion events are those of that date, or the card says
\* that they could not be read, and what is offered for download is what plays, unless
\* the position moved during the export: whatever was chosen or answered meanwhile
\* (ufanet-archive-card.js:1479-1581, 1848-1951, 2965-2983).
CardShowsWhatPlays ==
  (/\ status = "playing" /\ awaited = {} /\ \A w \in Workers : Idle(w)
   /\ date \in RecordedDays(ranges)) =>
    /\ date = DayOf(current) /\ time = current % DayLength
    /\ dateOf["motion"] = date /\ (dateOf["calls"] = date \/ label = "error")
    /\ offered = current \/ offered = Unset \/ late

-----------------------------------------------------------------------------
(* The inductive invariant behind it: while the status says what plays, a   *)
(* handler that changes the date still waits, or the inputs are those of the *)
(* position and what is not shown of the date is awaited.                    *)

Expected(list) == \E r \in awaited : r.list = list /\ r.date = date

PlaysWhatItShows ==
  status = "playing" =>
    /\ loading = Unset /\ offered = Unset
    /\ date \in RecordedDays(ranges) =>
         \/ \E w \in Workers : work[w] = [do |-> "date", at |-> date]
         \/ /\ date = DayOf(current) /\ time = current % DayLength
            /\ dateOf["motion"] = date \/ Expected("motion")
            /\ dateOf["calls"] = date \/ label = "error" \/ Expected("calls")

CardInv == CardTypeOK /\ PlaysWhatItShows
=============================================================================
