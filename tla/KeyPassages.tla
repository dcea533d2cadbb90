---------------------------- MODULE KeyPassages ----------------------------
(***************************************************************************)
(* Physical-key passages: UfanetKeyPassageCoordinator (key_coordinator.py  *)
(* on top of coordinator.py), its persisted cursors, and the listener that *)
(* turns its batches into ufanet_intercom_key_passage events               *)
(* (__init__.py).                                                          *)
(*                                                                         *)
(* A refresh asks three provider contracts in turn, which key recording    *)
(* intercoms there are, the key inventory, and the history of every one of *)
(* them at once, and then saves the cursors if they moved.  Passage i of   *)
(* intercom s is the i-th the provider recorded there.  When refreshes are *)
(* allowed to start is the matter of CallHistory; here one may start       *)
(* whenever none is under way.                                             *)
(***************************************************************************)
EXTENDS Integers, FiniteSetsExt

CONSTANTS
  NumIntercoms,   \* intercom ids are 1..NumIntercoms
  Keys,           \* provider key ids
  KeyOf,          \* KeyOf[s][i]: the key used for the i-th passage at s
  MaxPassages,    \* bound: passages recorded at all the intercoms together
  MaxTime,        \* bound: last second of the clock
  MaxUnloads,     \* bound: unloads, reloads and restarts
  PageSize        \* rows of the first history page (25 in the code)

Intercoms == 1..NumIntercoms
Rows == 1..MaxPassages

ASSUME BoundsAssumption ==
  /\ NumIntercoms \in Nat /\ MaxPassages \in Nat
  /\ MaxTime \in Nat \ {0} /\ MaxUnloads \in Nat
  /\ PageSize \in Nat \ {0}
ASSUME KeysAssumption == KeyOf \in [Intercoms -> [Rows -> Keys]]

VARIABLES
  clock,      \* the provider's clock, in seconds
  count,      \* count[s]: passages recorded at intercom s
  time,       \* time[s][i]: when passage i at s was recorded
  unloads,    \* how often the entry has been unloaded
  stage,      \* config entry: "down", "setup", "running"
  step,       \* "none", "capability", "inventory", "history", "saving"
  supported,  \* self.supported_skud_ids
  cursors,    \* self._cursors, NoCursor where there is none
  previous,   \* previous_cursors of the refresh in progress
  saved,      \* the cursors in the private store
  batch,      \* self.new_passages: batch[s] is a set of rows
  lastOk,     \* coordinator.last_update_success
  fired,      \* fired[s][i]: ufanet_intercom_key_passage events (history)
  excused,    \* excused[s]: rows nobody has promised to report (history)
  aborted,    \* aborted[s]: rows read by a refresh that a fatal history ended (history)
  unheard     \* unheard[s]: those of them no listener was called for (history)

provider == <<clock, count, time>>
memory   == <<supported, cursors, previous, batch, lastOk>>
aborts   == <<aborted, unheard>>
vars == <<clock, count, time, unloads, stage, step, supported, cursors, previous,
          saved, batch, lastOk, fired, excused, aborted, unheard>>

NoCursor == [time |-> -1, keys |-> {}]
NoRows == [s \in Intercoms |-> {}]
NoCursors == [s \in Intercoms |-> NoCursor]

-----------------------------------------------------------------------------
(* Pages and cursors.                                                      *)

\* The first page of an intercom's history: its PageSize newest rows.
Page(s) == {i \in 1..count[s] : i > count[s] - PageSize}

\* A cursor covers a row when it would not call the row unseen.
Covers(c, s, i) ==
  \/ time[s][i] < c.time
  \/ time[s][i] = c.time /\ KeyOf[s][i] \in c.keys

Latest(s) == Max({0} \cup {time[s][i] : i \in Page(s)})
KeysAt(s, t) == {KeyOf[s][i] : i \in {j \in Page(s) : time[s][j] = t}}

\* A faulty Advance: of the latest second only the new keys are kept.
AdvanceForgettingKeys(c, s) ==
  IF c # NoCursor /\ (Page(s) = {} \/ Latest(s) < c.time)
  THEN c
  ELSE [time |-> Latest(s),
        keys |-> IF c.time = Latest(s) THEN KeysAt(s, Latest(s)) \ c.keys
                                       ELSE KeysAt(s, Latest(s))]

\* _advance_passage_cursor: the cursor after reading the page of s.
Advance(c, s) ==
  IF c # NoCursor /\ (Page(s) = {} \/ Latest(s) < c.time)
  THEN c
  ELSE [time |-> Latest(s),
        keys |-> KeysAt(s, Latest(s)) \cup
                   IF c.time = Latest(s) THEN c.keys ELSE {}]

\* The rows of the page that a cursor has not seen; the first page is baseline.
Unseen(c, s) == IF c = NoCursor THEN {} ELSE {i \in Page(s) : ~Covers(c, s, i)}

\* The rows that cursors go past when they move from `from` to `to`.
Passed(from, to, s) == {i \in 1..count[s] : Covers(to[s], s, i) /\ ~Covers(from[s], s, i)}

\* Row i is one that a running entry has promised to report, as long as the
\* account has the intercom: it is in the batch, or should be.
Promised(from, rows, listed, s, i) ==
  /\ stage = "running" /\ s \in listed
  /\ i \in rows[s] \/ (from[s] # NoCursor /\ i \in Page(s))

PassOver(from, to, rows, listed) ==
  excused' = [s \in Intercoms |-> excused[s] \cup
    {i \in Passed(from, to, s) : ~Promised(from, rows, listed, s, i)}]

\* The entry stops between the save and the events.
LoseSaved ==
  excused' = [s \in Intercoms |->
    excused[s] \cup {i \in 1..count[s] : Covers(cursors[s], s, i)}]

-----------------------------------------------------------------------------
Init ==
  /\ clock = 1
  /\ count = [s \in Intercoms |-> 0]
  /\ time = [s \in Intercoms |-> [i \in Rows |-> 0]]
  /\ unloads = 0
  /\ stage = "down" /\ step = "none"
  /\ supported = {}
  /\ cursors = NoCursors /\ previous = NoCursors /\ saved = NoCursors
  /\ batch = NoRows
  /\ lastOk = TRUE
  /\ fired = [s \in Intercoms |-> [i \in Rows |-> 0]]
  /\ excused = NoRows /\ aborted = NoRows /\ unheard = NoRows

\* Somebody uses a key; a reader takes a key once a second at most.
RecordPassage(s) ==
  LET i == count[s] + 1 IN
  /\ MapThenSumSet(LAMBDA r : count[r], Intercoms) < MaxPassages /\ i \in Rows
  /\ \A j \in 1..count[s] : time[s][j] = clock => KeyOf[s][j] # KeyOf[s][i]
  /\ count' = [count EXCEPT ![s] = i]
  /\ time' = [time EXCEPT ![s][i] = clock]
  /\ UNCHANGED <<clock, unloads, stage, step, memory, saved, fired, excused, aborts>>

Tick ==
  /\ clock < MaxTime
  /\ clock' = clock + 1
  /\ UNCHANGED <<count, time, unloads, stage, step, memory, saved, fired, excused, aborts>>

-----------------------------------------------------------------------------
(* The life of the entry.                                                  *)

\* async_initialize reads the store, or starts anew if it cannot; the first
\* refresh follows at once and the listener comes after it.
Setup ==
  /\ stage = "down"
  /\ stage' = "setup"
  /\ step' = "capability"
  /\ cursors' \in {saved, NoCursors}
  /\ UNCHANGED <<provider, unloads, supported, previous, saved, batch, lastOk, fired,
                 excused, aborts>>

\* Unload, reload or crash; a save under way may or may not have got through.
Unload ==
  /\ stage # "down" /\ unloads < MaxUnloads
  /\ unloads' = unloads + 1
  /\ stage' = "down" /\ step' = "none"
  /\ \/ UNCHANGED <<saved, excused>>
     \/ /\ step = "saving"
        /\ saved' = cursors
        /\ LoseSaved
  /\ supported' = {}
  /\ cursors' = NoCursors /\ previous' = NoCursors
  /\ batch' = NoRows
  /\ lastOk' = TRUE
  /\ UNCHANGED <<provider, fired, aborts>>

-----------------------------------------------------------------------------
(* The end of a refresh, as Home Assistant runs it.                        *)

\* What the listener takes from a batch: it skips the intercoms that the account
\* does not list at that moment, as coordinator.data has it.  That coordinator
\* polls by itself, so at every publication `listed` is any set.
Heard(rows, listed) == [s \in Intercoms |-> IF s \in listed THEN rows[s] ELSE {}]

\* The listener fires one event per passage, once it is there.
Publish(rows) ==
  /\ fired' = [s \in Intercoms |-> [i \in Rows |->
                IF stage = "running" /\ i \in rows[s]
                THEN fired[s][i] + 1 ELSE fired[s][i]]]
  /\ stage' = "running"

Succeed(rows) ==
  /\ step' = "none"
  /\ lastOk' = TRUE
  /\ Publish(rows)

\* The listeners still run after the first failure in a row.
Fail(rows) ==
  /\ step' = "none"
  /\ lastOk' = FALSE
  /\ Publish(IF lastOk THEN rows ELSE NoRows)

-----------------------------------------------------------------------------
(* One refresh: _async_update_data.                                        *)

\* A faulty BeginRefresh: the last batch survives into the next refresh.
BeginRefreshKeepingBatch ==
  /\ stage = "running" /\ step = "none"
  /\ step' = "capability"
  /\ UNCHANGED <<provider, unloads, stage, memory, saved, fired, excused, aborts>>

BeginRefresh ==
  /\ stage = "running" /\ step = "none"
  /\ step' = "capability"
  /\ batch' = NoRows
  /\ UNCHANGED <<provider, unloads, stage, supported, cursors, previous, saved,
                 lastOk, fired, excused, aborts>>

\* Discovery fails, or rejects the login: what was supported stays so.
CapabilityFails ==
  /\ step = "capability"
  /\ Fail(batch)
  /\ UNCHANGED <<provider, unloads, supported, cursors, previous, saved, batch, excused, aborts>>

CapabilityArrives(ids) ==
  /\ step = "capability"
  /\ supported' = ids
  /\ IF ids = {}
     THEN Succeed(batch)
     ELSE step' = "inventory" /\ UNCHANGED <<stage, lastOk, fired>>
  /\ UNCHANGED <<provider, unloads, cursors, previous, saved, batch, excused, aborts>>

InventoryFails ==
  /\ step = "inventory"
  /\ Fail(batch)
  /\ UNCHANGED <<provider, unloads, supported, cursors, previous, saved, batch, excused, aborts>>

InventoryArrives ==
  /\ step = "inventory"
  /\ step' = "history"
  /\ UNCHANGED <<provider, unloads, stage, memory, saved, fired, excused, aborts>>

\* The histories are taken in the order of the ids.  A failed one is passed
\* over; a fatal one (a rejected login, an unexpected error) ends the refresh
\* and leaves the cursors and the batch as they are by then.
Used(answers) ==
  {s \in supported : answers[s] = "page" /\ \A r \in supported : r < s => answers[r] # "fatal"}

Fatal(answers) == \E s \in supported : answers[s] = "fatal"

HistoriesArrive(answers, listed) ==
  /\ step = "history"
  /\ LET used == Used(answers)
         found == [s \in Intercoms |-> IF s \in used THEN Unseen(cursors[s], s) ELSE batch[s]]
         moved == [s \in Intercoms |->
                    IF s \in used THEN Advance(cursors[s], s) ELSE cursors[s]]
     IN
     /\ batch' = found
     /\ cursors' = moved
     /\ \/ /\ Fatal(answers)
           /\ PassOver(cursors, moved, found, listed)
           /\ aborted' = [s \in Intercoms |-> aborted[s] \cup Passed(cursors, moved, s)]
           /\ unheard' = IF lastOk THEN unheard
                         ELSE [s \in Intercoms |-> unheard[s] \cup found[s]]
           /\ Fail(Heard(found, listed))
           /\ UNCHANGED previous
        \/ /\ ~Fatal(answers) /\ moved = cursors
           /\ Succeed(Heard(found, listed))
           /\ UNCHANGED <<previous, excused, aborts>>
        \/ /\ ~Fatal(answers) /\ moved # cursors
           /\ step' = "saving"
           /\ previous' = cursors
           /\ UNCHANGED <<stage, lastOk, fired, excused, aborts>>
  /\ UNCHANGED <<provider, unloads, supported, saved>>

CursorsSaved(listed) ==
  /\ step = "saving"
  /\ saved' = cursors
  /\ previous' = NoCursors
  /\ PassOver(previous, cursors, batch, listed)
  /\ Succeed(Heard(batch, listed))
  /\ UNCHANGED <<provider, unloads, supported, cursors, batch, aborts>>

\* A faulty SaveFails: the cursors keep what could not be saved.
SaveFailsWithoutRollback ==
  /\ step = "saving"
  /\ batch' = NoRows
  /\ previous' = NoCursors
  /\ Fail(NoRows)
  /\ UNCHANGED <<provider, unloads, supported, cursors, saved, excused, aborts>>

SaveFails ==
  /\ step = "saving"
  /\ batch' = NoRows
  /\ cursors' = previous /\ previous' = NoCursors
  /\ Fail(NoRows)
  /\ UNCHANGED <<provider, unloads, supported, saved, excused, aborts>>

-----------------------------------------------------------------------------
Answers == {"page", "error", "fatal"}

Record  == \E s \in Intercoms : RecordPassage(s)
Discover == \E ids \in SUBSET Intercoms : CapabilityArrives(ids)
ReadHistories ==
  \E answers \in [supported -> Answers], listed \in SUBSET Intercoms :
    HistoriesArrive(answers, listed)
Save == \E listed \in SUBSET Intercoms : CursorsSaved(listed)

Next ==
  \/ Record \/ Tick
  \/ Setup \/ Unload
  \/ BeginRefresh
  \/ CapabilityFails \/ Discover
  \/ InventoryFails \/ InventoryArrives
  \/ ReadHistories
  \/ Save \/ SaveFails

Spec == Init /\ [][Next]_vars

-----------------------------------------------------------------------------
(* Properties.                                                             *)

Cursor == [time : -1..MaxTime, keys : SUBSET Keys]

TypeOK ==
  /\ clock \in 1..MaxTime
  /\ count \in [Intercoms -> 0..MaxPassages]
  /\ time \in [Intercoms -> [Rows -> 0..MaxTime]]
  /\ unloads \in 0..MaxUnloads
  /\ stage \in {"down", "setup", "running"}
  /\ step \in {"none", "capability", "inventory", "history", "saving"}
  /\ supported \in SUBSET Intercoms
  /\ cursors \in [Intercoms -> Cursor]
  /\ previous \in [Intercoms -> Cursor]
  /\ saved \in [Intercoms -> Cursor]
  /\ batch \in [Intercoms -> SUBSET Rows]
  /\ lastOk \in BOOLEAN
  /\ fired \in [Intercoms -> [Rows -> Nat]]
  /\ {excused, aborted, unheard} \subseteq [Intercoms -> SUBSET Rows]

\* A passage is reported once, across failures, failed saves, reloads and a store
\* that cannot be read.  Only one that was read by a refresh which another history
\* ended fatally may come again, and only once for each further life of the entry:
\* that refresh publishes what it read, and leaves its cursors unsaved, although "a
\* private cursor prevents duplicate passage delivery after reloads" (README.md:173;
\* coordinator.py:196-241, key_coordinator.py:94-154).
NoDuplicatePassage ==
  \A s \in Intercoms, i \in Rows :
    \/ fired[s][i] <= 1
    \/ i \in aborted[s] /\ fired[s][i] <= unloads + 1

\* The cursors as they are once a save under way has been rolled back.
Settled == IF step = "saving" THEN previous ELSE cursors

\* Nobody waits for row i any more: its event was fired, or it is one nobody
\* promised, or it was read by a refresh that a fatal history ended, the second
\* failure in a row, for which Home Assistant calls no listener.
IsAccountedFor(s, i) == fired[s][i] > 0 \/ i \in excused[s] \cup unheard[s]

\* A passage that a cursor has gone past for good is accounted for: a cursor never
\* runs ahead of the events (key_coordinator.py:94-154, __init__.py:459-478).
NoPassageSwallowed ==
  \A s \in Intercoms : \A i \in 1..count[s] : Covers(Settled[s], s, i) => IsAccountedFor(s, i)

\* What the store holds is never ahead of the events either, so that a reload
\* loses nothing (key_coordinator.py:145-154).
StoreNeverAhead ==
  \A s \in Intercoms : \A i \in 1..count[s] : Covers(saved[s], s, i) => IsAccountedFor(s, i)

-----------------------------------------------------------------------------
(* Why the three hold: an inductive invariant.                             *)

\* Batches exist only from the histories to the end of the refresh.
BatchesAreShortLived ==
  /\ step \in {"capability", "inventory", "history"} => batch = NoRows
  /\ stage = "down" => step = "none" /\ batch = NoRows
  /\ stage = "setup" => step # "none"
  /\ step # "saving" => previous = NoCursors

\* A cursor will not find row i again.
Behind(c, s, i) == c = NoCursor \/ Covers(c, s, i) \/ i \notin Page(s)

\* What was fired is not found again: by no cursor at all, if it was not read by an
\* aborted refresh, and else by none of this life of the entry.
FiredAreBehind ==
  \A s \in Intercoms, i \in Rows :
    fired[s][i] > 0 =>
      /\ i <= count[s]
      /\ i \notin aborted[s] => \A c \in {cursors[s], saved[s], Settled[s]} : Behind(c, s, i)
      /\ fired[s][i] > unloads => \A c \in {cursors[s], Settled[s]} : Behind(c, s, i)

OncePerLife ==
  \A s \in Intercoms, i \in Rows :
    fired[s][i] <= (IF stage = "down" THEN unloads ELSE unloads + 1)

BatchIsUnfired ==
  step = "saving" =>
    \A s \in Intercoms : \A i \in batch[s] :
      /\ i <= count[s] /\ Covers(cursors[s], s, i)
      /\ fired[s][i] = 0 \/ (i \in aborted[s] /\ fired[s][i] <= unloads)

BatchIsComplete ==
  step = "saving" =>
    \A s \in Intercoms : \A i \in Page(s) :
      previous[s] # NoCursor /\ Covers(cursors[s], s, i) /\ ~Covers(previous[s], s, i)
        => i \in batch[s]

\* Cursors hold nothing but what has been recorded.
CursorsWereRead ==
  \A s \in Intercoms : \A c \in {cursors[s], previous[s], saved[s]} :
    /\ c.time <= clock
    /\ \A k \in c.keys : \E j \in 1..count[s] : time[s][j] = c.time /\ KeyOf[s][j] = k

RowsArePast == \A s \in Intercoms : \A i \in 1..count[s] : time[s][i] <= clock

IInv ==
  /\ TypeOK
  /\ BatchesAreShortLived
  /\ FiredAreBehind /\ OncePerLife
  /\ BatchIsUnfired
  /\ BatchIsComplete
  /\ CursorsWereRead
  /\ RowsArePast
  /\ NoDuplicatePassage
  /\ NoPassageSwallowed
  /\ StoreNeverAhead
=============================================================================
