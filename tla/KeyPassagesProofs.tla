------------------------- MODULE KeyPassagesProofs -------------------------
(***************************************************************************)
(* Theorems about KeyPassages, for every value of its constants.           *)
(***************************************************************************)
EXTENDS KeyPassages, WellFoundedInduction, TLAPS

\* A non-empty set of naturals with an upper bound has a greatest element.
LEMMA BoundedSetHasMax ==
  ASSUME NEW bound \in Nat, NEW S \in SUBSET (0..bound), S # {}
  PROVE  Max(S) \in S /\ \A x \in S : x <= Max(S)
<1> DEFINE T == {bound - x : x \in S}
<1>1. T \subseteq Nat /\ T # {}
  <2>1. PICK e \in S : bound - e \in T
    OBVIOUS
  <2>2. \A x \in S : bound - x \in Nat
    OBVIOUS
  <2> QED
    BY <2>1, <2>2
<1>2. PICK low \in T : \A y \in T : ~(<<y, low>> \in OpToRel(<, Nat))
  BY <1>1, NatLessThanWellFounded, WFMin
<1>3. \A y \in T : ~(y < low)
  BY <1>1, <1>2 DEF OpToRel
<1>4. PICK top \in S : low = bound - top
  BY <1>2
<1>5. \A x \in S : bound - x \in T /\ x <= top
  BY <1>3, <1>4
<1> QED
  BY <1>4, <1>5 DEF Max

LEMMA PageIsRows ==
  ASSUME TypeOK, NEW s \in Intercoms
  PROVE  Page(s) \subseteq Rows /\ Page(s) \subseteq 1..count[s]
BY BoundsAssumption DEF Page, TypeOK, Rows, BoundsAssumption

\* The latest time on a page bounds the times of its rows.
LEMMA LatestBoundsPage ==
  ASSUME TypeOK, NEW s \in Intercoms
  PROVE  /\ Latest(s) \in 0..MaxTime
         /\ \A i \in Page(s) : time[s][i] <= Latest(s)
         /\ Latest(s) = 0 \/ \E i \in Page(s) : time[s][i] = Latest(s)
<1> DEFINE times == {0} \cup {time[s][i] : i \in Page(s)}
<1>1. MaxTime \in Nat
  BY BoundsAssumption DEF BoundsAssumption
<1>2. \A i \in Page(s) : time[s][i] \in 0..MaxTime
  BY PageIsRows DEF TypeOK
<1>3. times \in SUBSET (0..MaxTime) /\ times # {}
  BY <1>1, <1>2
<1>4. Max(times) \in times /\ \A x \in times : x <= Max(times)
  BY ONLY <1>1, <1>3, BoundedSetHasMax
<1>5. Latest(s) = Max(times)
  BY DEF Latest
<1>6. \A i \in Page(s) : time[s][i] \in times
  OBVIOUS
<1>7. QED
  BY <1>3, <1>4, <1>5, <1>6

LEMMA AdvanceIsTyped ==
  ASSUME TypeOK, NEW s \in Intercoms, NEW c \in Cursor
  PROVE  Advance(c, s) \in Cursor
<1>1. KeysAt(s, Latest(s)) \subseteq Keys
  BY PageIsRows, KeysAssumption DEF KeysAt, KeysAssumption
<1>2. Latest(s) \in -1..MaxTime
  BY LatestBoundsPage, BoundsAssumption DEF BoundsAssumption
<1>3. QED
  BY <1>1, <1>2 DEF Advance, Cursor

\* An advanced cursor covers what the old one covered, and the whole page.
LEMMA AdvanceCovers ==
  ASSUME TypeOK, NEW s \in Intercoms, NEW c \in Cursor, NEW i \in Rows
  PROVE  /\ c # NoCursor /\ Covers(c, s, i) => Covers(Advance(c, s), s, i)
         /\ i \in Page(s) => Covers(Advance(c, s), s, i)
<1>0. /\ Latest(s) \in 0..MaxTime /\ time[s][i] \in 0..MaxTime
      /\ c.time \in -1..MaxTime /\ MaxTime \in Nat
  BY LatestBoundsPage, BoundsAssumption DEF TypeOK, Cursor, BoundsAssumption
<1>1. CASE c # NoCursor /\ (Page(s) = {} \/ Latest(s) < c.time)
  <2>1. Advance(c, s) = c
    BY <1>1 DEF Advance
  <2>2. i \in Page(s) => time[s][i] < c.time
    BY <1>1, <1>0, LatestBoundsPage
  <2>3. QED
    BY <2>1, <2>2 DEF Covers
<1>2. CASE ~(c # NoCursor /\ (Page(s) = {} \/ Latest(s) < c.time))
  <2>1. Advance(c, s) = [time |-> Latest(s),
                         keys |-> KeysAt(s, Latest(s)) \cup
                                    IF c.time = Latest(s) THEN c.keys ELSE {}]
    BY <1>2 DEF Advance
  <2>2. ASSUME i \in Page(s) PROVE Covers(Advance(c, s), s, i)
    <3>1. time[s][i] <= Latest(s)
      BY <2>2, LatestBoundsPage
    <3>2. time[s][i] = Latest(s) => KeyOf[s][i] \in KeysAt(s, Latest(s))
      BY <2>2 DEF KeysAt
    <3>3. QED
      BY <1>0, <2>1, <3>1, <3>2 DEF Covers
  <2>3. ASSUME c # NoCursor, Covers(c, s, i) PROVE Covers(Advance(c, s), s, i)
    <3>1. c.time <= Latest(s)
      BY <1>2, <2>3, <1>0
    <3>2. QED
      BY <1>0, <2>1, <2>3, <3>1 DEF Covers
  <2>4. QED
    BY <2>2, <2>3
<1>3. QED
  BY <1>1, <1>2

-----------------------------------------------------------------------------
(* Types.                                                                   *)

LEMMA BlanksAreTyped ==
  /\ NoCursor \in Cursor /\ NoCursors \in [Intercoms -> Cursor]
  /\ NoRows \in [Intercoms -> SUBSET Rows]
BY BoundsAssumption DEF NoCursor, NoCursors, NoRows, Cursor, BoundsAssumption

LEMMA TypeInit == Init => TypeOK
BY BlanksAreTyped, BoundsAssumption DEF Init, TypeOK, Rows, NoRows, BoundsAssumption

LEMMA PublishIsTyped ==
  ASSUME TypeOK, NEW rows, Publish(rows)
  PROVE  fired' \in [Intercoms -> [Rows -> Nat]] /\ stage' = "running"
BY DEF Publish, TypeOK

LEMMA PassedIsTyped ==
  ASSUME TypeOK, NEW from, NEW to, NEW s \in Intercoms
  PROVE  Passed(from, to, s) \subseteq Rows
BY BoundsAssumption DEF Passed, TypeOK, Rows, BoundsAssumption

LEMMA PassOverIsTyped ==
  ASSUME TypeOK, NEW from, NEW to, NEW rows, NEW listed, PassOver(from, to, rows, listed)
  PROVE  excused' \in [Intercoms -> SUBSET Rows]
BY PassedIsTyped DEF PassOver, TypeOK

LEMMA LoseSavedIsTyped ==
  ASSUME TypeOK, LoseSaved
  PROVE  excused' \in [Intercoms -> SUBSET Rows]
<1>1. \A s \in Intercoms : 1..count[s] \subseteq Rows
  BY BoundsAssumption DEF TypeOK, Rows, BoundsAssumption
<1>2. QED
  BY <1>1 DEF LoseSaved, TypeOK

LEMMA FailIsTyped ==
  ASSUME TypeOK, NEW rows, Fail(rows)
  PROVE  /\ fired' \in [Intercoms -> [Rows -> Nat]] /\ stage' = "running"
         /\ step' = "none" /\ lastOk' = FALSE
BY PublishIsTyped DEF Fail

LEMMA SucceedIsTyped ==
  ASSUME TypeOK, NEW rows, Succeed(rows)
  PROVE  /\ fired' \in [Intercoms -> [Rows -> Nat]] /\ stage' = "running"
         /\ step' = "none" /\ lastOk' = TRUE
BY PublishIsTyped DEF Succeed

LEMMA HistoriesAreTyped ==
  ASSUME TypeOK, NEW answers, NEW listed, HistoriesArrive(answers, listed)
  PROVE  /\ cursors' \in [Intercoms -> Cursor] /\ batch' \in [Intercoms -> SUBSET Rows]
         /\ aborted' \in [Intercoms -> SUBSET Rows] /\ unheard' \in [Intercoms -> SUBSET Rows]
<1>1. \A s \in Intercoms : Advance(cursors[s], s) \in Cursor
  BY AdvanceIsTyped DEF TypeOK
<1>2. \A s \in Intercoms : Unseen(cursors[s], s) \subseteq Rows
  BY PageIsRows DEF Unseen
<1>3. cursors' \in [Intercoms -> Cursor] /\ batch' \in [Intercoms -> SUBSET Rows]
  BY <1>1, <1>2 DEF HistoriesArrive, TypeOK
<1>4. aborted' \in [Intercoms -> SUBSET Rows]
  BY PassedIsTyped DEF HistoriesArrive, aborts, TypeOK
<1>5. unheard' \in [Intercoms -> SUBSET Rows]
  <2>1. unheard' = unheard \/ unheard' = [s \in Intercoms |-> unheard[s] \cup batch'[s]]
    BY DEF HistoriesArrive, aborts
  <2>2. QED
    BY <1>3, <2>1 DEF TypeOK
<1>6. QED
  BY <1>3, <1>4, <1>5

LEMMA TypeStep == TypeOK /\ [Next]_vars => TypeOK'
<1> SUFFICES ASSUME TypeOK, [Next]_vars PROVE TypeOK'
  OBVIOUS
<1> USE BoundsAssumption DEF BoundsAssumption, provider, memory, aborts
<1>1. ASSUME NEW s \in Intercoms, RecordPassage(s) PROVE TypeOK'
  <2>1. count[s] + 1 \in Rows /\ clock \in 0..MaxTime
    BY <1>1 DEF RecordPassage, TypeOK
  <2>2. count' \in [Intercoms -> 0..MaxPassages]
    BY <1>1, <2>1 DEF RecordPassage, TypeOK, Rows
  <2>3. time' \in [Intercoms -> [Rows -> 0..MaxTime]]
    BY <1>1, <2>1 DEF RecordPassage, TypeOK
  <2>4. QED
    BY <1>1, <2>2, <2>3 DEF RecordPassage, TypeOK
<1>2. CASE Tick
  BY <1>2 DEF Tick, TypeOK
<1>3. CASE Setup
  BY <1>3, BlanksAreTyped DEF Setup, TypeOK
<1>4. CASE Unload
  <2>1. excused' \in [Intercoms -> SUBSET Rows]
    BY <1>4, LoseSavedIsTyped DEF Unload, TypeOK
  <2>2. QED
    BY <1>4, <2>1, BlanksAreTyped DEF Unload, TypeOK
<1>5. CASE BeginRefresh
  BY <1>5, BlanksAreTyped DEF BeginRefresh, TypeOK
<1>6. CASE CapabilityFails
  BY <1>6, FailIsTyped DEF CapabilityFails, TypeOK
<1>7. ASSUME NEW ids \in SUBSET Intercoms, CapabilityArrives(ids) PROVE TypeOK'
  <2>1. CASE ids = {}
    BY <1>7, <2>1, SucceedIsTyped, BlanksAreTyped DEF CapabilityArrives, TypeOK
  <2>2. CASE ids # {}
    BY <1>7, <2>2 DEF CapabilityArrives, TypeOK
  <2>3. QED
    BY <2>1, <2>2
<1>8. CASE InventoryFails
  BY <1>8, FailIsTyped DEF InventoryFails, TypeOK
<1>9. CASE InventoryArrives
  BY <1>9 DEF InventoryArrives, TypeOK
<1>10. ASSUME NEW answers \in [supported -> Answers], NEW listed \in SUBSET Intercoms,
              HistoriesArrive(answers, listed)
       PROVE  TypeOK'
  <2>1. /\ cursors' \in [Intercoms -> Cursor] /\ batch' \in [Intercoms -> SUBSET Rows]
        /\ aborted' \in [Intercoms -> SUBSET Rows] /\ unheard' \in [Intercoms -> SUBSET Rows]
    BY <1>10, HistoriesAreTyped
  <2>2. previous' \in [Intercoms -> Cursor]
    BY <1>10 DEF HistoriesArrive, TypeOK
  <2>3. excused' \in [Intercoms -> SUBSET Rows]
    BY <1>10, PassOverIsTyped DEF HistoriesArrive, TypeOK
  <2>4. /\ fired' \in [Intercoms -> [Rows -> Nat]]
        /\ stage' \in {"down", "setup", "running"}
        /\ step' \in {"none", "saving"} /\ lastOk' \in BOOLEAN
    BY <1>10, FailIsTyped, SucceedIsTyped DEF HistoriesArrive, TypeOK
  <2>6. UNCHANGED <<clock, count, time, unloads, supported, saved>>
    BY <1>10 DEF HistoriesArrive
  <2>7. QED
    BY <2>1, <2>2, <2>3, <2>4, <2>6 DEF TypeOK
<1>11. ASSUME NEW listed \in SUBSET Intercoms, CursorsSaved(listed) PROVE TypeOK'
  <2>1. excused' \in [Intercoms -> SUBSET Rows]
    BY <1>11, PassOverIsTyped DEF CursorsSaved
  <2>2. QED
    BY <1>11, <2>1, SucceedIsTyped, BlanksAreTyped DEF CursorsSaved, TypeOK
<1>12. CASE SaveFails
  BY <1>12, FailIsTyped, BlanksAreTyped DEF SaveFails, TypeOK
<1>13. CASE UNCHANGED vars
  BY <1>13 DEF vars, TypeOK
<1>14. QED
  BY <1>1, <1>2, <1>3, <1>4, <1>5, <1>6, <1>7, <1>8, <1>9,
     <1>10, <1>11, <1>12, <1>13
     DEF Next, Record, Discover, ReadHistories, Save

\* Every variable keeps its type (coordinator.py:67-241, key_coordinator.py).
THEOREM PassagesTypeCorrect == Spec => []TypeOK
<1>1. QED
  BY TypeInit, TypeStep, PTL DEF Spec

-----------------------------------------------------------------------------
(* Nothing twice, nothing swallowed.                                        *)

LEMMA ShortLivedStep ==
  ASSUME TypeOK, BatchesAreShortLived, [Next]_vars
  PROVE  BatchesAreShortLived'
<1> USE DEF BatchesAreShortLived, memory, provider
<1>1. ASSUME NEW s \in Intercoms, RecordPassage(s) PROVE BatchesAreShortLived'
  BY <1>1 DEF RecordPassage
<1>2. CASE Tick
  BY <1>2 DEF Tick
<1>3. CASE Setup
  BY <1>3 DEF Setup
<1>4. CASE Unload
  BY <1>4 DEF Unload
<1>5. CASE BeginRefresh
  BY <1>5 DEF BeginRefresh
<1>6. CASE CapabilityFails
  BY <1>6 DEF CapabilityFails, Fail, Publish
<1>7. ASSUME NEW ids \in SUBSET Intercoms, CapabilityArrives(ids) PROVE BatchesAreShortLived'
  BY <1>7 DEF CapabilityArrives, Succeed, Publish
<1>8. CASE InventoryFails
  BY <1>8 DEF InventoryFails, Fail, Publish
<1>9. CASE InventoryArrives
  BY <1>9 DEF InventoryArrives
<1>10. ASSUME NEW answers \in [supported -> Answers], NEW listed \in SUBSET Intercoms,
              HistoriesArrive(answers, listed)
       PROVE  BatchesAreShortLived'
  BY <1>10 DEF HistoriesArrive, Succeed, Fail, Publish
<1>11. ASSUME NEW listed \in SUBSET Intercoms, CursorsSaved(listed)
       PROVE  BatchesAreShortLived'
  BY <1>11 DEF CursorsSaved, Succeed, Publish
<1>12. CASE SaveFails
  BY <1>12 DEF SaveFails, Fail, Publish
<1>13. CASE UNCHANGED vars
  BY <1>13 DEF vars
<1>14. QED
  BY <1>1, <1>2, <1>3, <1>4, <1>5, <1>6, <1>7, <1>8, <1>9,
     <1>10, <1>11, <1>12, <1>13
     DEF Next, Record, Discover, ReadHistories, Save

\* What has been recorded, read, fired and excused hangs together.
Knowledge ==
  /\ FiredAreBehind /\ OncePerLife
  /\ BatchIsUnfired
  /\ BatchIsComplete
  /\ CursorsWereRead
  /\ RowsArePast
  /\ NoDuplicatePassage
  /\ NoPassageSwallowed
  /\ StoreNeverAhead

\* A step that moves no cursor, fires nothing and records nothing.
Quiet ==
  /\ UNCHANGED <<count, time, unloads, cursors, saved, fired, excused, aborted, unheard>>
  /\ clock <= clock' /\ (stage' = "down" => stage = "down")
  /\ Settled' = Settled /\ previous' \in {previous, NoCursors}
  /\ step' = "saving" => step = "saving" /\ batch' = batch

LEMMA QuietKeeps ==
  ASSUME IInv, TypeOK', Quiet
  PROVE  Knowledge'
<1> USE DEF IInv, Quiet
<1>1. FiredAreBehind' /\ BatchIsUnfired'
  BY DEF FiredAreBehind, BatchIsUnfired, Behind, Covers, Page
<1>7. OncePerLife'
  BY DEF OncePerLife, TypeOK
<1>6. BatchIsComplete'
  <2>1. previous' = previous \/ \A s \in Intercoms : previous'[s] = NoCursor
    BY DEF NoCursors
  <2>2. QED
    BY <2>1 DEF BatchIsComplete, Covers, Page
<1>2. CursorsWereRead'
  <2>1. \A s \in Intercoms : previous'[s] \in {previous[s], NoCursor}
    BY DEF NoCursors
  <2>2. NoCursor.keys = {} /\ NoCursor.time = -1
    BY DEF NoCursor
  <2>3. -1 <= clock' /\ clock \in Int /\ clock' \in Int
    BY DEF TypeOK
  <2>4. \A s \in Intercoms : cursors[s].time \in Int /\ previous[s].time \in Int /\ saved[s].time \in Int
    BY DEF TypeOK, Cursor
  <2>5. ASSUME NEW s \in Intercoms, NEW c \in {cursors'[s], previous'[s], saved'[s]}
        PROVE  /\ c.time <= clock'
               /\ \A k \in c.keys : \E j \in 1..count'[s] :
                    time'[s][j] = c.time /\ KeyOf[s][j] = k
    <3>1. CASE c = NoCursor
      BY <3>1, <2>2, <2>3
    <3>2. CASE c \in {cursors[s], previous[s], saved[s]}
      BY <3>2, <2>3, <2>4 DEF CursorsWereRead
    <3>3. QED
      BY <3>1, <3>2, <2>1
  <2>6. QED
    BY <2>5 DEF CursorsWereRead
<1>3. RowsArePast'
  <2>1. \A s \in Intercoms : \A i \in 1..count[s] : time[s][i] \in Int
    BY BoundsAssumption DEF TypeOK, Rows, BoundsAssumption
  <2>2. QED
    BY <2>1 DEF RowsArePast, TypeOK
<1>4. NoDuplicatePassage' /\ NoPassageSwallowed' /\ StoreNeverAhead'
  BY DEF NoDuplicatePassage, NoPassageSwallowed, StoreNeverAhead, IsAccountedFor, Covers
<1>5. QED
  BY <1>1, <1>2, <1>3, <1>4, <1>6, <1>7 DEF Knowledge

LEMMA NothingPublished ==
  ASSUME TypeOK, Publish(NoRows)
  PROVE  fired' = fired
BY DEF TypeOK, Publish, NoRows

\* Refreshes that fail early, fail at once or find nothing are quiet.
LEMMA EarlyEndsAreQuiet ==
  ASSUME IInv,
         \/ CapabilityFails \/ InventoryFails \/ InventoryArrives \/ Tick
         \/ BeginRefresh \/ UNCHANGED vars \/ Discover
  PROVE  Quiet
<1> USE DEF IInv, provider, memory, aborts, Settled, Quiet
<1>0. clock \in Int
  BY DEF TypeOK
<1>1. CASE CapabilityFails \/ InventoryFails
  <2>1. batch = NoRows
    BY <1>1 DEF CapabilityFails, InventoryFails, BatchesAreShortLived
  <2>2. fired' = fired
    BY <1>1, <2>1, NothingPublished DEF CapabilityFails, InventoryFails, Fail
  <2>3. QED
    BY <1>0, <1>1, <2>2 DEF CapabilityFails, InventoryFails, Fail, Publish
<1>2. CASE Discover
  <2>1. PICK ids \in SUBSET Intercoms : CapabilityArrives(ids)
    BY <1>2 DEF Discover
  <2>2. batch = NoRows
    BY <2>1 DEF CapabilityArrives, BatchesAreShortLived
  <2>3. fired' = fired
    BY <2>1, <2>2, NothingPublished DEF CapabilityArrives, Succeed
  <2>4. QED
    BY <1>0, <2>1, <2>3 DEF CapabilityArrives, Succeed, Publish
<1>3. CASE InventoryArrives
  BY <1>0, <1>3 DEF InventoryArrives
<1>4. CASE Tick
  BY <1>0, <1>4 DEF Tick
<1>5. CASE BeginRefresh
  BY <1>0, <1>5 DEF BeginRefresh
<1>6. CASE UNCHANGED vars
  BY <1>0, <1>6 DEF vars
<1>7. QED
  BY <1>1, <1>2, <1>3, <1>4, <1>5, <1>6

LEMMA RecordKeeps ==
  ASSUME IInv, TypeOK', NEW s \in Intercoms, RecordPassage(s)
  PROVE  Knowledge'
<1> USE DEF IInv, provider, memory, aborts
<1>row. PICK n \in Rows : n = count[s] + 1
  BY DEF RecordPassage
<1>0. /\ n \in Rows /\ n \notin 1..count[s] /\ clock \in Int
      /\ \A r \in Intercoms : count[r] \in Nat /\ 1..count[r] \subseteq Rows
      /\ count' = [count EXCEPT ![s] = n] /\ time' = [time EXCEPT ![s][n] = clock]
      /\ UNCHANGED <<clock, unloads, stage, step, cursors, previous, saved, batch, fired, excused,
                     aborted, unheard>>
      /\ Settled' = Settled
  BY <1>row, BoundsAssumption DEF RecordPassage, TypeOK, Rows, BoundsAssumption, Settled
<1>1. \A r \in Intercoms : /\ 1..count[r] \subseteq 1..count'[r]
                           /\ \A i \in 1..count[r] : time'[r][i] = time[r][i]
                           /\ \A i \in 1..count[r] : i \notin Page(r) => i \notin Page(r)'
                           /\ \A i \in 1..count'[r] : i \in 1..count[r] \/ (r = s /\ i = n)
  <2>1. ASSUME NEW r \in Intercoms, r # s PROVE count'[r] = count[r] /\ time'[r] = time[r]
    BY <1>0, <2>1 DEF TypeOK
  <2>2. count'[s] = n /\ \A i \in 1..count[s] : time'[s][i] = time[s][i]
    BY <1>0 DEF TypeOK
  <2>0. n = count[s] + 1 /\ count[s] \in Nat /\ PageSize \in Nat
    BY <1>row, <1>0, BoundsAssumption DEF BoundsAssumption
  <2>3. 1..n = 1..count[s] \cup {n}
    BY <2>0
  <2>4. \A i \in 1..count[s] : i \notin Page(s) => i \notin Page(s)'
    BY <2>0, <2>2 DEF Page
  <2>5. \A r \in Intercoms : r # s => Page(r)' = Page(r)
    BY <2>1 DEF Page
  <2>6. QED
    BY <2>1, <2>2, <2>3, <2>4, <2>5
<1>2. \A r \in Intercoms : \A i \in 1..count[r] : \A c \in Cursor :
        Covers(c, r, i)' <=> Covers(c, r, i)
  BY <1>1 DEF Covers
<1>3. \A r \in Intercoms : {cursors[r], previous[r], saved[r], Settled[r]} \subseteq Cursor
  BY DEF TypeOK, Settled
<1>4. \A c \in {cursors[s], previous[s], saved[s], Settled[s]} : ~Covers(c, s, n)'
  <2>1. time'[s][n] = clock
    BY <1>0 DEF TypeOK
  <2>2. SUFFICES ASSUME NEW c \in {cursors[s], previous[s], saved[s]}, Covers(c, s, n)'
                 PROVE  FALSE
    BY DEF Settled
  <2>3. c.time \in Int /\ c.time <= clock
    BY <1>3 DEF CursorsWereRead, Cursor
  <2>4. c.time = clock /\ KeyOf[s][n] \in c.keys
    <3>1. time'[s][n] < c.time \/ (time'[s][n] = c.time /\ KeyOf[s][n] \in c.keys)
      BY <2>2 DEF Covers
    <3>2. clock \in Int
      BY <1>0
    <3>3. QED
      BY ONLY <2>1, <2>3, <3>1, <3>2
  <2>5. PICK j \in 1..count[s] : time[s][j] = clock /\ KeyOf[s][j] = KeyOf[s][n]
    BY <2>4 DEF CursorsWereRead
  <2>6. QED
    BY <2>5, <1>row DEF RecordPassage
<1>5. \A r \in Intercoms : \A i \in 1..count'[r] :
         \A c \in {cursors[r], saved[r], Settled[r]} :
           Covers(c, r, i)' => i \in 1..count[r] /\ Covers(c, r, i)
  BY <1>1, <1>2, <1>3, <1>4
<1>6. FiredAreBehind'
  <2>1. ASSUME NEW r \in Intercoms, NEW i \in 1..count[r], NEW c \in Cursor, Behind(c, r, i)
        PROVE  Behind(c, r, i)'
    BY <2>1, <1>0, <1>1, <1>2 DEF Behind, NoCursor
  <2>2. ASSUME NEW r \in Intercoms, NEW i \in Rows, fired[r][i] > 0
        PROVE  /\ i <= count'[r]
               /\ i \notin aborted[r] => \A c \in {cursors[r], saved[r], Settled[r]} : Behind(c, r, i)'
               /\ fired[r][i] > unloads => \A c \in {cursors[r], Settled[r]} : Behind(c, r, i)'
    <3>1. i \in 1..count[r] /\ i <= count'[r]
      BY <2>2, <1>0, <1>1 DEF FiredAreBehind, Rows
    <3>2. QED
      BY <2>1, <2>2, <3>1, <1>3 DEF FiredAreBehind
  <2>3. QED
    BY <1>0, <2>2 DEF FiredAreBehind, Behind, Covers
<1>15. OncePerLife'
  BY <1>0 DEF OncePerLife
<1>7. BatchIsUnfired'
  <2>1. ASSUME step = "saving", NEW r \in Intercoms, NEW i \in batch[r]
        PROVE  /\ i <= count'[r] /\ Covers(cursors[r], r, i)'
               /\ fired[r][i] = 0 \/ (i \in aborted[r] /\ fired[r][i] <= unloads)
    <3>1. /\ i \in 1..count[r] /\ Covers(cursors[r], r, i)
          /\ fired[r][i] = 0 \/ (i \in aborted[r] /\ fired[r][i] <= unloads)
      BY <2>1 DEF BatchIsUnfired, TypeOK, Rows
    <3>2. QED
      BY <3>1, <1>0, <1>1, <1>2, <1>3
  <2>2. QED
    BY <1>0, <2>1 DEF BatchIsUnfired, Covers
<1>8. CursorsWereRead'
  BY <1>0, <1>1 DEF CursorsWereRead
<1>9. RowsArePast'
  <2>1. time'[s][n] = clock
    BY <1>0 DEF TypeOK
  <2>2. QED
    BY <1>0, <1>1, <2>1 DEF RowsArePast
<1>10. NoDuplicatePassage'
  BY <1>0 DEF NoDuplicatePassage
<1>11. NoPassageSwallowed'
  <2>1. ASSUME NEW r \in Intercoms, NEW i \in 1..count'[r],
               NEW c \in {Settled[r]}, Covers(c, r, i)'
        PROVE  IsAccountedFor(r, i)
    <3>1. i \in 1..count[r] /\ Covers(Settled[r], r, i)
      BY <2>1, <1>5
    <3>2. QED
      BY <3>1 DEF NoPassageSwallowed
  <2>2. QED
    BY <1>0, <2>1 DEF NoPassageSwallowed, IsAccountedFor, Covers
<1>12. StoreNeverAhead'
  <2>1. ASSUME NEW r \in Intercoms, NEW i \in 1..count'[r],
               NEW c \in {saved[r]}, Covers(c, r, i)'
        PROVE  IsAccountedFor(r, i)
    <3>1. i \in 1..count[r] /\ Covers(saved[r], r, i)
      BY <2>1, <1>5
    <3>2. QED
      BY <3>1 DEF StoreNeverAhead
  <2>2. QED
    BY <1>0, <2>1 DEF StoreNeverAhead, IsAccountedFor, Covers
<1>14. BatchIsComplete'
  <2>1. ASSUME step = "saving", NEW r \in Intercoms, NEW i \in Page(r)',
               NEW c \in {cursors[r]}, NEW d \in {previous[r]},
               d # NoCursor, Covers(c, r, i)', ~Covers(d, r, i)'
        PROVE  i \in batch[r]
    <3>1. i \in 1..count'[r]
      BY DEF Page
    <3>2. i \in 1..count[r]
      BY <2>1, <3>1, <1>5
    <3>3. i \in Page(r) /\ Covers(c, r, i) /\ ~Covers(d, r, i)
      BY <2>1, <3>2, <1>1, <1>2, <1>3
    <3>4. QED
      BY <2>1, <3>3 DEF BatchIsComplete
  <2>2. QED
    BY <1>0, <2>1 DEF BatchIsComplete, Covers
<1>13. QED
  BY <1>14, <1>15, <1>6, <1>7, <1>8, <1>9, <1>10, <1>11, <1>12 DEF Knowledge

LEMMA AdvanceWasRead ==
  ASSUME IInv, NEW s \in Intercoms
  PROVE  /\ Advance(cursors[s], s).time <= clock
         /\ \A k \in Advance(cursors[s], s).keys : \E j \in 1..count[s] :
              time[s][j] = Advance(cursors[s], s).time /\ KeyOf[s][j] = k
<1> DEFINE c == cursors[s]
           l == Latest(s)
<1>1. TypeOK /\ RowsArePast /\ c \in Cursor
  BY DEF IInv, TypeOK
<1>2. /\ c.time <= clock
      /\ \A k \in c.keys : \E j \in 1..count[s] : time[s][j] = c.time /\ KeyOf[s][j] = k
  BY DEF IInv, CursorsWereRead
<1>3. l <= clock /\ \A k \in KeysAt(s, l) : \E j \in 1..count[s] :
        time[s][j] = l /\ KeyOf[s][j] = k
  <2>1. Page(s) \subseteq 1..count[s]
    BY <1>1, PageIsRows
  <2>2. clock \in 1..MaxTime
    BY <1>1 DEF TypeOK
  <2>3. l = 0 \/ \E i \in Page(s) : time[s][i] = l
    BY <1>1, LatestBoundsPage
  <2>4. l <= clock
    BY <1>1, <2>1, <2>2, <2>3 DEF RowsArePast
  <2>5. QED
    BY <2>1, <2>4 DEF KeysAt
<1>4. \/ Advance(c, s) = c
      \/ Advance(c, s) = [time |-> l, keys |-> KeysAt(s, l) \cup IF c.time = l THEN c.keys ELSE {}]
  BY DEF Advance
<1> HIDE DEF c, l
<1>5. QED
  <2>1. CASE Advance(c, s) = c
    BY <1>2, <2>1 DEF c
  <2>2. CASE Advance(c, s) = [time |-> l, keys |-> KeysAt(s, l) \cup IF c.time = l THEN c.keys ELSE {}]
    BY <1>2, <1>3, <2>2 DEF c
  <2>3. QED
    BY <1>4, <2>1, <2>2

\* What the histories bring: news is on the page, was not reported in this life, and is
\* covered from now on; all that is news there is in the batch.
LEMMA WhatHistoriesBring ==
  ASSUME IInv, NEW answers, NEW listed, HistoriesArrive(answers, listed)
  PROVE  /\ step = "history" /\ Settled = cursors
         /\ UNCHANGED <<clock, count, time, unloads, saved>>
         /\ \A s \in Intercoms : cursors'[s] \in {cursors[s], Advance(cursors[s], s)}
         /\ \A s \in Intercoms : \A i \in batch'[s] :
              /\ i \in Rows /\ i \in 1..count[s] /\ i \in Page(s) /\ cursors[s] # NoCursor
              /\ Covers(cursors'[s], s, i) /\ ~Covers(cursors[s], s, i)
              /\ fired[s][i] <= unloads
              /\ fired[s][i] = 0 \/ i \in aborted[s]
         /\ \A s \in Intercoms : \A i \in Page(s) :
              cursors[s] # NoCursor /\ Covers(cursors'[s], s, i) /\ ~Covers(cursors[s], s, i)
                => i \in batch'[s]
         /\ \A s \in Intercoms, i \in Rows : Behind(cursors[s], s, i) => Behind(cursors'[s], s, i)
<1>1. /\ step = "history" /\ UNCHANGED <<clock, count, time, unloads, saved>>
      /\ batch = NoRows
  BY DEF HistoriesArrive, provider, IInv, BatchesAreShortLived
<1>2. \A s \in Intercoms : cursors'[s] \in {cursors[s], Advance(cursors[s], s)}
  BY DEF HistoriesArrive
<1>3. ASSUME NEW s \in Intercoms, NEW i \in batch'[s]
      PROVE  /\ cursors'[s] = Advance(cursors[s], s)
             /\ cursors[s] # NoCursor /\ i \in Page(s) /\ ~Covers(cursors[s], s, i)
  BY <1>1, <1>3 DEF HistoriesArrive, NoRows, Unseen
<1>4. ASSUME NEW s \in Intercoms, NEW i \in batch'[s]
      PROVE  /\ i \in Rows /\ i \in 1..count[s] /\ Covers(cursors'[s], s, i)
             /\ fired[s][i] <= unloads
             /\ fired[s][i] = 0 \/ i \in aborted[s]
  <2>1. i \in Rows /\ i \in 1..count[s] /\ cursors[s] \in Cursor
    BY <1>3, <1>4, PageIsRows DEF IInv, TypeOK
  <2>2. ~Behind(cursors[s], s, i)
    BY <1>3, <1>4 DEF Behind
  <2>3. fired[s][i] \in Nat /\ unloads \in Nat
    BY <2>1 DEF IInv, TypeOK
  <2>4. fired[s][i] > 0 => i \in aborted[s] /\ ~(fired[s][i] > unloads)
    BY <2>1, <2>2 DEF IInv, FiredAreBehind
  <2>5. Covers(cursors'[s], s, i)
    BY <2>1, <1>3, <1>4, AdvanceCovers DEF IInv
  <2>6. QED
    BY <2>1, <2>3, <2>4, <2>5
<1>5. ASSUME NEW s \in Intercoms, NEW i \in Page(s), cursors[s] # NoCursor,
             Covers(cursors'[s], s, i), ~Covers(cursors[s], s, i)
      PROVE  i \in batch'[s]
  <2>1. s \in Used(answers)
    BY <1>5 DEF HistoriesArrive, IInv, TypeOK
  <2>2. batch'[s] = Unseen(cursors[s], s)
    BY <2>1 DEF HistoriesArrive
  <2>3. QED
    BY <1>5, <2>2 DEF Unseen
<1>6. ASSUME NEW s \in Intercoms, NEW i \in Rows, Behind(cursors[s], s, i)
      PROVE  Behind(cursors'[s], s, i)
  <2>1. cursors[s] \in Cursor
    BY DEF IInv, TypeOK
  <2>2. QED
    BY <1>2, <1>6, <2>1, AdvanceCovers DEF Behind, IInv
<1>7. QED
  BY <1>1, <1>2, <1>3, <1>4, <1>5, <1>6 DEF Settled

\* A history that ends the refresh at once, or moves nothing, is quiet.
LEMMA UnmovedIsQuiet ==
  ASSUME IInv, NEW answers, NEW listed, HistoriesArrive(answers, listed), cursors' = cursors
  PROVE  Quiet
<1>1. \A s \in Intercoms : batch'[s] = {}
  BY WhatHistoriesBring
<1>3. batch' = NoRows
  BY <1>1 DEF HistoriesArrive, NoRows
<1>4. step = "history" /\ step' = "none"
  BY DEF HistoriesArrive, Fail, Succeed
<1>5. fired' = fired /\ stage' = "running"
  <2>1. Heard(batch', listed) = NoRows
    BY <1>1 DEF Heard, NoRows
  <2>2. Publish(NoRows)
    BY <1>4, <2>1 DEF HistoriesArrive, Fail, Succeed
  <2>3. QED
    BY <2>2, NothingPublished DEF IInv, Publish
<1>6. excused' = excused /\ aborted' = aborted /\ unheard' = unheard /\ previous' = previous
  <2>1. ASSUME NEW s \in Intercoms PROVE Passed(cursors, cursors', s) = {}
    BY DEF Passed
  <2>2. ASSUME PassOver(cursors, cursors', batch', listed) PROVE excused' = excused
    BY <2>1, <2>2 DEF PassOver, IInv, TypeOK
  <2>3. ASSUME aborted' = [s \in Intercoms |-> aborted[s] \cup Passed(cursors, cursors', s)]
        PROVE  aborted' = aborted
    BY <2>1, <2>3 DEF IInv, TypeOK
  <2>4. ASSUME unheard' = [s \in Intercoms |-> unheard[s] \cup batch'[s]]
        PROVE  unheard' = unheard
    BY <1>1, <2>4 DEF IInv, TypeOK
  <2>5. QED
    BY <1>4, <2>2, <2>3, <2>4 DEF HistoriesArrive, aborts
<1>7. QED
  BY <1>4, <1>5, <1>6, WhatHistoriesBring DEF Quiet, HistoriesArrive, Settled, IInv, TypeOK, provider

LEMMA MovedCursorsWereRead ==
  ASSUME IInv, UNCHANGED <<clock, count, time, saved>>,
         previous' \in {cursors, previous},
         \A s \in Intercoms : cursors'[s] \in {cursors[s], Advance(cursors[s], s)}
  PROVE  CursorsWereRead' /\ RowsArePast'
<1>1. ASSUME NEW s \in Intercoms, NEW c \in {cursors'[s], previous'[s], saved'[s]}
      PROVE  /\ c.time <= clock
             /\ \A k \in c.keys : \E j \in 1..count[s] :
                  time[s][j] = c.time /\ KeyOf[s][j] = k
  <2>1. CASE c \in {cursors[s], previous[s], saved[s]}
    BY <2>1 DEF IInv, CursorsWereRead
  <2>2. CASE c = Advance(cursors[s], s)
    BY <2>2, AdvanceWasRead
  <2>3. QED
    BY <2>1, <2>2
<1>2. QED
  BY <1>1 DEF CursorsWereRead, RowsArePast, IInv

\* All histories are there and some cursor has moved: it will be saved.
LEMMA MovedKeeps ==
  ASSUME IInv, TypeOK', NEW answers, NEW listed, HistoriesArrive(answers, listed),
         cursors' # cursors, ~Fatal(answers)
  PROVE  Knowledge'
<1>1. /\ step' = "saving" /\ previous' = cursors /\ stage' = stage
      /\ UNCHANGED <<clock, count, time, unloads, saved, fired, excused, aborted, unheard>>
      /\ Settled' = cursors /\ Settled = cursors
  BY WhatHistoriesBring DEF HistoriesArrive, provider, aborts, Settled
<1>2. FiredAreBehind'
  <2>1. \A s \in Intercoms, i \in Rows : Behind(cursors[s], s, i) => Behind(cursors'[s], s, i)
    BY WhatHistoriesBring
  <2>2. ASSUME NEW s \in Intercoms, NEW i \in Rows, fired[s][i] > 0
        PROVE  /\ i <= count[s]
               /\ i \notin aborted[s] => \A c \in {cursors'[s], saved[s], cursors[s]} : Behind(c, s, i)
               /\ fired[s][i] > unloads => \A c \in {cursors'[s], cursors[s]} : Behind(c, s, i)
    BY <2>1, <2>2, <1>1 DEF IInv, FiredAreBehind
  <2>3. QED
    BY <1>1, <2>2 DEF FiredAreBehind, Behind, Covers, Page
<1>3. OncePerLife'
  BY <1>1 DEF IInv, OncePerLife
<1>4. BatchIsUnfired'
  <2>1. \A s \in Intercoms : \A i \in batch'[s] :
          /\ i <= count[s] /\ Covers(cursors'[s], s, i)
          /\ fired[s][i] = 0 \/ (i \in aborted[s] /\ fired[s][i] <= unloads)
    <3>1. ASSUME NEW s \in Intercoms, NEW i \in 1..count[s] PROVE i <= count[s]
      BY DEF IInv, TypeOK
    <3>2. QED
      BY <3>1, WhatHistoriesBring
  <2>2. QED
    BY <1>1, <2>1 DEF BatchIsUnfired, Covers
<1>5. BatchIsComplete'
  <2>1. \A s \in Intercoms : \A i \in Page(s) :
          cursors[s] # NoCursor /\ Covers(cursors'[s], s, i) /\ ~Covers(cursors[s], s, i)
            => i \in batch'[s]
    BY WhatHistoriesBring
  <2>2. QED
    BY <1>1, <2>1 DEF BatchIsComplete, Covers, Page
<1>6. CursorsWereRead' /\ RowsArePast'
  BY <1>1, WhatHistoriesBring, MovedCursorsWereRead
<1>7. NoDuplicatePassage'
  BY <1>1 DEF NoDuplicatePassage, IInv
<1>8. NoPassageSwallowed' /\ StoreNeverAhead'
  BY <1>1 DEF NoPassageSwallowed, StoreNeverAhead, IsAccountedFor, Covers, IInv
<1>9. QED
  BY <1>2, <1>3, <1>4, <1>5, <1>6, <1>7, <1>8 DEF Knowledge

\* A history ends the refresh after others were used: their rows are published, or, after
\* another failure, nobody hears of them; and their cursors stay, and stay unsaved.
LEMMA AbortKeeps ==
  ASSUME IInv, TypeOK', NEW answers, NEW listed, HistoriesArrive(answers, listed),
         Fatal(answers)
  PROVE  Knowledge'
<1> DEFINE heard == IF lastOk THEN Heard(batch', listed) ELSE NoRows
<1>1. /\ step' = "none" /\ previous' = previous /\ stage' = "running"
      /\ UNCHANGED <<clock, count, time, unloads, saved>>
      /\ Settled' = cursors' /\ Settled = cursors
      /\ PassOver(cursors, cursors', batch', listed) /\ Publish(heard)
      /\ aborted' = [s \in Intercoms |-> aborted[s] \cup Passed(cursors, cursors', s)]
      /\ unheard' = IF lastOk THEN unheard
                    ELSE [s \in Intercoms |-> unheard[s] \cup batch'[s]]
  <2>1. /\ PassOver(cursors, cursors', batch', listed) /\ UNCHANGED previous
        /\ aborted' = [s \in Intercoms |-> aborted[s] \cup Passed(cursors, cursors', s)]
        /\ unheard' = IF lastOk THEN unheard
                      ELSE [s \in Intercoms |-> unheard[s] \cup batch'[s]]
        /\ Fail(Heard(batch', listed))
    BY ONLY Fatal(answers), HistoriesArrive(answers, listed) DEF HistoriesArrive
  <2>2. step' = "none" /\ stage' = "running" /\ Publish(heard)
    BY ONLY <2>1 DEF Fail, Publish
  <2>3. Settled' = cursors'
    BY <2>2 DEF Settled
  <2>4. Settled = cursors /\ UNCHANGED <<clock, count, time, unloads, saved>>
    BY WhatHistoriesBring
  <2>5. QED
    BY ONLY <2>1, <2>2, <2>3, <2>4
<1>2. stage \in {"setup", "running"}
  BY WhatHistoriesBring DEF IInv, TypeOK, BatchesAreShortLived
<1>3. \A s \in Intercoms, i \in Rows :
        fired'[s][i] = IF stage = "running" /\ i \in heard[s] THEN fired[s][i] + 1 ELSE fired[s][i]
  BY <1>1 DEF Publish
<1>4. \A s \in Intercoms : /\ aborted'[s] = aborted[s] \cup Passed(cursors, cursors', s)
                           /\ heard[s] \subseteq batch'[s] /\ unheard[s] \subseteq unheard'[s]
                           /\ batch'[s] \subseteq Passed(cursors, cursors', s)
  BY <1>1, WhatHistoriesBring DEF Heard, NoRows, Passed
<1>5. \A s \in Intercoms : excused'[s] = excused[s] \cup
        {i \in Passed(cursors, cursors', s) : ~Promised(cursors, batch', listed, s, i)}
  BY <1>1 DEF PassOver
<1>6. \A s \in Intercoms, i \in Rows : fired[s][i] \in Nat /\ unloads \in Nat
  BY DEF IInv, TypeOK
<1>7. \A s \in Intercoms : \A i \in batch'[s] :
        i \in 1..count[s] /\ fired[s][i] <= unloads /\ Covers(cursors'[s], s, i)
  BY WhatHistoriesBring
<1> HIDE DEF heard
<1>8. FiredAreBehind'
  <2>1. ASSUME NEW s \in Intercoms, NEW i \in Rows, fired'[s][i] > 0
        PROVE  /\ i <= count[s]
               /\ i \notin aborted'[s] => Behind(cursors'[s], s, i) /\ Behind(saved[s], s, i)
               /\ fired'[s][i] > unloads => Behind(cursors'[s], s, i)
    <3>1. CASE i \in heard[s]
      <4>1. i \in batch'[s] /\ count[s] \in Nat
        BY <3>1, <1>4 DEF IInv, TypeOK
      <4>2. i \in aborted'[s] /\ i \in 1..count[s] /\ Covers(cursors'[s], s, i)
        BY <4>1, <1>4, <1>7
      <4>3. QED
        BY <4>1, <4>2 DEF Behind
    <3>2. CASE i \notin heard[s]
      <4>1. fired'[s][i] = fired[s][i] /\ (i \notin aborted'[s] => i \notin aborted[s])
        BY <3>2, <1>3, <1>4
      <4>2. Behind(cursors[s], s, i) => Behind(cursors'[s], s, i)
        BY WhatHistoriesBring
      <4>3. QED
        BY <2>1, <4>1, <4>2 DEF IInv, FiredAreBehind
    <3>3. QED
      BY <3>1, <3>2
  <2>2. QED
    BY <1>1, <2>1 DEF FiredAreBehind, Behind, Covers, Page
<1>9. OncePerLife'
  <2>1. ASSUME NEW s \in Intercoms, NEW i \in Rows PROVE fired'[s][i] <= unloads + 1
    <3>1. CASE i \in heard[s]
      BY <3>1, <1>3, <1>4, <1>6, <1>7
    <3>2. CASE i \notin heard[s]
      BY <3>2, <1>2, <1>3 DEF IInv, OncePerLife
    <3>3. QED
      BY <3>1, <3>2
  <2>2. QED
    BY <1>1, <2>1 DEF OncePerLife
<1>10. NoDuplicatePassage'
  <2>1. ASSUME NEW s \in Intercoms, NEW i \in Rows
        PROVE  fired'[s][i] <= 1 \/ (i \in aborted'[s] /\ fired'[s][i] <= unloads + 1)
    <3>1. fired'[s][i] <= unloads + 1
      BY <1>1, <1>9 DEF OncePerLife
    <3>2. CASE i \in heard[s]
      BY <3>1, <3>2, <1>4
    <3>3. CASE i \notin heard[s]
      BY <3>1, <3>3, <1>3, <1>4 DEF IInv, NoDuplicatePassage
    <3>4. QED
      BY <3>2, <3>3
  <2>2. QED
    BY <1>1, <2>1 DEF NoDuplicatePassage
<1>11. ASSUME NEW s \in Intercoms, NEW i \in 1..count[s], IsAccountedFor(s, i)
       PROVE  IsAccountedFor(s, i)'
  <2>1. i \in Rows
    BY BoundsAssumption DEF IInv, TypeOK, Rows, BoundsAssumption
  <2>2. QED
    BY <1>3, <1>4, <1>5, <1>6, <1>11, <2>1 DEF IsAccountedFor
<1>12. ASSUME NEW s \in Intercoms, NEW i \in 1..count[s], Covers(cursors'[s], s, i),
              ~Covers(cursors[s], s, i)
       PROVE  IsAccountedFor(s, i)'
  <2>1. i \in Rows /\ i \in Passed(cursors, cursors', s)
    BY <1>12, BoundsAssumption DEF IInv, TypeOK, Rows, BoundsAssumption, Passed
  <2>2. CASE ~Promised(cursors, batch', listed, s, i)
    BY <1>5, <2>1, <2>2 DEF IsAccountedFor
  <2>3. CASE Promised(cursors, batch', listed, s, i)
    <3>1. i \in batch'[s] /\ s \in listed /\ stage = "running"
      BY <2>3, <1>12, WhatHistoriesBring DEF Promised
    <3>2. CASE lastOk
      BY <3>1, <3>2, <1>3, <1>6, <2>1 DEF IsAccountedFor, heard, Heard
    <3>3. CASE ~lastOk
      BY <3>1, <3>3, <1>1 DEF IsAccountedFor
    <3>4. QED
      BY <3>2, <3>3
  <2>4. QED
    BY <2>2, <2>3
<1>13. NoPassageSwallowed' /\ StoreNeverAhead'
  <2>1. ASSUME NEW s \in Intercoms, NEW i \in 1..count[s], Covers(cursors'[s], s, i)
        PROVE  IsAccountedFor(s, i)'
    BY <2>1, <1>1, <1>11, <1>12 DEF IInv, NoPassageSwallowed
  <2>2. ASSUME NEW s \in Intercoms, NEW i \in 1..count[s], Covers(saved[s], s, i)
        PROVE  IsAccountedFor(s, i)'
    BY <2>2, <1>11 DEF IInv, StoreNeverAhead
  <2>3. QED
    BY <1>1, <2>1, <2>2 DEF NoPassageSwallowed, StoreNeverAhead, Covers
<1>14. CursorsWereRead' /\ RowsArePast'
  BY <1>1, WhatHistoriesBring, MovedCursorsWereRead
<1>15. BatchIsUnfired' /\ BatchIsComplete'
  BY <1>1 DEF BatchIsUnfired, BatchIsComplete
<1>16. QED
  BY <1>8, <1>9, <1>10, <1>13, <1>14, <1>15 DEF Knowledge

LEMMA HistoriesKeep ==
  ASSUME IInv, TypeOK', NEW answers, NEW listed, HistoriesArrive(answers, listed)
  PROVE  Knowledge'
<1>1. CASE cursors' = cursors
  BY <1>1, UnmovedIsQuiet, QuietKeeps
<1>2. CASE cursors' # cursors /\ ~Fatal(answers)
  BY <1>2, MovedKeeps
<1>3. CASE Fatal(answers)
  BY <1>3, AbortKeeps
<1>4. QED
  BY <1>1, <1>2, <1>3

\* What a step may do with cursors it has already read.
LEMMA OldCursorsWereRead ==
  ASSUME IInv, UNCHANGED <<clock, count, time>>,
         \A s \in Intercoms :
           {cursors'[s], previous'[s], saved'[s]}
             \subseteq {cursors[s], previous[s], saved[s], NoCursor}
  PROVE  CursorsWereRead' /\ RowsArePast'
<1>1. NoCursor.time = -1 /\ NoCursor.keys = {} /\ clock \in 1..MaxTime
  BY DEF NoCursor, IInv, TypeOK
<1>2. ASSUME NEW s \in Intercoms, NEW c \in {cursors'[s], previous'[s], saved'[s]}
      PROVE  /\ c.time <= clock
             /\ \A k \in c.keys : \E j \in 1..count[s] :
                  time[s][j] = c.time /\ KeyOf[s][j] = k
  <2>1. CASE c = NoCursor
    BY <1>1, <2>1
  <2>2. CASE c \in {cursors[s], previous[s], saved[s]}
    BY <2>2 DEF IInv, CursorsWereRead
  <2>3. QED
    BY <2>1, <2>2
<1>3. QED
  BY <1>2 DEF CursorsWereRead, RowsArePast, IInv

LEMMA SavedKeeps ==
  ASSUME IInv, TypeOK', NEW listed, CursorsSaved(listed)
  PROVE  Knowledge'
<1> DEFINE heard == Heard(batch, listed)
<1>1. /\ step = "saving" /\ step' = "none" /\ saved' = cursors /\ cursors' = cursors
      /\ previous' = NoCursors /\ UNCHANGED <<clock, count, time, unloads, aborted, unheard>>
      /\ PassOver(previous, cursors, batch, listed) /\ Publish(heard) /\ stage' = "running"
  BY DEF CursorsSaved, Succeed, Publish, provider, aborts
<1>2. Settled' = cursors /\ Settled = previous
  BY <1>1 DEF Settled
<1>3. \A s \in Intercoms, i \in Rows :
        fired'[s][i] = IF stage = "running" /\ i \in heard[s] THEN fired[s][i] + 1 ELSE fired[s][i]
  BY <1>1 DEF Publish
<1>4. \A s \in Intercoms : excused'[s] = excused[s] \cup
        {i \in Passed(previous, cursors, s) : ~Promised(previous, batch, listed, s, i)}
  BY <1>1 DEF PassOver
<1>5. /\ stage \in {"setup", "running"}
      /\ \A s \in Intercoms, i \in Rows : fired[s][i] \in Nat /\ unloads \in Nat
  BY <1>1 DEF IInv, TypeOK, BatchesAreShortLived
<1>6. \A s \in Intercoms : \A i \in heard[s] :
        /\ i <= count[s] /\ Covers(cursors[s], s, i) /\ i \in batch[s] /\ s \in listed
        /\ fired[s][i] = 0 \/ (i \in aborted[s] /\ fired[s][i] <= unloads)
  BY <1>1 DEF IInv, BatchIsUnfired, Heard
<1>7. \A s \in Intercoms : \A i \in batch[s] : s \in listed => i \in heard[s]
  BY DEF Heard
<1> HIDE DEF heard
<1>8. FiredAreBehind'
  <2>1. ASSUME NEW s \in Intercoms, NEW i \in Rows, fired'[s][i] > 0
        PROVE  /\ i <= count[s]
               /\ i \notin aborted[s] \/ fired'[s][i] > unloads => Behind(cursors[s], s, i)
    <3>1. CASE i \in heard[s]
      BY <1>6, <3>1 DEF Behind
    <3>2. CASE i \notin heard[s]
      BY <1>3, <2>1, <3>2 DEF IInv, FiredAreBehind
    <3>3. QED
      BY <3>1, <3>2
  <2>2. QED
    BY <1>1, <1>2, <2>1 DEF FiredAreBehind, Behind, Covers, Page
<1>9. OncePerLife'
  <2>1. ASSUME NEW s \in Intercoms, NEW i \in Rows PROVE fired'[s][i] <= unloads + 1
    <3>1. CASE i \in heard[s]
      BY <3>1, <1>3, <1>5, <1>6
    <3>2. CASE i \notin heard[s]
      BY <3>2, <1>3, <1>5 DEF IInv, OncePerLife
    <3>3. QED
      BY <3>1, <3>2
  <2>2. QED
    BY <1>1, <2>1 DEF OncePerLife
<1>10. BatchIsUnfired' /\ BatchIsComplete'
  BY <1>1 DEF BatchIsUnfired, BatchIsComplete
<1>11. CursorsWereRead' /\ RowsArePast'
  BY <1>1, OldCursorsWereRead DEF NoCursors
<1>12. NoDuplicatePassage'
  <2>1. ASSUME NEW s \in Intercoms, NEW i \in Rows
        PROVE  fired'[s][i] <= 1 \/ (i \in aborted[s] /\ fired'[s][i] <= unloads + 1)
    <3>1. CASE i \in heard[s]
      BY <1>3, <1>5, <1>6, <3>1
    <3>2. CASE i \notin heard[s]
      BY <1>3, <3>2 DEF IInv, NoDuplicatePassage
    <3>3. QED
      BY <3>1, <3>2
  <2>2. QED
    BY <1>1, <2>1 DEF NoDuplicatePassage
<1>13. ASSUME NEW s \in Intercoms, NEW i \in 1..count[s], Covers(cursors[s], s, i)
       PROVE  IsAccountedFor(s, i)'
  <2>1. i \in Rows
    BY BoundsAssumption DEF IInv, TypeOK, Rows, BoundsAssumption
  <2>2. CASE Covers(previous[s], s, i)
    <3>1. IsAccountedFor(s, i)
      BY <2>2, <1>2 DEF IInv, NoPassageSwallowed
    <3>2. QED
      BY <3>1, <2>1, <1>1, <1>3, <1>4, <1>5 DEF IsAccountedFor
  <2>3. CASE ~Covers(previous[s], s, i) /\ ~Promised(previous, batch, listed, s, i)
    BY <1>4, <1>13, <2>3 DEF IsAccountedFor, Passed
  <2>4. CASE ~Covers(previous[s], s, i) /\ Promised(previous, batch, listed, s, i)
    <3>1. i \in batch[s] /\ s \in listed /\ stage = "running"
      BY <1>1, <1>13, <2>4 DEF IInv, BatchIsComplete, Promised
    <3>2. QED
      BY <3>1, <2>1, <1>3, <1>5, <1>7 DEF IsAccountedFor
  <2>5. QED
    BY <2>2, <2>3, <2>4
<1>14. NoPassageSwallowed' /\ StoreNeverAhead'
  BY <1>1, <1>2, <1>13 DEF NoPassageSwallowed, StoreNeverAhead, Covers
<1>15. QED
  BY <1>8, <1>9, <1>10, <1>11, <1>12, <1>14 DEF Knowledge

\* A failed save puts the cursors back where they were.
LEMMA SaveFailureKeeps ==
  ASSUME IInv, TypeOK', SaveFails
  PROVE  Knowledge'
<1>1. /\ step = "saving" /\ step' = "none" /\ cursors' = previous
      /\ previous' = NoCursors /\ stage' = "running" /\ stage # "down"
      /\ UNCHANGED <<clock, count, time, unloads, saved, excused, aborted, unheard>>
  BY DEF SaveFails, Fail, Publish, provider, aborts, IInv, BatchesAreShortLived
<1>2. fired' = fired
  <2>1. Publish(NoRows)
    BY DEF SaveFails, Fail
  <2>2. QED
    BY <2>1, NothingPublished DEF IInv
<1>3. Settled' = previous /\ Settled = previous
  BY <1>1 DEF Settled
<1>4. FiredAreBehind' /\ BatchIsUnfired' /\ BatchIsComplete'
  BY <1>1, <1>2, <1>3 DEF IInv, FiredAreBehind, BatchIsUnfired, BatchIsComplete, Behind, Covers, Page
<1>8. OncePerLife'
  BY <1>1, <1>2 DEF IInv, OncePerLife
<1>5. CursorsWereRead' /\ RowsArePast'
  BY <1>1, OldCursorsWereRead DEF NoCursors
<1>6. NoDuplicatePassage' /\ NoPassageSwallowed' /\ StoreNeverAhead'
  BY <1>1, <1>2, <1>3
     DEF IInv, NoDuplicatePassage, NoPassageSwallowed, StoreNeverAhead, IsAccountedFor, Covers
<1>7. QED
  BY <1>4, <1>5, <1>6, <1>8 DEF Knowledge

LEMMA NoCursorCoversNothing ==
  ASSUME TypeOK, NEW s \in Intercoms, NEW i \in Rows
  PROVE  ~Covers(NoCursor, s, i)
BY DEF TypeOK, Covers, NoCursor

LEMMA SetupKeeps ==
  ASSUME IInv, TypeOK', Setup
  PROVE  Knowledge'
<1>1. /\ step = "none" /\ step' = "capability" /\ cursors' \in {saved, NoCursors}
      /\ stage = "down" /\ UNCHANGED <<clock, count, time, unloads, previous, saved, fired, excused,
                                       aborted, unheard>>
  BY DEF Setup, provider, aborts, IInv, BatchesAreShortLived
<1>2. \A s \in Intercoms : cursors'[s] \in {saved[s], NoCursor} /\ Settled'[s] = cursors'[s]
  BY <1>1 DEF NoCursors, Settled
<1>8. OncePerLife' /\ BatchIsUnfired' /\ BatchIsComplete'
  <2>1. \A s \in Intercoms, i \in Rows : fired[s][i] <= unloads /\ unloads \in Nat /\ fired[s][i] \in Nat
    BY <1>1 DEF IInv, OncePerLife, TypeOK
  <2>2. QED
    BY <1>1, <2>1 DEF OncePerLife, BatchIsUnfired, BatchIsComplete
<1>3. FiredAreBehind'
  <2>1. \A s \in Intercoms, i \in Rows : ~(fired[s][i] > unloads)
    BY <1>1 DEF IInv, OncePerLife, TypeOK
  <2>2. QED
    BY <1>1, <1>2, <2>1 DEF IInv, FiredAreBehind, Behind, Covers, Page
<1>4. CursorsWereRead' /\ RowsArePast'
  BY <1>1, <1>2, OldCursorsWereRead
<1>5. ASSUME NEW s \in Intercoms, NEW i \in 1..count[s], NEW c \in {saved[s], NoCursor},
             Covers(c, s, i)
      PROVE  IsAccountedFor(s, i)
  <2>1. i \in Rows
    BY BoundsAssumption DEF IInv, TypeOK, Rows, BoundsAssumption
  <2>2. c = saved[s]
    BY <1>5, <2>1, NoCursorCoversNothing DEF IInv
  <2>3. QED
    BY <1>5, <2>2 DEF IInv, StoreNeverAhead
<1>6. NoPassageSwallowed' /\ StoreNeverAhead' /\ NoDuplicatePassage'
  BY <1>1, <1>2, <1>5
     DEF NoPassageSwallowed, StoreNeverAhead, NoDuplicatePassage, IsAccountedFor, Covers, IInv
<1>7. QED
  BY <1>3, <1>4, <1>6, <1>8 DEF Knowledge

\* A reload forgets the cursors; the store holds the old ones or, if the save
\* got through, the new ones.
LEMMA UnloadKeeps ==
  ASSUME IInv, TypeOK', Unload
  PROVE  Knowledge'
<1>1. /\ step' = "none" /\ cursors' = NoCursors /\ previous' = NoCursors
      /\ UNCHANGED <<clock, count, time, fired, aborted, unheard>>
      /\ stage' = "down" /\ unloads' = unloads + 1 /\ unloads \in Nat
      /\ \/ UNCHANGED <<saved, excused>>
         \/ step = "saving" /\ saved' = cursors /\ LoseSaved
  BY DEF Unload, provider, aborts, IInv, TypeOK
<1>2. \A s \in Intercoms : /\ cursors'[s] = NoCursor /\ previous'[s] = NoCursor
                           /\ Settled'[s] = NoCursor /\ saved'[s] \in {saved[s], cursors[s]}
  BY <1>1 DEF NoCursors, Settled
<1>9. OncePerLife' /\ BatchIsUnfired' /\ BatchIsComplete'
  <2>1. \A s \in Intercoms, i \in Rows : fired[s][i] \in Nat /\ fired[s][i] <= unloads + 1
    BY <1>1 DEF IInv, OncePerLife, TypeOK
  <2>2. QED
    BY <1>1, <2>1 DEF OncePerLife, BatchIsUnfired, BatchIsComplete
<1>3. FiredAreBehind'
  <2>1. \A s \in Intercoms, i \in Rows : ~(fired'[s][i] > unloads')
    BY <1>1, <1>9 DEF OncePerLife, TypeOK
  <2>2. QED
    BY <1>1, <1>2, <2>1 DEF IInv, FiredAreBehind, Behind, Covers, Page
<1>4. CursorsWereRead' /\ RowsArePast'
  BY <1>1, <1>2, OldCursorsWereRead
<1>5. NoDuplicatePassage'
  <2>1. \A s \in Intercoms, i \in Rows : fired[s][i] \in Nat
    BY DEF IInv, TypeOK
  <2>2. QED
    BY <1>1, <2>1 DEF NoDuplicatePassage, IInv
<1>6. NoPassageSwallowed'
  <2>1. ASSUME NEW s \in Intercoms, NEW i \in 1..count[s] PROVE ~Covers(NoCursor, s, i)
    <3>1. i \in Rows
      BY BoundsAssumption DEF IInv, TypeOK, Rows, BoundsAssumption
    <3>2. QED
      BY <3>1, NoCursorCoversNothing DEF IInv
  <2>2. QED
    BY <1>1, <1>2, <2>1 DEF NoPassageSwallowed, Covers
<1>7. StoreNeverAhead'
  <2>1. CASE UNCHANGED <<saved, excused>>
    BY <1>1, <2>1 DEF IInv, StoreNeverAhead, IsAccountedFor, Covers
  <2>2. CASE step = "saving" /\ saved' = cursors /\ LoseSaved
    BY <1>1, <2>2 DEF StoreNeverAhead, IsAccountedFor, Covers, LoseSaved
  <2>3. QED
    BY <1>1, <2>1, <2>2
<1>8. QED
  BY <1>3, <1>4, <1>5, <1>6, <1>7, <1>9 DEF Knowledge

-----------------------------------------------------------------------------
(* The results.                                                             *)

LEMMA InvariantInit == Init => IInv
<1> SUFFICES ASSUME Init PROVE IInv
  OBVIOUS
<1>1. TypeOK
  BY TypeInit
<1>2. /\ BatchesAreShortLived /\ BatchIsUnfired /\ BatchIsComplete
      /\ FiredAreBehind /\ NoDuplicatePassage /\ OncePerLife
  BY <1>1 DEF Init, OncePerLife, BatchesAreShortLived, BatchIsUnfired, BatchIsComplete, FiredAreBehind, NoDuplicatePassage
<1>3. \A s \in Intercoms : 1..count[s] = {}
  BY DEF Init
<1>4. RowsArePast /\ NoPassageSwallowed /\ StoreNeverAhead
  BY <1>3 DEF RowsArePast, NoPassageSwallowed, StoreNeverAhead
<1>5. CursorsWereRead
  BY DEF Init, CursorsWereRead, NoCursors, NoCursor
<1>6. QED
  BY <1>1, <1>2, <1>4, <1>5 DEF IInv

LEMMA InvariantStep == IInv /\ [Next]_vars => IInv'
<1> SUFFICES ASSUME IInv, [Next]_vars PROVE IInv'
  OBVIOUS
<1>1. TypeOK' /\ BatchesAreShortLived'
  BY TypeStep, ShortLivedStep DEF IInv
<1>2. Knowledge'
  <2>1. CASE \/ CapabilityFails \/ InventoryFails \/ InventoryArrives \/ Tick
             \/ BeginRefresh \/ UNCHANGED vars \/ Discover
    BY <2>1, <1>1, EarlyEndsAreQuiet, QuietKeeps
  <2>2. CASE Record
    BY <2>2, <1>1, RecordKeeps DEF Record
  <2>3. CASE Setup
    BY <2>3, <1>1, SetupKeeps
  <2>4. CASE Unload
    BY <2>4, <1>1, UnloadKeeps
  <2>5. CASE ReadHistories
    BY <2>5, <1>1, HistoriesKeep DEF ReadHistories
  <2>6. CASE Save
    BY <2>6, <1>1, SavedKeeps DEF Save
  <2>7. CASE SaveFails
    BY <2>7, <1>1, SaveFailureKeeps
  <2>8. QED
    BY <2>1, <2>2, <2>3, <2>4, <2>5, <2>6, <2>7 DEF Next
<1>3. QED
  BY <1>1, <1>2 DEF IInv, Knowledge

\* The three cursors, the batch and the events stay related in this way through
\* every refresh, rollback, abort and reload (key_coordinator.py:85-154).
THEOREM PassagesInvariant == Spec => []IInv
BY InvariantInit, InvariantStep, PTL DEF Spec

\* No passage is reported twice, whatever fails and however often the entry is
\* reloaded, but one that was read by a refresh which a fatal history ended; and that
\* one at most once in each life of the entry (coordinator.py:196-241,
\* key_coordinator.py:94-154).
THEOREM PassagesFireOnce == Spec => []NoDuplicatePassage
<1>1. IInv => NoDuplicatePassage
  BY DEF IInv
<1>2. QED
  BY <1>1, InvariantInit, InvariantStep, PTL DEF Spec

\* Neither the cursors in memory nor those in the store ever run ahead of the
\* events: what they have gone past has been reported, was never promised, or was
\* read by the second failed refresh in a row (key_coordinator.py:94-154,
\* __init__.py:459-478).
THEOREM CursorsNeverRunAhead == Spec => [](NoPassageSwallowed /\ StoreNeverAhead)
<1>1. IInv => NoPassageSwallowed /\ StoreNeverAhead
  BY DEF IInv
<1>2. QED
  BY <1>1, InvariantInit, InvariantStep, PTL DEF Spec
=============================================================================
