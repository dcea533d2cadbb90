-------------------------- MODULE CallHistoryProofs --------------------------
(***************************************************************************)
(* Theorems about CallHistory, for every value of its constants.           *)
(***************************************************************************)
EXTENDS CallHistory, WellFoundedInduction, TLAPS

\* A non-empty set of naturals with an upper bound has a greatest element.
LEMMA BoundedSetHasMax ==
  ASSUME NEW bound \in Nat, NEW S \in SUBSET (0..bound), S # {}
  PROVE  Max(S) \in S /\ \A x \in S : x <= Max(S)
<1> DEFINE T == {bound - x : x \in S}
<1>1. T \subseteq Nat /\ T # {}
  <2>1. PICK e \in S : bound - e \in T
    OBVIOUS
  <2>2. \A x \in S : bound - x \in Nat
    OBVIOUS
  <2> QED
    BY <2>1, <2>2
<1>2. PICK low \in T : \A y \in T : ~(<<y, low>> \in OpToRel(<, Nat))
  BY <1>1, NatLessThanWellFounded, WFMin
<1>3. \A y \in T : ~(y < low)
  BY <1>1, <1>2 DEF OpToRel
<1>4. PICK top \in S : low = bound - top
  BY <1>2
<1>5. \A x \in S : bound - x \in T /\ x <= top
  BY <1>3, <1>4
<1> QED
  BY <1>4, <1>5 DEF Max

\* The newest call of every camera on a page is a call, or 0 for none.
LEMMA LatestByCameraIsTyped ==
  ASSUME NEW page \in SUBSET Calls
  PROVE  LatestByCamera(page) \in [Cameras -> 0..MaxCalls]
<1> SUFFICES ASSUME NEW k \in Cameras
             PROVE  LatestByCamera(page)[k] \in 0..MaxCalls
  BY DEF LatestByCamera
<1> DEFINE of == {c \in page : CameraOf[c] = k}
<1>1. CASE of = {}
  BY <1>1, BoundsAssumption DEF LatestByCamera, BoundsAssumption
<1>2. CASE of # {}
  <2>1. of \in SUBSET (0..MaxCalls) /\ MaxCalls \in Nat
    <3>1. MaxCalls \in Nat
      BY BoundsAssumption DEF BoundsAssumption
    <3>2. Calls \subseteq 0..MaxCalls
      BY <3>1 DEF Calls
    <3>3. QED
      BY <3>1, <3>2
  <2>2. Max(of) \in of
    BY ONLY <2>1, <1>2, BoundedSetHasMax
  <2>3. LatestByCamera(page)[k] = Max(of)
    BY <1>2 DEF LatestByCamera
  <2>4. QED
    BY <2>1, <2>2, <2>3
<1>3. QED
  BY <1>1, <1>2

\* Every page the provider may answer holds calls it has recorded.
LEMMA PagesHoldPlacedCalls ==
  ASSUME placed \in 0..MaxCalls, NEW page \in Pages
  PROVE  page \in SUBSET Calls /\ \A c \in page : c <= placed
BY BoundsAssumption DEF Pages, Window, Calls, BoundsAssumption

-----------------------------------------------------------------------------
(* Types.                                                                   *)

LEMMA TypeInit == Init => TypeOK
<1> SUFFICES ASSUME Init PROVE TypeOK
  OBVIOUS
<1>1. FlagsTypeOK
  BY DEF Init, FlagsTypeOK
<1>2. DataTypeOK
  BY BoundsAssumption DEF Init, DataTypeOK, NoLatest, BoundsAssumption
<1>3. QED
  BY <1>1, <1>2 DEF TypeOK

LEMMA FlagsStep == FlagsTypeOK /\ [Next]_vars => FlagsTypeOK'
<1> SUFFICES ASSUME FlagsTypeOK, [Next]_vars PROVE FlagsTypeOK'
  OBVIOUS
<1> USE DEF FlagsTypeOK, outside, gate, batch, result, bus
<1>1. CASE PlaceCall
  BY <1>1 DEF PlaceCall
<1>2. CASE Setup
  BY <1>2 DEF Setup
<1>3. CASE RegisterListeners
  BY <1>3 DEF RegisterListeners
<1>4. CASE Unload
  BY <1>4 DEF Unload
<1>5. CASE PushArrives
  BY <1>5 DEF PushArrives
<1>6. CASE Request
  BY <1>6 DEF Request, PushRefreshDropped, PushRefreshPostponed, PushRefreshRuns, BeginRefresh
<1>7. CASE Timer
  BY <1>7 DEF Timer, ScheduledPoll, CooldownEnds, TrailingRefreshRuns, BeginRefresh
<1>8. CASE ScanIntervalChanges
  BY <1>8 DEF ScanIntervalChanges
<1>9. ASSUME NEW page \in Pages, HistoryArrives(page) PROVE FlagsTypeOK'
  BY <1>9 DEF HistoryArrives
<1>10. ASSUME NEW rejected \in BOOLEAN, HistoryFails(rejected) PROVE FlagsTypeOK'
  BY <1>10 DEF HistoryFails
<1>11. ASSUME NEW c \in Calls, EnrichMedia(c) PROVE FlagsTypeOK'
  BY <1>11 DEF EnrichMedia
<1>12. ASSUME NEW c \in Calls, MediaExpires(c) PROVE FlagsTypeOK'
  BY <1>12 DEF MediaExpires
<1>13. CASE FinishRefresh
  BY <1>13 DEF FinishRefresh
<1>14. CASE MediaBreaks
  BY <1>14 DEF MediaBreaks
<1>15. CASE UNCHANGED vars
  BY <1>15 DEF vars
<1>16. QED
  BY <1>1, <1>2, <1>3, <1>4, <1>5, <1>6, <1>7, <1>8, <1>9,
     <1>10, <1>11, <1>12, <1>13, <1>14, <1>15
     DEF Next, Entry, Answer, Fails, Enrich, Expire

LEMMA DataStep == DataTypeOK /\ [Next]_vars => DataTypeOK'
<1> SUFFICES ASSUME DataTypeOK, [Next]_vars PROVE DataTypeOK'
  OBVIOUS
<1> USE BoundsAssumption DEF BoundsAssumption, DataTypeOK, outside, gate, batch, result, bus
<1>1. CASE PlaceCall
  BY <1>1 DEF PlaceCall
<1>2. CASE Setup
  BY <1>2 DEF Setup
<1>3. CASE RegisterListeners
  BY <1>3 DEF RegisterListeners
<1>4. CASE Unload
  BY <1>4 DEF Unload, NoLatest
<1>5. CASE PushArrives
  BY <1>5 DEF PushArrives
<1>6. CASE Request
  BY <1>6 DEF Request, PushRefreshDropped, PushRefreshPostponed, PushRefreshRuns, BeginRefresh
<1>7. CASE Timer
  BY <1>7 DEF Timer, ScheduledPoll, CooldownEnds, TrailingRefreshRuns, BeginRefresh
<1>8. CASE ScanIntervalChanges
  BY <1>8 DEF ScanIntervalChanges
<1>9. ASSUME NEW page \in Pages, HistoryArrives(page) PROVE DataTypeOK'
  <2>1. page \in SUBSET Calls
    BY PagesHoldPlacedCalls
  <2>2. latest' \in [Cameras -> 0..MaxCalls]
    BY <1>9, <2>1, LatestByCameraIsTyped DEF HistoryArrives
  <2>3. newCalls' \in SUBSET Calls
    BY <1>9, <2>1 DEF HistoryArrives, NewOn
  <2>4. todo' \in SUBSET Calls
    <3>1. \A k \in Cameras : latest'[k] # 0 => latest'[k] \in Calls
      BY <2>2 DEF Calls
    <3>2. todo' = (newCalls' \cup {latest'[k] : k \in Cameras}) \ {0}
      BY <1>9 DEF HistoryArrives
    <3>3. QED
      BY <2>3, <3>1, <3>2
  <2>5. seen' \in SUBSET Calls /\ known' \in SUBSET Calls /\ skipped' \in SUBSET Calls
    BY <1>9, <2>1 DEF HistoryArrives, Remember
  <2>6. QED
    BY <1>9, <2>2, <2>3, <2>4, <2>5 DEF HistoryArrives
<1>10. ASSUME NEW rejected \in BOOLEAN, HistoryFails(rejected) PROVE DataTypeOK'
  <2>1. deliveries' \in [Calls -> Nat] /\ unheard' \in SUBSET Calls
    BY <1>10 DEF HistoryFails, Publish
  <2>2. QED
    BY <1>10, <2>1 DEF HistoryFails, AfterRefresh
<1>11. ASSUME NEW c \in Calls, EnrichMedia(c) PROVE DataTypeOK'
  BY <1>11 DEF EnrichMedia
<1>12. ASSUME NEW c \in Calls, MediaExpires(c) PROVE DataTypeOK'
  BY <1>12 DEF MediaExpires
<1>13. CASE FinishRefresh
  <2>1. deliveries' \in [Calls -> Nat] /\ unheard' \in SUBSET Calls
    BY <1>13 DEF FinishRefresh, Publish
  <2>2. QED
    BY <1>13, <2>1 DEF FinishRefresh, AfterRefresh, NoLatest
<1>14. CASE MediaBreaks
  <2>1. deliveries' \in [Calls -> Nat] /\ unheard' \in SUBSET Calls
    BY <1>14 DEF MediaBreaks, Publish
  <2>2. QED
    BY <1>14, <2>1 DEF MediaBreaks, AfterRefresh, NoLatest
<1>15. CASE UNCHANGED vars
  BY <1>15 DEF vars
<1>16. QED
  BY <1>1, <1>2, <1>3, <1>4, <1>5, <1>6, <1>7, <1>8, <1>9,
     <1>10, <1>11, <1>12, <1>13, <1>14, <1>15
     DEF Next, Entry, Answer, Fails, Enrich, Expire

LEMMA TypeStep == TypeOK /\ [Next]_vars => TypeOK'
BY FlagsStep, DataStep DEF TypeOK

\* Every variable keeps its type, whatever the provider, the pushes and the
\* restarts do (coordinator.py:292-431, __init__.py:297-589).
THEOREM TypeCorrect == Spec => []TypeOK
<1>1. QED
  BY TypeInit, TypeStep, PTL DEF Spec

-----------------------------------------------------------------------------
(* The inductive invariant, while the provider does not reorder its page.   *)

\* The steps that leave what has been read, remembered and fired alone: they
\* may start a refresh, whose batch is then empty, but never end one.
Bystander ==
  \/ Entry \/ PushArrives \/ Request \/ Timer \/ ScanIntervalChanges
  \/ Enrich \/ Expire \/ UNCHANGED vars

LEMMA BystandersKeep ==
  ASSUME BlankUntilFirstPage, Bystander
  PROVE  /\ UNCHANGED <<placed, initialized, seen, known, deliveries, skipped, unheard>>
         /\ \/ step' = step /\ newCalls' = newCalls
            \/ step = "none" /\ step' = "history" /\ newCalls' \in {{}, newCalls}
<1> USE DEF outside, gate, batch, result, bus
<1>1. CASE Entry
  BY <1>1 DEF Entry, Setup, RegisterListeners, BlankUntilFirstPage
<1>2. CASE PushArrives
  BY <1>2 DEF PushArrives
<1>3. CASE Request
  BY <1>3 DEF Request, PushRefreshDropped, PushRefreshPostponed, PushRefreshRuns, BeginRefresh
<1>4. CASE Timer
  BY <1>4 DEF Timer, ScheduledPoll, CooldownEnds, TrailingRefreshRuns, BeginRefresh
<1>5. CASE ScanIntervalChanges
  BY <1>5 DEF ScanIntervalChanges
<1>6. CASE Enrich
  BY <1>6 DEF Enrich, EnrichMedia
<1>7. CASE Expire
  BY <1>7 DEF Expire, MediaExpires
<1>8. CASE UNCHANGED vars
  BY <1>8 DEF vars
<1>9. QED
  BY <1>1, <1>2, <1>3, <1>4, <1>5, <1>6, <1>7, <1>8 DEF Bystander

\* Where the entry and its refreshes are in their lives.
LEMMA ControlStep ==
  ASSUME TypeOK, BlankUntilFirstPage, QuietUntilListening, [Next]_vars
  PROVE  BlankUntilFirstPage' /\ QuietUntilListening'
<1> USE BoundsAssumption DEF BoundsAssumption, TypeOK, FlagsTypeOK, DataTypeOK,
        BlankUntilFirstPage, QuietUntilListening, outside, gate, batch, result, bus
<1>1. CASE PlaceCall
  BY <1>1 DEF PlaceCall
<1>2. CASE Setup
  BY <1>2 DEF Setup
<1>3. CASE RegisterListeners
  BY <1>3 DEF RegisterListeners
<1>4. CASE Unload
  BY <1>4 DEF Unload
<1>5. CASE PushArrives
  BY <1>5 DEF PushArrives, PushStages
<1>6. CASE Request
  <2>1. CASE PushRefreshDropped
    BY <2>1 DEF PushRefreshDropped
  <2>2. CASE PushRefreshPostponed
    BY <2>2 DEF PushRefreshPostponed
  <2>3. CASE PushRefreshRuns
    BY <2>3 DEF PushRefreshRuns, BeginRefresh
  <2>4. QED
    BY <1>6, <2>1, <2>2, <2>3 DEF Request
<1>7. CASE Timer
  <2>1. CASE ScheduledPoll
    BY <2>1 DEF ScheduledPoll, BeginRefresh
  <2>2. CASE CooldownEnds
    BY <2>2 DEF CooldownEnds
  <2>3. CASE TrailingRefreshRuns
    BY <2>3 DEF TrailingRefreshRuns, BeginRefresh
  <2>4. QED
    BY <1>7, <2>1, <2>2, <2>3 DEF Timer
<1>8. CASE ScanIntervalChanges
  BY <1>8 DEF ScanIntervalChanges
<1>9. ASSUME NEW page \in Pages, HistoryArrives(page)
      PROVE  BlankUntilFirstPage' /\ QuietUntilListening'
  BY <1>9 DEF HistoryArrives, NewOn
<1>10. ASSUME NEW rejected \in BOOLEAN, HistoryFails(rejected)
       PROVE  BlankUntilFirstPage' /\ QuietUntilListening'
  BY <1>10 DEF HistoryFails, AfterRefresh
<1>11. ASSUME NEW c \in Calls, EnrichMedia(c)
       PROVE  BlankUntilFirstPage' /\ QuietUntilListening'
  BY <1>11 DEF EnrichMedia
<1>12. ASSUME NEW c \in Calls, MediaExpires(c)
       PROVE  BlankUntilFirstPage' /\ QuietUntilListening'
  BY <1>12 DEF MediaExpires
<1>13. CASE FinishRefresh
  BY <1>13 DEF FinishRefresh, AfterRefresh
<1>14. CASE MediaBreaks
  BY <1>14 DEF MediaBreaks, AfterRefresh
<1>15. CASE UNCHANGED vars
  BY <1>15 DEF vars
<1>16. QED
  BY <1>1, <1>2, <1>3, <1>4, <1>5, <1>6, <1>7, <1>8, <1>9,
     <1>10, <1>11, <1>12, <1>13, <1>14, <1>15
     DEF Next, Entry, Answer, Fails, Enrich, Expire

\* With ~Reordering the page is the window of the newest calls.
LEMMA PageIsWindow == ASSUME ~Reordering PROVE Pages = {Window}
BY DEF Pages

\* What is detected as new was not known: it is on the page and newer than
\* everything read or reported before.
LEMMA DetectedIsNewest ==
  ASSUME ~Reordering, IInv, HistoryArrives(Window)
  PROVE  \A c \in newCalls', d \in Calls : Settled(d) \/ d \in known => d < c
<1> SUFFICES ASSUME NEW c \in newCalls', NEW d \in Calls, Settled(d) \/ d \in known, c <= d
             PROVE  FALSE
  BY BoundsAssumption DEF HistoryArrives, NewOn, Window, IInv, TypeOK, DataTypeOK, Calls,
     BoundsAssumption
<1>1. c \in Window /\ c \notin seen /\ initialized
  BY DEF HistoryArrives, NewOn
<1>2. c \in Calls /\ c > placed - PageSize
  BY <1>1, BoundsAssumption DEF Window, Calls, IInv, TypeOK, DataTypeOK, BoundsAssumption
<1>3. c <= placed - PageSize
  BY <1>1, <1>2 DEF IInv, ForgottenIsOffThePage
<1>4. QED
  BY <1>2, <1>3, BoundsAssumption DEF IInv, TypeOK, DataTypeOK, BoundsAssumption, Calls

\* Every event fired is for a call of the batch, and such a batch exists only
\* at the end of a refresh that read a page.
LEMMA PublishSettlesBatch ==
  ASSUME IInv, NEW runs \in BOOLEAN, Publish(runs), skipped' = skipped
  PROVE  \A c \in Calls :
           /\ Settled(c)' <=> Settled(c) \/ c \in newCalls
           /\ deliveries'[c] > deliveries[c] => c \in newCalls
BY DEF IInv, TypeOK, DataTypeOK, Publish, Settled

\* A refresh that has read a page ends, well or badly.
Ending == FinishRefresh \/ MediaBreaks

LEMMA EndingSettlesBatch ==
  ASSUME IInv, Ending
  PROVE  /\ UNCHANGED <<placed, initialized, seen, known, newCalls, skipped>>
         /\ step = "media" /\ step' = "none"
         /\ \A c \in Calls :
              /\ Settled(c)' <=> Settled(c) \/ c \in newCalls
              /\ deliveries'[c] > deliveries[c] => c \in newCalls
<1>1. /\ UNCHANGED <<placed, initialized, seen, known, newCalls, skipped>>
      /\ step = "media" /\ step' = "none"
  BY DEF Ending, FinishRefresh, MediaBreaks, outside, batch
<1>2. PICK runs \in BOOLEAN : Publish(runs)
  <2>1. lastOk \in BOOLEAN
    BY DEF IInv, TypeOK, FlagsTypeOK
  <2>2. (stage = "running") \in BOOLEAN /\ (stage = "running" /\ lastOk) \in BOOLEAN
    BY <2>1
  <2>3. QED
    BY <2>2, Zenon DEF Ending, FinishRefresh, MediaBreaks
<1>3. QED
  BY <1>1, <1>2, PublishSettlesBatch

LEMMA FailureFiresNothing ==
  ASSUME IInv, NEW rejected \in BOOLEAN, HistoryFails(rejected)
  PROVE  UNCHANGED <<placed, initialized, seen, known, deliveries, skipped, unheard, newCalls>>
<1>1. newCalls = {}
  BY DEF IInv, BlankUntilFirstPage, HistoryFails
<1>2. deliveries' = deliveries /\ unheard' = unheard
  BY <1>1 DEF IInv, TypeOK, DataTypeOK, HistoryFails, Publish
<1>3. QED
  BY <1>2 DEF HistoryFails, outside, batch

\* What has been read, remembered, fired and skipped hangs together.
Knowledge ==
  /\ seen \cup newCalls \subseteq known
  /\ OnlyPlacedCalls
  /\ ForgottenIsOffThePage
  /\ BatchIsNewest
  /\ BatchIsAPage
  /\ NoCallSwallowed

LEMMA KnowledgeStep ==
  ASSUME ~Reordering, IInv, [Next]_vars, TypeOK'
  PROVE  Knowledge'
<1> USE BoundsAssumption DEF BoundsAssumption, IInv, TypeOK, DataTypeOK, Calls
<1>1. CASE Bystander
  <2>1. /\ UNCHANGED <<placed, initialized, seen, known, deliveries, skipped, unheard>>
        /\ \/ step' = step /\ newCalls' = newCalls
           \/ step = "none" /\ step' = "history" /\ newCalls' \in {{}, newCalls}
    BY <1>1, BystandersKeep
  <2>2. QED
    BY <2>1 DEF Knowledge, OnlyPlacedCalls, ForgottenIsOffThePage, BatchIsNewest,
       BatchIsAPage, NoCallSwallowed, Settled
<1>2. CASE PlaceCall
  <2>1. BatchIsAPage'
    BY <1>2 DEF PlaceCall, BatchIsAPage, Settled, batch, bus
  <2>2. QED
    BY <1>2, <2>1 DEF PlaceCall, Knowledge, OnlyPlacedCalls, ForgottenIsOffThePage,
       BatchIsNewest, NoCallSwallowed, Settled, batch, bus
<1>3. CASE Unload
  BY <1>3 DEF Unload, Knowledge, OnlyPlacedCalls, ForgottenIsOffThePage,
     BatchIsNewest, BatchIsAPage, NoCallSwallowed, Settled, bus
<1>4. CASE HistoryArrives(Window)
  <2>1. Window \subseteq Calls /\ \A c \in Window : c <= placed /\ c > placed - PageSize
    BY DEF Window
  <2>2. Window \subseteq seen' /\ seen' \subseteq seen \cup Window
    BY <1>4 DEF HistoryArrives, Remember
  <2>3. known' = known \cup Window /\ newCalls' \subseteq Window
        /\ UNCHANGED <<placed, deliveries, unheard>>
    BY <1>4 DEF HistoryArrives, NewOn, outside
  <2>4. skipped \subseteq skipped' /\ skipped' \subseteq skipped \cup Window
    BY <1>4 DEF HistoryArrives
  <2>5. (seen \cup newCalls \subseteq known)'
    BY <2>2, <2>3
  <2>6. OnlyPlacedCalls'
    BY <2>1, <2>3, <2>4 DEF OnlyPlacedCalls, Settled
  <2>7. ForgottenIsOffThePage'
    <3>1. SUFFICES ASSUME NEW c \in Calls, NEW d \in Calls,
                          (Settled(c) \/ c \in known)', d <= c, d \notin seen'
                   PROVE  d <= placed - PageSize
      BY <2>3 DEF ForgottenIsOffThePage
    <3>2. d <= placed
      BY <3>1, <2>1, <2>3, <2>4 DEF OnlyPlacedCalls, Settled
    <3>3. d \notin Window
      BY <3>1, <2>2
    <3>4. QED
      BY <3>2, <3>3 DEF Window
  <2>8. BatchIsNewest'
    <3>1. ASSUME NEW c \in newCalls', NEW d \in Calls, Settled(d)' PROVE d < c
      <4>1. skipped' = skipped
        BY <1>4, <3>1 DEF HistoryArrives, NewOn
      <4>2. Settled(d)
        BY <3>1, <4>1, <2>3 DEF Settled
      <4>3. QED
        BY <1>4, <4>2, DetectedIsNewest
    <3>2. QED
      BY <3>1 DEF BatchIsNewest
  <2>9. NoCallSwallowed'
    <3>1. SUFFICES ASSUME NEW c \in known' PROVE Settled(c)' \/ c \in newCalls'
      BY <1>4 DEF HistoryArrives, NoCallSwallowed
    <3>2. CASE c \in known
      BY <3>2, <1>4, <2>3, <2>4 DEF NoCallSwallowed, Settled, HistoryArrives
    <3>3. CASE c \in Window /\ c \notin known
      BY <3>3, <1>4 DEF HistoryArrives, NewOn, Settled
    <3>4. QED
      BY <3>2, <3>3, <2>3
  <2>10. BatchIsAPage'
    <3>1. SUFFICES ASSUME NEW c \in newCalls'
                   PROVE  /\ placed \in newCalls'
                          /\ \A e \in Window :
                               e \in newCalls' <=> \A d \in Calls : Settled(d) => d < e
      <4>1. \A e \in Calls : Settled(e)' <=> Settled(e) \/ (~initialized /\ e \in Window)
        BY <1>4 DEF HistoryArrives, Settled
      <4>2. newCalls' # {} => initialized
        BY <1>4 DEF HistoryArrives, NewOn
      <4>3. QED
        BY <2>1, <2>3, <4>1, <4>2 DEF BatchIsAPage, Window
    <3>2. initialized /\ newCalls' = Window \ seen /\ step = "history"
      BY <1>4, <3>1 DEF HistoryArrives, NewOn
    <3>3. \A e \in newCalls', d \in Calls : Settled(d) => d < e
      BY <1>4, DetectedIsNewest
    <3>4. ASSUME NEW e \in Window, \A d \in Calls : Settled(d) => d < e
          PROVE  e \in newCalls'
      <4>1. ~Settled(e)
        BY <2>1, <3>4
      <4>2. e \notin seen
        BY <3>2, <4>1 DEF NoCallSwallowed
      <4>3. QED
        BY <3>2, <4>2
    <3>5. placed \in Window
      BY <2>1, <3>1, <3>2 DEF Window
    <3>6. \A d \in Calls : Settled(d) => d < placed
      BY <2>1, <3>1, <3>2, <3>3
    <3>7. QED
      BY <3>3, <3>4, <3>5, <3>6
  <2>11. QED
    BY <2>5, <2>6, <2>7, <2>8, <2>9, <2>10 DEF Knowledge
<1>5. ASSUME NEW rejected \in BOOLEAN, HistoryFails(rejected) PROVE Knowledge'
  <2>1. UNCHANGED <<placed, initialized, seen, known, deliveries, skipped, unheard, newCalls>>
        /\ step = "history" /\ step' = "none"
    BY <1>5, FailureFiresNothing DEF HistoryFails
  <2>2. QED
    BY <2>1 DEF Knowledge, OnlyPlacedCalls, ForgottenIsOffThePage, BatchIsNewest,
       BatchIsAPage, NoCallSwallowed, Settled
<1>6. CASE Ending
  <2>1. /\ UNCHANGED <<placed, initialized, seen, known, newCalls, skipped>>
        /\ step = "media" /\ step' = "none"
    BY <1>6, EndingSettlesBatch
  <2>2. \A c \in Calls : Settled(c)' <=> Settled(c) \/ c \in newCalls
    BY <1>6, EndingSettlesBatch
  <2>3. OnlyPlacedCalls'
    BY <2>1, <2>2 DEF OnlyPlacedCalls
  <2>4. ForgottenIsOffThePage'
    BY <2>1, <2>2 DEF ForgottenIsOffThePage
  <2>5. NoCallSwallowed'
    BY <2>1, <2>2 DEF NoCallSwallowed
  <2>6. QED
    BY <2>1, <2>3, <2>4, <2>5 DEF Knowledge, BatchIsNewest, BatchIsAPage
<1>7. QED
  BY <1>1, <1>2, <1>3, <1>4, <1>5, <1>6, PageIsWindow
     DEF Next, Bystander, Answer, Fails, Ending

-----------------------------------------------------------------------------
(* The results.                                                             *)

LEMMA InvariantInit == Init => IInv
<1> SUFFICES ASSUME Init PROVE IInv
  OBVIOUS
<1>1. TypeOK
  BY TypeInit
<1>2. QED
  BY <1>1 DEF Init, IInv, BlankUntilFirstPage, QuietUntilListening, OnlyPlacedCalls,
     ForgottenIsOffThePage, BatchIsNewest, BatchIsAPage, NoCallSwallowed, Settled, Calls

LEMMA InvariantStep ==
  ASSUME ~Reordering
  PROVE  IInv /\ [Next]_vars => IInv'
<1> SUFFICES ASSUME IInv, [Next]_vars PROVE IInv'
  OBVIOUS
<1>1. TypeOK'
  BY TypeStep DEF IInv
<1>2. BlankUntilFirstPage' /\ QuietUntilListening'
  BY ControlStep DEF IInv
<1>3. Knowledge'
  BY <1>1, KnowledgeStep
<1>4. QED
  BY <1>1, <1>2, <1>3 DEF IInv, Knowledge

\* Memory, batch and page stay related in this way through every refresh, push,
\* failure and restart (coordinator.py:328-417, __init__.py:343-354).
THEOREM CallPathInvariant ==
  ASSUME ~Reordering
  PROVE  Spec => []IInv
BY InvariantInit, InvariantStep, PTL DEF Spec

\* Whatever fails, is trimmed, postponed, pushed or restarted, a call that the
\* coordinator has read is lost on its way to the event bus only with a batch that
\* ends where Home Assistant runs no listener: before the listeners are registered,
\* or by an error after a failed refresh (coordinator.py:328-387,
\* __init__.py:432-457, 518-523).
THEOREM NoCallIsSwallowed ==
  ASSUME ~Reordering
  PROVE  Spec => []NoCallSwallowed
<1>1. IInv => NoCallSwallowed
  BY DEF IInv
<1>2. QED
  BY <1>1, InvariantInit, InvariantStep, PTL DEF Spec

\* An event is fired only for a call newer than every call settled before: none twice, none late, across polls, pushes, failures,
\* trims and restarts (coordinator.py:345-363, __init__.py:432-457).
THEOREM OnlyNewerCallsFire ==
  ASSUME ~Reordering
  PROVE  Spec => FiresOnlyNewer
<1> DEFINE Newer == \A c, d \in Calls :
                      deliveries'[c] > deliveries[c] /\ Settled(d) => d < c
<1>1. IInv /\ [Next]_vars => [Newer]_vars
  <2> SUFFICES ASSUME IInv, [Next]_vars, NEW c \in Calls, NEW d \in Calls,
                      deliveries'[c] > deliveries[c], Settled(d)
               PROVE  d < c
    OBVIOUS
  <2>1. CASE Ending
    <3>1. c \in newCalls /\ step = "media"
      BY <2>1, EndingSettlesBatch
    <3>2. QED
      BY <3>1 DEF IInv, BatchIsNewest
  <2>2. CASE ~Ending
    <3>1. deliveries' = deliveries
      <4>1. CASE Bystander
        BY <4>1, BystandersKeep DEF IInv
      <4>2. CASE PlaceCall \/ Unload \/ Answer
        BY <4>2 DEF PlaceCall, Unload, Answer, HistoryArrives, bus
      <4>3. CASE Fails
        BY <4>3, FailureFiresNothing DEF Fails
      <4>4. QED
        BY <2>2, <4>1, <4>2, <4>3 DEF Next, Bystander, Ending
    <3>2. QED
      BY <3>1 DEF IInv, TypeOK, DataTypeOK
  <2>3. QED
    BY <2>1, <2>2
<1>2. QED
  BY <1>1, InvariantInit, InvariantStep, PTL DEF Spec, FiresOnlyNewer

\* No call is ever detected as new by a coordinator that has already read it,
\* though the coordinator forgets what the trim drops
\* (coordinator.py:352-363).
THEOREM NothingIsRedetected ==
  ASSUME ~Reordering
  PROVE  Spec => NeverRedetected
<1> DEFINE Fresh == newCalls' # newCalls => newCalls' \cap known = {}
<1>1. IInv /\ [Next]_vars => [Fresh]_vars
  <2> SUFFICES ASSUME IInv, [Next]_vars, newCalls' # newCalls
               PROVE  newCalls' \cap known = {}
    OBVIOUS
  <2>1. CASE HistoryArrives(Window)
    <3>1. ASSUME NEW c \in newCalls', c \in known PROVE FALSE
      <4>1. c \in Calls
        BY <3>1 DEF IInv, TypeOK, DataTypeOK
      <4>2. c < c
        BY <2>1, <3>1, <4>1, DetectedIsNewest
      <4>3. QED
        BY <4>1, <4>2 DEF Calls
    <3>2. QED
      BY <3>1
  <2>2. CASE Bystander
    <3>1. newCalls' = {}
      BY <2>2, BystandersKeep DEF IInv
    <3>2. QED
      BY <3>1
  <2>3. CASE PlaceCall \/ Unload \/ Ending
    BY <2>3 DEF PlaceCall, Unload, Ending, FinishRefresh, MediaBreaks, batch
  <2>4. CASE Fails
    BY <2>4, FailureFiresNothing DEF Fails
  <2>5. QED
    BY <2>1, <2>2, <2>3, <2>4, PageIsWindow DEF Next, Bystander, Answer, Ending
<1>2. QED
  BY <1>1, InvariantInit, InvariantStep, PTL DEF Spec, NeverRedetected

-----------------------------------------------------------------------------
(* The refinement of CallDelivery.                                          *)

\* A number is beyond what has been dealt with when it is newer than every call that
\* has been reported or skipped.
LEMMA BeyondAllSettled ==
  ASSUME TypeOK
  PROVE  /\ Promise!NewestDealtWith \in 0..MaxCalls
         /\ \A n \in Nat \ {0} :
              n > Promise!NewestDealtWith <=> \A d \in Calls : Settled(d) => d < n
<1> DEFINE dealtWith == {0} \cup (skipped \cup unheard) \cup {c \in Calls : deliveries[c] > 0}
<1>1. MaxCalls \in Nat /\ Calls \subseteq 1..MaxCalls
  BY BoundsAssumption DEF BoundsAssumption, Calls
<1>2. dealtWith \in SUBSET (0..MaxCalls) /\ dealtWith # {}
  <2>1. 0 \in 0..MaxCalls /\ 1..MaxCalls \subseteq 0..MaxCalls
    BY <1>1
  <2>2. skipped \cup unheard \subseteq Calls
    BY DEF TypeOK, DataTypeOK
  <2>3. QED
    BY <1>1, <2>1, <2>2
<1>3. Max(dealtWith) \in dealtWith /\ \A d \in dealtWith : d <= Max(dealtWith)
  BY ONLY <1>1, <1>2, BoundedSetHasMax
<1>4. Promise!NewestDealtWith = Max(dealtWith)
  BY DEF Promise!NewestDealtWith, Promise!Max, Max, Promise!Calls, Calls
<1>5. \A d \in 0..MaxCalls : d \in dealtWith <=> d = 0 \/ (d \in Calls /\ Settled(d))
  BY <1>1 DEF Settled, Calls, TypeOK, DataTypeOK
<1>6. QED
  BY <1>1, <1>2, <1>3, <1>4, <1>5 DEF Calls

\* The batch that is published is everything on a page that is newer than all settled
\* before, as Deliver has it, or PassOver if no listener is run.
LEMMA PublishingDelivers ==
  ASSUME IInv, step = "media", newCalls # {}, NEW runs \in BOOLEAN, Publish(runs),
         UNCHANGED <<placed, skipped>>
  PROVE  Promise!Deliver \/ Promise!PassOver
<1> USE BoundsAssumption DEF BoundsAssumption
<1>1. PICK newest \in newCalls :
        newCalls = {c \in 1..newest : c > newest - PageSize /\ \A d \in Calls : Settled(d) => d < c}
  BY DEF IInv, BatchIsAPage
<1>2. newest \in Calls /\ newest <= placed
  BY <1>1 DEF IInv, TypeOK, DataTypeOK, OnlyPlacedCalls
<1>3. newest > Promise!NewestDealtWith /\ Promise!NewestDealtWith \in Int
  BY <1>1, <1>2, BeyondAllSettled DEF IInv, Calls
<1>4. \A c \in Calls :
        c \in newCalls <=> c \in Promise!PageAt(newest) /\ c > Promise!NewestDealtWith
  BY <1>1, <1>2, BeyondAllSettled DEF IInv, Calls, Promise!PageAt
<1>5. newest \in (Promise!NewestDealtWith + 1)..placed
  BY <1>2, <1>3 DEF IInv, TypeOK, DataTypeOK, Calls
<1>6. CASE runs
  <2>1. /\ deliveries' = [c \in Calls |->
                            IF c \in newCalls THEN deliveries[c] + 1 ELSE deliveries[c]]
        /\ unheard' = unheard
    BY <1>6 DEF Publish
  <2>2. deliveries' = [c \in Promise!Calls |->
                        IF c \in Promise!PageAt(newest) /\ c > Promise!NewestDealtWith
                        THEN deliveries[c] + 1 ELSE deliveries[c]]
    BY <1>4, <2>1 DEF Promise!Calls, Calls
  <2>3. QED
    BY <1>5, <2>1, <2>2 DEF Promise!Deliver
<1>7. CASE ~runs
  <2>1. deliveries' = deliveries /\ unheard' = unheard \cup newCalls
    BY <1>7 DEF Publish, IInv, TypeOK, DataTypeOK
  <2>2. newCalls = {c \in Promise!PageAt(newest) : c > Promise!NewestDealtWith}
    <3>1. Promise!PageAt(newest) \subseteq Calls
      BY <1>2 DEF Promise!PageAt, Calls
    <3>2. newCalls \subseteq Calls
      BY DEF IInv, TypeOK, DataTypeOK
    <3>3. QED
      BY <1>4, <3>1, <3>2
  <2>3. (skipped \cup unheard)' =
          (skipped \cup unheard) \cup {c \in Promise!PageAt(newest) : c > Promise!NewestDealtWith}
    BY <2>1, <2>2
  <2>4. QED
    BY <1>5, <2>1, <2>3 DEF Promise!PassOver
<1>8. QED
  BY <1>6, <1>7

\* The whole path from the history page to the event bus is an implementation of
\* CallDelivery: what automations see of polls, pushes, trims, failures and restarts
\* is calls placed, batches delivered or, with nobody to listen, passed over, and
\* baselines taken (coordinator.py:328-417, __init__.py:432-457, 518-523).
THEOREM CallPathDelivers ==
  ASSUME ~Reordering
  PROVE  Spec => DeliversAsPromised
<1>1. Init => Promise!Init
  BY DEF Init, Promise!Init, Promise!Calls, Calls
<1>2. IInv /\ [Next]_vars => [Promise!Next]_(Promise!vars)
  <2> SUFFICES ASSUME IInv, [Next]_vars
               PROVE  \/ Promise!Next
                      \/ UNCHANGED <<placed, deliveries, skipped \cup unheard>>
    BY DEF Promise!vars
  <2>1. CASE Bystander
    BY <2>1, BystandersKeep DEF IInv
  <2>2. CASE PlaceCall
    BY <2>2 DEF PlaceCall, bus, Promise!Next, Promise!Place
  <2>3. CASE Unload
    BY <2>3 DEF Unload, bus
  <2>4. CASE HistoryArrives(Window)
    <3>1. UNCHANGED <<placed, deliveries, unheard>>
          /\ skipped' = IF initialized THEN skipped ELSE skipped \cup Window
      BY <2>4 DEF HistoryArrives, outside
    <3>2. CASE initialized
      BY <3>1, <3>2
    <3>3. CASE ~initialized
      <4>1. (skipped \cup unheard)' = (skipped \cup unheard) \cup Window
        BY <3>1, <3>3
      <4>2. QED
        BY <3>1, <4>1 DEF Promise!Next, Promise!Baseline, Promise!PageAt, Window
    <3>4. QED
      BY <3>2, <3>3
  <2>5. CASE Fails
    BY <2>5, FailureFiresNothing DEF Fails
  <2>6. CASE Ending
    <3>1. /\ UNCHANGED <<placed, initialized, seen, known, newCalls, skipped>>
          /\ step = "media"
      BY <2>6, EndingSettlesBatch
    <3>2. PICK runs \in BOOLEAN : Publish(runs)
      <4>1. (stage = "running") \in BOOLEAN /\ (stage = "running" /\ lastOk) \in BOOLEAN
        BY DEF IInv, TypeOK, FlagsTypeOK
      <4>2. QED
        BY <2>6, <4>1, Zenon DEF Ending, FinishRefresh, MediaBreaks
    <3>3. CASE newCalls # {}
      BY <3>1, <3>2, <3>3, PublishingDelivers DEF Promise!Next
    <3>4. CASE newCalls = {}
      BY <3>1, <3>2, <3>4 DEF Publish, IInv, TypeOK, DataTypeOK
    <3>5. QED
      BY <3>3, <3>4
  <2>7. QED
    BY <2>1, <2>2, <2>3, <2>4, <2>5, <2>6, PageIsWindow DEF Next, Bystander, Answer, Ending
<1>3. QED
  BY <1>1, <1>2, InvariantInit, InvariantStep, PTL
     DEF Spec, DeliversAsPromised, Promise!Spec
==============================================================================
