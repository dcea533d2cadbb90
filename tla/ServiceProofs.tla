---------------------------- MODULE ServiceProofs ----------------------------
(***************************************************************************)
(* Proofs about the entry's background services: the supervision of the    *)
(* push transport (FcmWatchdog), for every threshold and delay, and the    *)
(* management of keys (KeyRename).  The two share no state.                *)
(*                                                                         *)
(* WatchInv: polling returns in time and no outage that is over is         *)
(* reported; of the delay before a restart it needs no more than its type. *)
(* RenameInv: a rename is answered for what the provider has been seen to  *)
(* hold, whatever the provider does meanwhile.                             *)
(***************************************************************************)
EXTENDS FcmWatchdog, KeyRename, TLAPS

-----------------------------------------------------------------------------
(* The supervision of the push transport.                                  *)


\* What the two properties rest on.
WatchInv ==
  /\ running \in BOOLEAN /\ issue \in BOOLEAN /\ started \in BOOLEAN
  /\ outage \in NoOutage .. StallTicks
  /\ lost \in 0 .. 2
  /\ PollingReturns
  /\ RepairIssueIsTrue
  /\ running => pc \in {"sleeping", "due"} /\ outage = NoOutage
  /\ running /\ pc = "sleeping" => lost = 0
  /\ transport = "healthy" => lost = 0
  /\ pc \in {"stopping", "waiting", "attempting", "stopped"} => ~started

\* Looking at the transport keeps the outage a number of ticks.
LEMMA OutageNowType ==
  ASSUME outage \in NoOutage .. StallTicks
  PROVE  /\ OutageNow \in NoOutage .. StallTicks
         /\ Healthy => OutageNow = NoOutage
         /\ ~Healthy /\ ~running /\ outage # NoOutage => OutageNow = outage
  BY TicksAssumption DEF OutageNow, NoOutage

\* What a look at the transport does to the two flags.
LEMMA EvaluateFlags ==
  ASSUME running \in BOOLEAN, issue \in BOOLEAN, NEW raises \in BOOLEAN, Evaluate(raises)
  PROVE  /\ running' \in BOOLEAN /\ issue' \in BOOLEAN
         /\ running' <=> Healthy
         /\ issue' => issue \/ raises
         /\ Healthy /\ ~running => ~issue'
  <1>1. running' = Healthy /\ issue' = IF Healthy /\ ~running THEN FALSE ELSE issue \/ raises
    BY DEF Evaluate
  <1>2. Healthy \in BOOLEAN
    BY DEF Healthy
  <1>3. CASE Healthy /\ ~running
    BY <1>1, <1>2, <1>3, Zenon
  <1>4. CASE ~(Healthy /\ ~running)
    <2>1. issue' = (issue \/ raises)
      BY <1>1, <1>4, Zenon
    <2> QED
      BY <1>1, <1>2, <1>4, <2>1, Zenon
  <1> QED
    BY <1>3, <1>4

\* The initial state satisfies the invariant.
LEMMA InitWatch == Init => WatchInv
  <1> SUFFICES ASSUME Init PROVE WatchInv
    OBVIOUS
  <1>1. ~running /\ ~issue /\ ~started /\ outage = 0 /\ lost = 0 /\ transport = "connecting"
    BY DEF Init
  <1>2. running \in BOOLEAN /\ issue \in BOOLEAN /\ started \in BOOLEAN
    BY Zenon DEF Init
  <1> QED
    BY <1>1, <1>2, TicksAssumption DEF WatchInv, PollingReturns, RepairIssueIsTrue, NoOutage

\* Every step of the client, the clock or the task keeps the invariant.
LEMMA NextWatch == WatchInv /\ [Next]_vars => WatchInv'
  <1> SUFFICES ASSUME WatchInv, [Next]_vars PROVE WatchInv'
    OBVIOUS
  <1>0. /\ OutageNow \in NoOutage .. StallTicks
        /\ Healthy => OutageNow = NoOutage
        /\ ~Healthy /\ ~running /\ outage # NoOutage => OutageNow = outage
    BY OutageNowType DEF WatchInv
  <1> USE TicksAssumption DEF WatchInv, PollingReturns, RepairIssueIsTrue, NoOutage, health, history
  <1>1. CASE Tick
    BY <1>1 DEF Tick, AtMost
  <1>2. CASE Connect
    BY <1>2 DEF Connect
  <1>3. CASE Lose
    BY <1>3 DEF Lose
  <1>4. CASE FindHealthy
    <2>1. FALSE \in BOOLEAN
      BY DEF Prolonged
    <2>2. Evaluate(FALSE)
      BY <1>4 DEF FindHealthy
    <2>3. /\ running' \in BOOLEAN /\ issue' \in BOOLEAN
          /\ running' <=> Healthy
          /\ issue' => issue \/ FALSE
          /\ Healthy /\ ~running => ~issue'
      BY <2>1, <2>2, EvaluateFlags
    <2>4. outage' = OutageNow
      BY <2>2 DEF Evaluate
    <2> QED
      BY <1>4, <1>0, <2>3, <2>4 DEF FindHealthy, Prolonged, Healthy
  <1>5. CASE KeepWaiting
    <2>1. Prolonged \in BOOLEAN
      BY DEF Prolonged
    <2>2. Evaluate(Prolonged)
      BY <1>5 DEF KeepWaiting
    <2>3. /\ running' \in BOOLEAN /\ issue' \in BOOLEAN
          /\ running' <=> Healthy
          /\ issue' => issue \/ Prolonged
          /\ Healthy /\ ~running => ~issue'
      BY <2>1, <2>2, EvaluateFlags
    <2>4. outage' = OutageNow
      BY <2>2 DEF Evaluate
    <2> QED
      BY <1>5, <1>0, <2>3, <2>4 DEF KeepWaiting, Prolonged, Healthy
  <1>6. CASE GiveUp
    <2>1. Prolonged \in BOOLEAN
      BY DEF Prolonged
    <2>2. Evaluate(Prolonged)
      BY <1>6 DEF GiveUp
    <2>3. /\ running' \in BOOLEAN /\ issue' \in BOOLEAN
          /\ running' <=> Healthy
          /\ issue' => issue \/ Prolonged
          /\ Healthy /\ ~running => ~issue'
      BY <2>1, <2>2, EvaluateFlags
    <2>4. outage' = OutageNow
      BY <2>2 DEF Evaluate
    <2>5. /\ ~Healthy /\ pc' = "stopping" /\ transport' = "none" /\ started' = FALSE
          /\ UNCHANGED lost
      BY <1>6 DEF GiveUp
    <2>6. issue' => outage' >= RepairTicks
      BY <1>0, <2>3, <2>4, <2>5 DEF Prolonged
    <2> QED
      BY <1>0, <2>3, <2>4, <2>5, <2>6
  <1>7. CASE ClientStops
    BY <1>7 DEF ClientStops
  <1>8. CASE Attempt
    BY <1>8 DEF Attempt
  <1>9. CASE AttemptFails
    BY <1>9, <1>0 DEF AttemptFails, Healthy
  <1>10. CASE Launch
    BY <1>10 DEF Launch
  <1>11. CASE AttemptEnds
    <2>1. FALSE \in BOOLEAN
      BY DEF Prolonged
    <2>2. Evaluate(FALSE)
      BY <1>11 DEF AttemptEnds
    <2>3. /\ running' \in BOOLEAN /\ issue' \in BOOLEAN
          /\ running' <=> Healthy
          /\ issue' => issue \/ FALSE
          /\ Healthy /\ ~running => ~issue'
      BY <2>1, <2>2, EvaluateFlags
    <2>4. outage' = OutageNow
      BY <2>2 DEF Evaluate
    <2> QED
      BY <1>11, <1>0, <2>3, <2>4 DEF AttemptEnds, Prolonged, Healthy
  <1>12. CASE Stop
    BY <1>12 DEF Stop
  <1>13. CASE UNCHANGED vars
    BY <1>13 DEF vars
  <1> QED
    BY <1>1, <1>2, <1>3, <1>4, <1>5, <1>6, <1>7, <1>8, <1>9, <1>10, <1>11, <1>12, <1>13
       DEF Next, Watchdog

\* The invariant holds throughout.
THEOREM WatchHolds == Spec => []WatchInv
  BY InitWatch, NextWatch, PTL DEF Spec

\* A delay is between none and the longest.
LEMMA DelayType ==
  ASSUME failures \in 0 .. MaxFailures
  PROVE  Delay \in 0 .. MaxDelay
  <1> DEFINE n == IF failures = 0 THEN 0 ELSE failures - 1
  <1>1. n \in 0 .. MaxFailures
    BY BoundsAssumption
  <1>2. Delay = AtMost(MaxDelay, BaseDelay * 2^n)
    BY Zenon DEF Delay
  <1> HIDE DEF n
  <1>3. PICK p \in Nat : p = 2^n
    BY <1>1, PowersAssumption, Zenon
  <1>4. Delay = AtMost(MaxDelay, BaseDelay * p)
    BY <1>2, <1>3, Zenon
  <1>5. BaseDelay * p \in Nat
    BY DelaysAssumption
  <1> HIDE DEF Delay
  <1> QED
    BY <1>4, <1>5, DelaysAssumption DEF AtMost

\* What WatchInv does not say of the types.
RestTyped ==
  /\ pc \in {"attempting", "launched", "sleeping", "due", "stopping", "waiting", "stopped"}
  /\ transport \in {"none", "connecting", "healthy", "terminal"}
  /\ failures \in 0 .. MaxFailures
  /\ wait \in 0 .. MaxDelay
  /\ losses \in 0 .. MaxLosses
  /\ idle \in 0 .. 2 /\ quick \in 0 .. 3

LEMMA RestInit == Init => RestTyped
  BY DelaysAssumption, BoundsAssumption DEF Init, RestTyped

LEMMA RestStep == RestTyped /\ [Next]_vars => RestTyped'
  <1> SUFFICES ASSUME RestTyped, [Next]_vars PROVE RestTyped'
    OBVIOUS
  <1>0. Delay \in 0 .. MaxDelay
    BY DelayType DEF RestTyped
  <1> HIDE DEF Delay
  <1> USE DelaysAssumption, BoundsAssumption DEF RestTyped, health, history, AtMost
  <1>1. CASE Tick
    BY <1>1 DEF Tick
  <1>2. CASE Connect \/ Lose
    BY <1>2 DEF Connect, Lose
  <1>3. CASE FindHealthy \/ KeepWaiting \/ AttemptEnds
    <2>1. failures' \in {0, failures}
      BY <1>3 DEF FindHealthy, KeepWaiting, AttemptEnds, Evaluate
    <2>2. quick' \in {0, quick}
      BY <1>3 DEF FindHealthy, KeepWaiting, AttemptEnds
    <2>3. pc' = "sleeping" /\ UNCHANGED <<transport, wait, losses, idle>>
      BY <1>3, Zenon DEF FindHealthy, KeepWaiting, AttemptEnds
    <2> QED
      BY <2>1, <2>2, <2>3
  <1>4. CASE GiveUp
    <2>1. failures' \in {0, failures}
      BY <1>4 DEF GiveUp, Evaluate
    <2>2. quick' \in {quick, AtMost(3, quick + 1)}
      BY <1>4 DEF GiveUp
    <2> QED
      BY <1>0, <1>4, <2>1, <2>2 DEF GiveUp
  <1>5. CASE ClientStops \/ Attempt \/ Launch \/ Stop
    BY <1>5 DEF ClientStops, Attempt, Launch, Stop
  <1>6. CASE AttemptFails
    BY <1>6 DEF AttemptFails
  <1>7. CASE UNCHANGED vars
    BY <1>7 DEF vars
  <1> QED
    BY <1>1, <1>2, <1>3, <1>4, <1>5, <1>6, <1>7 DEF Next, Watchdog

\* The task's place, the health it has published and the outage it counts stay
\* related in this way, whatever the delays (fcm.py:457-547).
THEOREM SupervisionInvariant == Spec => []IInv
  <1>1. WatchInv /\ RestTyped => IInv
    <2> SUFFICES ASSUME WatchInv, RestTyped PROVE IInv
      OBVIOUS
    <2>1. TypeOK
      BY DEF WatchInv, RestTyped, TypeOK
    <2> QED
      BY <2>1, Zenon DEF WatchInv, IInv
  <1>2. Spec => []RestTyped
    BY RestInit, RestStep, PTL DEF Spec
  <1> QED
    BY <1>1, <1>2, WatchHolds, PTL

\* Normal polling is restored before a second tick passes without a transport,
\* whatever the thresholds and delays are (fcm.py:507-547).
THEOREM PollingIsRestored == Spec => []PollingReturns
  <1>1. WatchInv => PollingReturns
    BY DEF WatchInv
  <1> QED
    BY <1>1, WatchHolds, PTL

\* The repair issue is never raised early and never outlives the outage
\* (fcm.py:479-482, 518-526).
THEOREM RepairIssueHolds == Spec => []RepairIssueIsTrue
  <1>1. WatchInv => RepairIssueIsTrue
    BY DEF WatchInv
  <1> QED
    BY <1>1, WatchHolds, PTL

-----------------------------------------------------------------------------
(* Renaming a key.                                                         *)

CallType ==
  [do : {"none", "list", "rename", "passages"}, key : Keys \cup {Gone},
   name : Names \cup {Gone}, try : 0..Len(Delays), wait : Nat,
   pc : {"idle", "ask", "awaiting", "look", "fetch", "post", "done"},
   result : {"none", "unavailable", "listed", "refused", "unchanged", "renamed",
             "unconfirmed", "fetched", "failed"}]

\* The call has chosen a key to rename and has not answered yet.
Chosen(r) == r.pc = "post" \/ (r.try > 0 /\ r.pc # "done")

\* What a call is about; it answers when it is done.
CallOK(r) ==
  /\ r.do # "none" => r.key \in Keys
  /\ r.do = "rename" => r.name \in Names
  /\ r.try > 0 \/ r.pc = "post" => r.do = "rename"
  /\ r.pc # "done" => r.result = "none"
  /\ r.do = "none" <=> r.pc \in {"idle", "done"}

\* While a call has chosen a key, the inventory shows another name for it, or one that was
\* listed since: the call has seen another name when it chose.
NewNameIsFresh(c) ==
  Chosen(asked[c]) /\ Known(c) = asked[c].name => asked[c].name \in listedSince[c]

RenameInv ==
  /\ KeyInv
  /\ listedSince \in [KeyCalls -> SUBSET (Names \cup {Gone})]
  /\ \A c \in KeyCalls : CallOK(asked[c]) /\ NewNameIsFresh(c)

\* An answer leaves a record of its type behind.
LEMMA AnswersAreTyped ==
  ASSUME KeyTypeOK, NEW c \in KeyCalls, CallOK(asked[c]),
         NEW result \in {"unavailable", "listed", "refused", "unchanged", "renamed",
                         "unconfirmed", "fetched", "failed"},
         result = "renamed" => asked[c].do = "rename",
         Ended(c, result)
  PROVE  /\ asked' \in [KeyCalls -> CallType]
         /\ \A d \in KeyCalls : d # c => asked'[d] = asked[d]
         /\ CallOK(asked'[c]) /\ asked'[c].pc = "done" /\ asked'[c].result = result
         /\ result = "renamed" => asked'[c].name = asked[c].name
<1>1. asked \in [KeyCalls -> CallType]
  BY DEF KeyTypeOK, CallType
<1>2. PICK r : r = [NotAsked EXCEPT !.pc = "done", !.result = result,
                                    !.name = IF result = "renamed" THEN asked[c].name ELSE Gone]
  OBVIOUS
<1>3. 0 \in 0..Len(Delays) /\ 0 \in Nat
  BY PatienceAssumption
<1>4. /\ r.do = "none" /\ r.key = Gone /\ r.try = 0 /\ r.wait = 0 /\ r.pc = "done"
      /\ r.result = result /\ r.name = IF result = "renamed" THEN asked[c].name ELSE Gone
      /\ r \in CallType
  BY <1>1, <1>2, <1>3 DEF NotAsked, CallType
<1>5. asked' = [asked EXCEPT ![c] = r]
  BY <1>2 DEF Ended
<1> QED
  BY <1>1, <1>4, <1>5 DEF CallOK

\* A step of one call, which has not chosen anything that it had not, or which has seen
\* another name.
LEMMA OneCallMoves ==
  ASSUME RenameInv, NEW c \in KeyCalls,
         asked' \in [KeyCalls -> CallType],
         \A d \in KeyCalls : d # c => asked'[d] = asked[d],
         CallOK(asked'[c]),
         asked'[c].result = "renamed" => asked'[c].name \in listedSince[c],
         Chosen(asked'[c]) => /\ asked'[c].key = asked[c].key /\ asked'[c].name = asked[c].name
                              /\ Chosen(asked[c]) \/ Known(c) # asked[c].name,
         keyName' \in [Keys -> Names \cup {Gone}], keyList' \in [Keys -> Names \cup {Gone}],
         again' \in BOOLEAN, cooling' \in 0..Cooldown,
         refreshing' \in [{"scheduled", "asked"} -> {"none", "capability", "list", "history"}],
         UNCHANGED <<changes, inventory, refreshOk, listedSince>>
  PROVE  RenameInv'
<1> USE DEF RenameInv, KeyInv
<1>1. KeyTypeOK'
  BY DEF KeyTypeOK, CallType
<1>2. \A d \in KeyCalls : CallOK(asked'[d])
  OBVIOUS
<1>3. RenamedWasListed'
  BY DEF RenamedWasListed
<1>4. ASSUME NEW d \in KeyCalls PROVE NewNameIsFresh(d)'
  <2>1. CASE d = c
    BY <2>1 DEF NewNameIsFresh, Known
  <2>2. CASE d # c
    BY <2>2 DEF NewNameIsFresh, Known
  <2> QED
    BY <2>1, <2>2
<1>5. ASSUME NEW d \in KeyCalls PROVE CallOK(asked[d])'
  BY <1>2 DEF CallOK
<1> QED
  BY <1>1, <1>3, <1>4, <1>5

\* A refresh, which calls await and which leaves the inventory alone.
LEMMA RefreshMoves ==
  ASSUME RenameInv,
         asked' \in [KeyCalls -> CallType],
         \A d \in KeyCalls :
           /\ CallOK(asked'[d]) /\ (Chosen(asked'[d]) <=> Chosen(asked[d]))
           /\ asked'[d].key = asked[d].key /\ asked'[d].name = asked[d].name
           /\ asked'[d].result = asked[d].result,
         ufanetKeys' = ufanetKeys, refreshOk' \in BOOLEAN,
         again' \in BOOLEAN, cooling' \in 0..Cooldown,
         refreshing' \in [{"scheduled", "asked"} -> {"none", "capability", "list", "history"}],
         \/ inventory' = inventory \/ inventory' = Cleared,
         listedSince' = listedSince
  PROVE  RenameInv'
<1> USE DEF RenameInv, KeyInv
<1>1. KeyTypeOK'
  BY DEF KeyTypeOK, CallType, ufanetKeys
<1>2. RenamedWasListed'
  BY DEF RenamedWasListed
<1>3. ASSUME NEW d \in KeyCalls PROVE NewNameIsFresh(d)'
  <2>1. Chosen(asked'[d]) => asked[d].name # Gone
    BY KeysAssumption DEF Chosen, CallOK
  <2> QED
    BY <2>1 DEF NewNameIsFresh, Known
<1>4. ASSUME NEW d \in KeyCalls PROVE CallOK(asked[d])'
  BY DEF CallOK
<1> QED
  BY <1>1, <1>2, <1>3, <1>4

\* Refreshes of the coordinator, scheduled or asked for, one after the other or overlapping.
LEMMA RefreshesKeep ==
  ASSUME RenameInv, Scheduled \/ (\E r \in DOMAIN refreshing : Refreshes(r))
  PROVE  RenameInv'
<1>1. /\ asked \in [KeyCalls -> CallType] /\ again \in BOOLEAN /\ cooling \in 0..Cooldown
      /\ Cooldown \in Nat /\ refreshOk \in BOOLEAN
      /\ refreshing \in [{"scheduled", "asked"} -> {"none", "capability", "list", "history"}]
      /\ \A d \in KeyCalls : CallOK(asked[d])
  <2>1. KeyTypeOK /\ \A d \in KeyCalls : CallOK(asked[d])
    BY DEF RenameInv, KeyInv
  <2>2. asked \in [KeyCalls -> CallType]
    BY <2>1 DEF KeyTypeOK, CallType
  <2>3. /\ again \in BOOLEAN /\ refreshOk \in BOOLEAN /\ cooling \in 0..Cooldown
        /\ refreshing \in [{"scheduled", "asked"} -> {"none", "capability", "list", "history"}]
    BY <2>1 DEF KeyTypeOK
  <2>4. Cooldown \in Nat
    BY PatienceAssumption
  <2> HIDE DEF CallOK, CallType
  <2> QED
    BY <2>1, <2>2, <2>3, <2>4, Zenon
<1>2. 0 \in 0..Cooldown /\ Cooldown \in 0..Cooldown
  BY <1>1
<1>3. CASE Scheduled
  <2>1. /\ asked' = asked /\ ufanetKeys' = ufanetKeys /\ refreshOk' = refreshOk
        /\ inventory' = inventory /\ listedSince' = listedSince
        /\ cooling' = 0 /\ again' = FALSE
        /\ refreshing' \in [{"scheduled", "asked"} -> {"none", "capability", "list", "history"}]
    BY <1>1, <1>3 DEF Scheduled
  <2> QED
    BY <2>1, <1>1, <1>2, RefreshMoves
<1>4. ASSUME NEW r \in {"scheduled", "asked"}, NEW ok \in BOOLEAN, Refreshed(r, ok),
             UNCHANGED <<ufanetKeys, inventory, listedSince>>
      PROVE  RenameInv'
  <2>1. refreshing' \in [{"scheduled", "asked"} -> {"none", "capability", "list", "history"}]
        /\ refreshOk' \in BOOLEAN
    BY <1>1, <1>4 DEF Refreshed
  <2>2. again' \in BOOLEAN /\ cooling' \in 0..Cooldown
    BY <1>1, <1>2, <1>4 DEF Refreshed
  <2>3. asked' = asked \/ asked' = [d \in KeyCalls |->
               [asked[d] EXCEPT !.pc = IF asked[d].pc = "awaiting" THEN "look" ELSE asked[d].pc]]
    BY <1>4 DEF Refreshed
  <2>4. /\ asked' \in [KeyCalls -> CallType]
        /\ \A d \in KeyCalls :
             /\ asked'[d].key = asked[d].key /\ asked'[d].name = asked[d].name
             /\ asked'[d].result = asked[d].result /\ asked'[d].do = asked[d].do
             /\ asked'[d].try = asked[d].try
             /\ asked'[d].pc = asked[d].pc \/ (asked[d].pc = "awaiting" /\ asked'[d].pc = "look")
    <3>1. ASSUME NEW d \in KeyCalls
          PROVE  /\ asked'[d].key = asked[d].key /\ asked'[d].name = asked[d].name
                 /\ asked'[d].result = asked[d].result /\ asked'[d].do = asked[d].do
                 /\ asked'[d].try = asked[d].try /\ asked'[d] \in CallType
                 /\ asked'[d].pc = asked[d].pc \/ (asked[d].pc = "awaiting" /\ asked'[d].pc = "look")
      <4>1. PICK old \in CallType : old = asked[d]
        BY <1>1
      <4>2. asked'[d] = old \/ asked'[d] = [old EXCEPT !.pc = IF old.pc = "awaiting" THEN "look" ELSE old.pc]
        BY <2>3, <4>1
      <4>3. CASE asked'[d] = old
        BY <4>1, <4>3
      <4>4. CASE asked'[d] = [old EXCEPT !.pc = IF old.pc = "awaiting" THEN "look" ELSE old.pc]
        <5>1. PICK q : q = [old EXCEPT !.pc = IF old.pc = "awaiting" THEN "look" ELSE old.pc]
          OBVIOUS
        <5>2. q \in CallType /\ q.key = old.key /\ q.name = old.name /\ q.result = old.result
              /\ q.do = old.do /\ q.try = old.try
              /\ (q.pc = old.pc \/ (old.pc = "awaiting" /\ q.pc = "look"))
          BY <5>1 DEF CallType
        <5> QED
          BY <4>1, <4>4, <5>1, <5>2
      <4> QED
        BY <4>2, <4>3, <4>4
    <3>2. asked' = [d \in KeyCalls |-> asked'[d]]
      BY <2>3, <1>1
    <3> QED
      BY <3>1, <3>2
  <2>5. \A d \in KeyCalls : CallOK(asked'[d]) /\ (Chosen(asked'[d]) <=> Chosen(asked[d]))
    BY <2>4, <1>1 DEF CallOK, Chosen
  <2> QED
    BY <1>4, <2>1, <2>2, <2>4, <2>5, RefreshMoves
<1>5. ASSUME NEW r \in {"scheduled", "asked"}, CapabilityKnown(r) PROVE RenameInv'
  <2>1. /\ asked' = asked /\ ufanetKeys' = ufanetKeys /\ refreshOk' = refreshOk
        /\ inventory' = Cleared /\ listedSince' = listedSince
        /\ cooling' = cooling /\ again' = again
        /\ refreshing' \in [{"scheduled", "asked"} -> {"none", "capability", "list", "history"}]
    BY <1>1, <1>5 DEF CapabilityKnown, debouncer
  <2> QED
    BY <2>1, <1>1, RefreshMoves
<1>6. ASSUME NEW r \in {"scheduled", "asked"}, InventoryListed(r) PROVE RenameInv'
  <2> USE DEF RenameInv, KeyInv
  <2>1. /\ asked' = asked /\ ufanetKeys' = ufanetKeys /\ refreshOk' = refreshOk
        /\ inventory' = keyList /\ cooling' = cooling /\ again' = again
        /\ refreshing' \in [{"scheduled", "asked"} -> {"none", "capability", "list", "history"}]
        /\ listedSince' = [c \in KeyCalls |->
             IF Chosen(asked[c]) THEN listedSince[c] \cup {keyList[asked[c].key]}
                                 ELSE listedSince[c]]
    BY <1>1, <1>6 DEF InventoryListed, debouncer, Chosen
  <2>2. keyList \in [Keys -> Names \cup {Gone}]
    BY DEF KeyTypeOK
  <2>3. \A c \in KeyCalls : Chosen(asked[c]) => asked[c].key \in Keys /\ asked[c].name # Gone
    BY KeysAssumption DEF Chosen, CallOK
  <2>4. KeyTypeOK'
    BY <2>1, <2>2 DEF KeyTypeOK, ufanetKeys
  <2>5. \A c \in KeyCalls : listedSince[c] \subseteq listedSince'[c]
                             /\ listedSince'[c] \subseteq Names \cup {Gone}
    BY <2>1, <2>2, <2>3
  <2>6. RenamedWasListed'
    BY <2>1, <2>5 DEF RenamedWasListed
  <2>7. listedSince' \in [KeyCalls -> SUBSET (Names \cup {Gone})]
    BY <2>1, <2>5
  <2>8. ASSUME NEW c \in KeyCalls PROVE NewNameIsFresh(c)'
    <3>1. Chosen(asked[c]) /\ Known(c)' = asked[c].name => asked[c].name \in listedSince'[c]
      BY <2>1, <2>3 DEF Known
    <3> QED
      BY <2>1, <3>1 DEF NewNameIsFresh
  <2>9. ASSUME NEW c \in KeyCalls PROVE CallOK(asked[c])'
    BY <2>1 DEF CallOK
  <2> QED
    BY <2>4, <2>6, <2>7, <2>8, <2>9
<1>7. DOMAIN refreshing = {"scheduled", "asked"}
  BY <1>1
<1> QED
  BY <1>3, <1>4, <1>5, <1>6, <1>7 DEF Refreshes, HistoriesRead, RefreshBreaks

\* What others do to the keys, and the passing of time, touch no call's choice.
LEMMA OthersKeep ==
  ASSUME RenameInv, Passes \/ OthersChange \/ ListCatchesUp
  PROVE  RenameInv'
<1>1. /\ asked \in [KeyCalls -> CallType] /\ again \in BOOLEAN /\ cooling \in 0..Cooldown
      /\ Cooldown \in Nat /\ refreshOk \in BOOLEAN
      /\ refreshing \in [{"scheduled", "asked"} -> {"none", "capability", "list", "history"}]
      /\ \A d \in KeyCalls : CallOK(asked[d])
  <2>1. KeyTypeOK /\ \A d \in KeyCalls : CallOK(asked[d])
    BY DEF RenameInv, KeyInv
  <2>2. asked \in [KeyCalls -> CallType]
    BY <2>1 DEF KeyTypeOK, CallType
  <2>3. /\ again \in BOOLEAN /\ refreshOk \in BOOLEAN /\ cooling \in 0..Cooldown
        /\ refreshing \in [{"scheduled", "asked"} -> {"none", "capability", "list", "history"}]
    BY <2>1 DEF KeyTypeOK
  <2>4. Cooldown \in Nat
    BY PatienceAssumption
  <2> HIDE DEF CallOK, CallType
  <2> QED
    BY <2>1, <2>2, <2>3, <2>4, Zenon
<1>2. CASE Passes
  <2>1. cooling' \in 0..Cooldown
    BY <1>1, <1>2 DEF Passes
  <2>2. again' \in BOOLEAN
        /\ refreshing' \in [{"scheduled", "asked"} -> {"none", "capability", "list", "history"}]
    BY <1>1, <1>2 DEF Passes
  <2>3. /\ asked' \in [KeyCalls -> CallType]
        /\ \A d \in KeyCalls :
             /\ asked'[d].key = asked[d].key /\ asked'[d].name = asked[d].name
             /\ asked'[d].result = asked[d].result /\ asked'[d].do = asked[d].do
             /\ asked'[d].try = asked[d].try /\ asked'[d].pc = asked[d].pc
    <3>1. asked' = [d \in KeyCalls |->
            IF asked[d].wait > 0 THEN [asked[d] EXCEPT !.wait = asked[d].wait - 1] ELSE asked[d]]
      BY <1>2 DEF Passes
    <3>2. \A d \in KeyCalls : asked[d].wait \in Nat /\ (asked[d].wait > 0 => asked[d].wait - 1 \in Nat)
      BY <1>1 DEF CallType
    <3>3. ASSUME NEW r \in CallType, NEW left \in Nat
          PROVE  /\ [r EXCEPT !.wait = left] \in CallType
                 /\ [r EXCEPT !.wait = left].key = r.key /\ [r EXCEPT !.wait = left].name = r.name
                 /\ [r EXCEPT !.wait = left].result = r.result
                 /\ [r EXCEPT !.wait = left].do = r.do /\ [r EXCEPT !.wait = left].try = r.try
                 /\ [r EXCEPT !.wait = left].pc = r.pc
      BY DEF CallType
    <3> QED
      BY <1>1, <3>1, <3>2, <3>3
  <2>4. \A d \in KeyCalls : CallOK(asked'[d]) /\ (Chosen(asked'[d]) <=> Chosen(asked[d]))
    BY <2>3, <1>1 DEF CallOK, Chosen
  <2>5. UNCHANGED <<ufanetKeys, inventory, refreshOk, listedSince>>
    BY <1>2 DEF Passes
  <2> QED
    BY <2>1, <2>2, <2>3, <2>4, <2>5, <1>1, RefreshMoves
<1>3. CASE OthersChange \/ ListCatchesUp
  <2> USE DEF RenameInv, KeyInv
  <2>1. /\ UNCHANGED <<inventory, refreshOk, refreshing, debouncer, asked, listedSince>>
        /\ keyName' \in [Keys -> Names \cup {Gone}] /\ keyList' \in [Keys -> Names \cup {Gone}]
        /\ changes' \in 0..MaxChanges
    <3>1. keyName \in [Keys -> Names \cup {Gone}] /\ keyList \in [Keys -> Names \cup {Gone}]
          /\ changes \in 0..MaxChanges /\ MaxChanges \in Nat
      BY KeysAssumption DEF KeyTypeOK
    <3>2. CASE OthersChange
      <4>1. changes' \in 0..MaxChanges
        BY <3>1, <3>2 DEF OthersChange
      <4>2. keyName' \in [Keys -> Names \cup {Gone}]
        BY <3>1, <3>2 DEF OthersChange
      <4> QED
        BY <3>1, <3>2, <4>1, <4>2 DEF OthersChange
    <3>3. CASE ListCatchesUp
      BY <3>1, <3>3 DEF ListCatchesUp
    <3> QED
      BY <1>3, <3>2, <3>3
  <2>2. KeyTypeOK'
    BY <2>1 DEF KeyTypeOK, debouncer
  <2>3. RenamedWasListed' /\ \A c \in KeyCalls : CallOK(asked[c])' /\ NewNameIsFresh(c)'
    BY <2>1 DEF RenamedWasListed, CallOK, NewNameIsFresh, Chosen, Known
  <2> QED
    BY <2>1, <2>2, <2>3
<1> QED
  BY <1>2, <1>3

\* A service call begins, chooses, posts, reads back and answers.
LEMMA CallKeeps ==
  ASSUME RenameInv, NEW c \in KeyCalls, KeyCall(c) \/ Serves(c)
  PROVE  RenameInv'
<1>1. /\ asked \in [KeyCalls -> CallType] /\ again \in BOOLEAN /\ cooling \in 0..Cooldown
      /\ refreshing \in [{"scheduled", "asked"} -> {"none", "capability", "list", "history"}]
      /\ keyName \in [Keys -> Names \cup {Gone}] /\ keyList \in [Keys -> Names \cup {Gone}]
      /\ KeyTypeOK
  BY DEF RenameInv, KeyInv, KeyTypeOK, CallType
<1>2. CallOK(asked[c]) /\ NewNameIsFresh(c)
  BY DEF RenameInv
<1>3. GoesOn(c) => again' \in BOOLEAN /\ cooling' \in 0..Cooldown
  BY <1>1 DEF GoesOn, debouncer
<1>4. \A n \in 1..Len(Delays) : Delays[n] \in Nat
  BY PatienceAssumption
\* An answer, which a call gives in several places.
<1>5. ASSUME NEW result \in {"unavailable", "listed", "refused", "unchanged", "renamed",
                             "unconfirmed", "fetched", "failed"},
             result = "renamed" => asked[c].do = "rename" /\ asked[c].name \in listedSince[c],
             Ended(c, result), again' \in BOOLEAN, cooling' \in 0..Cooldown,
             keyName' \in [Keys -> Names \cup {Gone}], keyList' \in [Keys -> Names \cup {Gone}],
             UNCHANGED <<changes, inventory, refreshOk, refreshing, listedSince>>
      PROVE  RenameInv'
  <2>1. /\ asked' \in [KeyCalls -> CallType]
        /\ \A d \in KeyCalls : d # c => asked'[d] = asked[d]
        /\ CallOK(asked'[c]) /\ asked'[c].pc = "done" /\ asked'[c].result = result
        /\ result = "renamed" => asked'[c].name = asked[c].name
    BY <1>1, <1>2, <1>5, AnswersAreTyped
  <2>2. ~Chosen(asked'[c])
    BY <2>1 DEF Chosen
  <2> QED
    BY <1>1, <1>5, <2>1, <2>2, OneCallMoves
\* A step to another place, in which the call still is about the same.
<1>6. ASSUME NEW where \in {"awaiting", "fetch", "post"}, asked' = [asked EXCEPT ![c].pc = where],
             asked[c].do # "none", asked[c].pc # "done",
             where = "post" => asked[c].do = "rename" /\ Known(c) # asked[c].name,
             again' \in BOOLEAN, cooling' \in 0..Cooldown,
             refreshing' \in [{"scheduled", "asked"} -> {"none", "capability", "list", "history"}],
             UNCHANGED <<ufanetKeys, inventory, refreshOk, listedSince>>
      PROVE  RenameInv'
  <2>1. PICK r \in CallType : r = asked[c]
    BY <1>1
  <2>2. PICK q : q = [r EXCEPT !.pc = where]
    OBVIOUS
  <2>3. q \in CallType /\ q.key = r.key /\ q.name = r.name /\ q.result = r.result
        /\ q.do = r.do /\ q.try = r.try /\ q.pc = where
    BY <2>2, <1>6 DEF CallType
  <2>4. asked' = [asked EXCEPT ![c] = q]
    BY <1>6, <2>1, <2>2
  <2>5. /\ asked' \in [KeyCalls -> CallType] /\ asked'[c] = q
        /\ \A d \in KeyCalls : d # c => asked'[d] = asked[d]
    BY <1>1, <2>3, <2>4
  <2>6. CallOK(q) /\ q.result = "none"
    BY <1>2, <1>6, <2>1, <2>3 DEF CallOK
  <2>7. Chosen(q) => Chosen(asked[c]) \/ Known(c) # asked[c].name
    BY <1>6, <2>1, <2>3 DEF Chosen
  <2>8. UNCHANGED <<changes, keyName, keyList>>
    BY <1>6 DEF ufanetKeys
  <2> QED
    BY <1>1, <1>6, <2>1, <2>3, <2>5, <2>6, <2>7, <2>8, OneCallMoves
\* A further reading back, after which the call has chosen what it had chosen.
<1>7. ASSUME Chosen(asked[c]), asked[c].pc # "done",
             NEW try \in 1..Len(Delays), NEW pause \in Nat,
             asked' = [asked EXCEPT ![c] = [asked[c] EXCEPT !.pc = "ask", !.try = try,
                                                            !.wait = pause]],
             again' \in BOOLEAN, cooling' \in 0..Cooldown,
             keyName' \in [Keys -> Names \cup {Gone}], keyList' \in [Keys -> Names \cup {Gone}],
             UNCHANGED <<changes, inventory, refreshOk, refreshing, listedSince>>
      PROVE  RenameInv'
  <2>1. PICK r \in CallType : r = asked[c]
    BY <1>1
  <2>2. PICK q : q = [r EXCEPT !.pc = "ask", !.try = try, !.wait = pause]
    OBVIOUS
  <2>3. q \in CallType /\ q.key = r.key /\ q.name = r.name /\ q.result = r.result
        /\ q.do = r.do /\ q.try = try /\ q.pc = "ask"
    <3>1. try \in 0..Len(Delays)
      BY PatienceAssumption
    <3> QED
      BY <2>2, <3>1 DEF CallType
  <2>4. /\ asked' \in [KeyCalls -> CallType] /\ asked'[c] = q
        /\ \A d \in KeyCalls : d # c => asked'[d] = asked[d]
    BY <1>1, <1>7, <2>1, <2>2, <2>3
  <2>5. CallOK(q) /\ q.result = "none"
    BY <1>2, <1>7, <2>1, <2>3 DEF CallOK, Chosen
  <2> QED
    BY <1>1, <1>7, <2>1, <2>3, <2>4, <2>5, OneCallMoves
<1>8. CASE KeyCall(c)
  <2>1. 0 \in 0..Len(Delays) /\ 0 \in Nat
    BY PatienceAssumption
  <2>2. ASSUME NEW k \in Keys, NEW n \in Names,
               NEW q, q = [NotAsked EXCEPT !.do = "rename", !.key = k, !.name = n, !.pc = "ask"]
        PROVE  /\ q \in CallType /\ q.result = "none" /\ q.try = 0 /\ q.pc = "ask"
               /\ q.key \in Keys /\ q.name \in Names /\ q.do = "rename"
    BY <2>1, <2>2 DEF CallType, NotAsked
  <2>3. ASSUME NEW k \in Keys, NEW do \in {"list", "passages"},
               NEW q, q = [NotAsked EXCEPT !.do = do, !.key = k, !.pc = "ask"]
        PROVE  /\ q \in CallType /\ q.result = "none" /\ q.try = 0 /\ q.pc = "ask"
               /\ q.key \in Keys /\ q.do = do
    BY <2>1, <2>3 DEF CallType, NotAsked
  <2>4. PICK q \in CallType :
          /\ asked' = [asked EXCEPT ![c] = q]
          /\ q.result = "none" /\ q.try = 0 /\ q.pc = "ask" /\ q.key \in Keys /\ q.do # "none"
          /\ q.do = "rename" => q.name \in Names
    <3>1. PICK k \in Keys :
            \/ \E n \in Names : asked' = [asked EXCEPT ![c] =
                 [NotAsked EXCEPT !.do = "rename", !.key = k, !.name = n, !.pc = "ask"]]
            \/ \E do \in {"list", "passages"} : asked' = [asked EXCEPT ![c] =
                 [NotAsked EXCEPT !.do = do, !.key = k, !.pc = "ask"]]
      BY <1>8 DEF KeyCall
    <3>2. ASSUME NEW n \in Names, asked' = [asked EXCEPT ![c] =
                   [NotAsked EXCEPT !.do = "rename", !.key = k, !.name = n, !.pc = "ask"]]
          PROVE  \E q \in CallType :
                   /\ asked' = [asked EXCEPT ![c] = q]
                   /\ q.result = "none" /\ q.try = 0 /\ q.pc = "ask" /\ q.key \in Keys
                   /\ q.do # "none" /\ (q.do = "rename" => q.name \in Names)
      BY <2>2, <3>2
    <3>3. ASSUME NEW do \in {"list", "passages"}, asked' = [asked EXCEPT ![c] =
                   [NotAsked EXCEPT !.do = do, !.key = k, !.pc = "ask"]]
          PROVE  \E q \in CallType :
                   /\ asked' = [asked EXCEPT ![c] = q]
                   /\ q.result = "none" /\ q.try = 0 /\ q.pc = "ask" /\ q.key \in Keys
                   /\ q.do # "none" /\ (q.do = "rename" => q.name \in Names)
      BY <2>3, <3>3
    <3> QED
      BY <3>1, <3>2, <3>3
  <2>5. /\ asked' \in [KeyCalls -> CallType] /\ asked'[c] = q
        /\ \A d \in KeyCalls : d # c => asked'[d] = asked[d]
    BY <1>1, <2>4
  <2>6. CallOK(q) /\ ~Chosen(q)
    BY <2>4 DEF CallOK, Chosen
  <2>7. UNCHANGED <<changes, keyName, keyList, inventory, refreshOk, refreshing, cooling, again,
                    listedSince>>
    BY <1>8 DEF KeyCall, ufanetKeys, debouncer
  <2> QED
    BY <1>1, <2>4, <2>5, <2>6, <2>7, OneCallMoves
<1>9. CASE AskForRefresh(c)
  <2>1. refreshing' \in [{"scheduled", "asked"} -> {"none", "capability", "list", "history"}]
        /\ asked[c].pc = "ask" /\ asked' = [asked EXCEPT ![c].pc = "awaiting"]
        /\ UNCHANGED <<ufanetKeys, inventory, refreshOk, listedSince, cooling, again>>
    BY <1>1, <1>9 DEF AskForRefresh, debouncer
  <2>2. asked[c].do # "none"
    BY <2>1, <1>2 DEF CallOK
  <2> QED
    BY <1>1, <1>6, <2>1, <2>2
<1>10. CASE Unavailable(c) \/ AnswerList(c)
  <2>1. /\ Ended(c, "unavailable") \/ Ended(c, "listed")
        /\ UNCHANGED <<ufanetKeys, inventory, refreshOk, refreshing, listedSince>>
    BY <1>10 DEF Unavailable, AnswerList
  <2>2. GoesOn(c)
    BY <1>10 DEF Unavailable, AnswerList
  <2> QED
    BY <1>1, <1>3, <1>5, <2>1, <2>2 DEF ufanetKeys
<1>11. CASE ResolveForRename(c)
  <2>1. /\ asked[c].do = "rename" /\ GoesOn(c)
        /\ UNCHANGED <<ufanetKeys, inventory, refreshOk, refreshing, listedSince>>
    BY <1>11 DEF ResolveForRename
  <2>2. asked[c].pc # "done"
    BY <2>1, <1>2 DEF CallOK
  <2>3. \/ Ended(c, "refused") \/ Ended(c, "unchanged")
        \/ Known(c) # asked[c].name /\ asked' = [asked EXCEPT ![c].pc = "post"]
    BY <1>11 DEF ResolveForRename
  <2> QED
    BY <1>1, <1>3, <1>5, <1>6, <2>1, <2>2, <2>3 DEF ufanetKeys
<1>12. CASE ResolveForPassages(c)
  <2>1. /\ asked[c].do = "passages" /\ GoesOn(c)
        /\ UNCHANGED <<ufanetKeys, inventory, refreshOk, refreshing, listedSince>>
    BY <1>12 DEF ResolveForPassages
  <2>2. asked[c].pc # "done"
    BY <2>1, <1>2 DEF CallOK
  <2>3. Ended(c, "refused") \/ asked' = [asked EXCEPT ![c].pc = "fetch"]
    BY <1>12 DEF ResolveForPassages
  <2> QED
    BY <1>1, <1>3, <1>5, <1>6, <2>1, <2>2, <2>3 DEF ufanetKeys
<1>13. CASE Post(c)
  <2>1. /\ asked[c].pc = "post"
        /\ UNCHANGED <<changes, inventory, refreshOk, refreshing, cooling, again, listedSince>>
    BY <1>13 DEF Post, debouncer
  <2>2. asked[c].do = "rename" /\ asked[c].name \in Names /\ Chosen(asked[c])
    BY <2>1, <1>2 DEF CallOK, Chosen
  <2>3. keyName' \in [Keys -> Names \cup {Gone}]
    BY <2>2, <1>1, <1>13 DEF Post
  <2>4. keyList' \in [Keys -> Names \cup {Gone}]
    BY <2>3, <1>1, <1>13 DEF Post
  <2>5. 1 \in 1..Len(Delays)
    BY PatienceAssumption
  <2>6. Delays[1] \in Nat
    BY <2>5, <1>4
  <2>7. CASE Ended(c, "failed")
    BY <2>7, <1>1, <1>5, <2>1, <2>3, <2>4
  <2>8. CASE asked' = [asked EXCEPT ![c].pc = "ask", ![c].try = 1, ![c].wait = Delays[1]]
    <3>1. asked' = [asked EXCEPT ![c] = [asked[c] EXCEPT !.pc = "ask", !.try = 1, !.wait = Delays[1]]]
      BY <2>8, <1>1
    <3> QED
      BY <3>1, <1>1, <1>7, <2>1, <2>2, <2>3, <2>4, <2>5, <2>6
  <2> QED
    BY <1>13, <2>7, <2>8 DEF Post
<1>14. CASE PostRejected(c)
  <2>1. Ended(c, "failed")
        /\ UNCHANGED <<ufanetKeys, inventory, refreshOk, refreshing, cooling, again, listedSince>>
    BY <1>14 DEF PostRejected, debouncer
  <2> QED
    BY <1>1, <1>5, <2>1 DEF ufanetKeys
<1>15. CASE ReadBack(c)
  <2>1. /\ asked[c].try > 0 /\ GoesOn(c)
        /\ UNCHANGED <<ufanetKeys, inventory, refreshOk, refreshing, listedSince>>
    BY <1>15 DEF ReadBack
  <2>2. asked[c].pc # "done"
    BY <2>1 DEF GoesOn
  <2>3. asked[c].do = "rename" /\ Chosen(asked[c])
    BY <2>1, <2>2, <1>2 DEF CallOK, Chosen
  <2>4. \/ Known(c) = asked[c].name /\ Ended(c, "renamed")
        \/ Ended(c, "unconfirmed")
        \/ /\ asked[c].try # Len(Delays)
           /\ asked' = [asked EXCEPT ![c].pc = "ask", ![c].try = @ + 1,
                                     ![c].wait = Delays[asked[c].try + 1]]
    BY <1>15 DEF ReadBack
  <2>5. CASE Known(c) = asked[c].name /\ Ended(c, "renamed")
    <3>1. asked[c].name \in listedSince[c]
      BY <2>5, <2>3, <1>2 DEF NewNameIsFresh
    <3> QED
      BY <3>1, <2>1, <2>3, <2>5, <1>1, <1>3, <1>5 DEF ufanetKeys
  <2>6. CASE Ended(c, "unconfirmed")
    BY <2>1, <2>6, <1>1, <1>3, <1>5 DEF ufanetKeys
  <2>7. CASE /\ asked[c].try # Len(Delays)
             /\ asked' = [asked EXCEPT ![c].pc = "ask", ![c].try = @ + 1,
                                       ![c].wait = Delays[asked[c].try + 1]]
    <3>1. asked[c].try \in 0..Len(Delays) /\ Len(Delays) \in Nat
      BY <1>1, PatienceAssumption DEF CallType
    <3>2. asked[c].try + 1 \in 1..Len(Delays)
      BY <3>1, <2>1, <2>7
    <3>3. Delays[asked[c].try + 1] \in Nat
      BY <3>2, <1>4
    <3>4. asked' = [asked EXCEPT ![c] = [asked[c] EXCEPT !.pc = "ask", !.try = asked[c].try + 1,
                                                         !.wait = Delays[asked[c].try + 1]]]
      BY <2>7, <1>1
    <3> QED
      BY <3>2, <3>3, <3>4, <2>1, <2>2, <2>3, <1>1, <1>3, <1>7 DEF ufanetKeys
  <2> QED
    BY <2>4, <2>5, <2>6, <2>7
<1>16. CASE FetchPassages(c)
  <2>1. /\ Ended(c, "fetched") \/ Ended(c, "failed")
        /\ UNCHANGED <<ufanetKeys, inventory, refreshOk, refreshing, cooling, again, listedSince>>
    BY <1>16 DEF FetchPassages, debouncer
  <2> QED
    BY <1>1, <1>5, <2>1 DEF ufanetKeys
<1> QED
  BY <1>8, <1>9, <1>10, <1>11, <1>12, <1>13, <1>14, <1>15, <1>16 DEF Serves

\* A rename that is answered as verified was seen in a list fetched since it was decided on,
\* whatever the refreshes, the debouncer and other users do meanwhile (KeyInv).
THEOREM RenamesAreVerified == KeySpec => []KeyInv
<1>1. KeyInit => RenameInv
  <2> SUFFICES ASSUME KeyInit PROVE RenameInv
    OBVIOUS
  <2> USE DEF KeyInit
  <2>1. 0 \in 0..Len(Delays) /\ 0 \in Nat /\ 0 \in 0..Cooldown /\ 0 \in 0..MaxChanges
    BY PatienceAssumption, KeysAssumption
  <2>2. NotAsked \in CallType
    BY <2>1 DEF NotAsked, CallType
  <2>3. asked \in [KeyCalls -> CallType] /\ \A c \in KeyCalls : asked[c] = NotAsked
    BY <2>2
  <2>4. KeyTypeOK
    BY <2>1, <2>3 DEF KeyTypeOK, CallType
  <2>5. NotAsked.result = "none" /\ CallOK(NotAsked) /\ ~Chosen(NotAsked)
    BY DEF NotAsked, CallOK, Chosen
  <2>6. RenamedWasListed
    BY <2>3, <2>5 DEF RenamedWasListed
  <2> QED
    BY <2>3, <2>4, <2>5, <2>6 DEF RenameInv, KeyInv, NewNameIsFresh
<1>2. RenameInv /\ [KeyNext]_keyVars => RenameInv'
  <2> SUFFICES ASSUME RenameInv, [KeyNext]_keyVars PROVE RenameInv'
    OBVIOUS
  <2>1. CASE UNCHANGED keyVars
    <3>1. KeyTypeOK'
      BY <2>1 DEF RenameInv, KeyInv, KeyTypeOK, keyVars, ufanetKeys, debouncer
    <3> QED
      BY <2>1, <3>1 DEF RenameInv, KeyInv, RenamedWasListed, CallOK, NewNameIsFresh, Chosen, Known,
                        keyVars, ufanetKeys, debouncer
  <2> QED
    BY <2>1, RefreshesKeep, OthersKeep, CallKeeps DEF KeyNext
<1>3. RenameInv => KeyInv
  BY DEF RenameInv
<1> QED
  BY <1>1, <1>2, <1>3, PTL DEF KeySpec
=============================================================================
