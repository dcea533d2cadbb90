---------------------------- MODULE CameraProofs ----------------------------
(***************************************************************************)
(* Proofs about what is kept of a camera: the image of CallImage, which is *)
(* of the latest call; the motion events of MotionAnalytics, each published *)
(* once; and the lists of PagedReads, which are read whole although they   *)
(* change meanwhile (ReadInv).  The three share no state: together with    *)
(* ArchiveProofs they give the invariant of the composition, MCCameras.    *)
(***************************************************************************)
EXTENDS MCCameras, ArchiveProofs

-----------------------------------------------------------------------------
(* The image of the last call.                                             *)

DoorIsSafe(c) ==
  entity[c].loading = entity[c].load /\ entity[c].load \notin givenUp[c] /\ LoadsAreInOrder(c)

HealthRecord == [loading : BOOLEAN, failures : 0..ImageFailures, suppressed : BOOLEAN]

\* What a step at the door c changes there, and keeps everywhere else.
DoorMoves(c) ==
  /\ latest' \in [Doors -> [uuid : 0..MaxImageCalls, preview : BOOLEAN]]
  /\ entity' \in [Doors -> EntityRecord] /\ health' \in [Doors -> HealthRecord]
  /\ ending' \in [Doors -> SUBSET Uuids] /\ givenUp' \in [Doors -> SUBSET Uuids]
  /\ \A d \in Doors \ {c} :
       /\ latest'[d] = latest[d] /\ entity'[d] = entity[d]
       /\ ending'[d] = ending[d] /\ givenUp'[d] = givenUp[d]
  /\ UNCHANGED <<setUps, managed>>
  /\ DoorIsSafe(c)'
  /\ LET image == entity'[c].loaded IN
       image # entity[c].loaded /\ image # NoUuid
         => image = latest'[c].uuid /\ image > entity[c].loaded

\* The issue is as it was, or as the failures are.
IssueFollows ==
  /\ ffmpegOk' \in {"unknown", "yes", "no"} /\ issue' \in BOOLEAN
  /\ \/ UpdateIssue /\ managed
     \/ /\ UNCHANGED <<issue, ffmpegOk>>
        /\ \A d \in Doors : health'[d].failures = health[d].failures

LEMMA DoorStepIsSafe ==
  ASSUME ImageInv, NEW c \in Doors, DoorMoves(c), IssueFollows
  PROVE  /\ ImageInv'
         /\ \A d \in Doors : LET image == entity'[d].loaded IN
              image # entity[d].loaded /\ image # NoUuid
                => image = latest'[d].uuid /\ image > entity[d].loaded
<1>1. \A d \in Doors : DoorIsSafe(d)
  BY DEF ImageInv, LoadingHasATask, GivenUpForGood, DoorIsSafe
<1>2. \A d \in Doors : DoorIsSafe(d)'
  BY <1>1 DEF DoorMoves, DoorIsSafe, LoadsAreInOrder
<1>3. ImageTypeOK'
  BY DEF DoorMoves, IssueFollows, HealthRecord, ImageInv, ImageTypeOK
<1>4. ImageIssueIsTrue'
  BY DEF DoorMoves, IssueFollows, ImageInv, ImageIssueIsTrue, UpdateIssue, Problem
<1>5. ImageInv'
  BY <1>2, <1>3, <1>4 DEF DoorIsSafe, ImageInv, LoadingHasATask, GivenUpForGood
<1>6. \A d \in Doors \ {c} : entity'[d].loaded = entity[d].loaded
  BY DEF DoorMoves
<1> QED
  BY <1>5, <1>6 DEF DoorMoves

LEMMA TypeNoEntity ==
  ASSUME NEW is \in {"new", "there", "gone"}
  PROVE  /\ [NoEntity EXCEPT !.is = is] \in EntityRecord
         /\ NoEntity \in EntityRecord /\ NoHealth \in HealthRecord
<1>1. NoUuid \in 0..MaxImageCalls /\ 0 \in 0..ImageFailures
  BY ImageAssumption DEF NoUuid
<1> HIDE DEF NoUuid
<1>2. NoEntity \in EntityRecord
  BY <1>1 DEF NoEntity, EntityRecord
<1>3. [NoEntity EXCEPT !.is = is] \in EntityRecord
  BY <1>2 DEF EntityRecord
<1>4. NoHealth \in HealthRecord
  BY <1>1 DEF NoHealth, HealthRecord
<1> QED
  BY <1>2, <1>3, <1>4

\* The entity of c hears of the latest call.
LEMMA HearingOfACall ==
  ASSUME ImageInv, NEW c \in Doors, NEW e \in EntityRecord, e.is = "there",
         \/ e = entity[c]
         \/ e = [NoEntity EXCEPT !.is = "there"] /\ entity[c].is = "new" /\ managed,
         latest' \in [Doors -> [uuid : 0..MaxImageCalls, preview : BOOLEAN]],
         latest'[c].uuid >= latest[c].uuid,
         \A d \in Doors \ {c} : latest'[d] = latest[d],
         HandleCallUpdate(c, e, latest'[c]),
         UNCHANGED <<ffmpegOk, issue, setUps, managed, givenUp>>
  PROVE  DoorMoves(c) /\ IssueFollows
<1> DEFINE call == latest'[c]
<1>0. /\ entity \in [Doors -> EntityRecord] /\ health \in [Doors -> HealthRecord]
      /\ ending \in [Doors -> SUBSET Uuids] /\ givenUp \in [Doors -> SUBSET Uuids]
      /\ latest \in [Doors -> [uuid : 0..MaxImageCalls, preview : BOOLEAN]]
      /\ ffmpegOk \in {"unknown", "yes", "no"} /\ issue \in BOOLEAN
      /\ MaxImageCalls \in Nat /\ call \in [uuid : 0..MaxImageCalls, preview : BOOLEAN]
  BY ImageAssumption DEF ImageInv, ImageTypeOK, HealthRecord
<1>1. DoorIsSafe(c)
  BY DEF ImageInv, LoadingHasATask, GivenUpForGood, DoorIsSafe
<1>a. /\ latest[c].uuid \in Nat /\ call.uuid \in Nat /\ latest[c].uuid <= call.uuid
      /\ \A u \in Uuids : u \in Nat
      /\ e.load \in Nat /\ e.loaded \in Nat /\ e.terminal \in Nat
  BY <1>0 DEF Uuids, EntityRecord
\* What is known of the entity as it hears of the call.
<1>2. /\ e.loading = e.load /\ e.load \notin givenUp[c]
      /\ e.load = NoUuid <=> e.step = "none"
      /\ e.loaded <= latest[c].uuid /\ e.load <= latest[c].uuid
      /\ \A g \in givenUp[c] : g <= latest[c].uuid /\ (e.load # NoUuid => g < e.load)
      /\ managed
      /\ \A u \in ending[c] : u < latest[c].uuid /\ u # e.load
      /\ \A g \in givenUp[c] : g = e.terminal \/ g < latest[c].uuid
      /\ e.loaded = entity[c].loaded
  <2>1. CASE e = entity[c]
    BY <1>1, <2>1 DEF DoorIsSafe, LoadsAreInOrder
  <2>2. CASE e = [NoEntity EXCEPT !.is = "there"] /\ entity[c].is = "new" /\ managed
    <3>1. /\ e.loading = NoUuid /\ e.load = NoUuid /\ e.step = "none" /\ e.loaded = NoUuid
      BY <2>2 DEF NoEntity
    <3>2. ending[c] = {} /\ givenUp[c] = {} /\ entity[c].loaded = NoUuid
      BY <1>1, <2>2 DEF DoorIsSafe, LoadsAreInOrder
    <3> QED
      BY <1>0, <2>2, <3>1, <3>2 DEF NoUuid
  <2> QED
    BY <2>1, <2>2
<1>3. ASSUME NEW h \in HealthRecord, h.failures = health[c].failures,
             health' = [health EXCEPT ![c] = h]
      PROVE  health' \in [Doors -> HealthRecord]
             /\ \A d \in Doors : health'[d].failures = health[d].failures
  BY <1>0, <1>3
<1>4. health' \in [Doors -> HealthRecord]
      /\ \A d \in Doors : health'[d].failures = health[d].failures
  <2>1. ASSUME NEW s \in BOOLEAN
        PROVE  /\ [health[c] EXCEPT !.suppressed = s] \in HealthRecord
               /\ [health[c] EXCEPT !.suppressed = s].failures = health[c].failures
    <3>1. health[c] \in HealthRecord
      BY <1>0
    <3> QED
      BY <3>1 DEF HealthRecord
  <2> DEFINE h == [health[c] EXCEPT !.loading = TRUE, !.suppressed = FALSE]
  <2>2. h \in HealthRecord /\ h.failures = health[c].failures
    <3>1. health[c] \in HealthRecord
      BY <1>0
    <3> QED
      BY <3>1 DEF HealthRecord
  <2>3. \/ UNCHANGED health
        \/ \E s \in BOOLEAN : health' = [health EXCEPT ![c] = [health[c] EXCEPT !.suppressed = s]]
        \/ health' = [health EXCEPT ![c] = h]
    BY <1>0 DEF HandleCallUpdate
  <2> QED
    BY <1>0, <1>3, <2>1, <2>2, <2>3
<1>5. IssueFollows
  BY <1>0, <1>4 DEF IssueFollows
<1>6. CASE entity' = [entity EXCEPT ![c] = e] /\ UNCHANGED ending
  <2>1. entity'[c] = e /\ entity' \in [Doors -> EntityRecord]
        /\ \A d \in Doors \ {c} : entity'[d] = entity[d]
    BY <1>0, <1>6
  <2>2. DoorIsSafe(c)'
    BY <1>a, <1>0, <1>2, <1>6, <2>1 DEF DoorIsSafe, LoadsAreInOrder
  <2> QED
    BY <1>0, <1>2, <1>4, <1>5, <1>6, <2>1, <2>2 DEF DoorMoves
<1>7. CASE /\ call.uuid # NoUuid /\ call.preview /\ call.uuid \notin {e.loaded, e.loading}
           /\ call.uuid # e.terminal
           /\ ending' = [ending EXCEPT ![c] = IF e.load = NoUuid THEN @ ELSE @ \cup {e.load}]
           /\ entity' = [entity EXCEPT ![c] = [e EXCEPT !.loading = call.uuid,
                !.attempted = call.uuid, !.recent = TRUE, !.load = call.uuid,
                !.step = "download"]]
  <2> DEFINE f == [e EXCEPT !.loading = call.uuid, !.attempted = call.uuid,
                            !.recent = TRUE, !.load = call.uuid, !.step = "download"]
  <2>1. /\ f \in EntityRecord /\ f.is = "there" /\ f.loading = call.uuid
        /\ f.load = call.uuid /\ f.step = "download" /\ f.loaded = e.loaded
        /\ f.terminal = e.terminal
    BY <1>0 DEF EntityRecord
  <2> HIDE DEF f
  <2>2. entity' = [entity EXCEPT ![c] = f]
    BY <1>7 DEF f
  <2>3. entity'[c] = f /\ entity' \in [Doors -> EntityRecord]
        /\ \A d \in Doors \ {c} : entity'[d] = entity[d]
    BY <1>0, <2>1, <2>2
  <2>4. e.load \in 0..MaxImageCalls /\ (e.load # NoUuid => e.load \in Uuids)
    BY <1>0 DEF EntityRecord, NoUuid, Uuids
  <2>5. ending' \in [Doors -> SUBSET Uuids] /\ ending'[c] \subseteq ending[c] \cup ({e.load} \ {NoUuid})
        /\ \A d \in Doors \ {c} : ending'[d] = ending[d]
    BY <1>0, <1>7, <2>4
  <2>6. ASSUME NEW g \in givenUp[c] PROVE g < call.uuid
    <3>1. /\ g <= latest[c].uuid /\ (g = e.terminal \/ g < latest[c].uuid)
          /\ call.uuid # e.terminal /\ g \in Nat
      BY <1>a, <1>0, <1>2, <1>7
    <3> HIDE DEF call
    <3> QED
      BY <1>a, <3>1
  <2>7. ASSUME NEW u \in ending'[c] PROVE u < call.uuid
    <3>1. /\ u < latest[c].uuid \/ (u = e.load /\ e.load <= latest[c].uuid)
          /\ call.uuid # e.load /\ u \in Nat
      BY <1>a, <1>0, <1>2, <1>7, <2>5
    <3> HIDE DEF call
    <3> QED
      BY <1>a, <3>1
  <2>8. DoorIsSafe(c)'
    BY <1>a, <1>0, <1>2, <1>7, <2>1, <2>3, <2>6, <2>7 DEF DoorIsSafe, LoadsAreInOrder
  <2> QED
    BY <1>0, <1>2, <1>4, <1>5, <2>1, <2>3, <2>5, <2>8 DEF DoorMoves
<1> QED
  BY <1>6, <1>7, Zenon DEF HandleCallUpdate

\* The load of c goes on, or there is none; another that was cancelled may end.
LEMMA LoadGoesOn ==
  ASSUME ImageInv, NEW c \in Doors, UNCHANGED <<latest, ffmpegOk, issue, setUps, managed, givenUp>>,
         NEW r \in EntityRecord, entity' = [entity EXCEPT ![c] = r],
         r.is = entity[c].is, r.load = entity[c].load, r.loading = entity[c].loading,
         r.loaded = entity[c].loaded, r.terminal = entity[c].terminal,
         r.step = "none" <=> entity[c].step = "none",
         NEW rest \in SUBSET ending[c], ending' = [ending EXCEPT ![c] = rest],
         NEW h \in HealthRecord, h.failures = health[c].failures,
         health' = [health EXCEPT ![c] = h]
  PROVE  DoorMoves(c) /\ IssueFollows
<1>0. /\ entity \in [Doors -> EntityRecord] /\ health \in [Doors -> HealthRecord]
      /\ ending \in [Doors -> SUBSET Uuids] /\ givenUp \in [Doors -> SUBSET Uuids]
      /\ latest \in [Doors -> [uuid : 0..MaxImageCalls, preview : BOOLEAN]]
      /\ ffmpegOk \in {"unknown", "yes", "no"} /\ issue \in BOOLEAN
  BY DEF ImageInv, ImageTypeOK, HealthRecord
<1>1. DoorIsSafe(c)
  BY DEF ImageInv, LoadingHasATask, GivenUpForGood, DoorIsSafe
<1>2. entity'[c] = r /\ ending'[c] = rest
  BY <1>0
<1>3. DoorIsSafe(c)'
  BY <1>1, <1>2 DEF DoorIsSafe, LoadsAreInOrder
<1>4. DoorMoves(c)
  BY <1>0, <1>2, <1>3 DEF DoorMoves
<1>5. IssueFollows
  BY <1>0 DEF IssueFollows
<1> QED
  BY <1>4, <1>5

\* The load of c is over: it failed, perhaps for good, or has given an image of the
\* latest call, or of one that is not.
LEMMA LoadIsOver ==
  ASSUME ImageInv, NEW c \in Doors, entity[c].step # "none",
         UNCHANGED <<latest, ending, setUps, managed>>,
         NEW r \in EntityRecord, entity' = [entity EXCEPT ![c] = r],
         r.is = entity[c].is, r.load = NoUuid, r.loading = NoUuid, r.step = "none",
         \/ /\ r.loaded = entity[c].loaded /\ r.terminal = entity[c].terminal
            /\ UNCHANGED givenUp
         \/ /\ r.loaded = entity[c].loaded /\ r.terminal = entity[c].load
            /\ givenUp' = [givenUp EXCEPT ![c] = @ \cup {entity[c].load}]
         \/ /\ r.loaded = entity[c].load /\ entity[c].load = latest[c].uuid
            /\ UNCHANGED givenUp,
         NEW h \in HealthRecord, health' = [health EXCEPT ![c] = h],
         ffmpegOk' \in {"unknown", "yes", "no"},
         UpdateIssue \/ (h.failures = health[c].failures /\ UNCHANGED <<issue, ffmpegOk>>)
  PROVE  DoorMoves(c) /\ IssueFollows
<1>0. /\ entity \in [Doors -> EntityRecord] /\ health \in [Doors -> HealthRecord]
      /\ ending \in [Doors -> SUBSET Uuids] /\ givenUp \in [Doors -> SUBSET Uuids]
      /\ latest \in [Doors -> [uuid : 0..MaxImageCalls, preview : BOOLEAN]]
      /\ ffmpegOk \in {"unknown", "yes", "no"} /\ issue \in BOOLEAN
      /\ MaxImageCalls \in Nat
  BY ImageAssumption DEF ImageInv, ImageTypeOK, HealthRecord
<1>1. DoorIsSafe(c)
  BY DEF ImageInv, LoadingHasATask, GivenUpForGood, DoorIsSafe
<1> DEFINE e == entity[c]
           n == latest[c].uuid
<1>2. /\ e.load # NoUuid /\ e.is = "there" /\ managed
      /\ e.loaded <= n /\ e.load <= n
      /\ \A g \in givenUp[c] : g <= n /\ g < e.load
      /\ \A u \in ending[c] : u < n /\ u # e.load
      /\ \A g \in givenUp[c] : g = e.terminal \/ g < n
  BY <1>1 DEF DoorIsSafe, LoadsAreInOrder
<1>3. /\ n \in Nat /\ e.load \in Uuids /\ e.loaded \in Nat
      /\ \A u \in Uuids : u \in Nat /\ u # NoUuid
  BY <1>0, <1>2 DEF Uuids, EntityRecord, NoUuid
<1>4. entity'[c] = r /\ \A d \in Doors \ {c} : entity'[d] = entity[d]
  BY <1>0
<1>5. /\ givenUp' \in [Doors -> SUBSET Uuids] /\ givenUp'[c] \subseteq givenUp[c] \cup {e.load}
      /\ \A d \in Doors \ {c} : givenUp'[d] = givenUp[d]
  BY <1>0, <1>3
<1>6. r.loaded <= n /\ (r.loaded # e.loaded => r.loaded = n /\ n > e.loaded)
  BY <1>2, <1>3
<1>7. ASSUME NEW g \in givenUp'[c] PROVE g <= n /\ (g = r.terminal \/ g < n)
  <2>1. g \in Nat
    BY <1>0, <1>3, <1>5
  <2>2. CASE r.loaded = e.loaded /\ r.terminal = e.terminal /\ UNCHANGED givenUp
    BY <1>2, <2>2
  <2>3. CASE /\ r.terminal = e.load
             /\ givenUp' = [givenUp EXCEPT ![c] = @ \cup {entity[c].load}]
    <3>1. g = e.load \/ (g \in givenUp[c] /\ g < e.load)
      BY <1>0, <1>2, <2>3
    <3> HIDE DEF e, n
    <3> QED
      BY <1>2, <1>3, <2>1, <2>3, <3>1
  <2>4. CASE /\ r.loaded = entity[c].load /\ entity[c].load = latest[c].uuid
             /\ UNCHANGED givenUp
    BY <1>2, <2>4
  <2> QED
    BY <2>2, <2>3, <2>4
<1>8. NoUuid \notin givenUp'[c]
  BY <1>3, <1>5
<1>9. DoorIsSafe(c)'
  <2>1. NoUuid <= n /\ \A u \in ending[c] : u < n /\ u # NoUuid
    BY <1>0, <1>2, <1>3 DEF NoUuid
  <2> QED
    BY <1>2, <1>4, <1>6, <1>7, <1>8, <2>1 DEF DoorIsSafe, LoadsAreInOrder
<1>10. DoorMoves(c)
  BY <1>0, <1>4, <1>5, <1>6, <1>9 DEF DoorMoves
<1>11. IssueFollows
  <2>1. \A d \in Doors \ {c} : health'[d] = health[d]
    BY <1>0
  <2>2. health'[c] = h
    BY <1>0
  <2>3. UpdateIssue => issue' \in BOOLEAN
    BY DEF UpdateIssue, Problem
  <2> QED
    BY <1>0, <1>2, <2>1, <2>2, <2>3 DEF IssueFollows
<1> QED
  BY <1>10, <1>11

\* The steps at a door.
LEMMA DoorStep ==
  ASSUME ImageInv, NEW c \in Doors,
         \/ AddImage(c) \/ Refreshed(c) \/ RetryIsDue(c) \/ Downloaded(c) \/ DownloadFails(c)
         \/ ExtractFails(c) \/ Extracted(c) \/ CancelledEnds(c) \/ Removed(c)
  PROVE  DoorMoves(c) /\ IssueFollows
<1>0. /\ entity \in [Doors -> EntityRecord] /\ health \in [Doors -> HealthRecord]
      /\ ending \in [Doors -> SUBSET Uuids] /\ givenUp \in [Doors -> SUBSET Uuids]
      /\ latest \in [Doors -> [uuid : 0..MaxImageCalls, preview : BOOLEAN]]
      /\ ffmpegOk \in {"unknown", "yes", "no"} /\ issue \in BOOLEAN
      /\ MaxImageCalls \in Nat /\ entity[c] \in EntityRecord /\ health[c] \in HealthRecord
      /\ ending[c] \in SUBSET Uuids
      /\ NoUuid \in 0..MaxImageCalls
  BY ImageAssumption DEF ImageInv, ImageTypeOK, HealthRecord, NoUuid
<1>1. entity[c].loading = entity[c].load
  BY DEF ImageInv, LoadingHasATask
<1>2. LoadsAreInOrder(c)
  BY DEF ImageInv
<1> DEFINE idle == [health[c] EXCEPT !.loading = FALSE]
<1>3. idle \in HealthRecord /\ idle.failures = health[c].failures
  <2>1. health[c] \in HealthRecord
    BY <1>0
  <2> QED
    BY <2>1 DEF HealthRecord
<1>4. CASE AddImage(c)
  <2> DEFINE e == [NoEntity EXCEPT !.is = "there"]
  <2>1. e \in EntityRecord /\ e.is = "there"
    BY TypeNoEntity DEF NoEntity
  <2>2. latest'[c].uuid >= latest[c].uuid
    BY <1>0, <1>4 DEF AddImage
  <2> QED
    BY <1>0, <1>4, <2>1, <2>2, HearingOfACall DEF AddImage
<1>5. CASE Refreshed(c)
  <2>1. /\ latest' \in [Doors -> [uuid : 0..MaxImageCalls, preview : BOOLEAN]]
        /\ latest'[c].uuid >= latest[c].uuid
        /\ \A d \in Doors \ {c} : latest'[d] = latest[d]
    <3>1. CASE UNCHANGED latest
      BY <1>0, <3>1
    <3>2. ASSUME NEW p \in BOOLEAN, latest[c].uuid < MaxImageCalls,
                 latest' = [latest EXCEPT ![c] = [uuid |-> latest[c].uuid + 1, preview |-> p]]
          PROVE  /\ latest' \in [Doors -> [uuid : 0..MaxImageCalls, preview : BOOLEAN]]
                 /\ latest'[c].uuid >= latest[c].uuid
                 /\ \A d \in Doors \ {c} : latest'[d] = latest[d]
      <4> DEFINE n == latest[c].uuid
      <4>1. n \in Nat /\ n + 1 \in 0..MaxImageCalls
        BY <1>0, <3>2
      <4> DEFINE l == [uuid |-> n + 1, preview |-> p]
      <4>2. l \in [uuid : 0..MaxImageCalls, preview : BOOLEAN] /\ l.uuid = n + 1
        BY <4>1
      <4>3. latest' = [latest EXCEPT ![c] = l]
        BY <3>2
      <4> HIDE DEF l
      <4> QED
        BY <1>0, <4>1, <4>2, <4>3
    <3> QED
      BY <1>5, <3>1, <3>2 DEF Refreshed
  <2>2. CASE entity[c].is = "there"
    BY <1>0, <1>5, <2>1, <2>2, HearingOfACall DEF Refreshed
  <2>3. CASE entity[c].is # "there"
    <3>1. UNCHANGED <<entity, ending, health, ffmpegOk, issue, setUps, managed, givenUp>>
      BY <1>5, <2>3 DEF Refreshed
    <3>2. latest[c].uuid \in Nat /\ latest'[c].uuid \in Nat /\ NoUuid <= latest'[c].uuid
      BY <1>0, <2>1 DEF NoUuid
    <3>3. \A g \in givenUp[c] : g \in Nat
      BY <1>0 DEF Uuids
    <3>4. LoadsAreInOrder(c)'
      BY <1>2, <2>1, <2>3, <3>1, <3>2, <3>3 DEF LoadsAreInOrder
    <3>5. DoorIsSafe(c)'
      BY <3>1, <3>4 DEF DoorIsSafe, ImageInv, LoadingHasATask, GivenUpForGood
    <3> QED
      BY <1>0, <2>1, <3>1, <3>5 DEF DoorMoves, IssueFollows
  <2> QED
    BY <2>2, <2>3
<1>6. CASE RetryIsDue(c)
  <2> DEFINE r == [entity[c] EXCEPT !.recent = FALSE]
  <2>1. /\ r \in EntityRecord /\ r.is = entity[c].is /\ r.load = entity[c].load
        /\ r.loading = entity[c].loading /\ r.loaded = entity[c].loaded
        /\ r.terminal = entity[c].terminal /\ (r.step = "none" <=> entity[c].step = "none")
    BY <1>0 DEF EntityRecord
  <2>2. entity' = [entity EXCEPT ![c] = r]
    BY <1>0, <1>6 DEF RetryIsDue
  <2> HIDE DEF r
  <2>3. ending' = [ending EXCEPT ![c] = ending[c]] /\ health' = [health EXCEPT ![c] = health[c]]
    BY <1>0, <1>6 DEF RetryIsDue
  <2> QED
    BY <1>0, <1>6, <2>1, <2>2, <2>3, LoadGoesOn DEF RetryIsDue
<1>7. CASE Downloaded(c)
  <2> DEFINE r == [entity[c] EXCEPT !.step = "extract"]
  <2>1. /\ r \in EntityRecord /\ r.is = entity[c].is /\ r.load = entity[c].load
        /\ r.loading = entity[c].loading /\ r.loaded = entity[c].loaded
        /\ r.terminal = entity[c].terminal /\ r.step = "extract"
    BY <1>0 DEF EntityRecord
  <2>2. entity' = [entity EXCEPT ![c] = r]
    BY <1>0, <1>7 DEF Downloaded
  <2> HIDE DEF r
  <2>3. ending' = [ending EXCEPT ![c] = ending[c]] /\ health' = [health EXCEPT ![c] = health[c]]
    BY <1>0, <1>7 DEF Downloaded
  <2> QED
    BY <1>0, <1>7, <2>1, <2>2, <2>3, LoadGoesOn DEF Downloaded
\* What remains of the entity when its load is over.
<1> DEFINE over == Over(entity[c], entity[c].load)
<1>8. /\ over \in EntityRecord /\ over.is = entity[c].is /\ over.load = NoUuid
      /\ over.loading = NoUuid /\ over.step = "none" /\ over.loaded = entity[c].loaded
      /\ over.terminal = entity[c].terminal
  BY <1>0, <1>1 DEF Over, EntityRecord
<1> HIDE DEF over
<1>9. ASSUME NEW forGood \in BOOLEAN, NEW isThere \in {"unknown", "yes", "no"},
             LoadFails(c, forGood, isThere), entity[c].step # "none"
      PROVE  DoorMoves(c) /\ IssueFollows
  <2> DEFINE r == IF forGood THEN [over EXCEPT !.terminal = entity[c].load] ELSE over
             failures == IF health[c].failures < ImageFailures
                         THEN health[c].failures + 1 ELSE health[c].failures
             suppressed == forGood \/ health[c].suppressed
             h == [health[c] EXCEPT !.loading = FALSE, !.failures = failures,
                                    !.suppressed = suppressed]
  <2>1. /\ r \in EntityRecord /\ r.is = entity[c].is /\ r.load = NoUuid
        /\ r.loading = NoUuid /\ r.step = "none" /\ r.loaded = entity[c].loaded
        /\ r.terminal = IF forGood THEN entity[c].load ELSE entity[c].terminal
    BY <1>0, <1>8 DEF EntityRecord
  <2>2. h \in HealthRecord
    <3>1. failures \in 0..ImageFailures
      BY <1>0, ImageAssumption DEF HealthRecord
    <3>2. suppressed \in BOOLEAN
      OBVIOUS
    <3> HIDE DEF failures, suppressed
    <3> QED
      BY <1>0, <3>1, <3>2 DEF HealthRecord
  <2>3. entity' = [entity EXCEPT ![c] = r]
    BY <1>9, Zenon DEF LoadFails, over
  <2>a. health' = [health EXCEPT ![c] = h]
    BY <1>9, Zenon DEF LoadFails
  <2> HIDE DEF r, h
  <2>4. givenUp' = IF forGood THEN [givenUp EXCEPT ![c] = @ \cup {entity[c].load}] ELSE givenUp
    BY <1>9 DEF LoadFails
  <2>5. /\ UNCHANGED <<latest, ending, setUps, managed>>
        /\ UpdateIssue /\ ffmpegOk' \in {"unknown", "yes", "no"}
    BY <1>9 DEF LoadFails
  <2> QED
    BY <1>9, <2>1, <2>2, <2>3, <2>a, <2>4, <2>5, LoadIsOver
<1>10. CASE DownloadFails(c)
  BY <1>0, <1>9, <1>10 DEF DownloadFails
<1>11. CASE ExtractFails(c)
  BY <1>0, <1>9, <1>11 DEF ExtractFails
<1>12. CASE Extracted(c)
  <2>1. CASE latest[c].uuid = entity[c].load
    <3> DEFINE r == [over EXCEPT !.loaded = entity[c].load, !.terminal = NoUuid]
    <3>1. /\ r \in EntityRecord /\ r.is = entity[c].is /\ r.load = NoUuid
          /\ r.loading = NoUuid /\ r.step = "none" /\ r.loaded = entity[c].load
      BY <1>0, <1>8 DEF EntityRecord
    <3>2. entity' = [entity EXCEPT ![c] = r] /\ health' = [health EXCEPT ![c] = NoHealth]
      BY <1>0, <1>12, <2>1 DEF Extracted, PublishImage, over
    <3> HIDE DEF r
    <3>3. /\ UNCHANGED <<latest, ending, setUps, managed, givenUp>>
          /\ UpdateIssue /\ ffmpegOk' \in {"unknown", "yes", "no"} /\ entity[c].step # "none"
      BY <1>12, <2>1 DEF Extracted, PublishImage
    <3> QED
      BY <2>1, <3>1, <3>2, <3>3, TypeNoEntity, LoadIsOver
  <2>2. CASE latest[c].uuid # entity[c].load
    <3>1. entity' = [entity EXCEPT ![c] = over] /\ health' = [health EXCEPT ![c] = idle]
      BY <1>0, <1>12, <2>2 DEF Extracted, over
    <3>2. /\ UNCHANGED <<latest, ending, ffmpegOk, issue, setUps, managed, givenUp>>
          /\ entity[c].step # "none"
      BY <1>12, <2>2 DEF Extracted
    <3> QED
      BY <1>0, <1>3, <1>8, <3>1, <3>2, LoadIsOver
  <2> QED
    BY <2>1, <2>2
<1>13. CASE CancelledEnds(c)
  <2>1. PICK u \in ending[c] :
          /\ ending' = [ending EXCEPT ![c] = @ \ {u}]
          /\ entity' = [entity EXCEPT ![c].loading = IF @ = u THEN NoUuid ELSE @]
    BY <1>13 DEF CancelledEnds
  <2>2. u # entity[c].load
    <3>1. CASE entity[c].is = "there"
      BY <1>2, <3>1 DEF LoadsAreInOrder
    <3>2. CASE entity[c].is # "there"
      BY <1>0, <1>2, <2>1, <3>2 DEF LoadsAreInOrder, Uuids, NoUuid
    <3> QED
      BY <3>1, <3>2
  <2> DEFINE isLoading == IF entity[c].loading = u THEN NoUuid ELSE entity[c].loading
             r == [entity[c] EXCEPT !.loading = isLoading]
  <2>3. entity' = [entity EXCEPT ![c] = r]
    BY <2>1
  <2>a. isLoading = entity[c].loading
    BY <1>1, <2>2
  <2> HIDE DEF isLoading
  <2>b. /\ r \in EntityRecord /\ r.is = entity[c].is /\ r.load = entity[c].load
         /\ r.loading = entity[c].loading /\ r.loaded = entity[c].loaded
         /\ r.terminal = entity[c].terminal /\ r.step = entity[c].step
    BY <1>0, <2>a DEF EntityRecord
  <2>4. health' = [health EXCEPT ![c] = idle]
    BY <1>0, <1>13 DEF CancelledEnds
  <2>5. ending' = [ending EXCEPT ![c] = ending[c] \ {u}]
    BY <2>1
  <2> HIDE DEF idle, r
  <2> QED
    BY <1>0, <1>3, <1>13, <2>3, <2>b, <2>4, <2>5, LoadGoesOn DEF CancelledEnds
<1>14. CASE Removed(c)
  <2> DEFINE r == [NoEntity EXCEPT !.is = "gone"]
  <2>1. /\ r \in EntityRecord /\ r.is = "gone" /\ r.load = NoUuid /\ r.loading = NoUuid
        /\ r.step = "none" /\ r.loaded = NoUuid
    BY TypeNoEntity DEF NoEntity
  <2>2. entity' = [entity EXCEPT ![c] = r] /\ health' = [health EXCEPT ![c] = idle]
    BY <1>0, <1>14 DEF Removed
  <2> HIDE DEF r, idle
  <2>3. entity[c].load # NoUuid => entity[c].load \in Uuids
    BY <1>0 DEF EntityRecord, Uuids, NoUuid
  <2>4. ending' \in [Doors -> SUBSET Uuids] /\ \A d \in Doors \ {c} : ending'[d] = ending[d]
    BY <1>0, <1>14, <2>3 DEF Removed
  <2>5. UNCHANGED <<latest, ffmpegOk, issue, setUps, managed, givenUp>>
    BY <1>14 DEF Removed
  <2>6. entity'[c] = r /\ entity' \in [Doors -> EntityRecord]
        /\ \A d \in Doors \ {c} : entity'[d] = entity[d]
    BY <1>0, <2>1, <2>2
  <2>7. /\ NoUuid \notin givenUp[c] /\ NoUuid <= latest[c].uuid
        /\ \A g \in givenUp[c] : g <= latest[c].uuid
    BY <1>0, <1>2 DEF LoadsAreInOrder, Uuids, NoUuid
  <2>8. DoorIsSafe(c)'
    BY <2>1, <2>5, <2>6, <2>7 DEF DoorIsSafe, LoadsAreInOrder
  <2>9. health' \in [Doors -> HealthRecord]
        /\ \A d \in Doors : health'[d].failures = health[d].failures
    BY <1>0, <1>3, <2>2
  <2> QED
    BY <1>0, <2>1, <2>4, <2>5, <2>6, <2>8, <2>9 DEF DoorMoves, IssueFollows
<1> QED
  BY <1>4, <1>5, <1>6, <1>7, <1>10, <1>11, <1>12, <1>13, <1>14

\* The entry is set up, or its status manager stopped.
LEMMA EntryStep ==
  ASSUME ImageInv, SetUpImages \/ StopImages
  PROVE  /\ ImageInv'
         /\ \A c \in Doors : entity'[c].loaded \in {entity[c].loaded, NoUuid}
<1>1. CASE SetUpImages
  <2>1. /\ NoEntity.is = "new" /\ NoEntity.load = NoUuid /\ NoEntity.loading = NoUuid
        /\ NoEntity.step = "none" /\ NoEntity.loaded = NoUuid
    BY DEF NoEntity
  <2>2. /\ entity' = [c \in Doors |-> NoEntity] /\ health' = [c \in Doors |-> NoHealth]
        /\ ending' = [c \in Doors |-> {}] /\ givenUp' = [c \in Doors |-> {}]
        /\ ffmpegOk' \in {"yes", "no"} /\ issue' = Problem' /\ latest' = latest
        /\ managed' = TRUE /\ setUps' \in 0..MaxSetUps
    BY <1>1, ImageAssumption DEF SetUpImages, UpdateIssue, ImageInv, ImageTypeOK
  <2>3. ImageTypeOK'
    <3>1. issue' \in BOOLEAN
      BY <2>2 DEF Problem
    <3>2. /\ entity' \in [Doors -> EntityRecord] /\ health' \in [Doors -> HealthRecord]
      BY <2>2, TypeNoEntity
    <3>3. latest' \in [Doors -> [uuid : 0..MaxImageCalls, preview : BOOLEAN]]
      BY <2>2 DEF ImageInv, ImageTypeOK
    <3> QED
      BY <2>2, <3>1, <3>2, <3>3 DEF ImageTypeOK, HealthRecord
  <2>4. \A c \in Doors : latest'[c].uuid >= NoUuid
    BY <2>3, ImageAssumption DEF ImageTypeOK, NoUuid
  <2>5. \A c \in Doors : LoadsAreInOrder(c)'
    BY <2>1, <2>2, <2>4 DEF LoadsAreInOrder
  <2>6. LoadingHasATask' /\ GivenUpForGood' /\ ImageIssueIsTrue'
    <3>1. LoadingHasATask' /\ GivenUpForGood'
      BY <2>1, <2>2 DEF LoadingHasATask, GivenUpForGood
    <3>2. Problem' \in BOOLEAN
      BY DEF Problem
    <3>3. ImageIssueIsTrue'
      BY <2>2, <3>2 DEF ImageIssueIsTrue
    <3> QED
      BY <3>1, <3>3
  <2> QED
    BY <2>1, <2>2, <2>3, <2>5, <2>6 DEF ImageInv
<1>2. CASE StopImages
  <2>1. /\ \A c \in Doors : entity[c].is = "gone"
        /\ managed' = FALSE /\ issue' = FALSE
        /\ UNCHANGED <<latest, entity, ending, health, ffmpegOk, setUps, givenUp>>
    BY <1>2 DEF StopImages
  <2>2. ImageTypeOK' /\ LoadingHasATask' /\ GivenUpForGood'
    BY <2>1 DEF ImageInv, ImageTypeOK, LoadingHasATask, GivenUpForGood
  <2>3. ImageIssueIsTrue' /\ \A c \in Doors : LoadsAreInOrder(c)'
    BY <2>1 DEF ImageInv, ImageIssueIsTrue, LoadsAreInOrder
  <2> QED
    BY <2>1, <2>2, <2>3 DEF ImageInv
<1> QED
  BY <1>1, <1>2

\* Every step keeps the invariant and shows nothing but the image of the latest call.
LEMMA ImageStep ==
  ASSUME ImageInv, [ImageNext]_imageVars
  PROVE  /\ ImageInv'
         /\ \A c \in Doors : LET image == entity'[c].loaded IN
              image # entity[c].loaded /\ image # NoUuid
                => image = latest'[c].uuid /\ image > entity[c].loaded
<1>1. CASE UNCHANGED imageVars
  BY <1>1 DEF imageVars, ImageInv, ImageTypeOK, LoadingHasATask, GivenUpForGood,
             ImageIssueIsTrue, Problem, LoadsAreInOrder
<1>2. CASE SetUpImages \/ StopImages
  BY <1>2, EntryStep
<1>3. ASSUME NEW c \in Doors,
             \/ AddImage(c) \/ Refreshed(c) \/ RetryIsDue(c) \/ Downloaded(c) \/ DownloadFails(c)
             \/ ExtractFails(c) \/ Extracted(c) \/ CancelledEnds(c) \/ Removed(c)
      PROVE  /\ ImageInv'
             /\ \A d \in Doors : LET image == entity'[d].loaded IN
                  image # entity[d].loaded /\ image # NoUuid
                    => image = latest'[d].uuid /\ image > entity[d].loaded
  BY <1>3, DoorStep, DoorStepIsSafe
<1> QED
  BY <1>1, <1>2, <1>3 DEF ImageNext

\* What is loaded has a task that will end it, what is given up is not loaded again,
\* and the repair issue is shown exactly while there is a problem
\* (image.py:131-137, 194-254; image_status.py:216-256).
THEOREM ImageInvariant == ImageSpec => []ImageInv
<1>1. ImageInit => ImageInv
  <2> SUFFICES ASSUME ImageInit PROVE ImageInv
    OBVIOUS
  <2>1. /\ NoEntity.is = "new" /\ NoEntity.load = NoUuid /\ NoEntity.loading = NoUuid
        /\ NoEntity.step = "none" /\ NoEntity.loaded = NoUuid
    BY DEF NoEntity
  <2>2. ImageTypeOK
    <3>1. /\ entity \in [Doors -> EntityRecord] /\ health \in [Doors -> HealthRecord]
      BY TypeNoEntity DEF ImageInit
    <3>2. latest \in [Doors -> [uuid : 0..MaxImageCalls, preview : BOOLEAN]]
      BY ImageAssumption DEF ImageInit, NoUuid
    <3>3. ending \in [Doors -> SUBSET Uuids] /\ givenUp \in [Doors -> SUBSET Uuids]
      BY DEF ImageInit
    <3>4. ffmpegOk = "unknown" /\ issue = FALSE /\ managed = FALSE /\ setUps \in 0..MaxSetUps
      BY ImageAssumption DEF ImageInit
    <3> QED
      BY <3>1, <3>2, <3>3, <3>4 DEF ImageTypeOK, HealthRecord
  <2>3. \A c \in Doors : LoadsAreInOrder(c)
    BY <2>1 DEF ImageInit, LoadsAreInOrder, NoUuid
  <2> QED
    BY <2>1, <2>2, <2>3 DEF ImageInit, ImageInv, LoadingHasATask, GivenUpForGood,
                            ImageIssueIsTrue
<1>2. ImageInv /\ [ImageNext]_imageVars => ImageInv'
  BY ImageStep
<1> QED
  BY <1>1, <1>2, PTL DEF ImageSpec

\* A new image is of the call that is the latest at that moment, and it never gives
\* way to the image of an earlier call (image.py:240-246).
THEOREM LatestIsShown == ImageSpec => OnlyTheLatestIsShown
<1>1. ImageInv /\ [ImageNext]_imageVars =>
        [\A c \in Doors : LET image == entity'[c].loaded IN
           image # entity[c].loaded /\ image # NoUuid
             => image = latest'[c].uuid /\ image > entity[c].loaded]_imageVars
  BY ImageStep
<1> QED
  BY <1>1, ImageInvariant, PTL DEF ImageSpec, OnlyTheLatestIsShown

-----------------------------------------------------------------------------
(* The motion events: types.                                               *)

\* The empty records.
LEMMA TypeNoRefresh == NoRefresh \in RefreshRecord /\ Forgotten \in [Cameras -> NoCursor..MaxEvents]
  BY MotionBounds DEF NoRefresh, RefreshRecord, Forgotten, NoCursor, NoCamera

\* A refresh that starts keeps the types.
LEMMA TypeStart ==
  ASSUME MotionTypeOK, NEW r \in Refreshes, Start(r), targets' \subseteq Cameras
  PROVE  refresh' \in [Refreshes -> RefreshRecord] /\ batch' \in [Cameras -> SUBSET Numbers]
<1>1. [NoRefresh EXCEPT !.pc = "capabilities", !.previous = cursors, !.todo = targets']
        \in RefreshRecord
  BY TypeNoRefresh DEF RefreshRecord, MotionTypeOK
<1> QED
  BY <1>1, TypeNoRefresh DEF Start, MotionTypeOK, Empty

\* What the next request, or the end of the loop, makes of a refresh.
LEMMA AsksAgain ==
  ASSUME NEW r \in Refreshes, NEW todo \in SUBSET Cameras,
         NEW now \in [Cameras -> NoCursor..MaxEvents], Asks(r, now, todo),
         MotionTypeOK, cursors' \in [Cameras -> NoCursor..MaxEvents]
  PROVE  \E record \in RefreshRecord :
           /\ refresh' = [refresh EXCEPT ![r] = record]
           /\ record.previous = refresh[r].previous
           /\ \/ record.pc = "save" /\ record.saving = cursors' /\ record.read = NoCursor
              \/ /\ record.pc = "success" /\ cursors' = refresh[r].previous
                 /\ record.read = NoCursor
              \/ /\ record.pc = "report" /\ record.camera \in todo
                 /\ record.todo = todo \ {record.camera} /\ record.now = now
                 /\ record.read = cursors'[record.camera]
           /\ record.now \in {now, Forgotten}
           /\ record.saving \in {refresh[r].saving, cursors'}
<1> DEFINE asking == [refresh[r] EXCEPT !.now = now, !.todo = todo, !.camera = NoCamera,
                                        !.read = NoCursor]
           save == [asking EXCEPT !.pc = "save", !.now = Forgotten, !.saving = cursors']
           done == [asking EXCEPT !.pc = "success", !.now = Forgotten]
           next(c) == [asking EXCEPT !.pc = "report", !.todo = todo \ {c}, !.camera = c,
                                     !.read = cursors'[c]]
<1>0. refresh[r] \in RefreshRecord /\ NoCursor \in NoCursor..MaxEvents
  BY MotionBounds DEF MotionTypeOK, NoCursor
<1>1. asking \in RefreshRecord /\ asking.previous = refresh[r].previous
      /\ asking.saving = refresh[r].saving /\ asking.camera = NoCamera /\ asking.read = NoCursor
      /\ asking.now = now
  BY <1>0 DEF RefreshRecord
<1>2. \/ refresh' = [refresh EXCEPT ![r] = IF cursors' # asking.previous THEN save ELSE done]
      \/ \E c \in todo : refresh' = [refresh EXCEPT ![r] = next(c)]
  BY Zenon DEF Asks
<1> HIDE DEF asking
<1>3. CASE refresh' = [refresh EXCEPT ![r] = save]
  <2>1. /\ save \in RefreshRecord /\ save.pc = "save" /\ save.saving = cursors'
        /\ save.previous = refresh[r].previous /\ save.camera = NoCamera /\ save.read = NoCursor
        /\ save.now = Forgotten
    BY <1>1, TypeNoRefresh DEF RefreshRecord
  <2> HIDE DEF save
  <2> QED
    BY <1>3, <2>1
<1>4. CASE refresh' = [refresh EXCEPT ![r] = done] /\ cursors' = asking.previous
  <2>1. /\ done \in RefreshRecord /\ done.pc = "success" /\ done.saving = refresh[r].saving
        /\ done.previous = refresh[r].previous /\ done.camera = NoCamera /\ done.read = NoCursor
        /\ done.now = Forgotten
    BY <1>1, TypeNoRefresh DEF RefreshRecord
  <2> HIDE DEF done
  <2> QED
    BY <1>1, <1>4, <2>1
<1>5. ASSUME NEW c \in todo, refresh' = [refresh EXCEPT ![r] = next(c)]
      PROVE  \E record \in RefreshRecord :
               /\ refresh' = [refresh EXCEPT ![r] = record]
               /\ record.previous = refresh[r].previous
               /\ record.pc = "report" /\ record.camera \in todo
               /\ record.todo = todo \ {record.camera} /\ record.now = now
               /\ record.read = cursors'[record.camera] /\ record.saving = refresh[r].saving
  <2>1. /\ next(c) \in RefreshRecord /\ next(c).pc = "report" /\ next(c).saving = refresh[r].saving
        /\ next(c).previous = refresh[r].previous /\ next(c).camera = c
        /\ next(c).todo = todo \ {c} /\ next(c).now = now /\ next(c).read = cursors'[c]
    BY <1>1 DEF RefreshRecord
  <2> HIDE DEF next
  <2> QED
    BY <1>5, <2>1
<1> HIDE DEF save, done, next
<1> QED
  BY <1>2, <1>3, <1>4, <1>5

LEMMA TypePublish ==
  ASSUME MotionTypeOK, PublishMotion
  PROVE  /\ published' \in [Cameras -> [Numbers -> Nat]]
         /\ excused' \in [Cameras -> SUBSET Numbers]
<1>1. PICK listened \in SUBSET Cameras :
        LET heardOf(c) == IF stage # "setup" /\ c \in listened THEN batch[c] ELSE {} IN
        /\ published' = [c \in Cameras |-> [i \in Numbers |->
                           published[c][i] + IF i \in heardOf(c) THEN 1 ELSE 0]]
        /\ excused' = [c \in Cameras |-> excused[c] \cup (batch[c] \ heardOf(c))]
  BY DEF PublishMotion
<1>2. \A c \in Cameras, i \in Numbers : published[c][i] \in Nat
  BY DEF MotionTypeOK
<1> QED
  BY <1>1, <1>2 DEF MotionTypeOK

\* What was published or excused stays so, what is published or excused now was in the
\* batch, and an event in the batch becomes one or the other.
LEMMA Publishes ==
  ASSUME MotionTypeOK, PublishMotion, NEW c \in Cameras, NEW i \in Numbers
  PROVE  /\ Accounted(c, i) \/ i \in batch[c] => Accounted(c, i)'
         /\ published'[c][i] \in {published[c][i], published[c][i] + 1}
         /\ published'[c][i] # published[c][i] => i \in batch[c]
<1>1. PICK listened \in SUBSET Cameras :
        LET heardOf(d) == IF stage # "setup" /\ d \in listened THEN batch[d] ELSE {} IN
        /\ published' = [d \in Cameras |-> [j \in Numbers |->
                           published[d][j] + IF j \in heardOf(d) THEN 1 ELSE 0]]
        /\ excused' = [d \in Cameras |-> excused[d] \cup (batch[d] \ heardOf(d))]
  BY DEF PublishMotion
<1> DEFINE out == i \in (IF stage # "setup" /\ c \in listened THEN batch[c] ELSE {})
<1>2. /\ published'[c][i] = published[c][i] + IF out THEN 1 ELSE 0
      /\ i \in excused'[c] <=> i \in excused[c] \/ (i \in batch[c] /\ ~out)
  BY <1>1
<1>3. published[c][i] \in Nat
  BY DEF MotionTypeOK
<1>4. out => i \in batch[c]
  OBVIOUS
<1> HIDE DEF out
<1> QED
  BY <1>2, <1>3, <1>4 DEF Accounted

LEMMA TypeDoubt == MotionTypeOK /\ Doubt => doubtful' \in [Cameras -> SUBSET Numbers]
<1> SUFFICES ASSUME MotionTypeOK, Doubt PROVE doubtful' \in [Cameras -> SUBSET Numbers]
  OBVIOUS
<1>1. PICK more \in [Cameras -> SUBSET Numbers] :
        doubtful' = [c \in Cameras |-> doubtful[c] \cup more[c]]
  <2> DEFINE more == [c \in Cameras |-> {i \in Numbers :
       \E r \in Refreshes :
         \/ Overlap' /\ refresh'[r].previous[c] < i /\ i <= happened'[c]
         \/ Busy(r) /\ Busy(r)' /\ i \in batch[c] \ batch'[c]
         \/ Breaks(r) /\ refresh[r].previous[c] < i /\ i <= cursors[c]}]
  <2>1. more \in [Cameras -> SUBSET Numbers]
    OBVIOUS
  <2>2. doubtful' = [c \in Cameras |-> doubtful[c] \cup more[c]]
    BY Zenon DEF Doubt
  <2> HIDE DEF more
  <2> QED
    BY <2>1, <2>2
<1> QED
  BY <1>1 DEF MotionTypeOK

\* The values at a camera.
LEMMA Points ==
  ASSUME MotionTypeOK, NEW c \in Cameras
  PROVE  /\ happened[c] \in Nat
         /\ cursors[c] \in Int /\ cursors[c] >= -1 /\ savedCursors[c] \in Int
         /\ \A i \in Numbers : i \in Nat /\ i >= 1 /\ published[c][i] \in Nat
         /\ \A r \in Refreshes :
              /\ refresh[r] \in RefreshRecord
              /\ refresh[r].previous[c] \in Int /\ refresh[r].previous[c] >= -1
              /\ refresh[r].now[c] \in Int /\ refresh[r].saving[c] \in Int
              /\ refresh[r].read \in Int /\ refresh[r].read >= -1
<1> USE MotionBounds DEF NoCursor
<1>1. happened[c] \in Nat /\ cursors[c] \in NoCursor..MaxEvents /\ savedCursors[c] \in NoCursor..MaxEvents
  BY DEF MotionTypeOK
<1>2. \A i \in Numbers : i \in Nat /\ i >= 1 /\ published[c][i] \in Nat
  BY DEF MotionTypeOK, Numbers
<1>3. ASSUME NEW r \in Refreshes
      PROVE  /\ refresh[r] \in RefreshRecord
             /\ refresh[r].previous[c] \in NoCursor..MaxEvents
             /\ refresh[r].now[c] \in NoCursor..MaxEvents
             /\ refresh[r].saving[c] \in NoCursor..MaxEvents
             /\ refresh[r].read \in NoCursor..MaxEvents
  BY DEF MotionTypeOK, RefreshRecord
<1> QED
  BY <1>1, <1>2, <1>3

\* A report: the cursor is where it was read or at the time of the capabilities, and
\* what lies between is in the batch or, without a cursor, excused.
LEMMA Reports ==
  ASSUME MotionTypeOK, NEW r \in Refreshes, Report(r),
         NEW c \in Cameras, c = refresh[r].camera,
         NEW now \in Int, now = refresh[r].now[c], NEW read \in Int, read = refresh[r].read
  PROVE  /\ Asks(r, refresh[r].now, refresh[r].todo)
         /\ cursors' \in [Cameras -> NoCursor..MaxEvents]
         /\ batch' \in [Cameras -> SUBSET Numbers] /\ excused' \in [Cameras -> SUBSET Numbers]
         /\ cursors'[c] = Later(read, now)
         /\ \A i \in Numbers : /\ i \in batch'[c] /\ i \notin batch[c] => read # NoCursor /\ read < i /\ i <= now
                               /\ read # NoCursor /\ read < i /\ i <= now => i \in batch'[c]
                               /\ read = NoCursor /\ i <= now => i \in excused'[c]
                               /\ i \in excused[c] => i \in excused'[c]
         /\ \A d \in Cameras \ {c} : /\ cursors'[d] = cursors[d] /\ batch'[d] = batch[d]
                                     /\ excused'[d] = excused[d]
<1> DEFINE unseen == IF read = NoCursor THEN {} ELSE read + 1 .. now
<1>1. /\ c \in Cameras /\ now \in NoCursor..MaxEvents /\ read \in NoCursor..MaxEvents
      /\ NoCursor = -1 /\ MaxEvents \in Nat
  BY MotionBounds DEF MotionTypeOK, RefreshRecord, NoCursor
<1>2. /\ cursors' = [cursors EXCEPT ![c] = Later(read, now)]
      /\ batch' = [batch EXCEPT ![c] = IF unseen = {} THEN @ ELSE unseen]
      /\ excused' = [excused EXCEPT ![c] = IF read = NoCursor THEN @ \cup (1..now) ELSE @]
      /\ Asks(r, refresh[r].now, refresh[r].todo)
  BY DEF Report
<1>3. Later(read, now) \in NoCursor..MaxEvents
  BY <1>1 DEF Later
<1>4. unseen \subseteq Numbers /\ 1..now \subseteq Numbers
  BY <1>1 DEF Numbers
<1>5. \A i \in Numbers : i \in Nat /\ i >= 1
  BY <1>1 DEF Numbers
<1>6. /\ cursors' \in [Cameras -> NoCursor..MaxEvents] /\ cursors'[c] = Later(read, now)
      /\ \A d \in Cameras \ {c} : cursors'[d] = cursors[d]
  BY <1>1, <1>2, <1>3 DEF MotionTypeOK
<1> HIDE DEF unseen
<1>7. /\ batch' \in [Cameras -> SUBSET Numbers]
      /\ batch'[c] = (IF unseen = {} THEN batch[c] ELSE unseen)
      /\ \A d \in Cameras \ {c} : batch'[d] = batch[d]
  BY <1>1, <1>2, <1>4 DEF MotionTypeOK
<1>8. /\ excused' \in [Cameras -> SUBSET Numbers]
      /\ excused'[c] = (IF read = NoCursor THEN excused[c] \cup (1..now) ELSE excused[c])
      /\ \A d \in Cameras \ {c} : excused'[d] = excused[d]
  BY <1>1, <1>2, <1>4 DEF MotionTypeOK
<1>9. \A i \in Numbers :
        /\ i \in unseen <=> read # NoCursor /\ read < i /\ i <= now
        /\ i <= now => i \in 1..now
  BY <1>1, <1>5 DEF unseen
<1>10. ASSUME NEW i \in Numbers
       PROVE  /\ i \in batch'[c] /\ i \notin batch[c] => read # NoCursor /\ read < i /\ i <= now
              /\ read # NoCursor /\ read < i /\ i <= now => i \in batch'[c]
              /\ read = NoCursor /\ i <= now => i \in excused'[c]
              /\ i \in excused[c] => i \in excused'[c]
  <2>1. i \in unseen <=> read # NoCursor /\ read < i /\ i <= now
    BY <1>9
  <2>2. read = NoCursor /\ i <= now => i \in 1..now
    BY <1>9
  <2> QED
    BY ONLY <2>1, <2>2, <1>7, <1>8
<1> QED
  BY ONLY <1>2, <1>6, <1>7, <1>8, <1>10
\* Every step keeps the types.
LEMMA TypeStepMotion ==
  ASSUME MotionTypeOK, [MotionNext]_motionVars
  PROVE  MotionTypeOK'
<1> USE MotionBounds DEF NoCursor
<1>0. doubtful' \in [Cameras -> SUBSET Numbers]
  BY TypeDoubt DEF MotionNext, motionVars, MotionTypeOK
<1>1. ASSUME Initialize PROVE MotionTypeOK'
  <2>1. cursors' \in [Cameras -> NoCursor..MaxEvents] /\ excused' \in [Cameras -> SUBSET Numbers]
    BY <1>1, TypeNoRefresh DEF Initialize, MotionTypeOK, Numbers
  <2>2. refresh' \in [Refreshes -> RefreshRecord]
    <3> DEFINE record == [NoRefresh EXCEPT
                            !.pc = IF source = {} THEN "success" ELSE "capabilities",
                            !.previous = cursors', !.todo = source]
    <3>1. record \in RefreshRecord
      BY <2>1, TypeNoRefresh DEF MotionTypeOK, RefreshRecord
    <3>2. refresh' = [refresh EXCEPT !["poll"] = record]
      BY <1>1 DEF Initialize
    <3> HIDE DEF record
    <3> QED
      BY <3>1, <3>2 DEF MotionTypeOK
  <2> QED
    BY <1>0, <1>1, <2>1, <2>2 DEF Initialize, MotionTypeOK, runtime
<1>2. ASSUME Changes PROVE MotionTypeOK'
  <2>1. heard' \in BOOLEAN
    BY <1>2 DEF Changes
  <2>2. /\ pending' \in BOOLEAN /\ sync' \in {"idle", "controllers", "refresh"}
        /\ source' \subseteq Cameras /\ synced' \subseteq Cameras
    BY <1>2 DEF Changes, MotionTypeOK
  <2>3. changes' \in 0..MaxChanges
    BY <1>2 DEF Changes, MotionTypeOK
  <2> QED
    BY <1>0, <1>2, <2>1, <2>2, <2>3 DEF Changes, MotionTypeOK, motionHistory
<1>3. ASSUME Reconcile PROVE MotionTypeOK'
  <2>1. refresh' \in [Refreshes -> RefreshRecord] /\ batch' \in [Cameras -> SUBSET Numbers]
    BY <1>3, TypeStart DEF Reconcile, MotionTypeOK, Refreshes
  <2> QED
    BY <1>0, <1>3, <2>1 DEF Reconcile, MotionTypeOK, motionHistory
<1>4. ASSUME Reconciled PROVE MotionTypeOK'
  BY <1>0, <1>4 DEF Reconciled, MotionTypeOK, motionHistory
<1>5. ASSUME UnloadMotion PROVE MotionTypeOK'
  <2>1. refresh' \in [Refreshes -> RefreshRecord] /\ cursors' \in [Cameras -> NoCursor..MaxEvents]
    BY <1>5, TypeNoRefresh DEF UnloadMotion
  <2>2. excused' \in [Cameras -> SUBSET Numbers] /\ batch' \in [Cameras -> SUBSET Numbers]
    BY <1>5 DEF UnloadMotion, MotionTypeOK, Empty
  <2>3. closes' \in 0..MaxCloses
    BY <1>5 DEF UnloadMotion, MotionTypeOK
  <2> QED
    BY <1>0, <1>5, <2>1, <2>2, <2>3 DEF UnloadMotion, MotionTypeOK
<1>6. ASSUME Motion PROVE MotionTypeOK'
  BY <1>0, <1>6 DEF Motion, MotionTypeOK, runtime, motionHistory
<1>7. ASSUME Poll PROVE MotionTypeOK'
  <2>1. refresh' \in [Refreshes -> RefreshRecord] /\ batch' \in [Cameras -> SUBSET Numbers]
    BY <1>7, TypeStart DEF Poll, Refreshes, MotionTypeOK
  <2> QED
    BY <1>0, <1>7, <2>1 DEF Poll, MotionTypeOK, motionHistory, runtime
<1>8. ASSUME NEW r \in Refreshes, Advances(r) PROVE MotionTypeOK'
  <2>0. refresh[r] \in RefreshRecord
    BY DEF MotionTypeOK
  <2>1. ASSUME Capabilities(r) PROVE MotionTypeOK'
    <3>1. PICK supported \in SUBSET refresh[r].todo :
            cursors' = cursors /\ Asks(r, happened, supported \cap targets)
      BY <2>1 DEF Capabilities
    <3>2. supported \cap targets \in SUBSET Cameras /\ happened \in [Cameras -> NoCursor..MaxEvents]
      BY DEF MotionTypeOK
    <3>3. cursors' \in [Cameras -> NoCursor..MaxEvents]
      BY <3>1 DEF MotionTypeOK
    <3>4. PICK record \in RefreshRecord : refresh' = [refresh EXCEPT ![r] = record]
      BY ONLY <3>1, <3>2, <3>3, AsksAgain, MotionTypeOK, <1>8
    <3>5. refresh' \in [Refreshes -> RefreshRecord]
      BY <3>4 DEF MotionTypeOK
    <3> QED
      BY <1>0, <2>1, <3>1, <3>5 DEF Capabilities, MotionTypeOK, runtime, motionHistory
  <2>2. ASSUME Report(r) PROVE MotionTypeOK'
    <3>1. /\ refresh[r].todo \in SUBSET Cameras /\ refresh[r].now \in [Cameras -> NoCursor..MaxEvents]
          /\ Asks(r, refresh[r].now, refresh[r].todo)
      BY <2>0, <2>2 DEF Report, RefreshRecord
    <3>2. /\ cursors' \in [Cameras -> NoCursor..MaxEvents]
          /\ batch' \in [Cameras -> SUBSET Numbers] /\ excused' \in [Cameras -> SUBSET Numbers]
      <4>1. CASE refresh[r].camera \in Cameras
        <5>1. refresh[r].now[refresh[r].camera] \in Int /\ refresh[r].read \in Int
          BY <4>1, Points
        <5> QED
          BY <2>2, <4>1, <5>1, Reports
      <4>2. CASE refresh[r].camera \notin Cameras
        BY <2>2, <4>2 DEF Report, MotionTypeOK
      <4> QED
        BY <4>1, <4>2
    <3>3. PICK record \in RefreshRecord : refresh' = [refresh EXCEPT ![r] = record]
      BY ONLY <3>1, <3>2, AsksAgain, MotionTypeOK, <1>8
    <3>4. refresh' \in [Refreshes -> RefreshRecord]
      BY <3>3 DEF MotionTypeOK
    <3> QED
      BY <1>0, <2>2, <3>2, <3>4 DEF Report, MotionTypeOK, runtime
  <2>3. ASSUME SaveCursors(r) PROVE MotionTypeOK'
    <3>1. savedCursors' \in [Cameras -> NoCursor..MaxEvents]
      BY <2>0, <2>3 DEF SaveCursors, RefreshRecord
    <3>2. refresh' \in [Refreshes -> RefreshRecord]
      <4> DEFINE record == [refresh[r] EXCEPT !.pc = "success", !.saving = Forgotten]
      <4>1. record \in RefreshRecord
        BY <2>0, TypeNoRefresh DEF RefreshRecord
      <4>2. refresh' = [refresh EXCEPT ![r] = record]
        BY <2>0, <2>3 DEF SaveCursors, MotionTypeOK, RefreshRecord
      <4> HIDE DEF record
      <4> QED
        BY <4>1, <4>2 DEF MotionTypeOK
    <3> QED
      BY <1>0, <2>3, <3>1, <3>2 DEF SaveCursors, MotionTypeOK, runtime, motionHistory
  <2>4. ASSUME Succeed(r) PROVE MotionTypeOK'
    BY <1>0, <2>4, TypeNoRefresh, TypePublish DEF Succeed, SetUp, MotionTypeOK, runtime
  <2>5. ASSUME RollBack(r) PROVE MotionTypeOK'
    BY <1>0, <2>5, TypeNoRefresh DEF RollBack, SetUp, MotionTypeOK, RefreshRecord, Empty, runtime, motionHistory
  <2>6. ASSUME Breaks(r) PROVE MotionTypeOK'
    BY <1>0, <2>6, TypeNoRefresh, TypePublish DEF Breaks, SetUp, MotionTypeOK, runtime, motionHistory
  <2> QED
    BY <1>8, <2>1, <2>2, <2>3, <2>4, <2>5, <2>6 DEF Advances
<1>9. CASE UNCHANGED motionVars
  BY <1>9 DEF motionVars, runtime, motionHistory, MotionTypeOK
<1> QED
  BY <1>1, <1>2, <1>3, <1>4, <1>5, <1>6, <1>7, <1>8, <1>9 DEF MotionNext, MotionSteps
-----------------------------------------------------------------------------
(* What is true of each event that is not doubtful.                        *)

\* The first and the last part of MotionIsPublishedOnce, of one event; the middle one
\* follows from EventIsKept.
OnceAndSaved(c, i) ==
  /\ published[c][i] <= 1
  /\ i <= savedCursors[c] =>
       Accounted(c, i) \/ (i \in batch[c] /\ \E r \in Refreshes : refresh[r].pc = "success")

Kept ==
  /\ AsksInOrder /\ NothingIsEarly
  /\ \A c \in Cameras : \A i \in Sure(c) : EventIsKept(c, i) /\ OnceAndSaved(c, i)

\* An event that is still sure was so before; of two refreshes under way both began
\* behind it, it was not taken from the batch of one that goes on, nor passed by one that
\* breaks off.
LEMMA Sureness ==
  ASSUME MotionTypeOK, MotionTypeOK', Doubt, NEW c \in Cameras, NEW i \in Sure(c)'
  PROVE  /\ i \in Sure(c) /\ i \in Numbers
         /\ Overlap' /\ i <= happened'[c] => \A r \in Refreshes : i <= refresh'[r].previous[c]
         /\ \A r \in Refreshes :
              /\ Busy(r) /\ Busy(r)' /\ i \in batch[c] => i \in batch'[c]
              /\ Breaks(r) /\ i <= cursors[c] => i <= refresh[r].previous[c]
<1>1. i \in Numbers /\ i \notin doubtful'[c]
  BY DEF Sure
<1>2. doubtful'[c] = doubtful[c] \cup
         {j \in Numbers :
            \E r \in Refreshes :
              \/ Overlap' /\ refresh'[r].previous[c] < j /\ j <= happened'[c]
              \/ Busy(r) /\ Busy(r)' /\ j \in batch[c] \ batch'[c]
              \/ Breaks(r) /\ refresh[r].previous[c] < j /\ j <= cursors[c]}
  BY Zenon DEF Doubt
<1>3. /\ i \notin doubtful[c]
      /\ \A r \in Refreshes :
           /\ ~ (Overlap' /\ refresh'[r].previous[c] < i /\ i <= happened'[c])
           /\ ~ (Busy(r) /\ Busy(r)' /\ i \in batch[c] \ batch'[c])
           /\ ~ (Breaks(r) /\ refresh[r].previous[c] < i /\ i <= cursors[c])
  BY ONLY <1>1, <1>2, Zenon
<1>4. i \in Nat /\ \A r \in Refreshes : refresh[r].previous[c] \in Int /\ refresh'[r].previous[c] \in Int
  <2>1. i \in Nat
    BY <1>1, MotionBounds DEF Numbers
  <2>2. ASSUME NEW r \in Refreshes
        PROVE  refresh[r].previous[c] \in Int /\ refresh'[r].previous[c] \in Int
    <3>1. refresh[r].previous \in [Cameras -> NoCursor..MaxEvents]
      BY DEF MotionTypeOK, RefreshRecord
    <3>2. refresh'[r].previous \in [Cameras -> NoCursor..MaxEvents]
      BY DEF MotionTypeOK, RefreshRecord
    <3> QED
      BY <3>1, <3>2, MotionBounds DEF NoCursor
  <2> QED
    BY <2>1, <2>2
<1>5. ASSUME NEW r \in Refreshes
      PROVE  /\ Overlap' /\ i <= happened'[c] => i <= refresh'[r].previous[c]
             /\ Busy(r) /\ Busy(r)' /\ i \in batch[c] => i \in batch'[c]
             /\ Breaks(r) /\ i <= cursors[c] => i <= refresh[r].previous[c]
  <2>1. refresh'[r].previous[c] < i \/ i <= refresh'[r].previous[c]
    BY <1>4
  <2>2. refresh[r].previous[c] < i \/ i <= refresh[r].previous[c]
    BY <1>4
  <2> QED
    BY ONLY <1>3, <2>1, <2>2, <1>5
<1> QED
  BY <1>1, <1>3, <1>5 DEF Sure

\* What does not move its record keeps a refresh, if the events it began behind stay
\* behind the cursors and out of the batch, and there are no others.
LEMMA TheOtherKeeps ==
  ASSUME MotionTypeOK, MotionTypeOK', Kept, NothingIsEarly', NEW q \in Refreshes, Busy(q),
         refresh'[q] = refresh[q], NEW c \in Cameras, NEW i \in Sure(c), EventIsKept(c, i),
         Accounted(c, i) => Accounted(c, i)',
         i <= happened'[c] =>
           /\ i <= refresh[q].previous[c] /\ i <= cursors'[c] /\ i \notin batch'[c]
  PROVE  KeepsBehind(q, c, i)' /\ AsksForNew(q, c, i)' /\ SavesWhatIs(q, c, i)'
<1> DEFINE theRefresh == refresh[q]
<1>1. /\ KeepsBehind(q, c, i) /\ AsksForNew(q, c, i) /\ SavesWhatIs(q, c, i)
      /\ theRefresh.pc = "report" => theRefresh.previous[c] <= theRefresh.now[c]
  BY DEF EventIsKept, Kept, AsksInOrder
<1>2. i \in Numbers
  BY DEF Sure
<1>3. /\ happened'[c] \in Int /\ cursors'[c] \in Int /\ i \in Nat /\ published'[c][i] \in Nat
      /\ theRefresh.previous[c] \in Int /\ theRefresh.now[c] \in Int /\ theRefresh.saving[c] \in Int
      /\ theRefresh.read \in Int /\ cursors[c] \in Int
  <2>1. /\ happened'[c] \in 0..MaxEvents /\ cursors'[c] \in NoCursor..MaxEvents
        /\ published'[c][i] \in Nat
    BY <1>2 DEF MotionTypeOK
  <2> QED
    BY <1>2, <2>1, Points, MotionBounds DEF NoCursor
<1>4. /\ cursors'[c] <= happened'[c] /\ theRefresh.previous[c] <= happened'[c]
      /\ theRefresh.now[c] <= happened'[c] /\ theRefresh.saving[c] <= happened'[c]
      /\ theRefresh.camera = c => theRefresh.read <= happened'[c]
      /\ i \in batch'[c] \/ published'[c][i] > 0 => i <= happened'[c]
  BY <1>2 DEF NothingIsEarly
<1> HIDE DEF theRefresh
<1>5. KeepsBehind(q, c, i)'
  <2>1. theRefresh = refresh'[q] /\ theRefresh = refresh[q]
    BY DEF theRefresh
  <2> QED
    BY <1>1, <1>3, <1>4, <2>1 DEF KeepsBehind, Sound
<1>6. AsksForNew(q, c, i)'
  <2>1. theRefresh = refresh'[q] /\ theRefresh = refresh[q]
    BY DEF theRefresh
  <2> QED
    BY <1>1, <1>3, <1>4, <2>1 DEF AsksForNew
<1>7. SavesWhatIs(q, c, i)'
  <2>1. theRefresh = refresh'[q] /\ theRefresh = refresh[q]
    BY DEF theRefresh
  <2>2. i <= happened'[c] => i <= cursors[c]
    BY <1>1, <2>1 DEF KeepsBehind
  <2> QED
    BY <1>1, <1>3, <1>4, <2>1, <2>2 DEF SavesWhatIs, Sound
<1> QED
  BY <1>5, <1>6, <1>7

\* A step of the refresh r: of the other one, if it is under way, both began behind what
\* is sure.
LEMMA StepOfOne ==
  ASSUME MotionTypeOK, MotionTypeOK', Kept, NothingIsEarly', Doubt, NEW r \in Refreshes, Busy(r),
         NEW record, refresh' = [refresh EXCEPT ![r] = record], UNCHANGED happened,
         NEW c \in Cameras, NEW i \in Sure(c)',
         Accounted(c, i) => Accounted(c, i)',
         i <= refresh[r].previous[c] => i <= cursors'[c] /\ i \notin batch'[c],
         Busy(r)' => KeepsBehind(r, c, i)' /\ AsksForNew(r, c, i)' /\ SavesWhatIs(r, c, i)',
         Sound(cursors, c, i)', Sound(savedCursors, c, i)',
         i <= cursors'[c] =>
           Accounted(c, i)' \/ (i \in batch'[c] /\ \E q \in Refreshes : Busy(q)'),
         i \in batch'[c] =>
           i <= cursors'[c] /\ ((\E q \in Refreshes : Busy(q)') => published'[c][i] = 0)
  PROVE  EventIsKept(c, i)'
<1>1. i \in Sure(c) /\ i \in Numbers
      /\ (Overlap' /\ i <= happened'[c] => \A q \in Refreshes : i <= refresh'[q].previous[c])
  BY Sureness
<1>2. EventIsKept(c, i)
  BY <1>1 DEF Kept
<1>3. ASSUME NEW q \in Refreshes, q # r, Busy(q)'
      PROVE  KeepsBehind(q, c, i)' /\ AsksForNew(q, c, i)' /\ SavesWhatIs(q, c, i)'
  <2>1. refresh'[q] = refresh[q] /\ Busy(q)
    BY <1>3 DEF MotionTypeOK, Busy
  <2>2. Overlap
    BY <1>3, <2>1 DEF Overlap, Refreshes
  <2>3. i <= happened[c] => i <= refresh[q].previous[c] /\ i <= refresh[r].previous[c]
    BY <1>2, <2>2 DEF EventIsKept
  <2> QED
    BY <1>1, <1>2, <2>1, <2>3, TheOtherKeeps
<1>4. \A q \in Refreshes :
        Busy(q)' => KeepsBehind(q, c, i)' /\ AsksForNew(q, c, i)' /\ SavesWhatIs(q, c, i)'
  BY <1>3
<1> QED
  BY <1>1, <1>4 DEF EventIsKept
-----------------------------------------------------------------------------
(* Nothing is ahead of what has happened, and cameras are asked in order.  *)

\* The records of the refreshes, when one is replaced.
LEMMA RecordsBehind ==
  ASSUME MotionTypeOK, MotionTypeOK', NothingIsEarly, UNCHANGED happened, NEW r \in Refreshes,
         NEW record, refresh' = [refresh EXCEPT ![r] = record], NEW c \in Cameras,
         record.previous[c] <= happened[c], record.now[c] <= happened[c],
         record.saving[c] <= happened[c], record.camera = c => record.read <= happened[c]
  PROVE  \A q \in Refreshes :
           /\ refresh'[q].previous[c] <= happened'[c] /\ refresh'[q].now[c] <= happened'[c]
           /\ refresh'[q].saving[c] <= happened'[c]
           /\ refresh'[q].camera = c => refresh'[q].read <= happened'[c]
<1>1. ASSUME NEW q \in Refreshes PROVE refresh'[q] = IF q = r THEN record ELSE refresh[q]
  BY DEF MotionTypeOK
<1> QED
  BY <1>1 DEF NothingIsEarly

\* What the empty record has.
LEMMA EmptyRecord ==
  ASSUME MotionTypeOK, NEW c \in Cameras
  PROVE  /\ NoRefresh.previous[c] <= happened[c] /\ NoRefresh.now[c] <= happened[c]
         /\ NoRefresh.saving[c] <= happened[c]
         /\ NoRefresh.camera = c => NoRefresh.read <= happened[c]
         /\ NoRefresh.pc = "none" /\ Forgotten[c] = -1 /\ NoRefresh.saving = Forgotten
         /\ NoRefresh.now = Forgotten /\ NoRefresh.read = -1 /\ happened[c] \in Nat
<1>1. happened[c] \in Nat
  BY Points
<1> QED
  BY <1>1 DEF NoRefresh, Forgotten, NoCursor

\* The same of a refresh that starts.
LEMMA StartsBehind ==
  ASSUME MotionTypeOK, MotionTypeOK', NothingIsEarly, AsksInOrder, NEW r \in Refreshes, Start(r),
         UNCHANGED <<happened, cursors, savedCursors, motionHistory>>
  PROVE  NothingIsEarly' /\ AsksInOrder'
<1> DEFINE begun == [NoRefresh EXCEPT !.pc = "capabilities", !.previous = cursors, !.todo = targets']
           record == IF targets' = {} THEN NoRefresh ELSE begun
<1>1. refresh' = [refresh EXCEPT ![r] = record] /\ batch' = Empty
  BY DEF Start
<1>2. /\ begun.pc = "capabilities" /\ begun.previous = cursors /\ begun.now = NoRefresh.now
      /\ begun.saving = NoRefresh.saving /\ begun.camera = NoRefresh.camera
      /\ begun.read = NoRefresh.read
  BY DEF NoRefresh
<1>3. record \in {NoRefresh, begun}
  OBVIOUS
<1> HIDE DEF begun, record
<1>4. ASSUME NEW c \in Cameras
      PROVE  /\ cursors'[c] <= happened'[c] /\ savedCursors'[c] <= happened'[c]
             /\ \A q \in Refreshes :
                  /\ refresh'[q].previous[c] <= happened'[c] /\ refresh'[q].now[c] <= happened'[c]
                  /\ refresh'[q].saving[c] <= happened'[c]
                  /\ refresh'[q].camera = c => refresh'[q].read <= happened'[c]
             /\ \A i \in Numbers : i \in batch'[c] \/ published'[c][i] > 0 => i <= happened'[c]
  <2>1. cursors[c] <= happened[c] /\ savedCursors[c] <= happened[c]
    BY DEF NothingIsEarly
  <2>2. record.previous[c] <= happened[c] /\ record.now[c] <= happened[c]
        /\ record.saving[c] <= happened[c] /\ (record.camera = c => record.read <= happened[c])
    BY <1>2, <1>3, <2>1, EmptyRecord
  <2>3. \A q \in Refreshes :
          /\ refresh'[q].previous[c] <= happened'[c] /\ refresh'[q].now[c] <= happened'[c]
          /\ refresh'[q].saving[c] <= happened'[c]
          /\ refresh'[q].camera = c => refresh'[q].read <= happened'[c]
    BY <1>1, <2>2, RecordsBehind
  <2>4. \A i \in Numbers : i \in batch'[c] \/ published'[c][i] > 0 => i <= happened'[c]
    BY <1>1 DEF NothingIsEarly, Empty, motionHistory
  <2> QED
    BY <2>1, <2>3, <2>4
<1>5. NothingIsEarly'
  BY <1>4 DEF NothingIsEarly
<1>6. record.pc # "report"
  BY <1>2, <1>3 DEF NoRefresh
<1>7. AsksInOrder'
  BY <1>1, <1>6 DEF AsksInOrder, MotionTypeOK
<1> QED
  BY <1>5, <1>7

\* A refresh that goes on: what becomes of it, and of the rest.
LEMMA GoesOnBehind ==
  ASSUME MotionTypeOK, MotionTypeOK', NothingIsEarly, AsksInOrder, NEW r \in Refreshes,
         UNCHANGED happened, NEW record, refresh' = [refresh EXCEPT ![r] = record],
         record.pc = "report" =>
           /\ record.camera \in Cameras \ record.todo
           /\ \A c \in Cameras : record.previous[c] <= record.now[c],
         \A c \in Cameras :
           /\ cursors'[c] <= happened[c] /\ savedCursors'[c] <= happened[c]
           /\ record.previous[c] <= happened[c] /\ record.now[c] <= happened[c]
           /\ record.saving[c] <= happened[c]
           /\ record.camera = c => record.read <= happened[c],
         \A c \in Cameras, i \in Numbers :
            i \in batch'[c] \/ published'[c][i] > 0 => i <= happened[c]
  PROVE  NothingIsEarly' /\ AsksInOrder'
<1>1. ASSUME NEW c \in Cameras
      PROVE  \A q \in Refreshes :
               /\ refresh'[q].previous[c] <= happened'[c] /\ refresh'[q].now[c] <= happened'[c]
               /\ refresh'[q].saving[c] <= happened'[c]
               /\ refresh'[q].camera = c => refresh'[q].read <= happened'[c]
  BY RecordsBehind
<1>2. ASSUME NEW c \in Cameras
      PROVE  /\ cursors'[c] <= happened'[c] /\ savedCursors'[c] <= happened'[c]
             /\ \A i \in Numbers : i \in batch'[c] \/ published'[c][i] > 0 => i <= happened'[c]
  OBVIOUS
<1>3. NothingIsEarly'
  BY <1>1, <1>2 DEF NothingIsEarly
<1>4. ASSUME NEW q \in Refreshes PROVE refresh'[q] = IF q = r THEN record ELSE refresh[q]
  BY DEF MotionTypeOK
<1>5. AsksInOrder'
  BY <1>4 DEF AsksInOrder
<1> QED
  BY <1>3, <1>5

\* What is in the batch or was published, after the listeners.
LEMMA PublishesBehind ==
  ASSUME MotionTypeOK, NothingIsEarly, PublishMotion, NEW c \in Cameras, NEW i \in Numbers,
         published'[c][i] > 0
  PROVE  i <= happened[c]
<1>1. published'[c][i] \in {published[c][i], published[c][i] + 1}
      /\ (published'[c][i] # published[c][i] => i \in batch[c])
  BY Publishes
<1> QED
  BY <1>1 DEF NothingIsEarly

LEMMA AdvancesBehind ==
  ASSUME MotionTypeOK, MotionTypeOK', NothingIsEarly, AsksInOrder, NEW r \in Refreshes, Advances(r)
  PROVE  NothingIsEarly' /\ AsksInOrder'
<1>0. refresh[r] \in RefreshRecord
  BY DEF MotionTypeOK
<1>n. NoRefresh.pc # "report" /\ \A c \in Cameras :
        /\ NoRefresh.previous[c] <= happened[c] /\ NoRefresh.now[c] <= happened[c]
        /\ NoRefresh.saving[c] <= happened[c]
        /\ NoRefresh.camera = c => NoRefresh.read <= happened[c]
  BY EmptyRecord DEF NoRefresh
<1>e. \A c \in Cameras :
        /\ cursors[c] <= happened[c] /\ savedCursors[c] <= happened[c]
        /\ refresh[r].previous[c] <= happened[c] /\ refresh[r].now[c] <= happened[c]
        /\ refresh[r].saving[c] <= happened[c] /\ Forgotten[c] <= happened[c]
        /\ refresh[r].camera = c => refresh[r].read <= happened[c]
  BY EmptyRecord DEF NothingIsEarly
<1>1. ASSUME Capabilities(r) PROVE NothingIsEarly' /\ AsksInOrder'
  <2>1. PICK supported \in SUBSET refresh[r].todo :
          cursors' = cursors /\ Asks(r, happened, supported \cap targets)
    BY <1>1 DEF Capabilities
  <2>2. supported \cap targets \in SUBSET Cameras /\ happened \in [Cameras -> NoCursor..MaxEvents]
    BY MotionBounds DEF MotionTypeOK, NoCursor
  <2>3. cursors' \in [Cameras -> NoCursor..MaxEvents]
    BY <2>1 DEF MotionTypeOK
  <2>4. PICK record \in RefreshRecord :
           /\ refresh' = [refresh EXCEPT ![r] = record]
           /\ record.previous = refresh[r].previous
           /\ \/ record.pc = "save" /\ record.saving = cursors' /\ record.read = NoCursor
              \/ /\ record.pc = "success" /\ cursors' = refresh[r].previous
                 /\ record.read = NoCursor
              \/ /\ record.pc = "report" /\ record.camera \in supported \cap targets
                 /\ record.todo = (supported \cap targets) \ {record.camera}
                 /\ record.now = happened /\ record.read = cursors'[record.camera]
           /\ record.now \in {happened, Forgotten}
           /\ record.saving \in {refresh[r].saving, cursors'}
    BY ONLY <2>1, <2>2, <2>3, AsksAgain, MotionTypeOK
  <2>5. record.pc = "report" =>
           /\ record.camera \in Cameras \ record.todo
           /\ \A c \in Cameras : record.previous[c] <= record.now[c]
    BY <1>e, <2>2, <2>4
  <2>6. ASSUME NEW c \in Cameras
        PROVE  /\ cursors'[c] <= happened[c] /\ savedCursors'[c] <= happened[c]
               /\ record.previous[c] <= happened[c] /\ record.now[c] <= happened[c]
               /\ record.saving[c] <= happened[c]
               /\ record.camera = c => record.read <= happened[c]
    <3>1. happened[c] \in Nat /\ NoCursor = -1 /\ savedCursors' = savedCursors
      BY <1>1, Points DEF NoCursor, Capabilities
    <3> QED
      BY <1>e, <2>1, <2>4, <3>1
  <2>7. \A c \in Cameras, i \in Numbers : i \in batch'[c] \/ published'[c][i] > 0 => i <= happened[c]
    BY <1>1 DEF Capabilities, motionHistory, NothingIsEarly
  <2>8. UNCHANGED happened
    BY <1>1 DEF Capabilities
  <2> QED
    BY <2>4, <2>5, <2>6, <2>7, <2>8, GoesOnBehind
<1>2. ASSUME Report(r) PROVE NothingIsEarly' /\ AsksInOrder'
  <2>1. /\ refresh[r].pc = "report" /\ refresh[r].camera \in Cameras
        /\ UNCHANGED <<happened, savedCursors, published>>
        /\ \A c \in Cameras : refresh[r].previous[c] <= refresh[r].now[c]
    BY <1>2 DEF Report, AsksInOrder
  <2>2. PICK c \in Cameras : c = refresh[r].camera
    BY <2>1
  <2>3. PICK now \in Int : now = refresh[r].now[c]
    BY Points
  <2>4. PICK read \in Int : read = refresh[r].read
    BY <2>2, Points
  <2>5. /\ Asks(r, refresh[r].now, refresh[r].todo)
        /\ cursors' \in [Cameras -> NoCursor..MaxEvents]
        /\ cursors'[c] = Later(read, now)
        /\ \A i \in Numbers : i \in batch'[c] /\ i \notin batch[c] => i <= now
        /\ \A d \in Cameras \ {c} : cursors'[d] = cursors[d] /\ batch'[d] = batch[d]
    BY <1>2, <2>2, <2>3, <2>4, Reports
  <2>6. refresh[r].todo \in SUBSET Cameras /\ refresh[r].now \in [Cameras -> NoCursor..MaxEvents]
    BY <1>0 DEF RefreshRecord
  <2>7. PICK record \in RefreshRecord :
           /\ refresh' = [refresh EXCEPT ![r] = record]
           /\ record.previous = refresh[r].previous
           /\ \/ record.pc = "save" /\ record.saving = cursors' /\ record.read = NoCursor
              \/ /\ record.pc = "success" /\ cursors' = refresh[r].previous
                 /\ record.read = NoCursor
              \/ /\ record.pc = "report" /\ record.camera \in refresh[r].todo
                 /\ record.todo = refresh[r].todo \ {record.camera}
                 /\ record.now = refresh[r].now /\ record.read = cursors'[record.camera]
           /\ record.now \in {refresh[r].now, Forgotten}
           /\ record.saving \in {refresh[r].saving, cursors'}
    BY ONLY <2>5, <2>6, AsksAgain, MotionTypeOK
  <2>8. \A d \in Cameras : cursors'[d] <= happened[d]
    BY <1>e, <2>2, <2>3, <2>4, <2>5 DEF Later
  <2>9. record.pc = "report" =>
           /\ record.camera \in Cameras \ record.todo
           /\ \A d \in Cameras : record.previous[d] <= record.now[d]
    BY <2>1, <2>6, <2>7
  <2>10. ASSUME NEW d \in Cameras
         PROVE  /\ cursors'[d] <= happened[d] /\ savedCursors'[d] <= happened[d]
                /\ record.previous[d] <= happened[d] /\ record.now[d] <= happened[d]
                /\ record.saving[d] <= happened[d]
                /\ record.camera = d => record.read <= happened[d]
    <3>1. happened[d] \in Nat /\ NoCursor = -1
      BY Points DEF NoCursor
    <3> QED
      BY <1>e, <2>1, <2>7, <2>8, <3>1
  <2>11. ASSUME NEW d \in Cameras, NEW i \in Numbers
         PROVE  i \in batch'[d] \/ published'[d][i] > 0 => i <= happened[d]
    <3>1. i \in batch[d] \/ published[d][i] > 0 => i <= happened[d]
      BY DEF NothingIsEarly
    <3>2. i \in Int /\ happened[d] \in Int /\ (d = c => now <= happened[d])
      BY <1>e, <2>3, Points
    <3>3. d # c => batch'[d] = batch[d]
      BY <2>5
    <3>4. d = c /\ i \in batch'[d] => i \in batch[d] \/ i <= now
      BY <2>5
    <3> QED
      BY <2>1, <3>1, <3>2, <3>3, <3>4
  <2> QED
    BY <2>1, <2>7, <2>9, <2>10, <2>11, GoesOnBehind
<1>3. ASSUME SaveCursors(r) PROVE NothingIsEarly' /\ AsksInOrder'
  <2> DEFINE record == [refresh[r] EXCEPT !.pc = "success", !.saving = Forgotten]
  <2>1. /\ record.pc = "success" /\ record.previous = refresh[r].previous
        /\ record.now = refresh[r].now /\ record.saving = Forgotten
        /\ record.camera = refresh[r].camera /\ record.read = refresh[r].read
    BY <1>0 DEF RefreshRecord
  <2>2. refresh' = [refresh EXCEPT ![r] = record]
    BY <1>0, <1>3 DEF SaveCursors, MotionTypeOK, RefreshRecord
  <2> HIDE DEF record
  <2>3. savedCursors' = refresh[r].saving /\ UNCHANGED <<happened, cursors, batch, published>>
    BY <1>3 DEF SaveCursors, motionHistory
  <2>4. \A c \in Cameras, i \in Numbers : i \in batch'[c] \/ published'[c][i] > 0 => i <= happened[c]
    BY <2>3 DEF NothingIsEarly
  <2> QED
    BY <1>e, <2>1, <2>2, <2>3, <2>4, GoesOnBehind
<1>4. ASSUME Succeed(r) PROVE NothingIsEarly' /\ AsksInOrder'
  <2>1. /\ refresh' = [refresh EXCEPT ![r] = NoRefresh] /\ PublishMotion
        /\ UNCHANGED <<happened, cursors, savedCursors, batch>>
    BY <1>4 DEF Succeed
  <2>2. \A c \in Cameras, i \in Numbers : i \in batch'[c] \/ published'[c][i] > 0 => i <= happened[c]
    BY <2>1, PublishesBehind DEF NothingIsEarly
  <2> QED
    BY <1>n, <1>e, <2>1, <2>2, GoesOnBehind
<1>5. ASSUME RollBack(r) PROVE NothingIsEarly' /\ AsksInOrder'
  <2>1. /\ refresh' = [refresh EXCEPT ![r] = NoRefresh] /\ batch' = Empty
        /\ cursors' = refresh[r].previous
        /\ UNCHANGED <<happened, savedCursors, published>>
    BY <1>5 DEF RollBack, motionHistory
  <2>2. \A c \in Cameras, i \in Numbers : i \in batch'[c] \/ published'[c][i] > 0 => i <= happened[c]
    BY <2>1 DEF NothingIsEarly, Empty
  <2> QED
    BY <1>n, <1>e, <2>1, <2>2, GoesOnBehind
<1>6. ASSUME Breaks(r) PROVE NothingIsEarly' /\ AsksInOrder'
  <2>1. /\ refresh' = [refresh EXCEPT ![r] = NoRefresh]
        /\ PublishMotion \/ UNCHANGED published
        /\ UNCHANGED <<happened, cursors, savedCursors, batch>>
    BY <1>6 DEF Breaks, motionHistory
  <2>2. \A c \in Cameras, i \in Numbers : i \in batch'[c] \/ published'[c][i] > 0 => i <= happened[c]
    BY <2>1, PublishesBehind DEF NothingIsEarly
  <2> QED
    BY <1>n, <1>e, <2>1, <2>2, GoesOnBehind
<1> QED
  BY <1>1, <1>2, <1>3, <1>4, <1>5, <1>6 DEF Advances

\* Every step.
LEMMA StepsBehind ==
  ASSUME MotionTypeOK, MotionTypeOK', NothingIsEarly, AsksInOrder, [MotionNext]_motionVars
  PROVE  NothingIsEarly' /\ AsksInOrder'
<1>1. ASSUME Initialize PROVE NothingIsEarly' /\ AsksInOrder'
  <2> DEFINE record == [NoRefresh EXCEPT
                          !.pc = IF source = {} THEN "success" ELSE "capabilities",
                          !.previous = cursors', !.todo = source]
  <2>1. /\ record.pc # "report" /\ record.previous = cursors' /\ record.now = NoRefresh.now
        /\ record.saving = NoRefresh.saving /\ record.camera = NoRefresh.camera
        /\ record.read = NoRefresh.read
    BY DEF NoRefresh
  <2>2. refresh' = [refresh EXCEPT !["poll"] = record] /\ "poll" \in Refreshes
    BY <1>1 DEF Initialize, Refreshes
  <2> HIDE DEF record
  <2>3. cursors' \in {savedCursors, Forgotten}
        /\ UNCHANGED <<happened, savedCursors, batch, published>>
    BY <1>1 DEF Initialize
  <2>4. ASSUME NEW c \in Cameras
        PROVE  cursors'[c] <= happened[c] /\ savedCursors'[c] <= happened[c]
    BY <2>3, EmptyRecord DEF NothingIsEarly
  <2>5. \A c \in Cameras, i \in Numbers : i \in batch'[c] \/ published'[c][i] > 0 => i <= happened[c]
    BY <2>3 DEF NothingIsEarly
  <2>6. \A c \in Cameras :
           /\ record.previous[c] <= happened[c] /\ record.now[c] <= happened[c]
           /\ record.saving[c] <= happened[c]
           /\ record.camera = c => record.read <= happened[c]
    BY <2>1, <2>4, EmptyRecord
  <2> QED
    BY <2>1, <2>2, <2>3, <2>4, <2>5, <2>6, GoesOnBehind
<1>2. ASSUME UNCHANGED <<happened, refresh, cursors, savedCursors, batch, published>>
      PROVE  NothingIsEarly' /\ AsksInOrder'
  BY <1>2 DEF NothingIsEarly, AsksInOrder
<1>3. ASSUME Reconcile PROVE NothingIsEarly' /\ AsksInOrder'
  <2>1. UNCHANGED <<happened, cursors, savedCursors, motionHistory>>
        /\ (UNCHANGED <<refresh, batch>> \/ Start("sync"))
    BY <1>3 DEF Reconcile
  <2>2. CASE Start("sync")
    BY <2>1, <2>2, StartsBehind DEF Refreshes
  <2>3. CASE UNCHANGED <<refresh, batch>>
    BY <1>2, <2>1, <2>3 DEF motionHistory
  <2> QED
    BY <2>1, <2>2, <2>3
<1>4. ASSUME Poll PROVE NothingIsEarly' /\ AsksInOrder'
  BY <1>4, StartsBehind DEF Poll, Refreshes
<1>5. ASSUME UnloadMotion PROVE NothingIsEarly' /\ AsksInOrder'
  <2>1. /\ refresh' = [r \in Refreshes |-> NoRefresh] /\ batch' = Empty /\ cursors' = Forgotten
        /\ UNCHANGED <<happened, savedCursors, published>>
    BY <1>5 DEF UnloadMotion
  <2>2. ASSUME NEW c \in Cameras
        PROVE  /\ cursors'[c] <= happened'[c] /\ savedCursors'[c] <= happened'[c]
               /\ \A q \in Refreshes :
                    /\ refresh'[q].previous[c] <= happened'[c] /\ refresh'[q].now[c] <= happened'[c]
                    /\ refresh'[q].saving[c] <= happened'[c]
                    /\ refresh'[q].camera = c => refresh'[q].read <= happened'[c]
               /\ \A i \in Numbers : i \in batch'[c] \/ published'[c][i] > 0 => i <= happened'[c]
    BY <2>1, EmptyRecord DEF NothingIsEarly, Empty
  <2>3. NothingIsEarly'
    BY <2>2 DEF NothingIsEarly
  <2>4. AsksInOrder'
    BY <2>1 DEF AsksInOrder, NoRefresh
  <2> QED
    BY <2>3, <2>4
<1>6. ASSUME Motion PROVE NothingIsEarly' /\ AsksInOrder'
  <2>1. UNCHANGED <<refresh, cursors, savedCursors, batch, published>>
    BY <1>6 DEF Motion, motionHistory
  <2>2. \A c \in Cameras : happened[c] <= happened'[c] /\ happened[c] \in Int /\ happened'[c] \in Int
    BY <1>6 DEF Motion, MotionTypeOK
  <2>3. ASSUME NEW c \in Cameras
        PROVE  /\ cursors'[c] <= happened'[c] /\ savedCursors'[c] <= happened'[c]
               /\ \A q \in Refreshes :
                    /\ refresh'[q].previous[c] <= happened'[c] /\ refresh'[q].now[c] <= happened'[c]
                    /\ refresh'[q].saving[c] <= happened'[c]
                    /\ refresh'[q].camera = c => refresh'[q].read <= happened'[c]
               /\ \A i \in Numbers : i \in batch'[c] \/ published'[c][i] > 0 => i <= happened'[c]
    BY <2>1, <2>2, Points DEF NothingIsEarly
  <2>4. NothingIsEarly'
    BY <2>3 DEF NothingIsEarly
  <2>5. AsksInOrder'
    BY <2>1 DEF AsksInOrder
  <2> QED
    BY <2>4, <2>5
<1>7. ASSUME NEW r \in Refreshes, Advances(r) PROVE NothingIsEarly' /\ AsksInOrder'
  BY <1>7, AdvancesBehind
<1>8. Changes \/ Reconciled \/ UNCHANGED motionVars =>
        UNCHANGED <<happened, refresh, cursors, savedCursors, batch, published>>
  BY DEF Changes, Reconciled, motionVars, motionHistory
<1> QED
  BY <1>1, <1>2, <1>3, <1>4, <1>5, <1>6, <1>7, <1>8 DEF MotionNext, MotionSteps
-----------------------------------------------------------------------------
(* Each step keeps the events that are not doubtful.                       *)

\* What was true of such an event, and the values about it.
LEMMA SureBefore ==
  ASSUME MotionTypeOK, MotionTypeOK', Kept, Doubt, NEW c \in Cameras, NEW i \in Sure(c)'
  PROVE  /\ i \in Sure(c) /\ i \in Numbers /\ EventIsKept(c, i) /\ OnceAndSaved(c, i)
         /\ i \in Nat /\ i >= 1 /\ NoCursor = -1
         /\ published[c][i] \in Nat /\ published'[c][i] \in Nat
         /\ cursors[c] \in Int /\ cursors'[c] \in Int
         /\ savedCursors[c] \in Int /\ savedCursors'[c] \in Int
         /\ cursors[c] <= happened[c] /\ savedCursors[c] <= happened[c] /\ happened[c] \in Int
         /\ (i \in batch[c] \/ published[c][i] > 0 => i <= happened[c])
<1>1. i \in Sure(c) /\ i \in Numbers
  BY Sureness
<1>2. EventIsKept(c, i) /\ OnceAndSaved(c, i)
  BY <1>1 DEF Kept
<1>3. /\ cursors'[c] \in NoCursor..MaxEvents /\ savedCursors'[c] \in NoCursor..MaxEvents
      /\ published'[c][i] \in Nat
  BY <1>1 DEF MotionTypeOK
<1>4. /\ i \in Nat /\ i >= 1 /\ published[c][i] \in Nat
      /\ cursors[c] \in Int /\ savedCursors[c] \in Int /\ happened[c] \in Int
  BY <1>1, Points
<1>5. /\ cursors[c] <= happened[c] /\ savedCursors[c] <= happened[c]
      /\ (i \in batch[c] \/ published[c][i] > 0 => i <= happened[c])
  BY <1>1 DEF Kept, NothingIsEarly
<1> QED
  BY <1>1, <1>2, <1>3, <1>4, <1>5, MotionBounds DEF NoCursor

\* With two refreshes under way it is not in the batch.
LEMMA NotOfTwo ==
  ASSUME MotionTypeOK, Kept, NEW c \in Cameras, NEW i \in Sure(c),
         NEW r \in Refreshes, NEW q \in Refreshes, q # r, Busy(r), Busy(q)
  PROVE  i \notin batch[c]
<1>1. Overlap
  BY DEF Overlap, Refreshes
<1>2. EventIsKept(c, i) /\ i \in Numbers
  BY DEF Kept, Sure
<1>3. i \in batch[c] => i <= happened[c]
  BY <1>2 DEF Kept, NothingIsEarly
<1> QED
  BY <1>1, <1>2, <1>3 DEF EventIsKept, KeepsBehind

\* What moves none of it.
LEMMA OthersKeep ==
  ASSUME MotionTypeOK, MotionTypeOK', Kept, Doubt,
         UNCHANGED <<refresh, cursors, savedCursors, batch, motionHistory>>,
         NEW c \in Cameras, NEW i \in Sure(c)'
  PROVE  EventIsKept(c, i)' /\ OnceAndSaved(c, i)'
<1>1. EventIsKept(c, i) /\ OnceAndSaved(c, i)
  BY SureBefore
<1>2. Overlap' /\ i <= happened'[c] => \A r \in Refreshes : i <= refresh'[r].previous[c]
  BY Sureness
<1>3. \A r \in Refreshes :
        /\ KeepsBehind(r, c, i) <=> KeepsBehind(r, c, i)'
        /\ AsksForNew(r, c, i) <=> AsksForNew(r, c, i)'
        /\ SavesWhatIs(r, c, i) <=> SavesWhatIs(r, c, i)'
        /\ Busy(r) <=> Busy(r)'
  BY DEF KeepsBehind, AsksForNew, SavesWhatIs, Sound, Accounted, Busy, motionHistory
<1>4. /\ Sound(cursors, c, i) <=> Sound(cursors, c, i)'
      /\ Sound(savedCursors, c, i) <=> Sound(savedCursors, c, i)'
      /\ Accounted(c, i) <=> Accounted(c, i)'
  BY DEF Sound, Accounted, motionHistory
<1>5. EventIsKept(c, i)'
  BY <1>1, <1>2, <1>3, <1>4 DEF EventIsKept, motionHistory
<1>6. OnceAndSaved(c, i)'
  BY <1>1, <1>4 DEF OnceAndSaved, motionHistory
<1> QED
  BY <1>5, <1>6

LEMMA InitializeKeeps ==
  ASSUME MotionTypeOK, MotionTypeOK', Lives, Kept, Doubt, Initialize,
         NEW c \in Cameras, NEW i \in Sure(c)'
  PROVE  EventIsKept(c, i)' /\ OnceAndSaved(c, i)'
<1> DEFINE record == [NoRefresh EXCEPT
                        !.pc = IF source = {} THEN "success" ELSE "capabilities",
                        !.previous = cursors', !.todo = source]
<1>1. /\ EventIsKept(c, i) /\ OnceAndSaved(c, i)
      /\ i \in Nat /\ i >= 1 /\ NoCursor = -1 /\ published[c][i] \in Nat /\ savedCursors[c] \in Int
  BY SureBefore
<1>2. /\ ~Busy("sync") /\ ~Busy("poll") /\ batch = Empty
      /\ \A q \in Refreshes : refresh[q].pc = "none"
  BY DEF Initialize, Lives, Busy, Refreshes
<1>3. /\ refresh' = [refresh EXCEPT !["poll"] = record]
      /\ UNCHANGED <<happened, savedCursors, batch, published>>
      /\ cursors' = savedCursors \/ cursors' = Forgotten
      /\ excused'[c] = excused[c] \/ excused'[c] = excused[c] \cup (1..happened[c])
  BY DEF Initialize
<1>4. record.pc \in {"success", "capabilities"} /\ record.previous = cursors'
  BY DEF NoRefresh
<1> HIDE DEF record
<1>5. refresh'["poll"] = record /\ refresh'["sync"].pc = "none"
  BY <1>2, <1>3 DEF MotionTypeOK, Refreshes, Busy
<1>6. /\ i \notin batch'[c] /\ Forgotten[c] = -1 /\ (Accounted(c, i) => Accounted(c, i)')
      /\ published'[c][i] = published[c][i]
  BY <1>2, <1>3 DEF Empty, Accounted, Forgotten, NoCursor
<1>7. Sound(savedCursors, c, i)' /\ Sound(cursors, c, i)'
  BY <1>1, <1>3, <1>6 DEF Sound, EventIsKept
<1>8. i <= cursors'[c] \/ i <= savedCursors'[c] => Accounted(c, i)'
  BY <1>1, <1>2, <1>3, <1>6 DEF OnceAndSaved
<1>9. KeepsBehind("poll", c, i)'
  BY <1>4, <1>5, <1>6, <1>7, <1>8 DEF KeepsBehind, Sound
<1>10. AsksForNew("poll", c, i)'
  BY <1>4, <1>5 DEF AsksForNew
<1>11. SavesWhatIs("poll", c, i)'
  BY <1>4, <1>5, <1>6 DEF SavesWhatIs
<1>12. ~Overlap' /\ ~Busy("sync")'
  BY <1>5 DEF Overlap, Busy, Refreshes
<1>13. EventIsKept(c, i)'
  BY <1>6, <1>7, <1>8, <1>9, <1>10, <1>11, <1>12 DEF EventIsKept, Refreshes
<1>14. OnceAndSaved(c, i)'
  BY <1>1, <1>6, <1>8 DEF OnceAndSaved
<1> QED
  BY <1>13, <1>14

LEMMA UnloadKeeps ==
  ASSUME MotionTypeOK, MotionTypeOK', Kept, Doubt, UnloadMotion,
         NEW c \in Cameras, NEW i \in Sure(c)'
  PROVE  EventIsKept(c, i)' /\ OnceAndSaved(c, i)'
<1>1. /\ EventIsKept(c, i) /\ OnceAndSaved(c, i) /\ i \in Numbers
      /\ i \in Nat /\ i >= 1 /\ NoCursor = -1 /\ published[c][i] \in Nat
  BY SureBefore
<1>2. /\ refresh' = [r \in Refreshes |-> NoRefresh] /\ batch' = Empty /\ cursors' = Forgotten
      /\ excused'[c] = excused[c] \cup {j \in batch[c] : \E r \in Refreshes : refresh[r].pc = "success"}
      /\ UNCHANGED <<savedCursors, published>>
  BY DEF UnloadMotion
<1>3. /\ cursors'[c] = -1 /\ i \notin batch'[c] /\ published'[c][i] = published[c][i]
      /\ \A r \in Refreshes : ~Busy(r)'
  BY <1>2 DEF Forgotten, Empty, Busy, NoRefresh, NoCursor
<1>4. Sound(savedCursors, c, i)' /\ Sound(cursors, c, i)'
  BY <1>1, <1>2, <1>3 DEF Sound, EventIsKept
<1>5. i <= savedCursors'[c] => Accounted(c, i)'
  BY <1>1, <1>2 DEF OnceAndSaved, Accounted
<1>6. ~Overlap'
  BY <1>3 DEF Overlap, Refreshes
<1>7. EventIsKept(c, i)'
  BY <1>1, <1>3, <1>4, <1>6 DEF EventIsKept
<1>8. OnceAndSaved(c, i)'
  BY <1>1, <1>3, <1>5 DEF OnceAndSaved
<1> QED
  BY <1>7, <1>8

\* A start clears the batch: what is sure was not in the batch of the other refresh.
LEMMA StartKeeps ==
  ASSUME MotionTypeOK, MotionTypeOK', Kept, NothingIsEarly', Doubt, NEW r \in Refreshes, Start(r),
         UNCHANGED <<happened, cursors, savedCursors, motionHistory>>,
         NEW c \in Cameras, NEW i \in Sure(c)'
  PROVE  EventIsKept(c, i)' /\ OnceAndSaved(c, i)'
<1> DEFINE begun == [NoRefresh EXCEPT !.pc = "capabilities", !.previous = cursors, !.todo = targets']
<1>1. /\ EventIsKept(c, i) /\ OnceAndSaved(c, i) /\ i \in Numbers /\ i \in Nat /\ cursors[c] \in Int
      /\ Overlap' /\ i <= happened'[c] => \A q \in Refreshes : i <= refresh'[q].previous[c]
  BY SureBefore, Sureness
<1>2. /\ refresh[r].pc = "none" /\ batch' = Empty /\ i \notin batch'[c]
      /\ refresh' = [refresh EXCEPT ![r] = IF targets' = {} THEN NoRefresh ELSE begun]
  BY DEF Start, Empty
<1>3. begun.pc = "capabilities" /\ begun.previous = cursors /\ NoRefresh.pc = "none"
  BY DEF NoRefresh
<1> HIDE DEF begun
<1>4. /\ refresh'[r] \in {NoRefresh, begun}
      /\ \A q \in Refreshes : q # r => refresh'[q] = refresh[q]
  BY <1>2 DEF MotionTypeOK
<1>5. i \in batch[c] => \A q \in Refreshes : ~Busy(q)
  BY <1>2, <1>4, Sureness DEF Busy
<1>6. i <= cursors[c] => Accounted(c, i)
  BY <1>1, <1>5 DEF EventIsKept
<1>7. /\ Sound(cursors, c, i)' /\ Sound(savedCursors, c, i)'
      /\ Accounted(c, i) <=> Accounted(c, i)'
      /\ UNCHANGED <<happened, cursors, savedCursors, published>>
  BY <1>1 DEF EventIsKept, Sound, Accounted, motionHistory
<1>8. ASSUME NEW q \in Refreshes, Busy(q)'
      PROVE  KeepsBehind(q, c, i)' /\ AsksForNew(q, c, i)' /\ SavesWhatIs(q, c, i)'
  <2>1. CASE q = r
    <3>1. refresh'[q] = begun
      BY <1>3, <1>4, <1>8, <2>1 DEF Busy
    <3>2. KeepsBehind(q, c, i)'
      BY <1>2, <1>3, <1>6, <1>7, <3>1 DEF KeepsBehind, Sound
    <3>3. AsksForNew(q, c, i)'
      BY <1>3, <1>7, <3>1 DEF AsksForNew
    <3>4. SavesWhatIs(q, c, i)'
      BY <1>3, <3>1 DEF SavesWhatIs
    <3> QED
      BY <3>2, <3>3, <3>4
  <2>2. CASE q # r
    <3>1. refresh'[q] = refresh[q] /\ Busy(q)
      BY <1>4, <1>8, <2>2 DEF Busy
    <3>2. KeepsBehind(q, c, i) /\ AsksForNew(q, c, i) /\ SavesWhatIs(q, c, i)
      BY <1>1, <3>1 DEF EventIsKept
    <3>3. KeepsBehind(q, c, i)'
      BY <1>2, <1>7, <3>1, <3>2 DEF KeepsBehind, Sound
    <3>4. AsksForNew(q, c, i)'
      BY <1>7, <3>1, <3>2 DEF AsksForNew
    <3>5. SavesWhatIs(q, c, i)'
      BY <1>2, <1>7, <3>1, <3>2 DEF SavesWhatIs, Sound
    <3> QED
      BY <3>3, <3>4, <3>5
  <2> QED
    BY <2>1, <2>2
<1>9. EventIsKept(c, i)'
  <2>1. i <= cursors'[c] => Accounted(c, i)'
    BY <1>6, <1>7
  <2> QED
    BY ONLY <1>1, <1>2, <1>7, <1>8, <2>1 DEF EventIsKept
<1>10. OnceAndSaved(c, i)'
  <2>1. i <= savedCursors[c] => Accounted(c, i)
    BY <1>1, <1>5 DEF OnceAndSaved, Busy
  <2> QED
    BY <1>1, <1>7, <2>1 DEF OnceAndSaved
<1> QED
  BY <1>9, <1>10
-----------------------------------------------------------------------------
\* A refresh that asks for the next camera, or has no other to ask for: what it began
\* behind is behind the cursors, and what is new is ahead of those it asks for.
LEMMA AskingKeeps ==
  ASSUME MotionTypeOK, MotionTypeOK', NEW r \in Refreshes, NEW record,
         refresh' = [refresh EXCEPT ![r] = record], NEW previous, record.previous = previous,
         NEW now, NEW todo \in SUBSET Cameras,
         \/ record.pc = "save" /\ record.saving = cursors'
         \/ record.pc = "success" /\ cursors' = previous
         \/ /\ record.pc = "report" /\ record.camera \in todo
            /\ record.todo = todo \ {record.camera} /\ record.now = now
            /\ record.read = cursors'[record.camera],
         NEW c \in Cameras, NEW i \in Numbers,
         Sound(previous, c, i)', Sound(cursors, c, i)',
         i <= previous[c] => Accounted(c, i)' /\ i <= cursors'[c] /\ i \notin batch'[c],
         published'[c][i] > 0 => i <= now[c],
         previous[c] < i /\ c \in todo => cursors'[c] < i,
         i \in batch'[c] => i <= cursors'[c]
  PROVE  KeepsBehind(r, c, i)' /\ AsksForNew(r, c, i)' /\ SavesWhatIs(r, c, i)'
<1>1. refresh'[r] = record
  BY DEF MotionTypeOK
<1>2. /\ cursors'[c] \in Int /\ i \in Nat /\ published'[c][i] \in Nat /\ NoCursor = -1
  <2>1. cursors'[c] \in NoCursor..MaxEvents /\ published'[c][i] \in Nat
    BY DEF MotionTypeOK
  <2> QED
    BY <2>1, MotionBounds DEF NoCursor, Numbers
<1>3. KeepsBehind(r, c, i)'
  BY <1>1 DEF KeepsBehind, Sound
<1>4. AsksForNew(r, c, i)'
  BY <1>1, <1>2 DEF AsksForNew, Sound
<1>5. SavesWhatIs(r, c, i)'
  BY <1>1 DEF SavesWhatIs, Sound
<1> QED
  BY <1>3, <1>4, <1>5

LEMMA CapabilitiesKeeps ==
  ASSUME MotionTypeOK, MotionTypeOK', Kept, NothingIsEarly', Doubt, NEW r \in Refreshes,
         Capabilities(r), NEW c \in Cameras, NEW i \in Sure(c)'
  PROVE  EventIsKept(c, i)' /\ OnceAndSaved(c, i)'
<1>1. /\ EventIsKept(c, i) /\ OnceAndSaved(c, i) /\ i \in Numbers /\ i \in Sure(c)
      /\ i \in Nat /\ NoCursor = -1 /\ published[c][i] \in Nat /\ cursors[c] \in Int
      /\ (published[c][i] > 0 => i <= happened[c])
  BY SureBefore
<1>2. PICK supported \in SUBSET refresh[r].todo :
        cursors' = cursors /\ Asks(r, happened, supported \cap targets)
  BY DEF Capabilities
<1>3. supported \cap targets \in SUBSET Cameras /\ happened \in [Cameras -> NoCursor..MaxEvents]
  BY MotionBounds DEF MotionTypeOK, NoCursor
<1>4. cursors' \in [Cameras -> NoCursor..MaxEvents]
  BY <1>2 DEF MotionTypeOK
<1>5. PICK record \in RefreshRecord :
        /\ refresh' = [refresh EXCEPT ![r] = record]
        /\ record.previous = refresh[r].previous
        /\ \/ record.pc = "save" /\ record.saving = cursors' /\ record.read = NoCursor
           \/ /\ record.pc = "success" /\ cursors' = refresh[r].previous
              /\ record.read = NoCursor
           \/ /\ record.pc = "report" /\ record.camera \in supported \cap targets
              /\ record.todo = (supported \cap targets) \ {record.camera}
              /\ record.now = happened /\ record.read = cursors'[record.camera]
  BY ONLY <1>2, <1>3, <1>4, AsksAgain, MotionTypeOK
<1>6. refresh[r].pc = "capabilities"
      /\ UNCHANGED <<happened, cursors, savedCursors, batch, motionHistory>>
  BY <1>2 DEF Capabilities
<1>7. Busy(r) /\ KeepsBehind(r, c, i) /\ AsksForNew(r, c, i)
  BY <1>1, <1>6 DEF EventIsKept, Busy
<1>8. /\ Sound(cursors, c, i)' /\ Sound(savedCursors, c, i)' /\ Sound(refresh[r].previous, c, i)
      /\ (Accounted(c, i) <=> Accounted(c, i)') /\ published' = published
      /\ (i \in batch'[c] => i <= cursors'[c] /\ published'[c][i] = 0)
  BY <1>1, <1>6, <1>7 DEF EventIsKept, Sound, Accounted, motionHistory, KeepsBehind
<1>9. /\ i <= refresh[r].previous[c] => Accounted(c, i)' /\ i <= cursors'[c] /\ i \notin batch'[c]
      /\ refresh[r].previous[c] < i => cursors'[c] < i
      /\ published'[c][i] > 0 => i <= happened[c]
  BY <1>1, <1>6, <1>7, <1>8 DEF KeepsBehind, AsksForNew
<1>10. KeepsBehind(r, c, i)' /\ AsksForNew(r, c, i)' /\ SavesWhatIs(r, c, i)'
  <2>1. PICK previous : previous = refresh[r].previous
    OBVIOUS
  <2>2. PICK todo \in SUBSET Cameras : todo = supported \cap targets
    BY <1>3
  <2>3. /\ \/ record.pc = "save" /\ record.saving = cursors'
           \/ record.pc = "success" /\ cursors' = previous
           \/ /\ record.pc = "report" /\ record.camera \in todo
              /\ record.todo = todo \ {record.camera} /\ record.now = happened
              /\ record.read = cursors'[record.camera]
        /\ record.previous = previous
    BY ONLY <1>5, <2>1, <2>2
  <2>4. /\ Sound(previous, c, i)'
        /\ i <= previous[c] => Accounted(c, i)' /\ i <= cursors'[c] /\ i \notin batch'[c]
        /\ previous[c] < i /\ c \in todo => cursors'[c] < i
    BY <1>8, <1>9, <2>1 DEF Sound
  <2> QED
    BY ONLY <1>1, <1>5, <1>8, <1>9, <2>3, <2>4, AskingKeeps, MotionTypeOK, MotionTypeOK'
<1>11. Busy(r)'
  BY <1>5 DEF MotionTypeOK, Busy
<1>12. i <= cursors'[c] => Accounted(c, i)' \/ (i \in batch'[c] /\ \E q \in Refreshes : Busy(q)')
  BY <1>1, <1>6, <1>8, <1>11 DEF EventIsKept
<1>13. EventIsKept(c, i)'
  BY <1>5, <1>6, <1>7, <1>8, <1>9, <1>10, <1>12, StepOfOne
<1>14. OnceAndSaved(c, i)'
  <2>1. ASSUME NEW q \in Refreshes, refresh[q].pc = "success" PROVE refresh'[q].pc = "success"
    BY <1>5, <1>6, <2>1 DEF MotionTypeOK
  <2> QED
    BY <1>1, <1>6, <1>8, <2>1 DEF OnceAndSaved
<1> QED
  BY <1>13, <1>14

LEMMA ReportKeeps ==
  ASSUME MotionTypeOK, MotionTypeOK', Kept, NothingIsEarly', Doubt, NEW r \in Refreshes,
         Report(r), NEW c \in Cameras, NEW i \in Sure(c)'
  PROVE  EventIsKept(c, i)' /\ OnceAndSaved(c, i)'
<1>1. /\ EventIsKept(c, i) /\ OnceAndSaved(c, i) /\ i \in Numbers /\ i \in Sure(c)
      /\ i \in Nat /\ NoCursor = -1 /\ published[c][i] \in Nat /\ cursors[c] \in Int
      /\ cursors'[c] \in Int
  BY SureBefore
<1>2. /\ refresh[r].pc = "report" /\ refresh[r].camera \in Cameras \ refresh[r].todo
      /\ UNCHANGED <<happened, savedCursors, published>>
      /\ refresh[r] \in RefreshRecord
  BY DEF Report, Kept, AsksInOrder, MotionTypeOK
<1>3. PICK k \in Cameras : k = refresh[r].camera
  BY <1>2
<1>4. PICK now \in Int : now = refresh[r].now[k]
  BY Points
<1>5. PICK read \in Int : read = refresh[r].read
  BY <1>3, Points
<1>6. /\ Asks(r, refresh[r].now, refresh[r].todo)
      /\ cursors' \in [Cameras -> NoCursor..MaxEvents]
      /\ cursors'[k] = Later(read, now)
      /\ /\ i \in batch'[k] /\ i \notin batch[k] => read # NoCursor /\ read < i /\ i <= now
         /\ read # NoCursor /\ read < i /\ i <= now => i \in batch'[k]
         /\ read = NoCursor /\ i <= now => i \in excused'[k]
         /\ i \in excused[k] => i \in excused'[k]
      /\ \A d \in Cameras \ {k} : /\ cursors'[d] = cursors[d] /\ batch'[d] = batch[d]
                                  /\ excused'[d] = excused[d]
  BY <1>1, <1>3, <1>4, <1>5, Reports
<1>7. refresh[r].todo \in SUBSET Cameras /\ refresh[r].now \in [Cameras -> NoCursor..MaxEvents]
  BY <1>2 DEF RefreshRecord
<1>8. PICK record \in RefreshRecord :
        /\ refresh' = [refresh EXCEPT ![r] = record]
        /\ record.previous = refresh[r].previous
        /\ \/ record.pc = "save" /\ record.saving = cursors' /\ record.read = NoCursor
           \/ /\ record.pc = "success" /\ cursors' = refresh[r].previous
              /\ record.read = NoCursor
           \/ /\ record.pc = "report" /\ record.camera \in refresh[r].todo
              /\ record.todo = refresh[r].todo \ {record.camera}
              /\ record.now = refresh[r].now /\ record.read = cursors'[record.camera]
  BY ONLY <1>6, <1>7, AsksAgain, MotionTypeOK
<1>9. Busy(r) /\ KeepsBehind(r, c, i) /\ AsksForNew(r, c, i) /\ Sound(cursors, c, i)
      /\ (i \in batch[c] => i <= cursors[c] /\ published[c][i] = 0)
      /\ (i <= cursors[c] => Accounted(c, i) \/ i \in batch[c])
      /\ Sound(savedCursors, c, i)
  BY <1>1, <1>2 DEF EventIsKept, Busy
<1>10. PICK previous : previous = refresh[r].previous
  OBVIOUS
<1>11. previous[c] \in Int /\ refresh[r].now[c] \in Int
  BY <1>10, Points
<1>12. /\ Sound(previous, c, i) /\ (published[c][i] > 0 => i <= refresh[r].now[c])
       /\ i <= previous[c] => /\ Accounted(c, i) /\ i <= cursors[c] /\ i \notin batch[c]
                              /\ c = k => i <= read
       /\ previous[c] < i /\ c \in refresh[r].todo => cursors[c] < i
       /\ previous[c] < i /\ c = k =>
            cursors[c] < i /\ read < i /\ (read = NoCursor \/ published[c][i] = 0)
  BY <1>2, <1>3, <1>5, <1>9, <1>10 DEF KeepsBehind, AsksForNew
<1>13. Accounted(c, i) => Accounted(c, i)'
  <2>1. i \in excused[c] => i \in excused'[c]
    BY <1>6
  <2> QED
    BY <1>2, <2>1 DEF Accounted
<1>14. /\ Sound(previous, c, i)' /\ Sound(savedCursors, c, i)'
       /\ i <= previous[c] => Accounted(c, i)' /\ i <= cursors'[c] /\ i \notin batch'[c]
       /\ published'[c][i] > 0 => i <= refresh[r].now[c]
       /\ previous[c] < i /\ c \in refresh[r].todo => cursors'[c] < i
       /\ Sound(cursors, c, i)'
       /\ i \in batch'[c] => i <= cursors'[c] /\ published'[c][i] = 0
       /\ i <= cursors'[c] => Accounted(c, i)' \/ i \in batch'[c]
  <2>1. Sound(previous, c, i)' /\ Sound(savedCursors, c, i)'
        /\ (published'[c][i] > 0 => i <= refresh[r].now[c]) /\ published'[c][i] = published[c][i]
    BY <1>2, <1>9, <1>12 DEF Sound
  <2>2. CASE c # k
    <3>1. cursors'[c] = cursors[c] /\ batch'[c] = batch[c]
      BY <1>6, <2>2
    <3>2. Sound(cursors, c, i)'
      BY <1>9, <2>1, <3>1 DEF Sound
    <3> QED
      BY <1>9, <1>12, <1>13, <2>1, <2>2, <3>1, <3>2
  <2>3. CASE c = k
    <3>1. /\ cursors'[c] = Later(read, now) /\ read <= cursors'[c] /\ now <= cursors'[c]
          /\ cursors'[c] \in {read, now} /\ now = refresh[r].now[c]
      BY <1>4, <1>6, <2>3 DEF Later
    <3>2. Sound(cursors, c, i)'
      BY <1>1, <2>1, <3>1 DEF Sound
    <3>3. CASE i <= previous[c]
      <4>1. i <= cursors'[c] /\ i \notin batch'[c]
        BY <1>1, <1>6, <1>12, <2>3, <3>1, <3>3
      <4> QED
        BY <1>2, <1>3, <1>12, <1>13, <2>1, <2>3, <3>2, <3>3, <4>1
    <3>4. CASE previous[c] < i
      <4>1. cursors[c] < i /\ read < i /\ (read = NoCursor \/ published[c][i] = 0) /\ i \notin batch[c]
        BY <1>1, <1>9, <1>12, <2>3, <3>4
      <4>2. i \in batch'[c] => i <= cursors'[c] /\ published'[c][i] = 0
        BY <1>1, <1>6, <2>1, <2>3, <3>1, <4>1
      <4>3. i <= cursors'[c] => i <= now
        BY <1>1, <3>1, <4>1
      <4>4. i <= cursors'[c] => Accounted(c, i)' \/ i \in batch'[c]
        BY <1>6, <2>3, <4>1, <4>3 DEF Accounted
      <4>5. ~ (i <= previous[c])
        BY <1>1, <1>11, <3>4
      <4>6. c \notin refresh[r].todo
        BY <1>2, <1>3, <2>3
      <4> QED
        BY ONLY <2>1, <3>2, <3>4, <4>2, <4>4, <4>5, <4>6
    <3> QED
      BY <1>1, <1>11, <3>3, <3>4
  <2> QED
    BY <2>2, <2>3
<1>15. KeepsBehind(r, c, i)' /\ AsksForNew(r, c, i)' /\ SavesWhatIs(r, c, i)'
  <2>1. PICK todo \in SUBSET Cameras : todo = refresh[r].todo
    BY <1>7
  <2>2. PICK times : times = refresh[r].now
    OBVIOUS
  <2>3. /\ \/ record.pc = "save" /\ record.saving = cursors'
           \/ record.pc = "success" /\ cursors' = previous
           \/ /\ record.pc = "report" /\ record.camera \in todo
              /\ record.todo = todo \ {record.camera} /\ record.now = times
              /\ record.read = cursors'[record.camera]
        /\ record.previous = previous
    BY ONLY <1>8, <1>10, <2>1, <2>2
  <2>4. /\ published'[c][i] > 0 => i <= times[c]
        /\ previous[c] < i /\ c \in todo => cursors'[c] < i
    BY <1>14, <2>1, <2>2
  <2> QED
    BY ONLY <1>1, <1>8, <1>14, <2>3, <2>4, AskingKeeps, MotionTypeOK, MotionTypeOK'
<1>16. Busy(r)'
  BY <1>8 DEF MotionTypeOK, Busy
<1>17. EventIsKept(c, i)'
  <2>1. i <= refresh[r].previous[c] => i <= cursors'[c] /\ i \notin batch'[c]
    BY <1>10, <1>14
  <2>2. Sound(savedCursors, c, i)' /\ Sound(cursors, c, i)'
    BY <1>14
  <2>3. i <= cursors'[c] => Accounted(c, i)' \/ (i \in batch'[c] /\ \E q \in Refreshes : Busy(q)')
    BY <1>14, <1>16
  <2> QED
    BY <1>2, <1>8, <1>9, <1>13, <1>14, <1>15, <2>1, <2>2, <2>3, StepOfOne
<1>18. OnceAndSaved(c, i)'
  <2>1. ASSUME NEW q \in Refreshes, refresh[q].pc = "success" PROVE i \notin batch[c]
    BY <1>1, <1>2, <1>9, <2>1, NotOfTwo DEF Busy
  <2> QED
    BY <1>1, <1>2, <1>13, <2>1 DEF OnceAndSaved
<1> QED
  BY <1>17, <1>18

LEMMA SaveKeeps ==
  ASSUME MotionTypeOK, MotionTypeOK', Kept, NothingIsEarly', Doubt, NEW r \in Refreshes,
         SaveCursors(r), NEW c \in Cameras, NEW i \in Sure(c)'
  PROVE  EventIsKept(c, i)' /\ OnceAndSaved(c, i)'
<1> DEFINE record == [refresh[r] EXCEPT !.pc = "success", !.saving = Forgotten]
<1>1. /\ EventIsKept(c, i) /\ OnceAndSaved(c, i) /\ i \in Numbers /\ i \in Sure(c)
  BY SureBefore
<1>2. refresh[r] \in RefreshRecord /\ refresh[r].pc = "save"
      /\ savedCursors' = refresh[r].saving /\ UNCHANGED <<happened, cursors, batch, motionHistory>>
  BY DEF SaveCursors, MotionTypeOK
<1>3. record.pc = "success" /\ record.previous = refresh[r].previous
  BY <1>2 DEF RefreshRecord
<1>4. refresh' = [refresh EXCEPT ![r] = record]
  BY <1>2 DEF SaveCursors, MotionTypeOK, RefreshRecord
<1> HIDE DEF record
<1>5. refresh'[r] = record /\ Busy(r)'
  BY <1>3, <1>4 DEF MotionTypeOK, Busy
<1>6. Busy(r) /\ KeepsBehind(r, c, i) /\ SavesWhatIs(r, c, i)
  BY <1>1, <1>2 DEF EventIsKept, Busy
<1>7. /\ Sound(refresh[r].saving, c, i) /\ (i <= refresh[r].saving[c] <=> i <= cursors[c])
      /\ (i \in batch[c] => i <= cursors[c] /\ published[c][i] = 0) /\ Sound(cursors, c, i)
      /\ (i <= cursors[c] => Accounted(c, i) \/ i \in batch[c])
  BY <1>1, <1>2, <1>6 DEF SavesWhatIs, EventIsKept
<1>8. /\ Accounted(c, i) <=> Accounted(c, i)'
      /\ Sound(cursors, c, i)' /\ Sound(savedCursors, c, i)'
      /\ published' = published /\ excused' = excused
  BY <1>2, <1>7 DEF Accounted, Sound, motionHistory
<1>9. KeepsBehind(r, c, i)' /\ AsksForNew(r, c, i)' /\ SavesWhatIs(r, c, i)'
  <2>1. KeepsBehind(r, c, i)'
    BY <1>2, <1>3, <1>5, <1>6, <1>8 DEF KeepsBehind, Sound
  <2>2. AsksForNew(r, c, i)'
    BY <1>3, <1>5 DEF AsksForNew
  <2>3. SavesWhatIs(r, c, i)'
    BY <1>2, <1>3, <1>5, <1>7 DEF SavesWhatIs
  <2> QED
    BY <2>1, <2>2, <2>3
<1>10. EventIsKept(c, i)'
  <2>1. i <= refresh[r].previous[c] => i <= cursors'[c] /\ i \notin batch'[c]
    BY <1>2, <1>6 DEF KeepsBehind
  <2>2. i \in batch'[c] =>
          i <= cursors'[c] /\ ((\E q \in Refreshes : Busy(q)') => published'[c][i] = 0)
    BY <1>2, <1>7, <1>8
  <2>3. i <= cursors'[c] => Accounted(c, i)' \/ (i \in batch'[c] /\ \E q \in Refreshes : Busy(q)')
    BY <1>2, <1>5, <1>7, <1>8
  <2> QED
    BY <1>2, <1>4, <1>6, <1>8, <1>9, <2>1, <2>2, <2>3, StepOfOne
<1>11. OnceAndSaved(c, i)'
  <2>1. refresh'[r].pc = "success"
    BY <1>3, <1>5
  <2> QED
    BY <1>1, <1>2, <1>7, <1>8, <2>1 DEF OnceAndSaved
<1> QED
  BY <1>10, <1>11

\* A refresh that is over.
LEMMA SucceedKeeps ==
  ASSUME MotionTypeOK, MotionTypeOK', Kept, NothingIsEarly', Doubt, NEW r \in Refreshes,
         Succeed(r), NEW c \in Cameras, NEW i \in Sure(c)'
  PROVE  EventIsKept(c, i)' /\ OnceAndSaved(c, i)'
<1>1. /\ EventIsKept(c, i) /\ OnceAndSaved(c, i) /\ i \in Numbers /\ i \in Sure(c)
      /\ published[c][i] \in Nat /\ published'[c][i] \in Nat
  BY SureBefore
<1>2. /\ refresh[r].pc = "success" /\ refresh' = [refresh EXCEPT ![r] = NoRefresh]
      /\ PublishMotion /\ UNCHANGED <<happened, cursors, savedCursors, batch>>
  BY DEF Succeed
<1>3. /\ Accounted(c, i) \/ i \in batch[c] => Accounted(c, i)'
      /\ published'[c][i] \in {published[c][i], published[c][i] + 1}
      /\ published'[c][i] # published[c][i] => i \in batch[c]
  BY <1>1, <1>2, Publishes
<1>4. Busy(r) /\ KeepsBehind(r, c, i) /\ SavesWhatIs(r, c, i)
      /\ (i \in batch[c] => i <= cursors[c] /\ published[c][i] = 0)
      /\ Sound(cursors, c, i) /\ Sound(savedCursors, c, i)
      /\ (i <= cursors[c] => Accounted(c, i) \/ i \in batch[c])
  BY <1>1, <1>2 DEF EventIsKept, Busy
<1>5. i \in batch[c] => i <= savedCursors[c]
  BY <1>2, <1>4 DEF SavesWhatIs
<1>6. refresh'[r].pc = "none" /\ ~Busy(r)'
  BY <1>2 DEF MotionTypeOK, NoRefresh, Busy
<1>7. Sound(cursors, c, i)' /\ Sound(savedCursors, c, i)'
  BY <1>1, <1>2, <1>3, <1>4, <1>5 DEF Sound
<1>8. (\E q \in Refreshes : Busy(q)') => i \notin batch[c]
  <2>1. ASSUME NEW q \in Refreshes, Busy(q)' PROVE i \notin batch[c]
    <3>1. q # r /\ Busy(q)
      BY <1>2, <1>6, <2>1 DEF Busy, MotionTypeOK
    <3> QED
      BY <1>1, <1>4, <3>1, NotOfTwo
  <2> QED
    BY <2>1
<1>9. EventIsKept(c, i)'
  <2>1. i <= refresh[r].previous[c] => i <= cursors'[c] /\ i \notin batch'[c]
    BY <1>2, <1>4 DEF KeepsBehind
  <2>2. i \in batch'[c] =>
          i <= cursors'[c] /\ ((\E q \in Refreshes : Busy(q)') => published'[c][i] = 0)
    BY <1>2, <1>4, <1>8
  <2>3. i <= cursors'[c] => Accounted(c, i)'
    BY <1>2, <1>3, <1>4
  <2> QED
    BY <1>2, <1>3, <1>4, <1>6, <1>7, <2>1, <2>2, <2>3, StepOfOne
<1>10. OnceAndSaved(c, i)'
  BY <1>1, <1>2, <1>3, <1>4 DEF OnceAndSaved
<1> QED
  BY <1>9, <1>10

LEMMA RollBackKeeps ==
  ASSUME MotionTypeOK, MotionTypeOK', Kept, NothingIsEarly', Doubt, NEW r \in Refreshes,
         RollBack(r), NEW c \in Cameras, NEW i \in Sure(c)'
  PROVE  EventIsKept(c, i)' /\ OnceAndSaved(c, i)'
<1>1. /\ EventIsKept(c, i) /\ OnceAndSaved(c, i) /\ i \in Numbers /\ i \in Sure(c)
  BY SureBefore
<1>2. /\ refresh[r].pc \in {"capabilities", "report", "save"}
      /\ refresh' = [refresh EXCEPT ![r] = NoRefresh] /\ batch' = Empty
      /\ cursors' = refresh[r].previous /\ UNCHANGED <<happened, savedCursors, motionHistory>>
  BY DEF RollBack
<1>3. Busy(r) /\ KeepsBehind(r, c, i) /\ Sound(savedCursors, c, i)
  BY <1>1, <1>2 DEF EventIsKept, Busy
<1>4. refresh'[r].pc = "none" /\ ~Busy(r)' /\ i \notin batch'[c]
  BY <1>2 DEF MotionTypeOK, NoRefresh, Busy, Empty
<1>5. /\ Accounted(c, i) <=> Accounted(c, i)'
      /\ Sound(cursors, c, i)' /\ Sound(savedCursors, c, i)'
      /\ published' = published
      /\ i <= cursors'[c] => Accounted(c, i)'
  BY <1>2, <1>3 DEF Accounted, Sound, KeepsBehind, motionHistory
<1>6. EventIsKept(c, i)'
  BY <1>2, <1>3, <1>4, <1>5, StepOfOne
<1>7. OnceAndSaved(c, i)'
  <2>1. ASSUME NEW q \in Refreshes, refresh[q].pc = "success" PROVE i \notin batch[c]
    BY <1>1, <1>2, <1>3, <2>1, NotOfTwo DEF Busy
  <2> QED
    BY <1>1, <1>2, <1>5, <2>1 DEF OnceAndSaved
<1> QED
  BY <1>6, <1>7

LEMMA BreaksKeeps ==
  ASSUME MotionTypeOK, MotionTypeOK', Kept, NothingIsEarly', Doubt, NEW r \in Refreshes,
         Breaks(r), NEW c \in Cameras, NEW i \in Sure(c)'
  PROVE  EventIsKept(c, i)' /\ OnceAndSaved(c, i)'
<1>1. /\ EventIsKept(c, i) /\ OnceAndSaved(c, i) /\ i \in Numbers /\ i \in Sure(c)
      /\ (i <= cursors[c] => i <= refresh[r].previous[c])
  BY SureBefore, Sureness
<1>2. /\ refresh[r].pc \in {"capabilities", "report"}
      /\ refresh' = [refresh EXCEPT ![r] = NoRefresh]
      /\ PublishMotion \/ UNCHANGED motionHistory
      /\ UNCHANGED <<happened, cursors, savedCursors, batch>>
  BY DEF Breaks
<1>3. Busy(r) /\ KeepsBehind(r, c, i) /\ Sound(savedCursors, c, i) /\ Sound(cursors, c, i)
      /\ (i \in batch[c] => i <= cursors[c])
  BY <1>1, <1>2 DEF EventIsKept, Busy
<1>4. i \notin batch[c] /\ (i <= cursors[c] => Accounted(c, i))
  BY <1>1, <1>3 DEF KeepsBehind
<1>5. (Accounted(c, i) => Accounted(c, i)') /\ published'[c][i] = published[c][i]
  <2>1. CASE PublishMotion
    BY <1>1, <1>4, <2>1, Publishes
  <2>2. CASE UNCHANGED motionHistory
    BY <2>2 DEF Accounted, motionHistory
  <2> QED
    BY <1>2, <2>1, <2>2
<1>6. refresh'[r].pc = "none" /\ ~Busy(r)' /\ i \notin batch'[c]
  BY <1>2, <1>4 DEF MotionTypeOK, NoRefresh, Busy
<1>7. /\ Sound(cursors, c, i)' /\ Sound(savedCursors, c, i)'
      /\ i <= cursors'[c] => Accounted(c, i)'
  BY <1>2, <1>3, <1>4, <1>5 DEF Sound
<1>8. EventIsKept(c, i)'
  <2>1. i <= refresh[r].previous[c] => i <= cursors'[c] /\ i \notin batch'[c]
    BY <1>2, <1>3 DEF KeepsBehind
  <2> QED
    BY <1>2, <1>3, <1>5, <1>6, <1>7, <2>1, StepOfOne
<1>9. OnceAndSaved(c, i)'
  BY <1>1, <1>2, <1>4, <1>5 DEF OnceAndSaved
<1> QED
  BY <1>8, <1>9

\* No step, of whatever refresh, loses or repeats an event that is not doubtful.
LEMMA StepKeeps ==
  ASSUME MotionTypeOK, MotionTypeOK', Lives, Kept, NothingIsEarly', [MotionNext]_motionVars,
         NEW c \in Cameras, NEW i \in Sure(c)'
  PROVE  EventIsKept(c, i)' /\ OnceAndSaved(c, i)'
<1>0. CASE UNCHANGED motionVars
  <2>1. i \in Sure(c) /\ UNCHANGED <<refresh, cursors, savedCursors, batch, happened, published, excused>>
    BY <1>0 DEF motionVars, motionHistory, Sure
  <2>2. EventIsKept(c, i) /\ OnceAndSaved(c, i)
    BY <2>1 DEF Kept
  <2>3. \A r \in Refreshes :
          /\ KeepsBehind(r, c, i) <=> KeepsBehind(r, c, i)'
          /\ AsksForNew(r, c, i) <=> AsksForNew(r, c, i)'
          /\ SavesWhatIs(r, c, i) <=> SavesWhatIs(r, c, i)'
          /\ Busy(r) <=> Busy(r)'
    BY <2>1 DEF KeepsBehind, AsksForNew, SavesWhatIs, Sound, Accounted, Busy
  <2>4. /\ Sound(cursors, c, i) <=> Sound(cursors, c, i)'
        /\ Sound(savedCursors, c, i) <=> Sound(savedCursors, c, i)'
        /\ Accounted(c, i) <=> Accounted(c, i)'
        /\ Overlap <=> Overlap'
    BY <2>1 DEF Sound, Accounted, Overlap, Busy
  <2>5. EventIsKept(c, i)'
    BY <2>1, <2>2, <2>3, <2>4 DEF EventIsKept
  <2>6. OnceAndSaved(c, i)'
    BY <2>1, <2>2, <2>4 DEF OnceAndSaved
  <2> QED
    BY <2>5, <2>6
<1> SUFFICES ASSUME MotionSteps, Doubt
             PROVE  EventIsKept(c, i)' /\ OnceAndSaved(c, i)'
  BY <1>0 DEF MotionNext
<1>1. CASE Initialize
  BY <1>1, InitializeKeeps
<1>2. CASE UnloadMotion
  BY <1>2, UnloadKeeps
<1>3. CASE Poll
  BY <1>3, StartKeeps DEF Poll, Refreshes
<1>4. CASE Reconcile
  <2>1. UNCHANGED <<happened, cursors, savedCursors, motionHistory>>
        /\ (UNCHANGED <<refresh, batch>> \/ Start("sync"))
    BY <1>4 DEF Reconcile
  <2>2. CASE Start("sync")
    BY <2>1, <2>2, StartKeeps DEF Refreshes
  <2>3. CASE UNCHANGED <<refresh, batch>>
    BY <2>1, <2>3, OthersKeep
  <2> QED
    BY <2>1, <2>2, <2>3
<1>5. CASE Changes \/ Reconciled \/ Motion
  <2>1. UNCHANGED <<refresh, cursors, savedCursors, batch, motionHistory>>
    BY <1>5 DEF Changes, Reconciled, Motion
  <2> QED
    BY <2>1, OthersKeep
<1>6. ASSUME NEW r \in Refreshes, Advances(r) PROVE EventIsKept(c, i)' /\ OnceAndSaved(c, i)'
  BY <1>6, CapabilitiesKeeps, ReportKeeps, SaveKeeps, SucceedKeeps, RollBackKeeps, BreaksKeeps
     DEF Advances
<1> QED
  BY <1>1, <1>2, <1>3, <1>4, <1>5, <1>6 DEF MotionSteps
-----------------------------------------------------------------------------
\* Nothing runs while the entry is not loaded, and no reconciliation in the setup.
LEMMA StepLives ==
  ASSUME MotionTypeOK, Lives, [MotionNext]_motionVars
  PROVE  Lives'
<1> USE DEF Lives, Busy
<1>1. CASE Initialize
  <2>1. /\ refresh'["sync"] = refresh["sync"] /\ stage' = "setup" /\ stage = "closed" /\ sync' = sync
    BY <1>1 DEF Initialize, MotionTypeOK, runtime, Refreshes
  <2> QED
    BY <2>1
<1>2. CASE Changes
  BY <1>2 DEF Changes, MotionTypeOK
<1>3. CASE Reconcile
  BY <1>3 DEF Reconcile, MotionTypeOK
<1>4. CASE Reconciled
  BY <1>4 DEF Reconciled
<1>5. CASE UnloadMotion
  BY <1>5 DEF UnloadMotion, NoRefresh, Refreshes
<1>6. CASE Motion
  BY <1>6 DEF Motion, runtime
<1>7. CASE Poll
  BY <1>7 DEF Poll, runtime
<1>8. ASSUME NEW r \in Refreshes, Advances(r) PROVE Lives'
  <2>1. refresh[r].pc # "none"
    BY <1>8 DEF Advances, Capabilities, Report, SaveCursors, Succeed, RollBack, Breaks
  <2>2. stage # "closed"
    BY <2>1 DEF Refreshes
  <2>3. /\ sync' = sync /\ (stage' = stage \/ SetUp)
        /\ \E record : refresh' = [refresh EXCEPT ![r] = record]
    <3>1. ASSUME NEW now, NEW todo, Asks(r, now, todo)
          PROVE  \E record : refresh' = [refresh EXCEPT ![r] = record]
      BY <3>1, Zenon DEF Asks
    <3>2. CASE Capabilities(r)
      <4>1. PICK supported : Asks(r, happened, supported \cap targets)
        BY <3>2 DEF Capabilities
      <4> QED
        BY <3>1, <3>2, <4>1 DEF Capabilities, runtime
    <3>3. CASE Report(r)
      BY <3>1, <3>3 DEF Report, runtime
    <3>4. CASE SaveCursors(r)
      <4>1. refresh' = [refresh EXCEPT ![r] = [refresh[r] EXCEPT !.pc = "success", !.saving = Forgotten]]
        BY <3>4 DEF SaveCursors, MotionTypeOK, RefreshRecord
      <4> QED
        BY <3>4, <4>1 DEF SaveCursors, runtime
    <3>5. CASE Succeed(r) \/ RollBack(r) \/ Breaks(r)
      BY <3>5 DEF Succeed, RollBack, Breaks, runtime
    <3> QED
      BY <1>8, <3>2, <3>3, <3>4, <3>5 DEF Advances
  <2>4. CASE stage = "open"
    BY <2>3, <2>4 DEF SetUp
  <2>5. CASE stage = "setup"
    <3>1. r = "poll" /\ refresh["sync"].pc = "none" /\ sync = "idle"
      BY <2>1, <2>5 DEF Refreshes
    <3>2. refresh'["sync"] = refresh["sync"]
      BY <2>3, <3>1 DEF MotionTypeOK, Refreshes
    <3> QED
      BY <2>3, <2>5, <3>1, <3>2 DEF SetUp
  <2> QED
    BY <2>2, <2>4, <2>5 DEF MotionTypeOK
<1>9. CASE UNCHANGED motionVars
  BY <1>9 DEF motionVars, runtime
<1> QED
  BY <1>1, <1>2, <1>3, <1>4, <1>5, <1>6, <1>7, <1>8, <1>9 DEF MotionNext, MotionSteps

-----------------------------------------------------------------------------
(* The theorems.                                                           *)

LEMMA EntryKeeps ==
  ASSUME MotionTypeOK, Lives, Kept, [MotionNext]_motionVars
  PROVE  MotionTypeOK' /\ Lives' /\ Kept'
<1>1. MotionTypeOK' /\ Lives'
  BY TypeStepMotion, StepLives
<1>2. NothingIsEarly' /\ AsksInOrder'
  BY <1>1, StepsBehind DEF Kept
<1>3. \A c \in Cameras : \A i \in Sure(c)' : EventIsKept(c, i)' /\ OnceAndSaved(c, i)'
  BY <1>1, <1>2, StepKeeps
<1> QED
  BY <1>1, <1>2, <1>3 DEF Kept

LEMMA InitKept == MotionInit => MotionTypeOK /\ Lives /\ Kept
<1> SUFFICES ASSUME MotionInit PROVE MotionTypeOK /\ Lives /\ Kept
  OBVIOUS
<1>1. MotionTypeOK
  <2>1. published \in [Cameras -> [Numbers -> Nat]]
    BY DEF MotionInit
  <2>2. /\ batch \in [Cameras -> SUBSET Numbers] /\ excused \in [Cameras -> SUBSET Numbers]
        /\ happened \in [Cameras -> 0..MaxEvents] /\ doubtful \in [Cameras -> SUBSET Numbers]
    BY MotionBounds DEF MotionInit, Empty
  <2>3. /\ cursors \in [Cameras -> NoCursor..MaxEvents]
        /\ savedCursors \in [Cameras -> NoCursor..MaxEvents]
        /\ refresh \in [Refreshes -> RefreshRecord]
    BY TypeNoRefresh DEF MotionInit
  <2>4. closes \in 0..MaxCloses /\ changes \in 0..MaxChanges
    BY MotionBounds DEF MotionInit
  <2> QED
    BY <2>1, <2>2, <2>3, <2>4 DEF MotionInit, MotionTypeOK
<1>2. \A r \in Refreshes : ~Busy(r) /\ refresh[r] = NoRefresh
  BY DEF MotionInit, Busy, NoRefresh
<1>3. Lives
  BY <1>2 DEF MotionInit, Lives, Refreshes
<1>4. ASSUME NEW c \in Cameras
      PROVE  /\ happened[c] = 0 /\ cursors[c] = -1 /\ savedCursors[c] = -1 /\ batch[c] = {}
             /\ \A i \in Numbers : published[c][i] = 0 /\ i >= 1 /\ i \in Nat
  BY MotionBounds DEF MotionInit, Forgotten, Empty, NoCursor, Numbers
<1>5. AsksInOrder
  BY <1>2 DEF AsksInOrder, NoRefresh
<1>6. NothingIsEarly
  <2>1. ASSUME NEW c \in Cameras
        PROVE  /\ cursors[c] <= happened[c] /\ savedCursors[c] <= happened[c]
               /\ \A r \in Refreshes : /\ refresh[r].previous[c] <= happened[c]
                                       /\ refresh[r].now[c] <= happened[c]
                                       /\ refresh[r].saving[c] <= happened[c]
                                       /\ refresh[r].camera = c => refresh[r].read <= happened[c]
               /\ \A i \in Numbers : i \in batch[c] \/ published[c][i] > 0 => i <= happened[c]
    BY <1>1, <1>2, <1>4, EmptyRecord
  <2> QED
    BY <2>1 DEF NothingIsEarly
<1>7. ASSUME NEW c \in Cameras, NEW i \in Sure(c)
      PROVE  EventIsKept(c, i) /\ OnceAndSaved(c, i)
  <2>1. i \in Numbers
    BY DEF Sure
  <2>2. ~Overlap
    BY <1>2 DEF Overlap, Refreshes
  <2>3. EventIsKept(c, i)
    BY <1>2, <1>4, <2>1, <2>2 DEF EventIsKept, Sound
  <2>4. OnceAndSaved(c, i)
    BY <1>4, <2>1 DEF OnceAndSaved
  <2> QED
    BY <2>3, <2>4
<1> QED
  BY <1>1, <1>3, <1>5, <1>6, <1>7 DEF Kept

\* The types of the motion analytics.
THEOREM MotionTypesCorrect == MotionSpec => []MotionTypeOK
<1>1. MotionInit => MotionTypeOK
  BY InitKept
<1>2. MotionTypeOK /\ [MotionNext]_motionVars => MotionTypeOK'
  BY TypeStepMotion
<1> QED
  BY <1>1, <1>2, PTL DEF MotionSpec

\* The inductive invariant of the cursors, whatever overlaps, fails, is rolled back, breaks
\* off, is saved or reloaded (analytics.py:292-412).
THEOREM MotionInvariant == MotionSpec => []MotionInv
<1> DEFINE Inv == MotionTypeOK /\ Lives /\ Kept
<1>1. MotionInit => Inv
  BY InitKept
<1>2. Inv /\ [MotionNext]_motionVars => Inv'
  BY EntryKeeps
<1>3. Inv => MotionInv
  <2> SUFFICES ASSUME Inv PROVE MotionIsPublishedOnce
    BY DEF Kept, MotionInv
  <2> SUFFICES ASSUME NEW c \in Cameras, NEW i \in Numbers \ doubtful[c]
               PROVE  /\ published[c][i] <= 1
                      /\ (i <= cursors[c] /\ \A r \in Refreshes : refresh[r].pc = "none")
                           => Accounted(c, i)
                      /\ i <= savedCursors[c] => \/ Accounted(c, i)
                                                 \/ i \in batch[c] /\ \E r \in Refreshes : refresh[r].pc = "success"
    BY DEF MotionIsPublishedOnce
  <2>1. EventIsKept(c, i) /\ OnceAndSaved(c, i)
    BY DEF Kept, Sure
  <2> QED
    BY <2>1 DEF EventIsKept, OnceAndSaved, Busy
<1> QED
  BY <1>1, <1>2, <1>3, PTL DEF MotionSpec

\* No motion event is published twice and none is passed over, but those that are doubtful
\* (MotionIsPublishedOnce).
THEOREM MotionOnce == MotionSpec => []MotionIsPublishedOnce
<1>1. MotionInv => MotionIsPublishedOnce
  BY DEF MotionInv
<1> QED
  BY <1>1, MotionInvariant, PTL

\* The registrations follow the capabilities (SyncInv).
LEMMA AnalyticsAreInStep == MotionSpec => []SyncInv
<1>1. MotionInit => SyncInv
  BY DEF MotionInit, SyncInv, TargetsAreCurrent
<1>2. MotionTypeOK /\ SyncInv /\ [MotionNext]_motionVars => SyncInv'
  <2> SUFFICES ASSUME MotionTypeOK, SyncInv, [MotionNext]_motionVars PROVE SyncInv'
    OBVIOUS
  <2> USE DEF SyncInv, TargetsAreCurrent, runtime
  <2>1. CASE Initialize
    BY <2>1 DEF Initialize
  <2>2. CASE Changes
    <3>1. CASE stage = "open"
      BY <2>2, <3>1 DEF Changes
    <3>2. CASE stage # "open"
      <4>1. stage = "setup"
        BY <2>2, <3>2 DEF Changes, MotionTypeOK
      <4> QED
        BY <2>2, <4>1 DEF Changes
    <3> QED
      BY <3>1, <3>2
  <2>3. CASE Reconcile
    BY <2>3 DEF Reconcile
  <2>4. CASE Reconciled
    BY <2>4 DEF Reconciled
  <2>5. CASE UnloadMotion
    BY <2>5 DEF UnloadMotion
  <2>6. CASE Motion
    BY <2>6 DEF Motion
  <2>7. CASE Poll
    BY <2>7 DEF Poll
  <2>8. ASSUME NEW r \in Refreshes, Advances(r) PROVE SyncInv'
    BY <2>8 DEF Advances, Capabilities, Report, SaveCursors, Succeed, RollBack, Breaks, SetUp
  <2>9. CASE UNCHANGED motionVars
    BY <2>9 DEF motionVars
  <2> QED
    BY <2>1, <2>2, <2>3, <2>4, <2>5, <2>6, <2>7, <2>8, <2>9 DEF MotionNext, MotionSteps
<1> QED
  BY <1>1, <1>2, MotionTypesCorrect, PTL DEF MotionSpec

\* The analytics follow the inventory, whatever overlaps or breaks
\* (private_runtime.py:180-238).
THEOREM AnalyticsFollowInventory == MotionSpec => []TargetsAreCurrent
<1>1. SyncInv => TargetsAreCurrent
  BY DEF SyncInv
<1> QED
  BY <1>1, AnalyticsAreInStep, PTL

-----------------------------------------------------------------------------
(* Lists that change while they are read.                                  *)

Items == Nat \X (CallKinds \cup {"camera"})

\* What the list shows behind its first n entries.
Behind(n) == {listed[i] : i \in {j \in DOMAIN listed : j > n}}

\* What was promised is found, or will be where the list goes on.
KeptFrom(n) == \A x \in promised : x \in Range(shown) \/ disturbed \/ x \in Behind(n)

\* A day of calls: the pages before the next one have been asked for, and what has moved
\* on is to come, or lies behind the last page.
CallsInv ==
  /\ Ordered([i \in DOMAIN listed |-> listed[i][2]])
  /\ \A x \in promised : x[2] = "wanted"
  /\ outcome \in {"reading", "complete", "failed"}
  /\ outcome = "reading" =>
       \E p \in 1..MaxPages : ahead = <<p>> /\ visited = 1..(p - 1) /\ KeptFrom((p - 1) * PageSize)
  /\ outcome = "complete" => KeptFrom(MaxPages * PageSize)

\* The inventory: the next page is one that was read, and will be refused, or the one after
\* all that were.
InventoryInv ==
  /\ outcome \in {"reading", "complete", "failed"}
  /\ outcome = "reading" =>
       \E p \in Nat \ {0} : /\ ahead = <<p>>
                            /\ \/ p \in visited
                               \/ visited = 1..(p - 1) /\ KeptFrom((p - 1) * PageSize)
  /\ outcome = "complete" => \A x \in promised : x \in Range(shown) \/ disturbed

InWindow(t, w) == Second(w[1]) <= t /\ t < Second(w[2])

\* The motion of a window: every event that was there is found or in a window to come.
MotionReadInv ==
  /\ asked[2] \in Nat /\ motion \subseteq 0..asked[2] /\ promised \subseteq motion
  /\ outcome \in {"checking", "reading"} =>
       /\ ahead \in Seq((Nat \X Nat) \X Nat) /\ ahead # <<>>
       /\ \A t \in promised : \/ t \in Range(shown)
                              \/ \E i \in 1..Len(ahead) : InWindow(t, ahead[i][1])
  /\ outcome = "complete" => promised \subseteq Range(shown)

ReadInv ==
  /\ ReadTypeOK
  /\ shown \in Seq(Range(shown)) /\ IsInjective(shown)
  /\ listed \in Seq(Items)
  /\ reader = "calls" => CallsInv
  /\ reader = "inventory" => InventoryInv
  /\ reader \in MotionReaders => MotionReadInv

\* A finite set is made a sequence of its elements, each of them once.
LEMMA InSequence ==
  ASSUME NEW S, IsFiniteSet(S)
  PROVE  /\ SetToSeq(S) \in Seq(S) /\ IsInjective(SetToSeq(S))
         /\ Range(SetToSeq(S)) = S
<1> DEFINE n == Cardinality(S)
<1>1. n \in Nat /\ ExistsBijection(1..n, S)
  BY FS_CardinalityType
<1>2. PICK f : f \in Bijection(1..n, S)
  BY <1>1 DEF ExistsBijection
<1>3. f \in [1..n -> S] /\ IsInjective(f)
  BY <1>2 DEF Bijection, Injection
<1>4. SetToSeq(S) \in [1..n -> S] /\ IsInjective(SetToSeq(S))
  BY <1>3 DEF SetToSeq
<1>5. IsFiniteSet(1..n) /\ Cardinality(1..n) = n
  BY <1>1, FS_Interval
<1>6. SetToSeq(S) \in Injection(1..n, S)
  BY <1>4 DEF Injection
<1>7. SetToSeq(S) \in Surjection(1..n, S)
  BY <1>5, <1>6, FS_Injection
<1>8. Range(SetToSeq(S)) = S
  BY <1>4, <1>7 DEF Surjection, Range
<1> QED
  BY <1>1, <1>4, <1>8

\* What is added comes behind what was shown, once.
LEMMA AddsOnce ==
  ASSUME shown \in Seq(Range(shown)), IsInjective(shown),
         NEW items, IsFiniteSet(items), Adds(items)
  PROVE  /\ shown' \in Seq(Range(shown')) /\ IsInjective(shown')
         /\ Range(shown') = Range(shown) \cup items
<1> DEFINE new == items \ Range(shown)
           more == SetToSeq(new)
           All == Range(shown) \cup items
<1>1. IsFiniteSet(new)
  BY FS_Subset
<1>2. more \in Seq(new) /\ IsInjective(more) /\ Range(more) = new
  BY <1>1, InSequence
<1> HIDE DEF more
<1>3. shown \in Seq(All) /\ more \in Seq(All)
  BY <1>2, SeqMonotonic
<1>4. shown' = shown \o more
  BY DEF Adds, more
<1>5. /\ shown' \in Seq(All) /\ Len(shown') = Len(shown) + Len(more)
      /\ \A i \in 1..(Len(shown) + Len(more)) :
           shown'[i] = IF i <= Len(shown) THEN shown[i] ELSE more[i - Len(shown)]
  BY <1>3, <1>4, ConcatProperties
<1>6. /\ Len(shown) \in Nat /\ DOMAIN shown = 1..Len(shown)
      /\ Len(more) \in Nat /\ DOMAIN more = 1..Len(more)
      /\ DOMAIN shown' = 1..(Len(shown) + Len(more))
  BY <1>3, <1>5, LenProperties
<1>7. \A i \in DOMAIN more : more[i] \in new
  BY <1>2 DEF Range
<1>8. \A i \in DOMAIN shown : shown[i] \in Range(shown) /\ shown[i] \notin new
  BY DEF Range
<1>9. IsInjective(shown')
  <2> SUFFICES ASSUME NEW i \in DOMAIN shown', NEW j \in DOMAIN shown', shown'[i] = shown'[j]
               PROVE  i = j
    BY DEF IsInjective
  <2>1. CASE i <= Len(shown) /\ j <= Len(shown)
    <3>1. i \in DOMAIN shown /\ j \in DOMAIN shown /\ shown[i] = shown[j]
      BY <1>5, <1>6, <2>1
    <3> QED
      BY <3>1 DEF IsInjective
  <2>2. CASE i > Len(shown) /\ j > Len(shown)
    <3>1. /\ i - Len(shown) \in DOMAIN more /\ j - Len(shown) \in DOMAIN more
          /\ more[i - Len(shown)] = more[j - Len(shown)]
      BY <1>5, <1>6, <2>2
    <3>2. i - Len(shown) = j - Len(shown)
      BY <3>1, <1>2 DEF IsInjective
    <3> QED
      BY <3>2, <1>6
  <2>3. ASSUME NEW a \in DOMAIN shown', NEW b \in DOMAIN shown', a <= Len(shown), b > Len(shown)
        PROVE  shown'[a] # shown'[b]
    <3>1. a \in DOMAIN shown /\ shown'[a] = shown[a]
      BY <1>5, <1>6, <2>3
    <3>2. b - Len(shown) \in DOMAIN more /\ shown'[b] = more[b - Len(shown)]
      BY <1>5, <1>6, <2>3
    <3> QED
      BY <3>1, <3>2, <1>7, <1>8
  <2> QED
    BY <2>1, <2>2, <2>3, <1>6
<1>10. Range(shown') = All
  <2>1. \A i \in DOMAIN shown' : shown'[i] \in All
    BY <1>5, <1>6
  <2>2. ASSUME NEW x \in Range(shown) PROVE x \in Range(shown')
    <3>1. PICK i \in DOMAIN shown : shown[i] = x
      BY DEF Range
    <3>2. i \in DOMAIN shown' /\ shown'[i] = x
      BY <3>1, <1>5, <1>6
    <3> QED
      BY <3>2 DEF Range
  <2>3. ASSUME NEW x \in new PROVE x \in Range(shown')
    <3>1. PICK i \in DOMAIN more : more[i] = x
      BY <1>2 DEF Range
    <3>2. i + Len(shown) \in DOMAIN shown' /\ shown'[i + Len(shown)] = x
      BY <3>1, <1>5, <1>6
    <3> QED
      BY <3>2 DEF Range
  <2> QED
    BY <2>1, <2>2, <2>3 DEF Range
<1> QED
  BY <1>5, <1>9, <1>10

\* Page p shows the entries behind the first (p - 1) * PageSize, up to p * PageSize.
LEMMA PageShows ==
  ASSUME listed \in Seq(Items), NEW p \in Nat \ {0}
  PROVE  /\ IsFiniteSet(Range(Page(p)))
         /\ Range(Page(p)) \subseteq Range(listed)
         /\ \A i \in DOMAIN listed :
              i > (p - 1) * PageSize => listed[i] \in Range(Page(p)) \/ i > p * PageSize
         /\ Len(Page(p)) < PageSize => Len(listed) < p * PageSize
         /\ \A x \in Range(Page(p)) : \E i \in DOMAIN listed :
              listed[i] = x /\ i > (p - 1) * PageSize /\ i <= p * PageSize
         /\ (p - 1) * PageSize \in Nat /\ p * PageSize \in Nat
<1> DEFINE n == (p - 1) * PageSize
           m == p * PageSize
           upTo == IF m < Len(listed) THEN m ELSE Len(listed)
<1>1. PageSize \in Nat /\ PageSize > 0
  BY ReadBounds
<1>2. n \in Nat /\ m \in Nat /\ m = n + PageSize
  BY <1>1
<1>3. Len(listed) \in Nat /\ DOMAIN listed = 1..Len(listed)
  BY LenProperties
<1>4. Page(p) = SubSeq(listed, n + 1, upTo)
  BY DEF Page
<1> HIDE DEF n, m
<1>5. upTo \in Nat /\ upTo <= Len(listed) /\ upTo <= m
  BY <1>2, <1>3
<1>6. \A i \in (n + 1)..upTo : listed[i] \in Items
  BY <1>2, <1>3, <1>5, ElementOfSeq
<1>7. /\ Page(p) \in Seq(Items)
      /\ Len(Page(p)) = IF n + 1 <= upTo THEN upTo - n ELSE 0
      /\ \A i \in 1..(upTo - n) : Page(p)[i] = listed[n + i]
  <2>1. n + 1 \in Int /\ upTo \in Int
    BY <1>2, <1>5
  <2>2. /\ SubSeq(listed, n + 1, upTo) \in Seq(Items)
        /\ Len(SubSeq(listed, n + 1, upTo)) = IF n + 1 <= upTo THEN upTo - (n + 1) + 1 ELSE 0
        /\ \A i \in 1..(upTo - (n + 1) + 1) : SubSeq(listed, n + 1, upTo)[i] = listed[n + 1 + i - 1]
    BY ONLY <2>1, <1>6, SubSeqProperties
  <2>3. \A i \in Int : n + 1 + i - 1 = n + i
    BY <1>2
  <2>4. upTo - (n + 1) + 1 = upTo - n
    BY <1>2, <1>5
  <2>5. \A i \in 1..(upTo - n) : i \in Int
    OBVIOUS
  <2> QED
    BY <2>2, <2>3, <2>4, <2>5, <1>4
<1> HIDE DEF upTo
<1>8. Len(Page(p)) \in Nat /\ DOMAIN Page(p) = 1..Len(Page(p))
  BY <1>7, LenProperties
<1>9. ASSUME NEW x \in Range(Page(p))
      PROVE  \E i \in DOMAIN listed : listed[i] = x /\ i > n /\ i <= m
  <2>1. PICK k \in DOMAIN Page(p) : Page(p)[k] = x
    BY DEF Range
  <2>2. k \in 1..(upTo - n) /\ n + k \in 1..Len(listed) /\ n + k > n /\ n + k <= m
    BY <2>1, <1>2, <1>3, <1>5, <1>7, <1>8
  <2> QED
    BY <2>1, <2>2, <1>3, <1>7
<1>10. ASSUME NEW i \in DOMAIN listed, i > n, ~(i > m)
       PROVE  listed[i] \in Range(Page(p))
  <2>1. i <= upTo
    BY <1>10, <1>2, <1>3 DEF upTo
  <2>2. i - n \in 1..(upTo - n) /\ n + (i - n) = i /\ i - n \in DOMAIN Page(p)
    BY <2>1, <1>10, <1>2, <1>3, <1>5, <1>7, <1>8
  <2> QED
    BY <2>2, <1>7 DEF Range
<1>11. Len(Page(p)) < PageSize => Len(listed) < m
  <2>1. upTo = m \/ (upTo = Len(listed) /\ Len(listed) <= m)
    BY <1>2, <1>3 DEF upTo
  <2>2. upTo = m => Len(Page(p)) = PageSize
    BY <1>1, <1>2, <1>7
  <2>3. upTo < m => Len(listed) < m
    BY <2>1, <1>2, <1>3
  <2> QED
    BY <1>1, <1>2, <1>5, <2>2, <2>3
<1>12. IsFiniteSet(Range(Page(p)))
  <2>1. Page(p) \in Surjection(DOMAIN Page(p), Range(Page(p)))
    <3>1. Page(p) \in [DOMAIN Page(p) -> Range(Page(p))]
      BY <1>7, <1>8, LenProperties DEF Range
    <3> QED
      BY <3>1 DEF Surjection, Range
  <2>2. IsFiniteSet(DOMAIN Page(p))
    BY <1>8, FS_Interval
  <2> QED
    BY <2>1, <2>2, FS_Surjection
<1>13. Range(Page(p)) \subseteq Range(listed)
  BY <1>9 DEF Range
<1> QED
  BY <1>2, <1>9, <1>10, <1>11, <1>12, <1>13 DEF n, m

\* What a page brings is found, and the rest is behind it.
LEMMA KeptByPage ==
  ASSUME listed \in Seq(Items), NEW p \in Nat \ {0}, NEW found,
         UNCHANGED <<listed, promised, disturbed>>, KeptFrom((p - 1) * PageSize),
         Range(shown') = Range(shown) \cup found,
         \A x \in promised : x \in Range(Page(p)) => x \in found
  PROVE  KeptFrom(p * PageSize)'
<1> SUFFICES ASSUME NEW x \in promised, x \notin Range(shown'), ~disturbed
             PROVE  x \in Behind(p * PageSize)
  BY DEF KeptFrom, Behind
<1>1. x \in Behind((p - 1) * PageSize)
  BY DEF KeptFrom
<1>2. PICK i \in DOMAIN listed : i > (p - 1) * PageSize /\ listed[i] = x
  BY <1>1 DEF Behind
<1>3. i > p * PageSize
  BY <1>2, PageShows
<1> QED
  BY <1>2, <1>3 DEF Behind

LEMMA ReadCallsStep ==
  ASSUME ReadInv, ReadCalls
  PROVE  ReadInv'
<1>1. /\ reader = "calls" /\ outcome = "reading" /\ ReadTypeOK /\ CallsInv
      /\ listed \in Seq(Items) /\ shown \in Seq(Range(shown)) /\ IsInjective(shown)
  BY DEF ReadInv, ReadCalls, Asking
<1>2. PICK p \in 1..MaxPages : ahead = <<p>> /\ visited = 1..(p - 1) /\ KeptFrom((p - 1) * PageSize)
  BY <1>1 DEF CallsInv
<1>3. MaxPages \in Nat /\ PageSize \in Nat /\ p \in Nat \ {0} /\ Head(ahead) = p
  BY <1>2, ReadBounds
<1> DEFINE hits == {x \in Range(Page(p)) : x[2] = "wanted"}
<1>4. /\ Adds(hits) /\ visited' = visited \cup {p}
      /\ \/ LastPage(p) /\ ahead' = <<>> /\ outcome' = "complete"
         \/ ~LastPage(p) /\ ahead' = <<p + 1>> /\ outcome' = outcome
      /\ UNCHANGED <<reader, listed, motion, promised, asked, arrivals, disturbed>>
  BY <1>3 DEF ReadCalls
<1>5. IsFiniteSet(hits)
  BY <1>1, <1>3, PageShows, FS_Subset
<1> HIDE DEF hits
<1>6. shown' \in Seq(Range(shown')) /\ IsInjective(shown') /\ Range(shown') = Range(shown) \cup hits
  BY <1>1, <1>4, <1>5, AddsOnce
<1>7. KeptFrom(p * PageSize)'
  <2>1. \A x \in promised : x \in Range(Page(p)) => x \in hits
    BY <1>1 DEF CallsInv, hits
  <2> QED
    BY <2>1, <1>1, <1>2, <1>3, <1>4, <1>6, KeptByPage
<1>8. visited' = 1..p
  BY <1>2, <1>3, <1>4
<1>9. CASE LastPage(p)
  <2>1. ahead' = <<>> /\ outcome' = "complete"
    BY <1>4, <1>9
  <2>2. KeptFrom(MaxPages * PageSize)'
    <3>1. CASE p = MaxPages
      BY <3>1, <1>7
    <3>2. CASE p # MaxPages
      <4> SUFFICES ASSUME NEW x \in promised, x \notin Range(shown'), ~disturbed
                   PROVE  FALSE
        BY <1>4 DEF KeptFrom, Behind
      <4>1. x \in Behind(p * PageSize)
        BY <1>4, <1>7 DEF KeptFrom, Behind
      <4>2. PICK i \in DOMAIN listed : i > p * PageSize /\ listed[i] = x
        BY <4>1 DEF Behind
      <4>3. x[2] = "wanted"
        BY <1>1 DEF CallsInv
      <4>4. i \in 1..Len(listed) /\ Len(listed) \in Nat
        BY <1>1, LenProperties
      <4>5. ~(Len(Page(p)) < PageSize)
        <5>1. p * PageSize \in Nat /\ (Len(Page(p)) < PageSize => Len(listed) < p * PageSize)
          BY <1>1, <1>3, PageShows
        <5> QED
          BY <5>1, <4>2, <4>4
      <4>6. PICK y \in Range(Page(p)) : y[2] = "earlier"
        BY <1>9, <3>2, <4>5 DEF LastPage
      <4>7. PICK k \in DOMAIN listed : listed[k] = y /\ k <= p * PageSize
        BY <1>1, <1>3, <4>6, PageShows
      <4>8. k < i
        <5>1. p * PageSize \in Nat
          BY <1>1, <1>3, PageShows
        <5>2. k \in 1..Len(listed)
          BY <1>1, LenProperties
        <5> QED
          BY <5>1, <5>2, <4>2, <4>4, <4>7
      <4>9. listed[k][2] = "earlier" => listed[i][2] \in {"earlier", "undated"}
        BY <1>1, <4>2, <4>7, <4>8 DEF CallsInv, Ordered
      <4> QED
        BY <4>2, <4>3, <4>6, <4>7, <4>9
    <3> QED
      BY <3>1, <3>2
  <2>3. CallsInv'
    BY <2>1, <2>2, <1>1, <1>4 DEF CallsInv
  <2>4. ReadTypeOK'
    <3>1. visited' \subseteq 1..MaxPages
      BY <1>2, <1>3, <1>8
    <3> QED
      BY <3>1, <2>1, <1>1, <1>4 DEF ReadTypeOK
  <2> QED
    BY <2>3, <2>4, <1>1, <1>4, <1>6 DEF ReadInv, MotionReaders
<1>10. CASE ~LastPage(p)
  <2>1. ahead' = <<p + 1>> /\ outcome' = "reading"
    BY <1>1, <1>4, <1>10
  <2>2. p + 1 \in 1..MaxPages /\ (p + 1) - 1 = p
    BY <1>3, <1>10 DEF LastPage
  <2>3. CallsInv'
    <3>1. ahead' = <<p + 1>> /\ visited' = 1..((p + 1) - 1) /\ KeptFrom(((p + 1) - 1) * PageSize)'
      BY <2>1, <2>2, <1>7, <1>8
    <3>2. \E q \in 1..MaxPages :
             ahead' = <<q>> /\ visited' = 1..(q - 1) /\ KeptFrom((q - 1) * PageSize)'
      BY <2>2, <3>1
    <3> QED
      BY <3>2, <2>1, <1>1, <1>4 DEF CallsInv
  <2>4. ReadTypeOK'
    <3>1. visited' \subseteq 1..MaxPages
      BY <1>2, <1>3, <1>8
    <3> QED
      BY <3>1, <2>1, <1>1, <1>4 DEF ReadTypeOK
  <2> QED
    BY <2>3, <2>4, <1>1, <1>4, <1>6 DEF ReadInv, MotionReaders
<1> QED
  BY <1>9, <1>10

LEMMA ReadInventoryStep ==
  ASSUME ReadInv, ReadInventory
  PROVE  ReadInv'
<1>1. /\ reader = "inventory" /\ outcome = "reading" /\ ReadTypeOK /\ InventoryInv
      /\ listed \in Seq(Items) /\ shown \in Seq(Range(shown)) /\ IsInjective(shown)
  BY DEF ReadInv, ReadInventory, Asking
<1>2. PICK p \in Nat \ {0} :
        /\ ahead = <<p>>
        /\ p \in visited \/ (visited = 1..(p - 1) /\ KeptFrom((p - 1) * PageSize))
  BY <1>1 DEF InventoryInv
<1>3. MaxPages \in Nat /\ PageSize \in Nat /\ Head(ahead) = p
  BY <1>2, ReadBounds
<1>4. UNCHANGED <<reader, listed, motion, promised, asked, arrivals, disturbed>>
  BY DEF ReadInventory
<1>5. CASE p \in visited \/ Cardinality(visited) >= MaxPages
  <2>1. ahead' = <<>> /\ outcome' = "failed" /\ UNCHANGED <<visited, shown>>
    BY <1>3, <1>5 DEF ReadInventory
  <2> QED
    BY <2>1, <1>1, <1>4 DEF ReadInv, ReadTypeOK, InventoryInv, MotionReaders
<1>6. CASE ~(p \in visited \/ Cardinality(visited) >= MaxPages)
  <2>1. /\ visited' = visited \cup {p} /\ Adds(Range(Page(p)))
        /\ \/ p * PageSize < Len(listed) /\ UNCHANGED outcome
              /\ \E next \in visited \cup {p, p + 1} : ahead' = <<next>>
           \/ ~(p * PageSize < Len(listed)) /\ ahead' = <<>> /\ outcome' = "complete"
    BY <1>3, <1>6 DEF ReadInventory
  <2>2. visited = 1..(p - 1) /\ KeptFrom((p - 1) * PageSize)
    BY <1>2, <1>6
  <2>3. Cardinality(visited) = p - 1
    <3>1. Cardinality(1..(p - 1)) = p - 1
      BY FS_Interval
    <3> QED
      BY <2>2, <3>1
  <2>4. p \in 1..MaxPages /\ visited' = 1..p
    BY <2>1, <2>2, <2>3, <1>3, <1>6
  <2>5. shown' \in Seq(Range(shown')) /\ IsInjective(shown')
        /\ Range(shown') = Range(shown) \cup Range(Page(p))
    BY <1>1, <2>1, PageShows, AddsOnce
  <2>6. KeptFrom(p * PageSize)'
    BY <1>1, <1>4, <2>2, <2>5, KeptByPage
  <2>7. visited' \subseteq 1..MaxPages
    BY <2>4, <1>3
  <2>8. CASE p * PageSize < Len(listed) /\ outcome' = "reading"
    <3>1. PICK next \in visited \cup {p, p + 1} : ahead' = <<next>>
      BY <2>1, <2>8
    <3>2. next \in Nat \ {0}
      BY <2>2, <1>3
    <3>3. next \in visited' \/ (visited' = 1..(next - 1) /\ KeptFrom((next - 1) * PageSize)')
      <4>1. CASE next = p + 1
        <5>1. next - 1 = p
          BY <4>1
        <5> QED
          BY <5>1, <2>4, <2>6
      <4> QED
        BY <4>1, <2>1
    <3>4. InventoryInv'
      BY <3>1, <3>2, <3>3, <2>8 DEF InventoryInv
    <3> QED
      BY <3>4, <2>5, <2>7, <2>8, <1>1, <1>4 DEF ReadInv, ReadTypeOK, MotionReaders
  <2>9. CASE ~(p * PageSize < Len(listed)) /\ ahead' = <<>> /\ outcome' = "complete"
    <3>1. ASSUME NEW x \in promised PROVE x \in Range(shown') \/ disturbed
      <4>1. Len(listed) \in Nat /\ DOMAIN listed = 1..Len(listed)
        BY <1>1, LenProperties
      <4>2. p * PageSize \in Nat
        BY <1>1, PageShows
      <4>3. \A i \in DOMAIN listed : ~(i > p * PageSize)
        BY <4>1, <4>2, <2>9
      <4> QED
        BY <4>3, <2>6, <1>4 DEF KeptFrom, Behind
    <3>2. InventoryInv'
      BY <3>1, <2>9, <1>4 DEF InventoryInv
    <3> QED
      BY <3>2, <2>5, <2>7, <2>9, <1>1, <1>4 DEF ReadInv, ReadTypeOK, MotionReaders
  <2> QED
    BY <2>1, <2>8, <2>9, <1>1
<1> QED
  BY <1>5, <1>6

\* Where a window is split, each of its events is in one of the halves.
LEMMA HalvesCover ==
  ASSUME NEW w \in Nat \X Nat, NEW depth \in Nat, w[2] - w[1] > MinWindow
  PROVE  /\ Halves(w, depth) \in Seq((Nat \X Nat) \X Nat) /\ Len(Halves(w, depth)) = 2
         /\ \A t \in Nat : InWindow(t, w) =>
              InWindow(t, Halves(w, depth)[1][1]) \/ InWindow(t, Halves(w, depth)[2][1])
<1> DEFINE middle == w[1] + (w[2] - w[1]) \div 2
<1>1. middle \in Nat
  BY DEF MinWindow
<1> HIDE DEF middle
<1>2. Halves(w, depth) = <<<<<<w[1], middle>>, depth + 1>>, <<<<middle, w[2]>>, depth + 1>>>>
  BY DEF Halves, middle
<1>3. Second(middle) \in Int
  BY <1>1 DEF Second
<1>4. ASSUME NEW t \in Nat, InWindow(t, w)
      PROVE  InWindow(t, <<w[1], middle>>) \/ InWindow(t, <<middle, w[2]>>)
  BY <1>3, <1>4 DEF InWindow
<1> QED
  BY <1>1, <1>2, <1>4

LEMMA ReadMotionStep ==
  ASSUME ReadInv, ReadMotion
  PROVE  ReadInv'
<1>1. /\ reader \in MotionReaders /\ outcome = "reading" /\ ReadTypeOK /\ MotionReadInv
      /\ listed \in Seq(Items) /\ shown \in Seq(Range(shown)) /\ IsInjective(shown)
  BY DEF ReadInv, ReadMotion, Asking
<1> DEFINE w == Head(ahead)[1]
           depth == Head(ahead)[2]
           Windows == (Nat \X Nat) \X Nat
<1>2. /\ ahead \in Seq(Windows) /\ ahead # <<>>
      /\ \A t \in promised : \/ t \in Range(shown)
                             \/ \E i \in 1..Len(ahead) : InWindow(t, ahead[i][1])
      /\ promised \subseteq motion /\ motion \subseteq 0..asked[2] /\ asked[2] \in Nat
  BY <1>1 DEF MotionReadInv
<1>3. PICK hits :
        /\ \/ hits = {t \in motion : Second(w[1]) <= t /\ t < Second(w[2])}
           \/ hits = {t \in motion : Second(w[1]) <= t /\ t <= Second(w[2])}
        /\ \/ /\ Adds(hits) /\ ahead' = Tail(ahead)
              /\ outcome' = IF Tail(ahead) = <<>> THEN "complete" ELSE "reading"
           \/ /\ UNCHANGED shown
              /\ \/ ahead' = <<>> /\ outcome' = "failed"
                 \/ /\ ~(w[2] - w[1] <= MinWindow)
                    /\ ahead' = Halves(w, depth) \o Tail(ahead) /\ UNCHANGED outcome
  BY DEF ReadMotion
<1>4. UNCHANGED <<reader, listed, motion, promised, asked, visited, arrivals, disturbed>>
  BY DEF ReadMotion
<1>5. /\ Head(ahead) \in Windows /\ Tail(ahead) \in Seq(Windows)
      /\ Len(Tail(ahead)) = Len(ahead) - 1 /\ Len(ahead) \in Nat \ {0}
      /\ \A i \in 1..Len(Tail(ahead)) : Tail(ahead)[i] = ahead[i + 1]
      /\ Head(ahead) = ahead[1]
  BY <1>2, HeadTailProperties, EmptySeq
<1>6. w \in Nat \X Nat /\ depth \in Nat
  BY <1>5
<1>7. IsFiniteSet(hits) /\ \A t \in promised : InWindow(t, w) => t \in hits
  <2>1. hits \subseteq motion
    BY <1>3
  <2>2. IsFiniteSet(0..asked[2])
    <3>1. 0 \in Int /\ asked[2] \in Int
      BY <1>2
    <3> QED
      BY <3>1, FS_Interval
  <2>3. IsFiniteSet(hits)
    <3>1. hits \in SUBSET (0..asked[2])
      BY <2>1, <1>2
    <3> QED
      BY <3>1, <2>2, FS_Subset
  <2>4. Second(w[2]) \in Int
    BY <1>6 DEF Second
  <2>5. ASSUME NEW t \in promised, InWindow(t, w) PROVE t \in hits
    <3>1. t \in motion /\ t \in Int
      BY <1>2
    <3> QED
      BY <3>1, <2>4, <2>5, <1>3 DEF InWindow
  <2> QED
    BY <2>3, <2>5
<1> HIDE DEF w, depth
\* Whatever was to come is in the first window or behind it.
<1>8. ASSUME NEW t \in promised, t \notin Range(shown)
      PROVE  InWindow(t, w) \/ \E i \in 1..Len(Tail(ahead)) : InWindow(t, Tail(ahead)[i][1])
  <2>1. PICK i \in 1..Len(ahead) : InWindow(t, ahead[i][1])
    BY <1>2, <1>8
  <2>2. CASE i = 1
    BY <2>1, <2>2, <1>5 DEF w
  <2>3. CASE i # 1
    <3>1. i - 1 \in 1..Len(Tail(ahead)) /\ Tail(ahead)[i - 1] = ahead[i]
      BY <2>3, <1>5
    <3> QED
      BY <3>1, <2>1
  <2> QED
    BY <2>2, <2>3
<1>9. CASE /\ Adds(hits) /\ ahead' = Tail(ahead)
           /\ outcome' = IF Tail(ahead) = <<>> THEN "complete" ELSE "reading"
  <2>1. shown' \in Seq(Range(shown')) /\ IsInjective(shown') /\ Range(shown') = Range(shown) \cup hits
    BY <1>1, <1>7, <1>9, AddsOnce
  <2>2. \A t \in promised : \/ t \in Range(shown')
                            \/ \E i \in 1..Len(ahead') : InWindow(t, ahead'[i][1])
    BY <2>1, <1>7, <1>8, <1>9
  <2>3. outcome' = "complete" => promised \subseteq Range(shown')
    <3> SUFFICES ASSUME outcome' = "complete" PROVE promised \subseteq Range(shown')
      OBVIOUS
    <3>1. ahead' = <<>>
      BY <1>9
    <3>2. Len(ahead') = 0
      BY <3>1
    <3> QED
      BY <2>2, <3>2
  <2>4. MotionReadInv'
    BY <2>2, <2>3, <1>2, <1>4, <1>5, <1>9 DEF MotionReadInv, InWindow, Second
  <2> QED
    BY <2>1, <2>4, <1>1, <1>4, <1>9 DEF ReadInv, ReadTypeOK, MotionReaders
<1>10. CASE UNCHANGED shown /\ ahead' = <<>> /\ outcome' = "failed"
  BY <1>1, <1>2, <1>4, <1>10 DEF ReadInv, ReadTypeOK, MotionReaders, MotionReadInv
<1>11. CASE UNCHANGED shown /\ ~(w[2] - w[1] <= MinWindow)
            /\ ahead' = Halves(w, depth) \o Tail(ahead) /\ UNCHANGED outcome
  <2> DEFINE both == Halves(w, depth)
  <2>1. /\ both \in Seq(Windows) /\ Len(both) = 2
        /\ \A t \in Nat : InWindow(t, w) => InWindow(t, both[1][1]) \/ InWindow(t, both[2][1])
    <3>1. w[2] - w[1] > MinWindow
      BY <1>6, <1>11 DEF MinWindow
    <3> QED
      BY <3>1, <1>6, HalvesCover
  <2> HIDE DEF both
  <2>2. ahead' = both \o Tail(ahead)
    BY <1>11 DEF both
  <2>3. /\ ahead' \in Seq(Windows) /\ Len(ahead') = 2 + Len(Tail(ahead))
        /\ \A i \in 1..(2 + Len(Tail(ahead))) :
             ahead'[i] = IF i <= 2 THEN both[i] ELSE Tail(ahead)[i - 2]
    <3> HIDE DEF Windows
    <3>1. /\ both \o Tail(ahead) \in Seq(Windows)
          /\ Len(both \o Tail(ahead)) = Len(both) + Len(Tail(ahead))
          /\ \A i \in 1..(Len(both) + Len(Tail(ahead))) :
               (both \o Tail(ahead))[i] = IF i <= Len(both) THEN both[i] ELSE Tail(ahead)[i - Len(both)]
      BY <2>1, <1>5, ConcatProperties
    <3> QED
      BY <3>1, <2>1, <2>2
  <2>4. Len(Tail(ahead)) \in Nat
    BY <1>5
  <2>5. ASSUME NEW t \in promised, t \notin Range(shown)
        PROVE  \E i \in 1..Len(ahead') : InWindow(t, ahead'[i][1])
    <3>1. t \in Nat
      BY <1>2
    <3>2. CASE InWindow(t, w)
      <4>1. 1 \in 1..Len(ahead') /\ ahead'[1] = both[1] /\ 2 \in 1..Len(ahead') /\ ahead'[2] = both[2]
        BY ONLY <2>3, <2>4
      <4> QED
        BY <4>1, <3>1, <3>2, <2>1
    <3>3. ASSUME NEW i \in 1..Len(Tail(ahead)), InWindow(t, Tail(ahead)[i][1])
          PROVE  \E j \in 1..Len(ahead') : InWindow(t, ahead'[j][1])
      <4>0. i + 2 \in 1..(2 + Len(Tail(ahead))) /\ (i + 2) - 2 = i /\ ~(i + 2 <= 2)
        BY <2>4
      <4>1. i + 2 \in 1..Len(ahead') /\ ahead'[i + 2] = Tail(ahead)[i]
        BY <4>0, <2>3, Zenon
      <4> QED
        BY <4>1, <3>3
    <3> QED
      BY <3>2, <3>3, <2>5, <1>8
  <2>6. ahead' # <<>>
    <3>1. Len(ahead') # 0
      BY <2>3, <2>4
    <3> QED
      BY <3>1
  <2>7. MotionReadInv'
    BY <2>3, <2>5, <2>6, <1>1, <1>2, <1>4, <1>11 DEF MotionReadInv, InWindow, Second
  <2> QED
    BY <2>7, <1>1, <1>4, <1>11 DEF ReadInv, ReadTypeOK, MotionReaders
<1> QED
  BY <1>3, <1>9, <1>10, <1>11

LEMMA ListChangeStep ==
  ASSUME ReadInv, NewCall \/ NewMotion \/ NewCamera \/ CameraGone
  PROVE  ReadInv'
<1>1. /\ outcome = "reading" /\ ReadTypeOK
      /\ listed \in Seq(Items) /\ shown \in Seq(Range(shown)) /\ IsInjective(shown)
      /\ UNCHANGED <<reader, promised, asked, ahead, visited, shown, outcome>>
      /\ arrivals' = arrivals + 1 /\ arrivals' \in 0..MaxArrivals
  <2>1. Changed
    BY DEF NewCall, NewMotion, NewCamera, CameraGone
  <2>2. arrivals \in 0..MaxArrivals /\ MaxArrivals \in Nat
    BY ReadBounds DEF ReadInv, ReadTypeOK
  <2>3. arrivals' = arrivals + 1 /\ arrivals < MaxArrivals
    BY <2>1 DEF Changed
  <2> QED
    BY <2>1, <2>2, <2>3 DEF ReadInv, Changed
<1>2. Len(listed) \in Nat /\ DOMAIN listed = 1..Len(listed)
  BY <1>1, LenProperties
<1>3. MaxListed + arrivals + 1 \in Nat
  BY <1>1, ReadBounds DEF ReadTypeOK
\* An entry that stays where it is or moves down is still to come.
<1>4. ASSUME NEW n,
             \A i \in DOMAIN listed : i > n => \E j \in DOMAIN listed' : j > n /\ listed'[j] = listed[i],
             disturbed => disturbed', KeptFrom(n)
      PROVE  KeptFrom(n)'
  <2> SUFFICES ASSUME NEW x \in promised, x \notin Range(shown), ~disturbed
               PROVE  x \in Behind(n)'
    BY <1>1, <1>4 DEF KeptFrom, Behind
  <2>1. PICK i \in DOMAIN listed : i > n /\ listed[i] = x
    BY <1>4 DEF KeptFrom, Behind
  <2>2. PICK j \in DOMAIN listed' : j > n /\ listed'[j] = x
    BY <1>4, <2>1
  <2> QED
    BY <2>2 DEF Behind
<1>5. CASE NewCall
  <2>1. reader = "calls" /\ CallsInv /\ UNCHANGED <<motion, disturbed>>
    BY <1>5 DEF NewCall, ReadInv
  <2>2. PICK kind \in CallKinds :
          /\ listed' = <<<<MaxListed + arrivals + 1, kind>>>> \o listed
          /\ Ordered([i \in DOMAIN listed' |-> listed'[i][2]])
    BY <1>5 DEF NewCall
  <2> DEFINE call == <<MaxListed + arrivals + 1, kind>>
  <2>3. call \in Items
    BY <1>3 DEF Items
  <2> HIDE DEF call
  <2>4. <<call>> \in Seq(Items) /\ Len(<<call>>) = 1
    BY <2>3
  <2>5. /\ listed' \in Seq(Items) /\ Len(listed') = 1 + Len(listed)
        /\ \A i \in 1..(1 + Len(listed)) : listed'[i] = IF i <= 1 THEN <<call>>[i] ELSE listed[i - 1]
    <3>1. /\ <<call>> \o listed \in Seq(Items)
          /\ Len(<<call>> \o listed) = Len(<<call>>) + Len(listed)
          /\ \A i \in 1..(Len(<<call>>) + Len(listed)) :
               (<<call>> \o listed)[i] = IF i <= Len(<<call>>) THEN <<call>>[i]
                                                         ELSE listed[i - Len(<<call>>)]
      BY <1>1, <2>4, ConcatProperties
    <3> QED
      BY <3>1, <2>2, <2>4 DEF call
  <2>6. ASSUME NEW n \in Nat, KeptFrom(n) PROVE KeptFrom(n)'
    <3>1. ASSUME NEW i \in DOMAIN listed, i > n
          PROVE  \E j \in DOMAIN listed' : j > n /\ listed'[j] = listed[i]
      <4>1. i + 1 \in 1..(1 + Len(listed)) /\ (i + 1) - 1 = i /\ ~(i + 1 <= 1) /\ i + 1 > n
        BY <1>2, <3>1
      <4>2. DOMAIN listed' = 1..(1 + Len(listed))
        BY <2>5, LenProperties
      <4>3. listed'[i + 1] = listed[i]
        BY <4>1, <2>5, Zenon
      <4> QED
        BY <4>1, <4>2, <4>3
    <3> QED
      BY <3>1, <2>1, <2>6, <1>4
  <2>7. CallsInv'
    <3>1. PICK p \in 1..MaxPages :
            ahead = <<p>> /\ visited = 1..(p - 1) /\ KeptFrom((p - 1) * PageSize)
      BY <1>1, <2>1 DEF CallsInv
    <3>2. (p - 1) * PageSize \in Nat
      <4>1. p \in Nat \ {0}
        BY ReadBounds
      <4> QED
        BY <4>1, <1>1, PageShows
    <3>3. KeptFrom((p - 1) * PageSize)'
      BY <3>1, <3>2, <2>6
    <3> QED
      BY <3>1, <3>3, <2>1, <2>2, <1>1 DEF CallsInv
  <2> QED
    BY <1>1, <2>1, <2>5, <2>7 DEF ReadInv, ReadTypeOK, MotionReaders
<1>6. CASE NewMotion
  <2>1. reader \in MotionReaders /\ MotionReadInv /\ UNCHANGED <<listed, disturbed>>
    BY <1>6 DEF NewMotion, ReadInv
  <2>2. PICK t \in 0..asked[2] : motion' = motion \cup {t}
    BY <1>6 DEF NewMotion
  <2>3. t \in Nat
    BY <2>1 DEF MotionReadInv
  <2>4. MotionReadInv'
    BY <1>1, <2>1, <2>2 DEF MotionReadInv, InWindow, Second
  <2> QED
    BY <1>1, <2>1, <2>2, <2>3, <2>4 DEF ReadInv, ReadTypeOK, MotionReaders
<1>7. CASE NewCamera
  <2>1. reader = "inventory" /\ InventoryInv /\ UNCHANGED <<motion, disturbed>>
    BY <1>7 DEF NewCamera, ReadInv
  <2> DEFINE camera == <<MaxListed + arrivals + 1, "camera">>
  <2>2. PICK k \in 0..Len(listed) :
          listed' = SubSeq(listed, 1, k) \o <<camera>> \o SubSeq(listed, k + 1, Len(listed))
    BY <1>7 DEF NewCamera
  <2>3. camera \in Items
    BY <1>3 DEF Items
  <2> HIDE DEF camera
  <2>4. k \in Nat /\ k <= Len(listed)
    BY <1>2
  <2> DEFINE before == SubSeq(listed, 1, k)
             after == SubSeq(listed, k + 1, Len(listed))
  <2>5. before \in Seq(Items) /\ Len(before) = k /\ \A i \in 1..k : before[i] = listed[i]
    BY <1>1, <1>2, <2>4
  <2>6. /\ after \in Seq(Items) /\ Len(after) = Len(listed) - k
        /\ \A i \in 1..(Len(listed) - k) : after[i] = listed[k + i]
    <3>1. \A i \in (k + 1)..Len(listed) : listed[i] \in Items
      BY <1>1, <1>2, <2>4, ElementOfSeq
    <3>2. k + 1 \in Int /\ Len(listed) \in Int
      BY <1>2, <2>4
    <3>3. /\ after \in Seq(Items)
          /\ Len(after) = IF k + 1 <= Len(listed) THEN Len(listed) - (k + 1) + 1 ELSE 0
          /\ \A i \in 1..(Len(listed) - (k + 1) + 1) : after[i] = listed[k + 1 + i - 1]
      BY ONLY <3>1, <3>2, SubSeqProperties
    <3>4. Len(listed) - (k + 1) + 1 = Len(listed) - k /\ \A i \in Int : k + 1 + i - 1 = k + i
      BY <1>2, <2>4
    <3> HIDE DEF after
    <3>5. Len(after) = Len(listed) - k
      <4>1. k \in Int /\ Len(listed) \in Int /\ k <= Len(listed)
        BY <1>2, <2>4
      <4>2. CASE k + 1 <= Len(listed)
        BY <3>3, <3>4, <4>2
      <4>3. CASE ~(k + 1 <= Len(listed))
        <5>1. Len(after) = 0
          BY <3>3, <4>3
        <5> QED
          BY ONLY <4>1, <4>3, <5>1
      <4> QED
        BY <4>2, <4>3
    <3>6. \A i \in 1..(Len(listed) - k) : i \in Int
      OBVIOUS
    <3> QED
      BY <3>3, <3>4, <3>5, <3>6
  <2> HIDE DEF before, after
  <2>7. /\ before \o <<camera>> \in Seq(Items) /\ Len(before \o <<camera>>) = k + 1
        /\ \A i \in 1..k : (before \o <<camera>>)[i] = listed[i]
    BY <2>3, <2>4, <2>5
  <2>8. /\ listed' \in Seq(Items) /\ Len(listed') = Len(listed) + 1
        /\ \A i \in 1..k : listed'[i] = listed[i]
        /\ \A i \in 1..(Len(listed) - k) : listed'[k + 1 + i] = listed[k + i]
    <3>1. listed' = (before \o <<camera>>) \o after
      BY <2>2 DEF before, after
    <3> QED
      BY <3>1, <2>4, <2>6, <2>7, <1>2
  <2>9. ASSUME NEW n \in Nat, KeptFrom(n) PROVE KeptFrom(n)'
    <3>1. ASSUME NEW i \in DOMAIN listed, i > n
          PROVE  \E j \in DOMAIN listed' : j > n /\ listed'[j] = listed[i]
      <4>1. DOMAIN listed' = 1..(Len(listed) + 1)
        BY <2>8, LenProperties
      <4>2. CASE i <= k
        <5>1. i \in 1..k /\ i \in DOMAIN listed'
          BY <1>2, <2>4, <4>1, <4>2
        <5> QED
          BY <5>1, <2>8, <3>1
      <4>3. CASE ~(i <= k)
        <5>1. i - k \in 1..(Len(listed) - k) /\ k + (i - k) = i /\ k + 1 + (i - k) = i + 1
              /\ i + 1 \in DOMAIN listed' /\ i + 1 > n
          BY <1>2, <2>4, <3>1, <4>1, <4>3
        <5>2. listed'[i + 1] = listed[i]
          BY <5>1, <2>8, Zenon
        <5> QED
          BY <5>1, <5>2
      <4> QED
        BY <4>2, <4>3
    <3> QED
      BY <3>1, <2>1, <2>9, <1>4
  <2>10. InventoryInv'
    <3>1. PICK p \in Nat \ {0} :
            /\ ahead = <<p>>
            /\ p \in visited \/ (visited = 1..(p - 1) /\ KeptFrom((p - 1) * PageSize))
      BY <1>1, <2>1 DEF InventoryInv
    <3>2. (p - 1) * PageSize \in Nat
      BY <1>1, PageShows
    <3>3. p \in visited \/ (visited = 1..(p - 1) /\ KeptFrom((p - 1) * PageSize)')
      BY <3>1, <3>2, <2>9
    <3> QED
      BY <3>1, <3>3, <1>1 DEF InventoryInv
  <2> QED
    BY <1>1, <2>1, <2>8, <2>10 DEF ReadInv, ReadTypeOK, MotionReaders
<1>8. CASE CameraGone
  <2>1. reader = "inventory" /\ InventoryInv /\ disturbed' = TRUE /\ UNCHANGED motion
    BY <1>8 DEF CameraGone, ReadInv
  <2>2. PICK k \in DOMAIN listed :
          listed' = SubSeq(listed, 1, k - 1) \o SubSeq(listed, k + 1, Len(listed))
    BY <1>8 DEF CameraGone
  <2>3. SubSeq(listed, 1, k - 1) \in Seq(Items) /\ SubSeq(listed, k + 1, Len(listed)) \in Seq(Items)
    <3>1. k \in 1..Len(listed)
      BY <1>2
    <3>2. \A i \in 1..(k - 1) : listed[i] \in Items
      BY <3>1, <1>1, <1>2, ElementOfSeq
    <3>3. \A i \in (k + 1)..Len(listed) : listed[i] \in Items
      BY <3>1, <1>1, <1>2, ElementOfSeq
    <3>4. 1 \in Int /\ k - 1 \in Int /\ k + 1 \in Int /\ Len(listed) \in Int
      BY <3>1, <1>2
    <3> QED
      BY <3>2, <3>3, <3>4, SubSeqProperties
  <2>4. listed' \in Seq(Items)
    BY <2>2, <2>3, ConcatProperties
  <2>5. InventoryInv'
    BY <1>1, <2>1 DEF InventoryInv, KeptFrom
  <2> QED
    BY <1>1, <2>1, <2>4, <2>5 DEF ReadInv, ReadTypeOK, MotionReaders
<1> QED
  BY <1>5, <1>6, <1>7, <1>8

\* The first pages, or the whole window, are to be asked for.
LEMMA ReadingBegins == ReadInit => ReadInv
<1> SUFFICES ASSUME ReadInit PROVE ReadInv
  OBVIOUS
<1>1. /\ shown \in Seq(Range(shown)) /\ IsInjective(shown)
  BY DEF ReadInit, IsInjective
<1>2. /\ reader \in Readers /\ visited = {} /\ arrivals = 0 /\ disturbed = FALSE
      /\ outcome = IF reader \in MotionReaders THEN "checking" ELSE "reading"
      /\ 0 \in 0..MaxArrivals
  BY ReadBounds DEF ReadInit
<1>3. CASE reader = "calls"
  <2>1. motion = {} /\ asked = <<0, 0>> /\ ahead = <<1>>
    BY <1>3 DEF ReadInit, MotionReaders
  <2>2. PICK n \in 0..MaxListed : \E kinds \in [1..n -> CallKinds] :
             /\ Ordered(kinds)
             /\ listed = [i \in 1..n |-> <<i, kinds[i]>>]
             /\ promised = {<<i, "wanted">> : i \in {j \in 1..n : kinds[j] = "wanted"}}
    BY <1>3 DEF ReadInit, MotionReaders
  <2>3. PICK kinds \in [1..n -> CallKinds] :
             /\ Ordered(kinds)
             /\ listed = [i \in 1..n |-> <<i, kinds[i]>>]
             /\ promised = {<<i, "wanted">> : i \in {j \in 1..n : kinds[j] = "wanted"}}
    BY <2>2
  <2>4. n \in Nat
    BY <2>2, ReadBounds
  <2>5. listed \in Seq(Items) /\ DOMAIN listed = 1..n
    BY <2>3, <2>4 DEF Items
  <2>6. [i \in DOMAIN listed |-> listed[i][2]] = kinds
    BY <2>3, <2>5
  <2>7. \A x \in promised : x[2] = "wanted" /\ x \in Behind(0)
    <3> SUFFICES ASSUME NEW x \in promised PROVE x[2] = "wanted" /\ x \in Behind(0)
      OBVIOUS
    <3>1. PICK i \in 1..n : kinds[i] = "wanted" /\ x = <<i, "wanted">>
      BY <2>3
    <3>2. listed[i] = x /\ i \in DOMAIN listed /\ i > 0
      BY <2>3, <2>4, <2>5, <3>1
    <3> QED
      BY <3>1, <3>2 DEF Behind
  <2>8. CallsInv
    <3>1. KeptFrom((1 - 1) * PageSize) /\ 1 \in 1..MaxPages /\ visited = 1..(1 - 1)
      <4>1. (1 - 1) * PageSize = 0 /\ 1 \in 1..MaxPages /\ 1..(1 - 1) = {}
        BY ReadBounds
      <4> QED
        BY <4>1, <2>7, <1>2 DEF KeptFrom
    <3>2. outcome = "reading"
      BY <1>2, <1>3 DEF MotionReaders
    <3> QED
      BY <2>1, <2>3, <2>6, <2>7, <3>1, <3>2 DEF CallsInv
  <2> QED
    BY <1>1, <1>2, <1>3, <2>1, <2>5, <2>8 DEF ReadInv, ReadTypeOK, MotionReaders
<1>4. CASE reader = "inventory"
  <2>1. motion = {} /\ asked = <<0, 0>> /\ ahead = <<1>> /\ promised = Range(listed)
    BY <1>4 DEF ReadInit, MotionReaders
  <2>2. PICK n \in 0..MaxListed : listed = [i \in 1..n |-> <<i, "camera">>]
    BY <1>4 DEF ReadInit, MotionReaders
  <2>3. listed \in Seq(Items) /\ DOMAIN listed = 1..n
    <3>1. n \in Nat
      BY <2>2, ReadBounds
    <3> QED
      BY <2>2, <3>1 DEF Items
  <2>4. \A x \in promised : x \in Behind(0)
    BY <2>1, <2>3 DEF Range, Behind
  <2>5. InventoryInv
    <3>1. KeptFrom((1 - 1) * PageSize) /\ visited = 1..(1 - 1)
      <4>1. (1 - 1) * PageSize = 0 /\ 1..(1 - 1) = {}
        BY ReadBounds
      <4> QED
        BY <4>1, <2>4, <1>2 DEF KeptFrom
    <3>2. outcome = "reading"
      BY <1>2, <1>4 DEF MotionReaders
    <3>3. 1 \in Nat \ {0}
      OBVIOUS
    <3> QED
      BY <2>1, <3>1, <3>2, <3>3 DEF InventoryInv
  <2> QED
    BY <1>1, <1>2, <1>4, <2>1, <2>3, <2>5 DEF ReadInv, ReadTypeOK, MotionReaders
<1>5. CASE reader \in MotionReaders
  <2>1. /\ listed = <<>> /\ asked \in TimeWindows
        /\ motion \in SUBSET (0..asked[2])
        /\ promised = {t \in motion : Second(asked[1]) <= t /\ t < Second(asked[2])}
        /\ ahead = <<<<asked, 0>>>>
    BY <1>5 DEF ReadInit, MotionReaders
  <2>2. asked \in Nat \X Nat
    BY <2>1, ReadBounds
  <2>3. ahead \in Seq((Nat \X Nat) \X Nat) /\ ahead # <<>> /\ Len(ahead) = 1
        /\ ahead[1][1] = asked
    BY <2>1, <2>2
  <2>4. \A t \in promised : InWindow(t, ahead[1][1])
    BY <2>1, <2>3 DEF InWindow
  <2>5. outcome = "checking"
    BY <1>2, <1>5
  <2>6. MotionReadInv
    BY <2>1, <2>2, <2>3, <2>4, <2>5 DEF MotionReadInv
  <2>7. motion \subseteq Nat
    BY <2>1, <2>2
  <2>8. listed \in Seq(Items)
    BY <2>1, EmptySeq
  <2> QED
    BY <1>1, <1>2, <1>5, <2>1, <2>5, <2>6, <2>7, <2>8 DEF ReadInv, ReadTypeOK, MotionReaders
<1> QED
  BY <1>2, <1>3, <1>4, <1>5 DEF Readers

\* The invariant of the readings.
LEMMA ReadInvariant == ReadSpec => []ReadInv
<1>1. ReadInv /\ [ReadNext]_readVars => ReadInv'
  <2> SUFFICES ASSUME ReadInv, [ReadNext]_readVars PROVE ReadInv'
    OBVIOUS
  <2>1. CASE CheckMotion \/ CheckPrivateMotion
    <3>1. /\ reader \in MotionReaders /\ outcome = "checking"
          /\ outcome' \in {"reading", "unsupported"}
          /\ ahead' = IF outcome' = "reading" THEN ahead ELSE <<>>
          /\ UNCHANGED <<reader, listed, motion, promised, asked, visited, shown, arrivals, disturbed>>
      BY <2>1 DEF CheckMotion, CheckPrivateMotion, Checked, MotionReaders
    <3> QED
      BY <3>1 DEF ReadInv, ReadTypeOK, MotionReadInv, MotionReaders, InWindow, Second
  <2>2. CASE ReadFails
    BY <2>2 DEF ReadFails, ReadInv, ReadTypeOK, CallsInv, InventoryInv, MotionReadInv, MotionReaders
  <2>3. CASE UNCHANGED readVars
    <3>1. UNCHANGED <<reader, listed, motion, promised, asked, ahead, visited, shown, outcome,
                      arrivals, disturbed>>
      BY <2>3 DEF readVars
    <3>2. ReadTypeOK => ReadTypeOK'
      BY <3>1 DEF ReadTypeOK
    <3>3. CallsInv => CallsInv'
      BY <3>1 DEF CallsInv, KeptFrom, Behind
    <3>4. InventoryInv => InventoryInv'
      BY <3>1 DEF InventoryInv, KeptFrom, Behind
    <3>5. MotionReadInv => MotionReadInv'
      BY <3>1 DEF MotionReadInv
    <3> QED
      BY <3>1, <3>2, <3>3, <3>4, <3>5 DEF ReadInv
  <2> QED
    BY <2>1, <2>2, <2>3, ReadCallsStep, ReadMotionStep, ReadInventoryStep, ListChangeStep
    DEF ReadNext
<1> QED
  BY <1>1, ReadingBegins, PTL DEF ReadSpec

\* Every reading keeps its type.
THEOREM ReadTypesCorrect == ReadSpec => []ReadTypeOK
<1>1. ReadInv => ReadTypeOK
  BY DEF ReadInv
<1> QED
  BY <1>1, ReadInvariant, PTL

\* However the list grows and its pages shift, a reading that is not refused shows what was
\* there when it began, and nothing twice (ReadsAreComplete).
THEOREM NothingIsPassedOver == ReadSpec => []ReadsAreComplete
<1>1. ReadInv => ReadsAreComplete
  <2> SUFFICES ASSUME ReadInv, outcome = "complete"
               PROVE  /\ IsInjective(shown)
                      /\ \A x \in promised : \/ x \in Range(shown)
                                             \/ disturbed
                                             \/ reader = "calls" /\ x \in BehindTheLastPage
    BY DEF ReadsAreComplete
  <2>1. IsInjective(shown) /\ reader \in Readers /\ listed \in Seq(Items)
    BY DEF ReadInv, ReadTypeOK
  <2>2. ASSUME reader = "calls", NEW x \in Behind(MaxPages * PageSize) PROVE x \in BehindTheLastPage
    <3>1. DOMAIN listed = 1..Len(listed) /\ Len(listed) \in Nat /\ MaxPages * PageSize \in Nat
      <4>1. MaxPages \in Nat /\ PageSize \in Nat
        BY ReadBounds
      <4> QED
        BY <4>1, <2>1, LenProperties
    <3>2. PICK i \in 1..Len(listed) : i > MaxPages * PageSize /\ listed[i] = x
      BY <2>2, <3>1 DEF Behind
    <3>3. i \in MaxPages * PageSize + 1 .. Len(listed)
      BY <3>1, <3>2
    <3> QED
      BY <3>2, <3>3 DEF BehindTheLastPage
  <2> QED
    <3>1. CASE reader = "calls"
      <4>1. \A x \in promised : x \in Range(shown) \/ disturbed \/ x \in Behind(MaxPages * PageSize)
        BY <3>1 DEF ReadInv, CallsInv, KeptFrom
      <4> QED
        BY <2>1, <2>2, <3>1, <4>1
    <3>2. CASE reader = "inventory"
      <4>1. \A x \in promised : x \in Range(shown) \/ disturbed
        BY <3>2 DEF ReadInv, InventoryInv
      <4> QED
        BY <2>1, <4>1
    <3>3. CASE reader \in MotionReaders
      <4>1. promised \subseteq Range(shown)
        BY <3>3 DEF ReadInv, MotionReadInv
      <4> QED
        BY <2>1, <4>1
    <3> QED
      BY <2>1, <3>1, <3>2, <3>3 DEF Readers
<1> QED
  BY <1>1, ReadInvariant, PTL

-----------------------------------------------------------------------------
(* All of it.                                                              *)

\* The parts share no variables: what they do together, each does as if it were alone.
LEMMA PartsByThemselves ==
  CamerasSpec => ExportSpec /\ ViewSpec /\ CardSpec /\ ImageSpec /\ MotionSpec /\ ReadSpec
<1>1. CamerasInit =>
        ExportInit /\ ViewInit /\ CardInit /\ ImageInit /\ MotionInit /\ ReadInit
  BY DEF CamerasInit
<1>2. [CamerasNext]_camerasVars =>
        /\ [ExportNext]_exportVars /\ [ViewNext]_viewVars /\ [CardNext]_cardVars
        /\ [ImageNext]_imageVars /\ [MotionNext]_motionVars /\ [ReadNext]_readVars
  BY DEF CamerasNext, camerasVars
<1> QED
  BY <1>1, <1>2, PTL DEF CamerasSpec, ExportSpec, ViewSpec, CardSpec, ImageSpec, MotionSpec,
                         ReadSpec

PartOK ==
  /\ part \in {"exports", "view", "card", "days", "image", "motion", "reads"}
  /\ recorded \in Recordings \cup {{}}
  /\ part = "days" => recorded \in Recordings

LEMMA OnePartMoves == CamerasSpec => []PartOK
<1>1. CamerasInit => PartOK
  BY DEF CamerasInit, PartOK
<1>2. PartOK /\ [CamerasNext]_camerasVars => PartOK'
  BY DEF CamerasNext, camerasVars, PartOK
<1> QED
  BY <1>1, <1>2, PTL DEF CamerasSpec

\* Each part keeps its invariant: an export its job and its file, the clean-up its count,
\* the controls and the card what they select and show, the images their loads, the motion
\* events what was published, and the reads their types (CamerasInv).
THEOREM CamerasInvariant == CamerasSpec => []CamerasInv
<1>1. /\ PartOK /\ ExportInv /\ CleanupInv /\ ViewInv /\ CardInv /\ ImageInv /\ MotionInv
      /\ SyncInv /\ ReadTypeOK
      => CamerasInv
  BY DEF PartOK, CamerasInv
<1> QED
  BY <1>1, PartsByThemselves, OnePartMoves, ExportInvariant, CleanupsCount, ViewInvariant,
     CardInvariant, ImageInvariant, MotionInvariant, AnalyticsAreInStep, ReadTypesCorrect, PTL

\* Whatever recordings there are, the days made of them show every recorded second once
\* and on its day, and beyond these only gaps within the jitter (services.py:2204-2279).
THEOREM DaysShowWhatIsRecorded == CamerasSpec => []DaysShowTheArchive
<1>1. PartOK => DaysShowTheArchive
  <2> SUFFICES ASSUME PartOK, NEW day \in 0..(MaxSecond \div DayLength)
               PROVE  ShowsTheArchive(recorded, day)
    BY DEF DaysShowTheArchive
  <2>1. FiniteArchive(recorded)
    <3> DEFINE all == {r \in (0..MaxSecond) \X (0..MaxSecond) : r[1] < r[2]}
    <3>1. CASE recorded = {}
      BY <3>1, FS_EmptySet DEF FiniteArchive
    <3>2. CASE recorded \in Recordings
      <4>1. PICK x \in all, y \in all, z \in all : recorded = {x, y, z}
        BY <3>2 DEF Recordings
      <4>2. IsFiniteSet(recorded)
        <5>1. IsFiniteSet({x})
          BY FS_Singleton
        <5>2. IsFiniteSet({x} \cup {y})
          BY <5>1, FS_AddElement
        <5>3. IsFiniteSet(({x} \cup {y}) \cup {z})
          BY <5>2, FS_AddElement
        <5>4. recorded = ({x} \cup {y}) \cup {z}
          BY <4>1
        <5> QED
          BY <5>3, <5>4
      <4>3. \A r \in all : r \in Nat \X Nat /\ r[1] < r[2]
        BY TimesAssumption
      <4> QED
        BY <4>1, <4>2, <4>3 DEF FiniteArchive
    <3> QED
      BY <3>1, <3>2 DEF PartOK
  <2> QED
    BY <2>1, DaysShowArchives
<1> QED
  BY <1>1, OnePartMoves, PTL
=============================================================================
