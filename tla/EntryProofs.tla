----------------------------- MODULE EntryProofs -----------------------------
(***************************************************************************)
(* Proofs about the other parts of an entry that MCDevices puts together:  *)
(* the cameras' tokens, which last and are never the ones just refused     *)
(* (TokenInv); the platforms and their one runtime, and the entities they  *)
(* must all have made (Entities); the call sensor and its timer (TimerInv); *)
(* the dashboard resources of the cards (CardsInd); and the probes of the  *)
(* research tools, which conclude only what they have seen (ProbeInv).     *)
(* The parts share no state: together with DeviceProofs they give          *)
(* DevicesInv of the composition.                                          *)
(***************************************************************************)
EXTENDS MCDevices, DeviceProofs

-----------------------------------------------------------------------------
(* The operations of a camera.                                             *)

\* What an operation goes on to do keeps its type.
LEMMA GoingOn ==
  ASSUME NEW n, NEW o \in OperationRecord(n), o.todo # <<>>
  PROVE  /\ GoesOn(o) \in OperationRecord(n)
         /\ GoesOn(o).pc \in {"over", "get"}
         /\ GoesOn(o).pc = "get" => GoesOn(o).todo # <<>>
         /\ GoesOn(o).force = o.force /\ GoesOn(o).refused = o.refused
         /\ GoesOn(o).token = o.token /\ GoesOn(o).cameras = o.cameras
<1>1. o.todo \in Seq({"look", "try", "hand"})
  BY DEF OperationRecord
<1>2. CASE Len(o.todo) = 1
  <2>1. <<>> \in Seq({"look", "try", "hand"})
    BY EmptySeq
  <2> QED
    BY <1>2, <2>1 DEF GoesOn, OperationRecord
<1>3. CASE Len(o.todo) # 1
  <2>1. /\ Tail(o.todo) \in Seq({"look", "try", "hand"})
        /\ Len(Tail(o.todo)) = Len(o.todo) - 1
    BY <1>1, HeadTailProperties
  <2>2. Tail(o.todo) # <<>>
    <3>1. Len(o.todo) \in Nat \ {0}
      BY <1>1, EmptySeq
    <3>2. Len(Tail(o.todo)) # 0
      BY <1>3, <2>1, <3>1
    <3> QED
      BY <3>2, EmptySeq
  <2> QED
    BY <1>3, <2>1, <2>2 DEF GoesOn, OperationRecord
<1> QED
  BY <1>2, <1>3

LEMMA TypeNoOperation ==
  ASSUME NEW n \in Nat
  PROVE  NoOperation \in OperationRecord(n)
<1>1. <<>> \in Seq({"look", "try", "hand"})
  BY EmptySeq
<1> QED
  BY <1>1 DEF NoOperation, OperationRecord, NoToken

LEMMA OperationsAreSequences ==
  \A o \in Operations : o \in Seq({"look", "try", "hand"}) /\ o # <<>>
<1> DEFINE S == {"look", "try", "hand"}
<1>1. ASSUME NEW a \in S PROVE <<a>> \in Seq(S) /\ <<a>> # <<>>
  OBVIOUS
<1>2. ASSUME NEW a \in S, NEW b \in S PROVE <<a, b>> \in Seq(S) /\ <<a, b>> # <<>>
  OBVIOUS
<1>3. ASSUME NEW a \in S, NEW b \in S, NEW d \in S
      PROVE  <<a, b, d>> \in Seq(S) /\ <<a, b, d>> # <<>>
  OBVIOUS
<1>4. "look" \in S /\ "try" \in S /\ "hand" \in S
  OBVIOUS
<1> HIDE DEF S
<1>5. \A o \in Operations : o \in Seq(S) /\ o # <<>>
  BY <1>1, <1>2, <1>3, <1>4
     DEF Operations, HlsUrl, Snapshot, RangesService, UrlService, PrivateRangesService,
         PrivateUrlService, SetUpArchive, ArchiveStream
<1> QED
  BY <1>5 DEF S

-----------------------------------------------------------------------------
(* Types.                                                                  *)

\* An operation that has its camera.
LEMMA HavingIt ==
  ASSUME NEW n \in Nat, NEW u, user[u] \in OperationRecord(n), user[u].todo # <<>>,
         NEW token \in 0..n
  PROVE  /\ Has(u, token) \in OperationRecord(n)
         /\ Has(u, token).pc \in {"idle", "try", "over", "get"}
         /\ Has(u, token).pc \in {"try", "get"} => Has(u, token).todo # <<>>
         /\ Has(u, token).force = FALSE
         /\ Has(u, token).refused \in {NoToken, user[u].refused}
         /\ Has(u, token).cameras > user[u].cameras =>
              Has(u, token).token = token /\ Has(u, token).refused = user[u].refused
<1> DEFINE next == [user[u] EXCEPT !.token = token, !.force = FALSE, !.cameras = @ + 1]
<1>0. user[u].cameras \in Nat /\ user[u].cameras + 1 \in Nat
  BY DEF OperationRecord
<1>1. next \in OperationRecord(n)
  <2>1. next = [user[u] EXCEPT !.token = token, !.force = FALSE, !.cameras = user[u].cameras + 1]
    BY DEF OperationRecord
  <2> HIDE DEF next
  <2> QED
    BY <1>0, <2>1 DEF OperationRecord
<1>2. /\ next.force = FALSE /\ next.refused = user[u].refused /\ next.token = token
      /\ user[u].cameras \in Nat /\ next.todo # <<>>
  BY DEF OperationRecord
<1>3. CASE Has(u, token) = NoOperation
  <2>1. /\ NoOperation.pc = "idle" /\ NoOperation.force = FALSE
        /\ NoOperation.refused = NoToken /\ NoOperation.cameras = 0
    BY DEF NoOperation
  <2> HIDE DEF next
  <2> QED
    BY <1>0, <1>3, <2>1, TypeNoOperation
<1>4. CASE Has(u, token) = [next EXCEPT !.pc = "try"]
  BY <1>1, <1>2, <1>4 DEF OperationRecord
<1>5. CASE Has(u, token) = GoesOn(next)
  <2> HIDE DEF next
  <2>1. /\ GoesOn(next) \in OperationRecord(n)
        /\ GoesOn(next).pc \in {"over", "get"}
        /\ GoesOn(next).pc = "get" => GoesOn(next).todo # <<>>
        /\ GoesOn(next).force = next.force /\ GoesOn(next).refused = next.refused
        /\ GoesOn(next).token = next.token /\ GoesOn(next).cameras = next.cameras
    BY <1>1, <1>2, GoingOn
  <2> QED
    BY <1>2, <1>5, <2>1
<1>6. \/ Has(u, token) = NoOperation
      \/ Has(u, token) = [next EXCEPT !.pc = "try"]
      \/ Has(u, token) = GoesOn(next)
  BY Zenon DEF Has
<1> QED
  BY <1>3, <1>4, <1>5, <1>6

\* A record of an operation stays one when there are more answers.
LEMMA RecordsLast ==
  ASSUME NEW n \in Nat, NEW m \in Nat, n <= m
  PROVE  OperationRecord(n) \subseteq OperationRecord(m)
  BY DEF OperationRecord

-----------------------------------------------------------------------------
(* The tokens.                                                             *)

\* What a step of the operation of u owes: the others are left alone, its record and
\* its place in the queue fit, and a camera it gets comes with a good token.
Proper(u, n) ==
  /\ \A d \in Users \ {u} : user'[d] = user[d]
  /\ user' \in [Users -> OperationRecord(n)]
  /\ user'[u].pc \in {"get", "lock", "fetch", "try"} => user'[u].todo # <<>>
  /\ user'[u].force => user'[u].pc \in {"get", "lock", "fetch"}
  /\ user'[u].refused = NoToken \/ user'[u].force
       \/ cached' = NoToken \/ cached' > user'[u].refused
  /\ user'[u].cameras > user[u].cameras =>
       user'[u].token \in young' /\ user'[u].token # user'[u].refused

\* The operation ends.
LEMMA EndsProperly ==
  ASSUME TokenInv, NEW u \in Users, user' = [user EXCEPT ![u] = NoOperation]
  PROVE  Proper(u, answers) /\ user'[u].pc = "idle"
<1>1. user \in [Users -> OperationRecord(answers)] /\ answers \in Nat
  BY DEF TokenInv, TokenTypeOK
<1>2. user' \in [Users -> OperationRecord(answers)]
  BY <1>1, TypeNoOperation
<1>3. user'[u] = NoOperation /\ \A d \in Users \ {u} : user'[d] = user[d]
  BY <1>1
<1>4. /\ NoOperation.pc = "idle" /\ NoOperation.force = FALSE
      /\ NoOperation.refused = NoToken /\ NoOperation.cameras = 0
  BY DEF NoOperation
<1>5. user[u].cameras \in Nat
  BY <1>1 DEF OperationRecord
<1> QED
  BY <1>2, <1>3, <1>4, <1>5 DEF Proper

\* The operation gets its camera, from the cache or from UCAMS.
LEMMA GetsProperly ==
  ASSUME TokenInv, NEW u \in Users, user[u].todo # <<>>,
         answers' \in {answers, answers + 1}, cached' \in young', cached' \in 1..answers',
         user[u].refused = NoToken \/ cached' > user[u].refused,
         user' = [user EXCEPT ![u] = Has(u, cached')]
  PROVE  Proper(u, answers') /\ user'[u].pc # "fetch"
<1>1. user \in [Users -> OperationRecord(answers)] /\ answers \in Nat /\ answers' \in Nat
  BY DEF TokenInv, TokenTypeOK
<1>2. OperationRecord(answers) \subseteq OperationRecord(answers')
  BY <1>1, RecordsLast
<1>3. user[u] \in OperationRecord(answers') /\ cached' \in 0..answers'
  BY <1>1, <1>2
<1> DEFINE r == Has(u, cached')
<1> HIDE DEF r
<1>4. /\ r \in OperationRecord(answers')
      /\ r.pc \in {"idle", "try", "over", "get"}
      /\ r.pc \in {"try", "get"} => r.todo # <<>>
      /\ r.force = FALSE
      /\ r.refused \in {NoToken, user[u].refused}
      /\ r.cameras > user[u].cameras => r.token = cached' /\ r.refused = user[u].refused
  BY <1>1, <1>3, HavingIt DEF r
<1>5. user' = [user EXCEPT ![u] = r]
  BY DEF r
<1>6. user'[u] = r /\ \A d \in Users \ {u} : user'[d] = user[d]
  BY <1>1, <1>5
<1>7. user' \in [Users -> OperationRecord(answers')]
  BY <1>1, <1>2, <1>4, <1>5
<1>8. cached' # user[u].refused
  BY DEF NoToken
<1> QED
  BY <1>4, <1>6, <1>7, <1>8 DEF Proper

\* What is good for all operations, and what a step does to the cache and the lock.
Cache ==
  /\ cached \in 0..answers /\ answers \in 0..MaxAnswers /\ begun \in 0..MaxOperations
  /\ lacking \subseteq 1..answers /\ young \subseteq 1..answers /\ accepted \subseteq 1..answers
  /\ holder \in Users \cup {Nobody}

\* A proper step of u keeps the invariant if the lock goes with it, and the cache does
\* not go back to an older answer.
LEMMA ProperIsSafe ==
  ASSUME TokenInv, NEW u \in Users, Cache', Proper(u, answers'),
         user'[u].pc = "fetch" <=> holder' = u,
         \A d \in Users \ {u} : holder' = d <=> holder = d,
         cached' \in {NoToken, cached, answers + 1}
  PROVE  /\ TokenInv'
         /\ \A d \in Users : user'[d].cameras > user[d].cameras =>
              user'[d].token \in young' /\ user'[d].token # user'[d].refused
<1>1. /\ user \in [Users -> OperationRecord(answers)] /\ answers \in Nat
      /\ \A d \in Users : user[d].refused \in 0..answers /\ user[d].cameras \in Nat
      /\ cached \in 0..answers
  BY DEF TokenInv, TokenTypeOK, OperationRecord
<1>2. \A d \in Users : user'[d].pc = "fetch" <=> holder' = d
  BY DEF Proper, TokenInv, TokenTypeOK
<1>3. \A d \in Users : user'[d].pc \in {"get", "lock", "fetch", "try"} => user'[d].todo # <<>>
  BY DEF Proper, TokenInv, TokenTypeOK
<1>4. TokenTypeOK'
  BY <1>2, <1>3 DEF Proper, Cache, TokenTypeOK
<1>5. RefusedAreOld'
  <2>1. ASSUME NEW d \in Users \ {u}
        PROVE  /\ user'[d].force => user'[d].pc \in {"get", "lock", "fetch"}
               /\ user'[d].refused = NoToken \/ user'[d].force
                    \/ cached' = NoToken \/ cached' > user'[d].refused
    BY <1>1, <2>1 DEF Proper, TokenInv, RefusedAreOld, NoToken
  <2> QED
    BY <2>1 DEF Proper, RefusedAreOld
<1>6. \A d \in Users \ {u} : ~(user'[d].cameras > user[d].cameras)
  BY <1>1 DEF Proper
<1> QED
  BY <1>4, <1>5, <1>6 DEF TokenInv, Proper

\* The steps of an operation are proper.
LEMMA OperationStep ==
  ASSUME TokenInv, NEW u \in Users,
         \/ Operate(u) \/ FromCache(u) \/ NotInCache(u) \/ Lock(u) \/ Answered(u) \/ Fail(u)
         \/ Tried(u) \/ OperationEnds(u)
  PROVE  /\ Cache' /\ Proper(u, answers')
         /\ user'[u].pc = "fetch" <=> holder' = u
         /\ \A d \in Users \ {u} : holder' = d <=> holder = d
         /\ cached' \in {NoToken, cached, answers + 1}
<1>1. /\ user \in [Users -> OperationRecord(answers)] /\ answers \in Nat /\ Cache
      /\ user[u] \in OperationRecord(answers)
      /\ user[u].pc = "fetch" <=> holder = u
      /\ user[u].pc \in {"get", "lock", "fetch", "try"} => user[u].todo # <<>>
      /\ user[u].force => user[u].pc \in {"get", "lock", "fetch"}
      /\ user[u].refused = NoToken \/ user[u].force
           \/ cached = NoToken \/ cached > user[u].refused
      /\ user[u].refused \in 0..answers /\ user[u].cameras \in Nat
      /\ MaxAnswers \in Nat /\ MaxOperations \in Nat /\ Nobody \notin Users
      /\ young \subseteq 1..answers
  BY TokenBounds DEF TokenInv, TokenTypeOK, RefusedAreOld, OperationRecord, Cache
<1>2. IsGood(u) => cached \in 1..answers /\ cached \in young
                   /\ (user[u].refused = NoToken \/ cached > user[u].refused)
  <2>1. IsGood(u) => cached \in young /\ ~user[u].force
    BY DEF IsGood
  <2>2. cached \in young => cached \in 1..answers /\ cached # NoToken
    <3>1. young \subseteq 1..answers
      BY <1>1
    <3>2. \A n \in 1..answers : n # 0
      OBVIOUS
    <3> QED
      BY <3>1, <3>2 DEF NoToken
  <2> QED
    BY <1>1, <2>1, <2>2
<1>3. CASE Operate(u)
  <2>1. PICK o \in Operations :
          user' = [user EXCEPT ![u] = [NoOperation EXCEPT !.pc = "get", !.todo = o,
                                                          !.archive = NeedsArchive(o)]]
    BY <1>3 DEF Operate
  <2> DEFINE r == [NoOperation EXCEPT !.pc = "get", !.todo = o, !.archive = NeedsArchive(o)]
  <2>2. NeedsArchive(o) \in BOOLEAN
    BY DEF NeedsArchive
  <2>3. o \in Seq({"look", "try", "hand"}) /\ o # <<>>
    BY OperationsAreSequences
  <2>4. r \in OperationRecord(answers)
    BY <1>1, <2>2, <2>3, TypeNoOperation DEF OperationRecord
  <2>5. /\ r.pc = "get" /\ r.todo = o /\ r.force = FALSE /\ r.refused = NoToken
        /\ r.cameras = 0
    BY DEF NoOperation
  <2> HIDE DEF r
  <2>6. user' = [user EXCEPT ![u] = r]
    BY <2>1 DEF r
  <2>7. Proper(u, answers) /\ user'[u].pc # "fetch"
    BY <1>1, <2>3, <2>4, <2>5, <2>6 DEF Proper
  <2>8. UNCHANGED <<cached, lacking, holder, answers, young, accepted>>
        /\ begun < MaxOperations /\ begun' = begun + 1
    BY <1>3 DEF Operate
  <2>9. holder # u
    BY <1>1, <1>3 DEF Operate
  <2> QED
    BY <1>1, <2>7, <2>8, <2>9 DEF Cache
<1>4. CASE FromCache(u)
  <2>1. /\ UNCHANGED <<cached, holder, answers, young, accepted, begun, lacking>>
        /\ user' = [user EXCEPT ![u] = Has(u, cached')] /\ IsGood(u) /\ user[u].pc = "get"
    BY <1>4 DEF FromCache
  <2>2. Proper(u, answers') /\ user'[u].pc # "fetch"
    BY <1>1, <1>2, <2>1, GetsProperly
  <2> QED
    BY <1>1, <2>1, <2>2 DEF Cache
<1>5. ASSUME UNCHANGED <<cached, lacking, answers, young, accepted, begun>>,
             NEW pc \in {"lock", "fetch"}, user' = [user EXCEPT ![u].pc = pc],
             user[u].pc \in {"get", "lock"}
      PROVE  Proper(u, answers') /\ user'[u].pc = pc
  <2> DEFINE r == [user[u] EXCEPT !.pc = pc]
  <2>1. /\ r \in OperationRecord(answers) /\ r.pc = pc /\ r.todo = user[u].todo
        /\ r.force = user[u].force /\ r.refused = user[u].refused
        /\ r.cameras = user[u].cameras
    BY <1>1, <1>5 DEF OperationRecord
  <2>2. user' = [user EXCEPT ![u] = r]
    BY <1>1, <1>5
  <2> HIDE DEF r
  <2> QED
    BY <1>1, <1>5, <2>1, <2>2 DEF Proper
<1>6. CASE NotInCache(u)
  BY <1>1, <1>5, <1>6 DEF NotInCache, Cache
<1>7. CASE Lock(u)
  <2>1. /\ UNCHANGED <<cached, lacking, answers, young, accepted, begun>>
        /\ user[u].pc = "lock" /\ holder = Nobody
    BY <1>7 DEF Lock
  <2>2. CASE IsGood(u)
    <3>1. user' = [user EXCEPT ![u] = Has(u, cached')] /\ UNCHANGED holder
      BY <1>7, <2>1, <2>2 DEF Lock
    <3>2. Proper(u, answers') /\ user'[u].pc # "fetch"
      BY <1>1, <1>2, <2>1, <2>2, <3>1, GetsProperly
    <3> QED
      BY <1>1, <2>1, <3>1, <3>2 DEF Cache
  <2>3. CASE ~IsGood(u)
    BY <1>1, <1>5, <1>7, <2>1, <2>3 DEF Lock, Cache
  <2> QED
    BY <2>2, <2>3
<1>8. CASE Answered(u)
  <2>1. /\ cached' = answers' /\ holder' = Nobody /\ answers' = answers + 1
        /\ answers < MaxAnswers /\ user[u].pc = "fetch"
        /\ user' = [user EXCEPT ![u] = Has(u, cached')] /\ begun' = begun
        /\ young' = young \cup {answers'} /\ accepted' = accepted \cup {answers'}
        /\ lacking' \in {lacking, lacking \cup {answers'}}
    BY <1>8 DEF Answered
  <2>2. Proper(u, answers') /\ user'[u].pc # "fetch"
    <3>1. /\ cached' \in young' /\ cached' \in 1..answers' /\ cached' > user[u].refused
          /\ user[u].todo # <<>> /\ answers' \in {answers, answers + 1}
      BY <1>1, <2>1
    <3> QED
      BY <2>1, <3>1, GetsProperly
  <2>3. Cache'
    BY <1>1, <2>1 DEF Cache
  <2> QED
    BY <1>1, <2>1, <2>2, <2>3
<1>9. CASE Fail(u)
  <2>1. Proper(u, answers) /\ user'[u].pc = "idle"
    BY <1>9, EndsProperly DEF Fail
  <2> QED
    BY <1>1, <1>9, <2>1 DEF Fail, Cache
<1>10. CASE Tried(u)
  <2>1. /\ UNCHANGED <<cached, lacking, holder, answers, young, accepted, begun>>
        /\ user[u].pc = "try" /\ user[u].todo # <<>> /\ ~user[u].force
    BY <1>1, <1>10 DEF Tried
  <2> DEFINE retried == [user[u] EXCEPT !.pc = "get", !.force = TRUE, !.refused = user[u].token]
  <2>2. CASE user' = [user EXCEPT ![u] = NoOperation]
    <3>1. Proper(u, answers) /\ user'[u].pc = "idle"
      BY <2>2, EndsProperly
    <3> QED
      BY <1>1, <2>1, <3>1 DEF Cache
  <2>3. CASE user' = [user EXCEPT ![u] = retried]
    <3>1. /\ retried \in OperationRecord(answers) /\ retried.pc = "get"
          /\ retried.todo = user[u].todo /\ retried.force = TRUE
          /\ retried.cameras = user[u].cameras
      BY <1>1 DEF OperationRecord
    <3> HIDE DEF retried
    <3>2. Proper(u, answers) /\ user'[u].pc # "fetch"
      BY <1>1, <2>1, <2>3, <3>1 DEF Proper
    <3> QED
      BY <1>1, <2>1, <3>2 DEF Cache
  <2>4. CASE user' = [user EXCEPT ![u] = GoesOn(user[u])]
    <3> DEFINE r == GoesOn(user[u])
    <3>1. /\ r \in OperationRecord(answers) /\ r.pc \in {"over", "get"}
          /\ r.pc = "get" => r.todo # <<>>
          /\ r.force = user[u].force /\ r.refused = user[u].refused
          /\ r.cameras = user[u].cameras
      BY <1>1, <2>1, GoingOn
    <3> HIDE DEF r
    <3>2. user' = [user EXCEPT ![u] = r]
      BY <2>4 DEF r
    <3>3. Proper(u, answers) /\ user'[u].pc # "fetch"
      BY <1>1, <2>1, <3>1, <3>2 DEF Proper
    <3> QED
      BY <1>1, <2>1, <3>3 DEF Cache
  <2> QED
    BY <1>10, <2>2, <2>3, <2>4 DEF Tried
<1>11. CASE OperationEnds(u)
  <2>1. Proper(u, answers) /\ user'[u].pc = "idle"
    BY <1>11, EndsProperly DEF OperationEnds
  <2> QED
    BY <1>1, <1>11, <2>1 DEF OperationEnds, Cache
<1> QED
  BY <1>3, <1>4, <1>6, <1>7, <1>8, <1>9, <1>10, <1>11

\* The steps of time and the provider hurt no operation.
LEMMA ProviderStep ==
  ASSUME TokenInv,
         LoginRefused \/ \E t \in 1..answers : FiveMinutesLeft(t) \/ NoLongerAccepted(t)
  PROVE  TokenInv' /\ UNCHANGED user
<1>1. UNCHANGED <<user, answers, holder, lacking, begun>> /\ cached' \in {NoToken, cached}
  BY DEF LoginRefused, FiveMinutesLeft, NoLongerAccepted
<1>2. young' \subseteq young /\ accepted' \subseteq accepted
  BY DEF LoginRefused, FiveMinutesLeft, NoLongerAccepted
<1>3. TokenTypeOK'
  BY <1>1, <1>2 DEF TokenInv, TokenTypeOK, NoToken
<1>4. RefusedAreOld'
  BY <1>1 DEF TokenInv, RefusedAreOld
<1> QED
  BY <1>1, <1>3, <1>4 DEF TokenInv

\* One operation at a time asks UCAMS, and what was refused is older than what is
\* kept (api.py:820-893).
THEOREM TokenInvariant == TokenSpec => []TokenInv
<1>1. TokenInit => TokenInv
  <2> SUFFICES ASSUME TokenInit PROVE TokenInv
    OBVIOUS
  <2>1. NoOperation \in OperationRecord(0)
    BY TypeNoOperation
  <2>2. NoOperation.pc = "idle" /\ NoOperation.refused = NoToken /\ NoOperation.force = FALSE
    BY DEF NoOperation
  <2>3. TokenTypeOK
    BY <2>1, <2>2, TokenBounds DEF TokenInit, TokenTypeOK, NoToken
  <2> QED
    BY <2>2, <2>3 DEF TokenInit, TokenInv, RefusedAreOld
<1>2. TokenInv /\ [TokenNext]_tokenVars => TokenInv'
  <2> SUFFICES ASSUME TokenInv, [TokenNext]_tokenVars PROVE TokenInv'
    OBVIOUS
  <2>1. CASE UNCHANGED tokenVars
    BY <2>1 DEF tokenVars, TokenInv, TokenTypeOK, RefusedAreOld
  <2> QED
    BY <2>1, OperationStep, ProperIsSafe, ProviderStep DEF TokenNext
<1> QED
  BY <1>1, <1>2, PTL DEF TokenSpec

\* Whoever gets the camera gets tokens that are good for five minutes more, and none
\* that the media server has just refused to it (api.py:820-893, 907-925).
THEOREM TokensAreGood == TokenSpec => TokensLast
<1>1. TokenInv /\ [TokenNext]_tokenVars =>
        [\A u \in Users :
           user'[u].cameras > user[u].cameras =>
             /\ user'[u].token \in young'
             /\ user'[u].token # user'[u].refused]_tokenVars
  <2> SUFFICES ASSUME TokenInv, TokenNext, NEW u \in Users,
                      user'[u].cameras > user[u].cameras
               PROVE  user'[u].token \in young' /\ user'[u].token # user'[u].refused
    OBVIOUS
  <2>1. user[u].cameras \in Nat
    BY DEF TokenInv, TokenTypeOK, OperationRecord
  <2> QED
    BY <2>1, OperationStep, ProperIsSafe, ProviderStep DEF TokenNext
<1> QED
  BY <1>1, TokenInvariant, PTL DEF TokenSpec, TokensLast


-----------------------------------------------------------------------------
(* The runtime of the private cameras.                                     *)

\* A runtime that is not that of the key is broken, or has not begun; and the key
\* stays until a platform has seen that its runtime broke.
RuntimesInTurn ==
  /\ taskKey \in {NoRuntime, runtimeKey}
  /\ runtimeKey # NoRuntime /\ taskKey = NoRuntime => task[runtimeKey] = "done"
  /\ \A r \in 1..MaxRuntimes :
       /\ r <= begunRuntimes /\ r # runtimeKey => task[r] = "broken"
       /\ r > begunRuntimes => task[r] = "begun"
  /\ \A p \in Platforms :
       /\ platform[p] = "awaiting" => p \in PrivatePlatforms /\ waitsFor[p] # NoRuntime
       /\ platform[p] = "loaded" /\ p \in PrivatePlatforms =>
            /\ waitsFor[p] = runtimeKey /\ runtimeKey # NoRuntime /\ task[runtimeKey] = "done"

LEMMA KindsHavePlatforms ==
  /\ \A k \in Kinds : PlatformOf(k) \in Platforms
  /\ \A k \in PrivateKinds : PlatformOf(k) \in PrivatePlatforms
  /\ KeyKinds \cap PrivateKinds = {}
  BY DEF Kinds, KeyKinds, PrivateKinds, PrivatePlatforms, PlatformOf

\* Whom the factories make entities for.
LEMMA TypeMake ==
  ASSUME NEW kinds, Make(kinds), made \in [Kinds -> SUBSET (Intercoms \cup PrivateCameras)],
         capable' \subseteq Intercoms, inventory' \subseteq PrivateCameras
  PROVE  made' \in [Kinds -> SUBSET (Intercoms \cup PrivateCameras)]
<1>1. \A k \in Kinds : For(k) \subseteq Intercoms \cup PrivateCameras
  <2> SUFFICES ASSUME NEW k \in Kinds
               PROVE  For(k) \subseteq Intercoms \cup PrivateCameras
    OBVIOUS
  <2>1. CASE k \in KeyKinds
    <3>1. For(k) = capable' \cap known'
      BY <2>1 DEF For, KeyKinds, KeyEvents, KeySensors, KeyButtons
    <3> QED
      BY <3>1
  <2>2. CASE k \in PrivateKinds
    <3>1. For(k) \subseteq Standalone'
      BY <2>2 DEF For, PrivateKinds, LiveCameras, ArchiveCameras, ArchivePositions, Lengths,
         Navigations, MotionEvents
    <3> QED
      BY <3>1 DEF Standalone
  <2> QED
    BY <2>1, <2>2 DEF Kinds
<1> QED
  BY <1>1 DEF Make

LEMMA EntitiesTypeInit == EntitiesInit => EntitiesTypeOK /\ RuntimesInTurn
<1> SUFFICES ASSUME EntitiesInit PROVE EntitiesTypeOK /\ RuntimesInTurn
  OBVIOUS
<1> USE EntityBounds DEF EntitiesInit, NoRuntime
<1>0. {again, noticed, keysNoticed} \subseteq BOOLEAN
  BY Zenon
<1>1. /\ updates \in 0..MaxUpdates /\ begunRuntimes \in 0..MaxRuntimes
      /\ runtimeKey \in 0..begunRuntimes /\ taskKey \in 0..begunRuntimes
  OBVIOUS
<1>2. /\ platform \in [Platforms -> {"waiting", "awaiting", "loaded", "failed"}]
      /\ waitsFor \in [Platforms -> 0..begunRuntimes]
      /\ task \in [1..MaxRuntimes -> {"begun", "read", "done", "broken"}]
      /\ made \in [Kinds -> SUBSET (Intercoms \cup PrivateCameras)]
  OBVIOUS
<1>3. EntitiesTypeOK
  BY <1>0, <1>1, <1>2 DEF EntitiesTypeOK
<1>4. RuntimesInTurn
  BY DEF RuntimesInTurn
<1> QED
  BY <1>3, <1>4

\* A platform is set up, or goes on.
LEMMA PlatformStep ==
  ASSUME EntitiesTypeOK, RuntimesInTurn, NEW p \in Platforms,
         SetUpPlatform(p) \/ Ensure(p) \/ Resumes(p)
  PROVE  EntitiesTypeOK' /\ RuntimesInTurn'
<1> USE EntityBounds DEF NoRuntime
<1>1. made' \in [Kinds -> SUBSET (Intercoms \cup PrivateCameras)]
  BY TypeMake DEF SetUpPlatform, Ensure, Resumes, account, EntitiesTypeOK
<1>2. CASE SetUpPlatform(p)
  <2>1. /\ platform' = [platform EXCEPT ![p] = "loaded"] /\ p \notin PrivatePlatforms
        /\ UNCHANGED <<known, capable, inventory, owned, recording, updates, waitsFor, runtimeKey,
                       taskKey, begunRuntimes, task, controllers, detected, syncing, again,
                       noticed, keysNoticed>>
    BY <1>2 DEF SetUpPlatform, account, private
  <2>2. EntitiesTypeOK'
    BY <1>1, <2>1 DEF EntitiesTypeOK
  <2>3. RuntimesInTurn'
    BY <2>1 DEF EntitiesTypeOK, RuntimesInTurn
  <2> QED
    BY <2>2, <2>3
<1>3. ASSUME Ensure(p), runtimeKey # NoRuntime, taskKey = NoRuntime
      PROVE  EntitiesTypeOK' /\ RuntimesInTurn'
  <2>1. /\ platform' = [platform EXCEPT ![p] = "loaded"]
        /\ waitsFor' = [waitsFor EXCEPT ![p] = runtimeKey]
        /\ UNCHANGED <<known, capable, inventory, owned, recording, updates, runtimeKey,
                       taskKey, begunRuntimes, task, controllers, detected, syncing, again,
                       noticed, keysNoticed>>
    BY <1>3 DEF Ensure, account, private
  <2>2. EntitiesTypeOK'
    BY <1>1, <2>1 DEF EntitiesTypeOK
  <2>3. RuntimesInTurn'
    BY <1>3, <2>1 DEF EntitiesTypeOK, RuntimesInTurn
  <2> QED
    BY <2>2, <2>3
<1>4. ASSUME Ensure(p), taskKey # NoRuntime
      PROVE  EntitiesTypeOK' /\ RuntimesInTurn'
  <2>1. /\ platform' = [platform EXCEPT ![p] = "awaiting"] /\ p \in PrivatePlatforms
        /\ waitsFor' = [waitsFor EXCEPT ![p] = taskKey]
        /\ UNCHANGED <<known, capable, inventory, owned, recording, updates, runtimeKey,
                       taskKey, begunRuntimes, task, controllers, detected, syncing, again,
                       noticed, keysNoticed>>
    BY <1>4 DEF Ensure, account, private
  <2>2. EntitiesTypeOK'
    BY <1>1, <2>1 DEF EntitiesTypeOK
  <2>3. RuntimesInTurn'
    BY <1>4, <2>1 DEF EntitiesTypeOK, RuntimesInTurn
  <2> QED
    BY <2>2, <2>3
<1>5. ASSUME Ensure(p), runtimeKey = NoRuntime, taskKey = NoRuntime
      PROVE  EntitiesTypeOK' /\ RuntimesInTurn'
  <2>1. /\ platform' = [platform EXCEPT ![p] = "awaiting"] /\ p \in PrivatePlatforms
        /\ begunRuntimes < MaxRuntimes /\ begunRuntimes' = begunRuntimes + 1
        /\ runtimeKey' = begunRuntimes' /\ taskKey' = begunRuntimes'
        /\ waitsFor' = [waitsFor EXCEPT ![p] = begunRuntimes']
        /\ controllers' = {} /\ detected' = {} /\ syncing' = "idle" /\ again' = FALSE
        /\ noticed' = TRUE /\ UNCHANGED task
        /\ UNCHANGED <<known, capable, inventory, owned, recording, updates, keysNoticed>>
    BY <1>5 DEF Ensure, account
  <2>2. begunRuntimes \in Nat /\ begunRuntimes' \in 1..MaxRuntimes
    BY <2>1 DEF EntitiesTypeOK
  <2>3. \A q \in Platforms : waitsFor'[q] = (IF q = p THEN begunRuntimes' ELSE waitsFor[q])
    BY <2>1 DEF EntitiesTypeOK
  <2>4. EntitiesTypeOK'
    <3>1. waitsFor' \in [Platforms -> 0..begunRuntimes']
      BY <2>1, <2>2, <2>3 DEF EntitiesTypeOK
    <3>2. platform' \in [Platforms -> {"waiting", "awaiting", "loaded", "failed"}]
      BY <2>1 DEF EntitiesTypeOK
    <3>3. {again', noticed', keysNoticed'} \subseteq BOOLEAN
      BY <2>1 DEF EntitiesTypeOK
    <3>4. runtimeKey' \in 0..begunRuntimes' /\ taskKey' \in 0..begunRuntimes' /\ begunRuntimes' \in 0..MaxRuntimes
      BY <2>1, <2>2
    <3>5. /\ known' \subseteq Intercoms /\ capable' \subseteq Intercoms
          /\ inventory' \subseteq PrivateCameras /\ owned' \subseteq inventory' /\ recording' \subseteq inventory'
          /\ updates' \in 0..MaxUpdates /\ task' \in [1..MaxRuntimes -> {"begun", "read", "done", "broken"}]
          /\ syncing' \in {"idle", "controllers", "analytics"}
          /\ controllers' \subseteq PrivateCameras /\ detected' \subseteq PrivateCameras
      BY <2>1 DEF EntitiesTypeOK
    <3> QED
      BY <1>1, <3>1, <3>2, <3>3, <3>4, <3>5 DEF EntitiesTypeOK
  <2>5. \A q \in Platforms : platform'[q] = (IF q = p THEN "awaiting" ELSE platform[q])
    BY <2>1 DEF EntitiesTypeOK
  <2>6. \A r \in 1..MaxRuntimes :
          /\ r <= begunRuntimes' /\ r # runtimeKey' => task'[r] = "broken"
          /\ r > begunRuntimes' => task'[r] = "begun"
    BY <1>5, <2>1, <2>2 DEF RuntimesInTurn
  <2> QED
    BY <1>5, <2>1, <2>2, <2>3, <2>4, <2>5, <2>6 DEF RuntimesInTurn
<1>6. CASE Resumes(p)
  <2>1. PICK r : r = waitsFor[p]
    OBVIOUS
  <2>2. /\ platform[p] = "awaiting" /\ task[r] \in {"done", "broken"}
        /\ taskKey' = IF taskKey = r THEN NoRuntime ELSE taskKey
        /\ runtimeKey' = IF task[r] = "broken" /\ runtimeKey = r THEN NoRuntime ELSE runtimeKey
        /\ platform' = [platform EXCEPT ![p] = IF task[r] = "done" THEN "loaded" ELSE "failed"]
        /\ UNCHANGED <<known, capable, inventory, owned, recording, updates, waitsFor, 
                       begunRuntimes, task, controllers, detected, syncing, again,
                       noticed, keysNoticed>>
    BY <1>6, <2>1 DEF Resumes, account, private
  <2>3. EntitiesTypeOK'
    BY <1>1, <2>2 DEF EntitiesTypeOK
  <2>4. r \in 1..begunRuntimes /\ p \in PrivatePlatforms /\ begunRuntimes \in 0..MaxRuntimes
    BY <2>1, <2>2 DEF EntitiesTypeOK, RuntimesInTurn
  <2>5. task[r] = "done" => r = runtimeKey
    BY <2>2, <2>4 DEF RuntimesInTurn
  <2>6. task[r] = "broken" => \A q \in PrivatePlatforms : platform[q] = "loaded" => waitsFor[q] # r
    BY <2>2 DEF RuntimesInTurn, PrivatePlatforms
  <2>7. RuntimesInTurn'
    BY <2>1, <2>2, <2>4, <2>5, <2>6 DEF RuntimesInTurn, PrivatePlatforms, EntitiesTypeOK
  <2> QED
    BY <2>3, <2>7
<1> QED
  BY <1>2, <1>3, <1>4, <1>5, <1>6 DEF RuntimesInTurn

\* A runtime is initialised, or breaks.
LEMMA RuntimeStep ==
  ASSUME EntitiesTypeOK, RuntimesInTurn, NEW r \in 1..MaxRuntimes,
         ReadCameras(r) \/ Initialized(r) \/ InitializeBreaks(r)
  PROVE  /\ EntitiesTypeOK' /\ RuntimesInTurn' /\ r = runtimeKey
         /\ \A p \in PrivatePlatforms : platform[p] # "loaded"
<1> USE EntityBounds DEF NoRuntime
<1>1. PICK becomes \in {"read", "done", "broken"} : task' = [task EXCEPT ![r] = becomes]
  BY DEF ReadCameras, Initialized, InitializeBreaks
<1>2. /\ r <= begunRuntimes /\ task[r] \in {"begun", "read"}
      /\ controllers' \in {controllers, Standalone \cap recording}
      /\ detected' = detected \/ detected' \subseteq Standalone
      /\ noticed' \in {noticed, TRUE}
      /\ UNCHANGED <<known, capable, inventory, owned, recording, updates, platform, waitsFor,
                     runtimeKey, taskKey, begunRuntimes, syncing, again, keysNoticed, made>>
  BY DEF ReadCameras, Initialized, InitializeBreaks, account, private
<1>3. r = runtimeKey
  BY <1>2 DEF RuntimesInTurn
<1>4. EntitiesTypeOK'
  BY <1>1, <1>2 DEF EntitiesTypeOK, Standalone
<1>5. \A p \in PrivatePlatforms : platform[p] # "loaded"
  BY <1>2, <1>3 DEF RuntimesInTurn, PrivatePlatforms
<1>6. taskKey = runtimeKey
  BY <1>2, <1>3 DEF RuntimesInTurn
<1>7. RuntimesInTurn'
  BY <1>1, <1>2, <1>3, <1>5, <1>6 DEF RuntimesInTurn, PrivatePlatforms, EntitiesTypeOK
<1> QED
  BY <1>3, <1>4, <1>5, <1>7

\* The account changes, or what has changed is reconciled.
LEMMA ChangeStep ==
  ASSUME EntitiesTypeOK, RuntimesInTurn,
         InventoryUpdate \/ IntercomUpdate \/ KeyUpdate \/ ControllersReady \/ Synced
  PROVE  EntitiesTypeOK' /\ RuntimesInTurn' /\ UNCHANGED loading
<1> USE EntityBounds DEF NoRuntime
<1>1. UNCHANGED <<platform, waitsFor, runtimeKey, taskKey, begunRuntimes, task>>
  BY DEF InventoryUpdate, IntercomUpdate, KeyUpdate, ControllersReady, Synced, loading
<1>2. RuntimesInTurn'
  BY <1>1 DEF RuntimesInTurn
<1>3. updates' \in 0..MaxUpdates
  BY DEF InventoryUpdate, IntercomUpdate, KeyUpdate, ControllersReady, Synced, Updating, EntitiesTypeOK
<1>4. /\ known' \subseteq Intercoms /\ capable' \subseteq Intercoms
      /\ inventory' \subseteq PrivateCameras /\ owned' \subseteq inventory' /\ recording' \subseteq inventory'
  BY DEF InventoryUpdate, IntercomUpdate, KeyUpdate, ControllersReady, Synced, account, EntitiesTypeOK
<1>5. /\ syncing' \in {"idle", "controllers", "analytics"}
      /\ {again', noticed', keysNoticed'} \subseteq BOOLEAN
      /\ controllers' \subseteq PrivateCameras /\ detected' \subseteq PrivateCameras
  <2>1. CASE InventoryUpdate \/ IntercomUpdate
    <3>1. Notices /\ detected' = detected /\ keysNoticed' \in {keysNoticed, FALSE}
      BY <2>1 DEF InventoryUpdate, IntercomUpdate
    <3>2. noticed' \in BOOLEAN /\ again' \in {again, TRUE, FALSE} /\ syncing' \in {syncing, "controllers"}
      BY <3>1 DEF Notices, Listening
    <3>3. controllers' = controllers \/ controllers' = controllers \cup (Standalone' \cap recording')
      BY <3>1 DEF Notices
    <3> QED
      BY <1>4, <3>1, <3>2, <3>3 DEF EntitiesTypeOK
  <2>2. CASE KeyUpdate
    BY <2>2 DEF KeyUpdate, private, EntitiesTypeOK
  <2>3. CASE ControllersReady
    BY <2>3 DEF ControllersReady, EntitiesTypeOK, Standalone
  <2>4. CASE Synced
    BY <2>4 DEF Synced, EntitiesTypeOK, Standalone
  <2> QED
    BY <2>1, <2>2, <2>3, <2>4
<1>6. made' \in [Kinds -> SUBSET (Intercoms \cup PrivateCameras)]
  BY <1>4, TypeMake DEF InventoryUpdate, IntercomUpdate, KeyUpdate, ControllersReady, Synced, EntitiesTypeOK
<1> QED
  BY <1>1, <1>2, <1>3, <1>4, <1>5, <1>6 DEF EntitiesTypeOK, loading

LEMMA RuntimesStep ==
  ASSUME EntitiesTypeOK, RuntimesInTurn, [EntitiesNext]_entityVars
  PROVE  EntitiesTypeOK' /\ RuntimesInTurn'
<1>1. CASE UNCHANGED entityVars
  BY <1>1 DEF entityVars, account, loading, private, EntitiesTypeOK, RuntimesInTurn, Standalone
<1>2. CASE EntitiesNext
  BY <1>2, PlatformStep, RuntimeStep, ChangeStep DEF EntitiesNext
<1> QED
  BY <1>1, <1>2

\* However the platforms set up, wait, fail and begin again, all that are loaded share
\* one runtime.
THEOREM PlatformsShareOne == EntitiesSpec => [](EntitiesTypeOK /\ OneRuntime)
<1>1. EntitiesTypeOK /\ RuntimesInTurn /\ [EntitiesNext]_entityVars => EntitiesTypeOK' /\ RuntimesInTurn'
  BY RuntimesStep
<1>2. RuntimesInTurn => OneRuntime
  BY DEF RuntimesInTurn, OneRuntime, PrivatePlatforms
<1> QED
  BY <1>1, <1>2, EntitiesTypeInit, PTL DEF EntitiesSpec

-----------------------------------------------------------------------------
(* The entities.                                                           *)

\* What the factories of private cameras have to make.
Wanted(k) ==
  CASE k = "live" -> Standalone
    [] k = "motion" -> Standalone \cap detected
    [] OTHER -> Standalone \cap recording

\* Nothing is forgotten of what a runtime was told: its archives are there or will be
\* looked for again, and the factories have run or will run.
NothingIsForgotten ==
  /\ keysNoticed => \A k \in KeyKinds : Listens(k, platform) => capable \cap known \subseteq made[k]
  /\ syncing = "idle" => ~again
  /\ noticed /\ ~again /\ runtimeKey # NoRuntime /\ task[runtimeKey] \in {"read", "done"} =>
       Standalone \cap recording \subseteq controllers
  /\ noticed /\ syncing = "idle" =>
       \A k \in PrivateKinds : Listens(k, platform) => Wanted(k) \subseteq made[k]
  /\ syncing = "analytics" /\ ~again =>
       \A k \in PrivateKinds : k = "motion" /\ Listens(k, platform) => Wanted(k) \subseteq made[k]

LEMMA MakeGrows ==
  ASSUME NEW kinds, Make(kinds), NEW k \in Kinds
  PROVE  /\ made'[k] = IF k \in kinds /\ Listens(k, platform') THEN made[k] \cup For(k) ELSE made[k]
         /\ made[k] \subseteq made'[k]
  BY DEF Make

\* A factory of private cameras makes what is wanted when the archives are known.
LEMMA FactoryMakes ==
  ASSUME NEW k \in PrivateKinds, k \in {"live", "motion"} \/ (Standalone \cap recording)' \subseteq controllers'
  PROVE  Wanted(k)' \subseteq For(k)
<1>1. k \in {"live", "archive", "position", "lengths", "navigation", "motion"}
  BY DEF PrivateKinds
<1> QED
  BY <1>1 DEF For, Wanted, LiveCameras, ArchiveCameras, ArchivePositions, Lengths, Navigations, MotionEvents

LEMMA KeyFactoryMakes ==
  ASSUME NEW k \in KeyKinds
  PROVE  (capable \cap known)' \subseteq For(k)
  BY DEF KeyKinds, For, KeyEvents, KeySensors, KeyButtons

\* Who listens to a platform that is not set up.
LEMMA Listeners ==
  ASSUME NEW k \in PrivateKinds
  PROVE  /\ Listens(k, platform) <=> platform[PlatformOf(k)] = "loaded"
         /\ Listens(k, platform)' <=> platform'[PlatformOf(k)] = "loaded"
  BY KindsHavePlatforms DEF Listens

LEMMA FactoryOfPlatform ==
  ASSUME NEW p \in Platforms, SetUpPlatform(p) \/ Ensure(p) \/ Resumes(p)
  PROVE  \E kinds : /\ Make(kinds)
                    /\ \A k \in Kinds : PlatformOf(k) = p => k \in kinds
<1>1. CASE SetUpPlatform(p)
  <2>1. p = "sensor"
    BY <1>1 DEF SetUpPlatform, PrivatePlatforms
  <2>2. \A k \in Kinds : PlatformOf(k) = p => k \in {"key sensors"}
    BY <2>1 DEF Kinds, KeyKinds, PrivateKinds, PlatformOf
  <2> QED
    BY <1>1, <2>2 DEF SetUpPlatform
<1>2. CASE Ensure(p) \/ Resumes(p)
  BY <1>2 DEF Ensure, Resumes
<1> QED
  BY <1>1, <1>2

LEMMA PlatformKeeps ==
  ASSUME EntitiesTypeOK, RuntimesInTurn, RuntimesInTurn', NothingIsForgotten, NEW p \in Platforms,
         SetUpPlatform(p) \/ Ensure(p) \/ Resumes(p)
  PROVE  NothingIsForgotten'
<1>1. PICK kinds : Make(kinds) /\ \A k \in Kinds : PlatformOf(k) = p => k \in kinds
  BY FactoryOfPlatform
<1>2. /\ UNCHANGED <<known, capable, inventory, owned, recording, keysNoticed, task>>
      /\ \A q \in Platforms : q # p => platform'[q] = platform[q]
      /\ \/ /\ UNCHANGED <<controllers, detected, syncing, again, noticed>>
            /\ runtimeKey' \in {runtimeKey, NoRuntime}
         \/ /\ syncing' = "idle" /\ again' = FALSE
            /\ runtimeKey' = begunRuntimes + 1 /\ begunRuntimes < MaxRuntimes
    BY DEF SetUpPlatform, Ensure, Resumes, account, private, EntitiesTypeOK
<1>3. ASSUME keysNoticed', NEW k \in KeyKinds, Listens(k, platform)'
      PROVE  (capable \cap known)' \subseteq made'[k]
  <2>1. k \in Kinds /\ PlatformOf(k) \in Platforms
    BY KindsHavePlatforms DEF Kinds
  <2>2. CASE PlatformOf(k) = p
    BY <1>1, <1>3, <2>1, <2>2, MakeGrows, KeyFactoryMakes DEF Listens
  <2>3. CASE PlatformOf(k) # p
    <3>1. Listens(k, platform)
      BY <1>2, <1>3, <2>1, <2>3 DEF Listens
    <3> QED
      BY <1>1, <1>2, <1>3, <2>1, <3>1, MakeGrows DEF NothingIsForgotten
  <2> QED
    BY <2>2, <2>3
<1>4. CASE /\ UNCHANGED <<controllers, detected, syncing, again, noticed>>
           /\ runtimeKey' \in {runtimeKey, NoRuntime}
  <2>1. noticed' /\ ~again' /\ runtimeKey' # NoRuntime /\ task'[runtimeKey'] \in {"read", "done"} =>
          (Standalone \cap recording)' \subseteq controllers'
    BY <1>2, <1>4 DEF NothingIsForgotten, Standalone
  <2>2. ASSUME NEW k \in PrivateKinds, Listens(k, platform)',
               \/ noticed' /\ syncing' = "idle"
               \/ syncing' = "analytics" /\ ~again' /\ k = "motion"
        PROVE  Wanted(k)' \subseteq made'[k]
    <3>1. k \in Kinds /\ PlatformOf(k) \in PrivatePlatforms /\ PlatformOf(k) \in Platforms
      BY KindsHavePlatforms DEF Kinds, PrivatePlatforms
    <3>2. CASE PlatformOf(k) = p
      <4>1. runtimeKey' # NoRuntime /\ task'[runtimeKey'] = "done"
        BY <2>2, <3>1, Listeners DEF RuntimesInTurn
      <4>2. k = "motion" \/ (Standalone \cap recording)' \subseteq controllers'
        BY <1>4, <2>1, <2>2, <4>1 DEF NothingIsForgotten
      <4>3. Wanted(k)' \subseteq For(k)
        BY <4>2, FactoryMakes
      <4> QED
        BY <1>1, <2>2, <3>1, <3>2, <4>3, MakeGrows DEF Listens
    <3>3. CASE PlatformOf(k) # p
      <4>1. Listens(k, platform)
        BY <1>2, <2>2, <3>1, <3>3, Listeners
      <4>2. Wanted(k) \subseteq made[k]
        BY <1>4, <2>2, <4>1 DEF NothingIsForgotten
      <4>3. Wanted(k)' = Wanted(k)
        BY <1>2, <1>4 DEF Wanted, Standalone
      <4> QED
        BY <1>1, <3>1, <4>2, <4>3, MakeGrows
    <3> QED
      BY <3>2, <3>3
  <2>3. syncing' = "idle" => ~again'
    BY <1>4 DEF NothingIsForgotten
  <2> QED
    BY <1>3, <2>1, <2>2, <2>3 DEF NothingIsForgotten
<1>5. CASE /\ syncing' = "idle" /\ again' = FALSE
           /\ runtimeKey' = begunRuntimes + 1 /\ begunRuntimes < MaxRuntimes
  <2>1. task'[runtimeKey'] = "begun"
    BY <1>2, <1>5, EntityBounds DEF RuntimesInTurn, EntitiesTypeOK
  <2>2. \A k \in PrivateKinds : ~Listens(k, platform)'
    BY <2>1, KindsHavePlatforms, Listeners DEF RuntimesInTurn, PrivatePlatforms
  <2> QED
    BY <1>3, <1>5, <2>1, <2>2 DEF NothingIsForgotten
<1> QED
  BY <1>2, <1>4, <1>5

LEMMA RuntimeKeeps ==
  ASSUME EntitiesTypeOK, RuntimesInTurn, NothingIsForgotten, NEW r \in 1..MaxRuntimes,
         ReadCameras(r) \/ Initialized(r) \/ InitializeBreaks(r)
  PROVE  NothingIsForgotten'
<1>1. r = runtimeKey /\ \A p \in PrivatePlatforms : platform[p] # "loaded"
  BY RuntimeStep
<1>2. /\ UNCHANGED <<known, capable, inventory, owned, recording, platform, runtimeKey, syncing,
                     again, keysNoticed, made>>
      /\ \/ task'[r] = "read" /\ controllers' = Standalone \cap recording
         \/ task[r] = "read" /\ UNCHANGED <<controllers, noticed>>
         \/ task'[r] = "broken"
  BY <1>1 DEF ReadCameras, Initialized, InitializeBreaks, account, private, EntitiesTypeOK
<1>3. \A k \in PrivateKinds : ~Listens(k, platform)'
  BY <1>1, <1>2, KindsHavePlatforms, Listeners
<1>4. \A k \in KeyKinds : Listens(k, platform)' => Listens(k, platform)
  BY <1>2 DEF Listens
<1> QED
  BY <1>1, <1>2, <1>3, <1>4 DEF NothingIsForgotten, Standalone

LEMMA ChangeKeeps ==
  ASSUME EntitiesTypeOK, RuntimesInTurn, NothingIsForgotten,
         InventoryUpdate \/ IntercomUpdate \/ KeyUpdate \/ ControllersReady \/ Synced
  PROVE  NothingIsForgotten'
<1>1. UNCHANGED <<platform, runtimeKey, taskKey, task>>
  BY ChangeStep DEF loading
<1>2. /\ \A k \in Kinds : Listens(k, platform)' = Listens(k, platform)
      /\ KeyKinds \subseteq Kinds /\ PrivateKinds \subseteq Kinds
  BY <1>1 DEF Listens, Kinds
<1>3. \A k \in PrivateKinds : Listens(k, platform) => Listening
  BY KindsHavePlatforms, Listeners DEF RuntimesInTurn, Listening, PrivatePlatforms
<1>4. CASE InventoryUpdate \/ IntercomUpdate
  <2>1. /\ Notices /\ UNCHANGED <<made, capable>>
        /\ ~keysNoticed' \/ UNCHANGED <<known, keysNoticed>>
    BY <1>4 DEF InventoryUpdate, IntercomUpdate
  <2>2. CASE ~Listening
    <3>1. ~noticed' /\ UNCHANGED <<controllers, syncing, again>>
      BY <2>1, <2>2 DEF Notices
    <3> QED
      BY <1>2, <1>3, <2>1, <2>2, <3>1 DEF NothingIsForgotten
  <2>3. CASE Listening /\ syncing # "idle"
    <3>1. again' /\ syncing' = syncing
      BY <2>1, <2>3 DEF Notices
    <3> QED
      BY <1>2, <2>1, <2>3, <3>1 DEF NothingIsForgotten
  <2>4. CASE Listening /\ syncing = "idle"
    <3>1. /\ syncing' = "controllers" /\ again' = FALSE
          /\ controllers' = controllers \cup (Standalone' \cap recording')
      BY <2>1, <2>4 DEF Notices
    <3> QED
      BY <1>2, <2>1, <3>1 DEF NothingIsForgotten
  <2> QED
    BY <2>2, <2>3, <2>4
<1>5. CASE KeyUpdate
  <2>1. /\ Make(KeyKinds)
        /\ UNCHANGED <<inventory, owned, recording, controllers, detected, syncing, again, noticed>>
    BY <1>5 DEF KeyUpdate, private
  <2>2. \A k \in KeyKinds : Listens(k, platform)' => (capable \cap known)' \subseteq made'[k]
    BY <1>2, <2>1, MakeGrows, KeyFactoryMakes DEF Listens
  <2>3. \A k \in PrivateKinds : made[k] \subseteq made'[k] /\ Wanted(k)' = Wanted(k)
    BY <1>2, <2>1, MakeGrows DEF Wanted, Standalone
  <2>4. \A k \in PrivateKinds : Listens(k, platform)' /\ Wanted(k) \subseteq made[k] => Wanted(k)' \subseteq made'[k]
    BY <2>3
  <2> QED
    BY <1>1, <1>2, <2>1, <2>2, <2>4 DEF NothingIsForgotten, Standalone
<1>6. CASE ControllersReady
  <2>1. /\ Make({"motion"}) /\ syncing' = "analytics"
        /\ UNCHANGED <<known, capable, keysNoticed, inventory, owned, recording, controllers, again, noticed>>
    BY <1>6 DEF ControllersReady, account
  <2>2. \A k \in KeyKinds : made[k] \subseteq made'[k]
    BY <1>2, <2>1, MakeGrows
  <2>3. \A k \in PrivateKinds : k = "motion" /\ Listens(k, platform)' => Wanted(k)' \subseteq made'[k]
    BY <1>2, <2>1, MakeGrows, FactoryMakes DEF Listens
  <2> QED
    BY <1>1, <1>2, <2>1, <2>2, <2>3 DEF NothingIsForgotten, Standalone
<1>7. CASE Synced
  <2>1. /\ Make(PrivateKinds \ {"motion"}) /\ ~again'
        /\ syncing = "analytics"
        /\ UNCHANGED <<known, capable, keysNoticed, inventory, owned, recording, detected, noticed>>
    BY <1>7 DEF Synced, account
  <2>2. \A k \in KeyKinds : made[k] \subseteq made'[k]
    BY <1>2, <2>1, MakeGrows
  <2>3. CASE again
    <3>1. syncing' = "controllers" /\ controllers' = controllers \cup (Standalone \cap recording)
      BY <1>7, <2>3 DEF Synced
    <3> QED
      BY <1>2, <2>1, <2>2, <3>1 DEF NothingIsForgotten, Standalone
  <2>4. CASE ~again
    <3>1. syncing' = "idle" /\ controllers' = controllers
      BY <1>7, <2>4 DEF Synced
    <3>2. ASSUME noticed', NEW k \in PrivateKinds, Listens(k, platform)'
          PROVE  Wanted(k)' \subseteq made'[k]
      <4>1. CASE k = "motion"
        <5>1. Wanted(k) \subseteq made[k] /\ made[k] \subseteq made'[k]
          BY <1>2, <2>1, <2>4, <3>2, <4>1, MakeGrows DEF NothingIsForgotten
        <5> QED
          BY <2>1, <5>1 DEF Wanted, Standalone
      <4>2. CASE k # "motion"
        <5>1. Listening
          BY <1>2, <1>3, <3>2
        <5>2. (Standalone \cap recording)' \subseteq controllers'
          BY <2>1, <2>4, <3>1, <3>2, <5>1 DEF NothingIsForgotten, Listening, Standalone
        <5>3. Wanted(k)' \subseteq For(k)
          BY <5>2, FactoryMakes
        <5>4. k \in Kinds /\ Listens(k, platform')
          BY <1>2, <3>2 DEF Listens
        <5>5. PICK kinds : kinds = PrivateKinds \ {"motion"} /\ Make(kinds)
          BY <2>1
        <5>6. made'[k] = made[k] \cup For(k)
          BY <4>2, <5>4, <5>5 DEF Make
        <5> QED
          BY <5>3, <5>6
      <4> QED
        BY <4>1, <4>2
    <3>3. noticed' /\ ~again' /\ runtimeKey' # NoRuntime /\ task'[runtimeKey'] \in {"read", "done"} =>
            (Standalone \cap recording)' \subseteq controllers'
      BY <1>1, <2>1, <2>4, <3>1 DEF NothingIsForgotten, Standalone
    <3> QED
      BY <1>2, <2>1, <2>2, <3>1, <3>2, <3>3 DEF NothingIsForgotten
  <2> QED
    BY <2>3, <2>4
<1> QED
  BY <1>4, <1>5, <1>6, <1>7

\* Cameras, intercoms and keys appeared while the platforms were loading, the runtime
\* was reconciling or broke: at rest all have their entities.
THEOREM EntitiesAreComplete == EntitiesSpec => []NothingIsMissing
<1>1. EntitiesInit => NothingIsForgotten
  <2> SUFFICES ASSUME EntitiesInit PROVE NothingIsForgotten
    OBVIOUS
  <2>1. \A k \in Kinds : ~Listens(k, platform)
    BY KindsHavePlatforms DEF EntitiesInit, Listens
  <2> QED
    BY <2>1 DEF EntitiesInit, NothingIsForgotten, Kinds
<1>2. ASSUME EntitiesTypeOK, RuntimesInTurn, NothingIsForgotten, [EntitiesNext]_entityVars
      PROVE  EntitiesTypeOK' /\ RuntimesInTurn' /\ NothingIsForgotten'
  <2>1. EntitiesTypeOK' /\ RuntimesInTurn'
    BY <1>2, RuntimesStep
  <2>2. CASE UNCHANGED entityVars
    <3>1. UNCHANGED <<known, capable, inventory, owned, recording, platform, runtimeKey, task,
                      controllers, detected, syncing, again, noticed, keysNoticed, made>>
      BY <2>2 DEF entityVars, account, loading, private
    <3> QED
      BY <1>2, <2>1, <3>1 DEF NothingIsForgotten, Listens, Wanted, Standalone
  <2> QED
    BY <1>2, <2>1, <2>2, PlatformKeeps, RuntimeKeeps, ChangeKeeps DEF EntitiesNext
<1>3. EntitiesTypeOK /\ NothingIsForgotten => NothingIsMissing
  <2> SUFFICES ASSUME EntitiesTypeOK, NothingIsForgotten PROVE NothingIsMissing
    OBVIOUS
  <2> QED
    BY DEF NothingIsForgotten, NothingIsMissing, Wanted
<1> QED
  BY <1>1, <1>2, <1>3, EntitiesTypeInit, PTL DEF EntitiesSpec

-----------------------------------------------------------------------------
(* The probes: where a script is.                                          *)

\* The number of the step that comes next.
At == Len(Script(probe)) - Len(todo) + 1

StepNames ==
  {"enrol", "present", "check", "remove", "absent", "access", "refresh", "refreshed", "observer",
   "conclude", "resolve", "look", "renew", "restore"}

InPlace ==
  /\ probe \in Restoring \cup Verifying \cup Naming \cup {"session"}
  /\ phase \in {"probing", "restoring", "over"} /\ todo \in Seq(StepNames)
  /\ markedForRestore => probe \in Restoring
  /\ phase = "probing" =>
       /\ ending = "none" /\ At \in 1..Len(Script(probe))
       /\ \A i \in 1..Len(todo) : todo[i] = Script(probe)[At - 1 + i]
  /\ phase = "restoring" =>
       /\ \/ probe \in Restoring /\ ending \in {"done", "failed"}
          \/ probe \in Verifying /\ ending = "done"
       /\ \/ todo \in {<<"enrol", "present">>, <<"present">>}
          \/ probe = "verify unregister" /\ todo = <<"enrol">>
  /\ phase = "over" => todo = <<>>


LEMMA LogoutScript ==
  /\ LogoutProbe \in Seq(StepNames) /\ Len(LogoutProbe) = 10
  /\ LogoutProbe[1] = "enrol" /\ LogoutProbe[2] = "present" /\ LogoutProbe[3] = "check"
  /\ LogoutProbe[4] = "remove" /\ LogoutProbe[5] = "absent" /\ LogoutProbe[6] = "access"
  /\ LogoutProbe[7] = "refresh" /\ LogoutProbe[8] = "refreshed" /\ LogoutProbe[9] = "observer"
  /\ LogoutProbe[10] = "conclude"
  BY DEF LogoutProbe, StepNames

LEMMA RevokeScript ==
  /\ RevokeProbe \in Seq(StepNames) /\ Len(RevokeProbe) = 8
  /\ RevokeProbe[1] = "check" /\ RevokeProbe[2] = "resolve" /\ RevokeProbe[3] = "remove"
  /\ RevokeProbe[4] = "look" /\ RevokeProbe[5] = "check" /\ RevokeProbe[6] = "renew"
  /\ RevokeProbe[7] = "check" /\ RevokeProbe[8] = "conclude"
  BY DEF RevokeProbe, StepNames

LEMMA LookScript ==
  /\ SessionProbe \in Seq(StepNames) /\ Len(SessionProbe) = 8
  /\ SessionProbe[1] = "look" /\ SessionProbe[2] = "look" /\ SessionProbe[3] = "check"
  /\ SessionProbe[4] = "look" /\ SessionProbe[5] = "renew" /\ SessionProbe[6] = "check"
  /\ SessionProbe[7] = "look" /\ SessionProbe[8] = "conclude"
  BY DEF SessionProbe, StepNames

LEMMA VerifyScripts ==
  /\ VerifyLogout \in Seq(StepNames) /\ Len(VerifyLogout) = 5
  /\ VerifyLogout[1] = "enrol" /\ VerifyLogout[2] = "present" /\ VerifyLogout[3] = "remove"
  /\ VerifyLogout[4] = "absent" /\ VerifyLogout[5] = "restore"
  /\ VerifyUnregister \in Seq(StepNames) /\ Len(VerifyUnregister) = 3
  /\ VerifyUnregister[1] = "enrol" /\ VerifyUnregister[2] = "remove" /\ VerifyUnregister[3] = "restore"
  BY DEF VerifyLogout, VerifyUnregister, StepNames

\* The scripts that count on what they did before.
LEMMA RestoringScript ==
  ASSUME NEW p \in Restoring
  PROVE  /\ Script(p) \in Seq(StepNames) /\ Len(Script(p)) = 10
         /\ \A i \in 1..10 :
              /\ Script(p)[i] = "remove" <=> i = 4
              /\ Script(p)[i] = "access" <=> i = 6
              /\ Script(p)[i] = "refresh" <=> i = 7
              /\ Script(p)[i] = "conclude" <=> i = 10
              /\ Script(p)[i] \in {"refreshed", "observer"} => i > 7
              /\ Script(p)[i] \notin {"look", "renew", "resolve", "restore"}
<1>1. Script(p) = LogoutProbe
  BY DEF Restoring, Script, DeleteProbe
<1>2. \A i \in 1..10 : i \in {1, 2, 3, 4, 5, 6, 7, 8, 9, 10}
  OBVIOUS
<1> QED
  BY <1>1, <1>2, LogoutScript

LEMMA NamingScript ==
  ASSUME NEW p \in Naming
  PROVE  /\ Script(p) \in Seq(StepNames) /\ Len(Script(p)) = 8
         /\ \A i \in 1..8 :
              /\ Script(p)[i] = "resolve" <=> i = 2
              /\ Script(p)[i] = "remove" <=> i = 3
              /\ Script(p)[i] = "look" <=> i = 4
              /\ Script(p)[i] = "renew" <=> i = 6
              /\ Script(p)[i] = "check" <=> i \in {1, 5, 7}
              /\ Script(p)[i] = "conclude" <=> i = 8
              /\ Script(p)[i] \notin {"enrol", "access", "refresh", "refreshed", "observer", "restore",
                                      "present", "absent"}
<1>1. Script(p) = RevokeProbe
  BY DEF Naming, Script, UnregisterProbe
<1>2. \A i \in 1..8 : i \in {1, 2, 3, 4, 5, 6, 7, 8}
  OBVIOUS
<1> QED
  BY <1>1, <1>2, RevokeScript

LEMMA SessionScript ==
  /\ Script("session") \in Seq(StepNames) /\ Len(Script("session")) = 8
  /\ \A i \in 1..8 :
       /\ Script("session")[i] = "look" <=> i \in {1, 2, 4, 7}
       /\ Script("session")[i] = "check" <=> i \in {3, 6}
       /\ Script("session")[i] = "renew" <=> i = 5
       /\ Script("session")[i] = "conclude" <=> i = 8
       /\ Script("session")[i] \notin {"enrol", "access", "refresh", "refreshed", "observer", "restore",
                                       "remove", "resolve", "present", "absent"}
<1>1. Script("session") = SessionProbe
  BY DEF Script
<1>2. \A i \in 1..8 : i \in {1, 2, 3, 4, 5, 6, 7, 8}
  OBVIOUS
<1> QED
  BY <1>1, <1>2, LookScript

LEMMA VerifyingScript ==
  ASSUME NEW p \in Verifying
  PROVE  /\ Script(p) \in Seq(StepNames) /\ Len(Script(p)) \in 3..10
         /\ \A i \in 1..Len(Script(p)) :
              /\ i = Len(Script(p)) <=> Script(p)[i] = "restore"
              /\ Script(p)[i] \notin {"look", "renew", "resolve", "conclude", "access", "refresh",
                                      "refreshed", "observer"}
<1>1. CASE p = "verify logout"
  <2>1. Script(p) = VerifyLogout
    BY <1>1 DEF Script
  <2>2. \A i \in 1..5 : i \in {1, 2, 3, 4, 5}
    OBVIOUS
  <2> QED
    BY <2>1, <2>2, VerifyScripts
<1>2. CASE p = "verify unregister"
  <2>1. Script(p) = VerifyUnregister
    BY <1>2 DEF Script
  <2>2. \A i \in 1..3 : i \in {1, 2, 3}
    OBVIOUS
  <2> QED
    BY <2>1, <2>2, VerifyScripts
<1> QED
  BY <1>1, <1>2 DEF Verifying
LEMMA TypeScript ==
  ASSUME NEW p \in Restoring \cup Verifying \cup Naming \cup {"session"}
  PROVE  Script(p) \in Seq(StepNames) /\ Len(Script(p)) \in 3..10
  BY RestoringScript, NamingScript, SessionScript, VerifyingScript

\* The step that comes next is that of the script.
LEMMA NextStep ==
  ASSUME InPlace, phase = "probing"
  PROVE  todo # <<>> /\ Head(todo) = Script(probe)[At] /\ At \in 1..Len(Script(probe))
<1>1. Len(Script(probe)) \in 3..10 /\ Len(todo) \in Nat
  BY TypeScript DEF InPlace
<1>2. Len(todo) \in 1..Len(Script(probe))
  BY <1>1 DEF InPlace, At
<1>3. todo # <<>> /\ Head(todo) = todo[1]
  BY <1>2 DEF InPlace
<1> QED
  BY <1>1, <1>2, <1>3 DEF InPlace, At

LEMMA InPlaceOver ==
  ASSUME InPlace, probe' = probe, markedForRestore' => probe \in Restoring, phase' = "over", todo' = <<>>
  PROVE  InPlace'
<1>1. todo' \in Seq(StepNames)
  OBVIOUS
<1> QED
  BY <1>1 DEF InPlace

LEMMA InPlaceRestoring ==
  ASSUME InPlace, probe' = probe, markedForRestore' => probe \in Restoring, phase' = "restoring",
         todo' \in {<<"enrol", "present">>, <<"present">>},
         \/ probe \in Restoring /\ ending' \in {"done", "failed"}
         \/ probe \in Verifying /\ ending' = "done"
  PROVE  InPlace'
<1>1. todo' \in Seq(StepNames)
  <2>1. <<"enrol", "present">> \in Seq(StepNames) /\ <<"present">> \in Seq(StepNames)
    BY DEF StepNames
  <2> QED
    BY <2>1
<1>2. phase' # "probing" /\ phase' # "over" /\ phase' \in {"probing", "restoring", "over"}
  OBVIOUS
<1> QED
  BY <1>1, <1>2 DEF InPlace

\* How a probe goes on from a step.
LEMMA WhereItGoes ==
  ASSUME InPlace, phase # "over", todo # <<>>, probe' = probe,
         markedForRestore' => probe \in Restoring,
         Head(todo) # "restore", GoOn
  PROVE  /\ InPlace'
         /\ \/ phase = "probing" /\ phase' = "probing" /\ At' = At + 1
            \/ /\ phase = "probing" /\ ending' = "done" /\ At = Len(Script(probe))
               /\ probe \notin Verifying
               /\ IF markedForRestore' THEN phase' = "restoring" /\ todo' = <<"enrol", "present">>
                                       ELSE phase' = "over"
            \/ phase = "restoring" /\ phase' = "restoring" /\ Head(todo) = "enrol" /\ todo' = <<"present">>
            \/ /\ phase = "restoring" /\ phase' = "over" /\ ending' = ending
               /\ Head(todo) \in {"present", "enrol"}
               /\ Head(todo) = "enrol" => probe = "verify unregister"
<1>1. probe \in Restoring \cup Verifying \cup Naming \cup {"session"} /\ todo \in Seq(StepNames)
  BY DEF InPlace
<1>0. Len(todo) \in Nat /\ Len(todo) # 0
  BY <1>1
<1>2. Len(Script(probe)) \in 3..10 /\ Len(todo) \in Nat /\ Len(todo) # 0
  BY <1>0, <1>1, TypeScript
<1>3. CASE phase = "probing" /\ Len(todo) > 1
  <2>1. todo' = Tail(todo) /\ UNCHANGED <<phase, ending>>
    BY <1>3 DEF GoOn
  <2>2. /\ todo' \in Seq(StepNames) /\ Len(todo') = Len(todo) - 1
        /\ \A i \in 1..Len(todo') : todo'[i] = todo[i + 1]
    BY <1>1, <1>2, <2>1
  <2>3. At' = At + 1 /\ At' \in 1..Len(Script(probe))
    BY <1>2, <1>3, <2>2 DEF At, InPlace
  <2>4. \A i \in 1..Len(todo') : todo'[i] = Script(probe)[At' - 1 + i]
    <3> SUFFICES ASSUME NEW i \in 1..Len(todo') PROVE todo'[i] = Script(probe)[At' - 1 + i]
      OBVIOUS
    <3>1. i + 1 \in 1..Len(todo) /\ At - 1 + (i + 1) = At' - 1 + i
      BY <1>2, <2>2, <2>3 DEF At
    <3> QED
      BY <1>3, <2>2, <3>1 DEF InPlace
  <2>5. InPlace'
    BY <1>1, <1>3, <2>1, <2>2, <2>3, <2>4 DEF InPlace
  <2> QED
    BY <1>3, <2>1, <2>3, <2>5
<1>4. CASE phase = "probing" /\ ~(Len(todo) > 1)
  <2>0. Len(todo) = 1
    BY <1>0, <1>4
  <2>1. Len(todo) = 1 /\ At = Len(Script(probe))
    BY <1>2, <2>0 DEF At
  <2>2. probe \notin Verifying
    BY <1>4, <2>1, NextStep, VerifyingScript
  <2>3. Restoration' = <<"enrol", "present">> \/ probe \notin Restoring
    BY DEF Restoration, Restoring
  <2>4. /\ ending' = "done" /\ phase' \in {"restoring", "over"}
        /\ IF markedForRestore' THEN phase' = "restoring" /\ todo' = Restoration
                                ELSE phase' = "over" /\ todo' = <<>>
    BY <1>4 DEF GoOn
  <2>5. Restoration = <<"enrol", "present">> \/ probe \notin Restoring
    BY DEF Restoration, Restoring
  <2>6. <<"enrol", "present">> \in Seq(StepNames) /\ <<>> \in Seq(StepNames)
    BY DEF StepNames
  <2>7. InPlace'
    BY <1>1, <2>4, <2>5, <2>6 DEF InPlace
  <2> QED
    BY <1>4, <2>1, <2>2, <2>4, <2>5, <2>7
<1>5. CASE phase = "restoring"
  <2>1. CASE todo = <<"enrol", "present">>
    <3>1. Len(todo) = 2 /\ Tail(todo) = <<"present">> /\ Head(todo) = "enrol" /\ <<"present">> \in Seq(StepNames)
      BY <2>1 DEF StepNames
    <3>2. todo' = <<"present">> /\ UNCHANGED <<phase, ending>>
      <4>1. Len(todo) > 1
        BY <3>1
      <4> QED
        BY <3>1, <4>1 DEF GoOn
    <3> QED
      BY <1>1, <1>5, <3>1, <3>2 DEF InPlace
  <2>2. CASE todo = <<"present">>
    <3>1. Len(todo) = 1 /\ Head(todo) = "present"
      BY <2>2
    <3>2. ~(Len(todo) > 1)
      BY <3>1
    <3>3. todo' = <<>> /\ phase' = "over" /\ ending' = ending
      BY <1>5, <3>2 DEF GoOn
    <3> QED
      BY <1>5, <3>1, <3>3, InPlaceOver
  <2>3. CASE todo = <<"enrol">> /\ probe = "verify unregister"
    <3>0. todo = <<"enrol">>
      BY <2>3
    <3>1. Len(todo) = 1 /\ Head(todo) = "enrol"
      BY <3>0
    <3>2. ~(Len(todo) > 1)
      BY <3>1
    <3>3. todo' = <<>> /\ phase' = "over" /\ ending' = ending
      BY <1>5, <3>2 DEF GoOn
    <3> QED
      BY <1>5, <2>3, <3>1, <3>3, InPlaceOver
  <2> QED
    BY <1>5, <2>1, <2>2, <2>3 DEF InPlace
<1> QED
  BY <1>1, <1>3, <1>4, <1>5 DEF InPlace

LEMMA WhereItRaises ==
  ASSUME InPlace, phase # "over", probe' = probe,
         markedForRestore' => probe \in Restoring,
         RaiseError
  PROVE  /\ InPlace'
         /\ \/ /\ phase = "probing" /\ ending' = "failed"
               /\ IF markedForRestore' THEN phase' = "restoring" /\ todo' = <<"enrol", "present">>
                                       ELSE phase' = "over"
            \/ phase = "restoring" /\ phase' = "over" /\ ending' = "not restored"
<1>1. probe \in Restoring \cup Verifying \cup Naming \cup {"session"}
  BY DEF InPlace
<1>2. <<"enrol", "present">> \in Seq(StepNames) /\ <<>> \in Seq(StepNames)
  BY DEF StepNames
<1>3. CASE phase = "probing" /\ markedForRestore'
  <2>1. todo' = <<"enrol", "present">> /\ phase' = "restoring" /\ ending' = "failed"
    BY <1>3 DEF RaiseError, Restoration, Restoring
  <2>2. probe' \in Restoring
    BY <1>3
  <2>3. InPlace'
    BY <2>1, <2>2, InPlaceRestoring
  <2> QED
    BY <1>3, <2>1, <2>3
<1>4. CASE ~(phase = "probing" /\ markedForRestore')
  <2>1. todo' = <<>> /\ phase' = "over" /\ ending' = IF phase = "restoring" THEN "not restored" ELSE "failed"
    BY <1>4 DEF RaiseError
  <2> QED
    BY <1>1, <1>2, <1>4, <2>1 DEF InPlace
<1> QED
  BY <1>3, <1>4

-----------------------------------------------------------------------------
(* The probes: what they leave behind.                                     *)

\* Until it marks that the device is to be restored a probe has not taken it away; the
\* restoration does not go on to look for it before it is there.
LeavesNothing ==
  /\ probe \notin Naming => target = ProbeDevice
  /\ probe \in Restoring /\ phase = "probing" /\ ~markedForRestore /\ had => ProbeDevice \in enrolled
  /\ phase = "restoring" /\ Head(todo) = "present" => ProbeDevice \in enrolled
  /\ IsPutBack

LEMMA KindsDiffer ==
  /\ \A p \in Restoring : p \notin Verifying /\ p \notin Naming /\ p # "session"
  /\ \A p \in Verifying : p \notin Restoring /\ p \notin Naming /\ p # "session"
  /\ \A p \in Naming : p \notin Restoring /\ p \notin Verifying /\ p # "session"
  /\ "session" \notin Restoring /\ "session" \notin Verifying /\ "session" \notin Naming
  BY DEF Restoring, Verifying, Naming

\* Where the actions of the scripts can be.
LEMMA Places ==
  ASSUME InPlace, NEW step \in StepNames, Doing(step)
  PROVE  /\ phase \in {"probing", "restoring"} /\ todo # <<>> /\ Head(todo) = step
         /\ phase = "probing" => Script(probe)[At] = step /\ At \in 1..Len(Script(probe))
         /\ phase = "restoring" => step \in {"enrol", "present"}
<1>1. phase \in {"probing", "restoring"} /\ todo # <<>> /\ Head(todo) = step
  BY DEF Doing, InPlace
<1>2. phase = "restoring" => step \in {"enrol", "present"}
  <2>1. /\ Head(<<"enrol", "present">>) = "enrol" /\ Head(<<"present">>) = "present"
        /\ Head(<<"enrol">>) = "enrol"
    OBVIOUS
  <2> QED
    BY <1>1, <2>1 DEF InPlace
<1> QED
  BY <1>1, <1>2, NextStep

\* A step that is done keeps what is promised, if the device is not taken away by it
\* and what marks it is kept or set.
LEMMA DoneKeeps ==
  ASSUME InPlace, LeavesNothing, NEW step \in StepNames \ {"restore"}, Doing(step), GoOn, probe' = probe,
         markedForRestore' => probe \in Restoring,
         probe \notin Naming => target' = ProbeDevice,
         probe \in Restoring /\ phase = "probing" /\ ~markedForRestore' /\ had' => ProbeDevice \in enrolled',
         phase = "restoring" => ProbeDevice \in enrolled'
  PROVE  InPlace' /\ LeavesNothing'
<1>1. /\ phase \in {"probing", "restoring"} /\ todo # <<>> /\ Head(todo) = step
  BY Places
<1>2. InPlace'
  BY <1>1, WhereItGoes
<1>3. Head(<<"enrol", "present">>) = "enrol"
  OBVIOUS
<1>4. CASE phase = "probing"
  <2>1. \/ phase' = "probing"
        \/ phase' = "restoring" /\ Head(todo') = "enrol"
        \/ phase' = "over" /\ ending' = "done" /\ ~markedForRestore' /\ probe \notin Verifying
    BY <1>1, <1>3, <1>4, WhereItGoes
  <2> QED
    BY <1>2, <1>4, <2>1 DEF LeavesNothing, IsPutBack
<1>5. CASE phase = "restoring"
  <2>1. phase' \in {"restoring", "over"}
    BY <1>1, <1>5, WhereItGoes
  <2> QED
    BY <1>2, <1>5, <2>1 DEF LeavesNothing, IsPutBack
<1> QED
  BY <1>1, <1>4, <1>5

LEMMA RaisedKeeps ==
  ASSUME InPlace, LeavesNothing, phase # "over", RaiseError, probe' = probe,
         markedForRestore' => probe \in Restoring,
         probe \notin Naming => target' = ProbeDevice,
         probe \in Restoring /\ phase = "probing" /\ ~markedForRestore' /\ had' => ProbeDevice \in enrolled'
  PROVE  InPlace' /\ LeavesNothing'
<1>1. InPlace'
  BY WhereItRaises
<1>2. Head(<<"enrol", "present">>) = "enrol"
  OBVIOUS
<1>3. \/ phase = "probing" /\ phase' = "restoring" /\ Head(todo') = "enrol"
      \/ phase = "probing" /\ phase' = "over" /\ ending' = "failed" /\ ~markedForRestore'
      \/ phase' = "over" /\ ending' = "not restored"
  BY <1>2, WhereItRaises
<1> QED
  BY <1>1, <1>3 DEF LeavesNothing, IsPutBack

-----------------------------------------------------------------------------
(* The probes: what they conclude.                                         *)

\* What is known of the tokens and the lists at each step of a script.
KnownSoFar ==
  /\ probe \in Restoring =>
       /\ At > 4 => usable \cap invalidates = {}
       /\ At > 6 => "access" \in passed \cup invalidates \/ confounded
       /\ At > 7 => "refresh" \in passed \cup invalidates \/ confounded
  /\ probe \in Naming =>
       /\ At <= 6 => "refreshed" \notin usable
       /\ At > 3 => usable \cap invalidates = {}
       /\ At <= 4 => seen = <<>>
       /\ At <= 3 => listing = enrolled \/ confounded
       /\ At = 3 => target \in enrolled \/ confounded
  /\ probe = "revoke" =>
       /\ At > 5 => "access" \notin invalidates
       /\ At > 6 => "refresh" \notin invalidates
  /\ probe = "unregister" =>
       /\ At > 3 => confounded \/ (target \in enrolled <=> ~coupled)
       /\ At > 4 => confounded \/ (target \in seen[1] <=> ~coupled)
  /\ probe = "session" =>
       Len(seen) = (CASE At = 1 -> 0 [] At = 2 -> 1 [] At \in {3, 4} -> 2 [] At \in {5, 6, 7} -> 3
                      [] OTHER -> 4)

ConcludesRightly ==
  /\ invalidates \subseteq {"access", "refresh", "observer"} /\ coupled \in BOOLEAN
  /\ seen \in Seq(SUBSET (OtherDevices \cup {ProbeDevice}))
  /\ enrolled \in SUBSET (OtherDevices \cup {ProbeDevice})
  /\ listing \in SUBSET (OtherDevices \cup {ProbeDevice})
  /\ {"access", "refresh", "observer"} \ usable \subseteq invalidates
  /\ passed \cap invalidates = {}
  /\ said # "nothing" => phase # "probing"
  /\ phase = "probing" => KnownSoFar
  /\ ConclusionsHold

\* What has been concluded stays true.
LEMMA ConclusionsStay ==
  ASSUME ConclusionsHold, UNCHANGED <<said, seen, invalidates, coupled>>, confounded => confounded'
  PROVE  ConclusionsHold'
  BY DEF ConclusionsHold

\* A step that raises an error learns nothing.
LEMMA RaisedIsSound ==
  ASSUME InPlace, ConcludesRightly, phase # "over", RaiseError, probe' = probe,
         markedForRestore' => probe \in Restoring,
         seen' \in Seq(SUBSET (OtherDevices \cup {ProbeDevice})),
         enrolled' \in SUBSET (OtherDevices \cup {ProbeDevice}),
         UNCHANGED <<listing, invalidates, coupled, passed, said>>,
         \/ seen' = seen
         \/ said = "nothing",
         confounded => confounded',
         usable' \in {usable, usable \ invalidates}
  PROVE  ConcludesRightly'
<1>1. phase' # "probing"
  BY WhereItRaises
<1>2. ConclusionsHold'
  BY DEF ConcludesRightly, ConclusionsHold
<1>3. {"access", "refresh", "observer"} \ usable' \subseteq invalidates'
  BY DEF ConcludesRightly
<1> QED
  BY <1>1, <1>2, <1>3 DEF ConcludesRightly

\* The same of a step that is done.
LEMMA DoneIsSound ==
  ASSUME InPlace, phase # "over", todo # <<>>, Head(todo) # "restore", GoOn, probe' = probe,
         markedForRestore' => probe \in Restoring,
         /\ invalidates' \subseteq {"access", "refresh", "observer"} /\ coupled' \in BOOLEAN
         /\ seen' \in Seq(SUBSET (OtherDevices \cup {ProbeDevice}))
         /\ enrolled' \in SUBSET (OtherDevices \cup {ProbeDevice})
         /\ listing' \in SUBSET (OtherDevices \cup {ProbeDevice}),
         {"access", "refresh", "observer"} \ usable' \subseteq invalidates',
         passed' \cap invalidates' = {},
         ConclusionsHold',
         phase = "probing" /\ At' = At + 1 /\ At' \in 1..Len(Script(probe)) => said' = "nothing" /\ KnownSoFar'
  PROVE  ConcludesRightly'
<1>1. phase' = "probing" => phase = "probing" /\ At' = At + 1 /\ InPlace'
  BY WhereItGoes
<1>2. phase' = "probing" => At' \in 1..Len(Script(probe))
  BY <1>1 DEF InPlace
<1> QED
  BY <1>1, <1>2 DEF ConcludesRightly

ProbeInv == InPlace /\ LeavesNothing /\ ConcludesRightly

LEMMA EnrolStep ==
  ASSUME ProbeInv, Enrol
  PROVE  ProbeInv'
<1> USE DEF ProbeInv
<1>1. Doing("enrol") /\ "enrol" \in StepNames \ {"restore"}
  BY DEF Enrol, StepNames
<1>2. /\ phase \in {"probing", "restoring"} /\ todo # <<>> /\ Head(todo) = "enrol"
      /\ phase = "probing" => Script(probe)[At] = "enrol" /\ At \in 1..Len(Script(probe))
  BY <1>1, Places
<1>3. /\ \/ enrolled' = enrolled \cup {ProbeDevice}
         \/ enrolled' = enrolled /\ (had' => had) /\ RaiseError
      /\ markedForRestore' = markedForRestore
      /\ UNCHANGED <<probe, target, seen, passed, said, listing, usable, invalidates, coupled,
                     noise, confounded>>
      /\ GoOn \/ RaiseError
  <2>1. PICK done \in {Accepted("enrol"), FALSE} : \E answered \in {done, FALSE} :
          /\ enrolled' = IF done THEN enrolled \cup {ProbeDevice} ELSE enrolled
          /\ had' = (had \/ done)
          /\ IF answered THEN GoOn ELSE RaiseError
    BY DEF Enrol
  <2>2. PICK answered \in {done, FALSE} :
          /\ enrolled' = IF done THEN enrolled \cup {ProbeDevice} ELSE enrolled
          /\ had' = (had \/ done)
          /\ IF answered THEN GoOn ELSE RaiseError
    BY <2>1
  <2>3. /\ markedForRestore' = markedForRestore
        /\ UNCHANGED <<probe, target, seen, passed, said, listing, usable, invalidates, coupled,
                       noise, confounded>>
    BY DEF Enrol
  <2>4. CASE done
    BY <2>2, <2>3, <2>4
  <2>5. CASE ~done
    <3>1. ~answered
      BY <2>2, <2>5
    <3>2. had' => had
      BY <2>2, <2>5, Zenon
    <3> QED
      BY <2>2, <2>3, <2>5, <3>1, <3>2
  <2> QED
    BY <2>4, <2>5
<1>4. /\ markedForRestore' => probe \in Restoring
      /\ probe \notin Naming => target' = ProbeDevice
      /\ probe \in Restoring /\ phase = "probing" /\ ~markedForRestore' /\ had' => ProbeDevice \in enrolled'
  <2>1. CASE enrolled' = enrolled \cup {ProbeDevice}
    BY <1>3, <2>1 DEF InPlace, LeavesNothing
  <2>2. CASE enrolled' = enrolled /\ (had' => had)
    BY <1>3, <2>2 DEF InPlace, LeavesNothing
  <2> QED
    BY <1>3, <2>1, <2>2
<1>5. ConclusionsHold'
  BY <1>3, ConclusionsStay DEF ConcludesRightly
<1>6. CASE RaiseError
  <2>1. InPlace' /\ LeavesNothing'
    BY <1>2, <1>3, <1>4, <1>6, RaisedKeeps
  <2>2. ConcludesRightly'
    BY <1>2, <1>3, <1>4, <1>6, RaisedIsSound DEF ConcludesRightly
  <2> QED
    BY <2>1, <2>2
<1>7. CASE GoOn /\ ~RaiseError
  <2>1. enrolled' = enrolled \cup {ProbeDevice}
    BY <1>3, <1>7
  <2>2. InPlace' /\ LeavesNothing'
    BY <1>1, <1>3, <1>4, <1>7, <2>1, DoneKeeps
  <2>3. ASSUME phase = "probing", At' = At + 1
        PROVE  said' = "nothing" /\ KnownSoFar'
    <3>1. probe \in Restoring => At \notin {4, 6, 7} /\ At \in 1..10
      BY <1>2, <2>3, RestoringScript
    <3>2. probe \notin Naming /\ probe # "session"
      BY <1>2, <2>3, NamingScript, SessionScript
    <3> QED
      BY <1>3, <2>3, <3>1, <3>2 DEF ConcludesRightly, KnownSoFar, Naming
  <2>4. ConcludesRightly'
    BY <1>2, <1>3, <1>4, <1>5, <1>7, <2>1, <2>3, DoneIsSound DEF ConcludesRightly
  <2> QED
    BY <2>2, <2>4
<1> QED
  BY <1>3, <1>6, <1>7

LEMMA WaitStep ==
  ASSUME ProbeInv, WaitPresent \/ WaitAbsent
  PROVE  ProbeInv'
<1> USE DEF ProbeInv
<1>1. PICK step \in {"present", "absent"} :
        /\ Doing(step)
        /\ GoOn \/ RaiseError
        /\ UNCHANGED <<markedForRestore, probe, target, seen, passed, said, provider, had, noise, confounded>>
  BY DEF WaitPresent, WaitAbsent, Wait
<1>2. step \in StepNames \ {"restore"} /\ step \notin {"remove", "access", "refresh", "look", "renew", "resolve", "check"}
  BY <1>1 DEF StepNames
<1>3. /\ phase \in {"probing", "restoring"} /\ todo # <<>> /\ Head(todo) = step
      /\ phase = "probing" => Script(probe)[At] = step /\ At \in 1..Len(Script(probe))
      /\ phase = "restoring" => step = "present"
  BY <1>1, <1>2, Places
<1>4. UNCHANGED <<enrolled, listing, usable, invalidates, coupled>>
  BY <1>1 DEF provider
<1>5. ConclusionsHold'
  BY <1>1, <1>4, ConclusionsStay DEF ConcludesRightly
<1>6. CASE RaiseError
  <2>1. InPlace' /\ LeavesNothing'
    BY <1>1, <1>3, <1>4, <1>6, RaisedKeeps DEF InPlace, LeavesNothing
  <2>2. ConcludesRightly'
    BY <1>1, <1>3, <1>4, <1>6, RaisedIsSound DEF InPlace, ConcludesRightly
  <2> QED
    BY <2>1, <2>2
<1>7. CASE GoOn
  <2>1. InPlace' /\ LeavesNothing'
    BY <1>1, <1>2, <1>3, <1>4, <1>7, DoneKeeps DEF InPlace, LeavesNothing
  <2>2. ASSUME phase = "probing", At' = At + 1
        PROVE  said' = "nothing" /\ KnownSoFar'
    <3>1. probe \in Restoring => At \notin {4, 6, 7} /\ At \in 1..10
      BY <1>2, <1>3, <2>2, RestoringScript
    <3>2. probe \notin Naming /\ probe # "session"
      <4>1. probe \in Naming => Script(probe)[At] \notin {"present", "absent"}
        BY <1>3, <2>2, NamingScript
      <4>2. probe = "session" => Script(probe)[At] \notin {"present", "absent"}
        BY <1>3, <2>2, SessionScript
      <4> QED
        BY <1>3, <2>2, <4>1, <4>2
    <3> QED
      BY <1>1, <1>4, <2>2, <3>1, <3>2 DEF ConcludesRightly, KnownSoFar, Naming
  <2>3. ConcludesRightly'
    BY <1>1, <1>2, <1>3, <1>4, <1>5, <1>7, <2>2, DoneIsSound DEF InPlace, ConcludesRightly
  <2> QED
    BY <2>1, <2>3
<1> QED
  BY <1>1, <1>6, <1>7

LEMMA RemoveStep ==
  ASSUME ProbeInv, RemoveDevice
  PROVE  ProbeInv'
<1> USE DEF ProbeInv
<1>1. Doing("remove") /\ "remove" \in StepNames \ {"restore"}
  BY DEF RemoveDevice, StepNames
<1>2. /\ phase = "probing" /\ todo # <<>> /\ Head(todo) = "remove"
      /\ Script(probe)[At] = "remove" /\ At \in 1..Len(Script(probe))
  BY <1>1, Places
<1>3. /\ probe \in Restoring => At = 4
      /\ probe \in Naming => At = 3
      /\ probe # "session"
  BY <1>2, RestoringScript, NamingScript, SessionScript
<1>4. /\ UNCHANGED <<probe, target, seen, passed, said, listing, invalidates, coupled, had, noise, confounded>>
      /\ markedForRestore' = (probe \in Restoring)
      /\ usable' \in {usable, usable \ invalidates} /\ enrolled' \in {enrolled, enrolled \ {target}}
      /\ \/ RaiseError
         \/ /\ GoOn /\ usable' = usable \ invalidates
            /\ enrolled' = IF probe \in {"logout", "verify logout", "revoke"} \/ coupled
                           THEN enrolled \ {target} ELSE enrolled
  BY DEF RemoveDevice
<1>5. /\ markedForRestore' => probe \in Restoring
      /\ probe \notin Naming => target' = ProbeDevice
      /\ ~(probe \in Restoring /\ phase = "probing" /\ ~markedForRestore' /\ had')
      /\ enrolled' \in SUBSET (OtherDevices \cup {ProbeDevice})
  BY <1>4 DEF LeavesNothing, ConcludesRightly
<1>6. ConclusionsHold'
  BY <1>4, ConclusionsStay DEF ConcludesRightly
<1>7. CASE RaiseError
  <2>1. InPlace' /\ LeavesNothing'
    BY <1>2, <1>4, <1>5, <1>7, RaisedKeeps
  <2>2. ConcludesRightly'
    BY <1>2, <1>4, <1>5, <1>7, RaisedIsSound DEF ConcludesRightly
  <2> QED
    BY <2>1, <2>2
<1>8. CASE /\ GoOn /\ usable' = usable \ invalidates
           /\ enrolled' = IF probe \in {"logout", "verify logout", "revoke"} \/ coupled
                          THEN enrolled \ {target} ELSE enrolled
  <2>1. InPlace' /\ LeavesNothing'
    BY <1>1, <1>2, <1>4, <1>5, <1>8, DoneKeeps
  <2>2. ASSUME At' = At + 1
        PROVE  said' = "nothing" /\ KnownSoFar'
    <3>1. said' = "nothing" /\ KnownSoFar
      BY <1>2, <1>4 DEF ConcludesRightly
    <3>2. usable' \cap invalidates' = {}
      BY <1>4, <1>8
    <3>3. CASE probe \in Restoring
      <4>1. At' = 5 /\ probe' \in Restoring /\ probe' \notin Naming /\ probe' # "session"
        <5>1. At' = 5
          BY <1>3, <2>2, <3>3
        <5>2. probe' = probe
          BY <1>4
        <5> QED
          BY <3>3, <5>1, <5>2, KindsDiffer
      <4>2. probe' # "revoke" /\ probe' # "unregister"
        BY <4>1 DEF Naming
      <4> QED
        BY <3>1, <3>2, <4>1, <4>2 DEF KnownSoFar
    <3>4. CASE probe \in Naming
      <4>1. At = 3 /\ (target \in enrolled \/ confounded) /\ seen = <<>> /\ "refreshed" \notin usable
        BY <1>3, <3>1, <3>4 DEF KnownSoFar
      <4>2. probe = "unregister" => confounded \/ (target \in enrolled' <=> ~coupled)
        BY <1>8, <4>1
      <4>3. At' = 4 /\ probe' \notin Restoring /\ probe' # "session"
        <5>1. At' = 4
          BY <2>2, <4>1
        <5>2. probe' = probe
          BY <1>4
        <5> QED
          BY <3>4, <5>1, <5>2, KindsDiffer
      <4>4. "refreshed" \notin usable' /\ seen' = <<>>
        BY <1>4, <1>8, <4>1
      <4>5. probe' = "unregister" => confounded' \/ (target' \in enrolled' <=> ~coupled')
        BY <1>4, <4>2
      <4> QED
        BY <3>1, <3>2, <4>3, <4>4, <4>5 DEF KnownSoFar
    <3>5. CASE probe \notin Restoring /\ probe \notin Naming
      <4>1. probe' \notin Restoring /\ probe' \notin Naming /\ probe' # "session"
        BY <1>3, <1>4, <3>5
      <4>2. probe' # "revoke" /\ probe' # "unregister"
        BY <4>1 DEF Naming
      <4> QED
        BY <3>1, <4>1, <4>2 DEF KnownSoFar
    <3> QED
      BY <3>3, <3>4, <3>5
  <2>3. ConcludesRightly'
    BY <1>2, <1>4, <1>5, <1>6, <1>8, <2>2, DoneIsSound DEF ConcludesRightly
  <2> QED
    BY <2>1, <2>3
<1> QED
  BY <1>4, <1>7, <1>8


\* A request that is made with a token: what its success shows.
LEMMA CheckStep ==
  ASSUME ProbeInv, CheckAccess
  PROVE  ProbeInv'
<1> USE DEF ProbeInv
<1>1. Doing("check") /\ "check" \in StepNames \ {"restore"}
  BY DEF CheckAccess, StepNames
<1>2. /\ phase = "probing" /\ todo # <<>> /\ Head(todo) = "check"
      /\ Script(probe)[At] = "check" /\ At \in 1..Len(Script(probe))
  BY <1>1, Places
<1>3. /\ UNCHANGED <<markedForRestore, probe, target, seen, passed, said, had, noise, confounded>>
      /\ UNCHANGED <<enrolled, listing, usable, invalidates, coupled>>
      /\ RaiseError \/ (GoOn /\ Accepted("check"))
  BY DEF CheckAccess, provider
<1>4. ConclusionsHold'
  BY <1>3, ConclusionsStay DEF ConcludesRightly
<1>5. CASE RaiseError
  <2>1. InPlace' /\ LeavesNothing'
    BY <1>2, <1>3, <1>5, RaisedKeeps DEF InPlace, LeavesNothing
  <2>2. ConcludesRightly'
    BY <1>2, <1>3, <1>5, RaisedIsSound DEF InPlace, ConcludesRightly
  <2> QED
    BY <2>1, <2>2
<1>6. CASE GoOn /\ Accepted("check")
  <2>1. InPlace' /\ LeavesNothing'
    BY <1>1, <1>2, <1>3, <1>6, DoneKeeps DEF InPlace, LeavesNothing
  <2>2. ASSUME At' = At + 1
        PROVE  said' = "nothing" /\ KnownSoFar'
    <3>1. said' = "nothing" /\ KnownSoFar
      BY <1>2, <1>3 DEF ConcludesRightly
    <3>2. probe' = probe
      BY <1>3
    <3>3. CASE probe \in Restoring
      <4>1. At \notin {6, 7, 4} /\ At \in 1..10
        BY <1>2, <3>3, RestoringScript
      <4>2. probe \notin Naming /\ probe # "session" /\ probe # "revoke" /\ probe # "unregister"
        BY <3>3, KindsDiffer DEF Naming
      <4> QED
        BY <1>3, <2>2, <3>1, <4>1, <4>2 DEF KnownSoFar
    <3>4. CASE probe \in Naming
      <4>1. At \in {1, 5, 7}
        BY <1>2, <3>4, NamingScript
      <4>2. probe \notin Restoring /\ probe # "session"
        BY <3>4, KindsDiffer
      <4>3. At = 5 => "access" \notin invalidates
        <5>1. At = 5 => "refreshed" \notin usable /\ usable \cap invalidates = {}
          BY <3>1, <3>4 DEF KnownSoFar
        <5>2. "refreshed" \notin usable => Login("check") = "access"
          BY <4>2 DEF Login
        <5> QED
          BY <1>6, <5>1, <5>2 DEF Accepted
      <4>4. CASE At = 1
        BY <1>3, <2>2, <3>1, <4>2, <4>4 DEF KnownSoFar
      <4>5. CASE At = 5
        BY <1>3, <2>2, <3>1, <4>2, <4>3, <4>5 DEF KnownSoFar
      <4>6. CASE At = 7
        BY <1>3, <2>2, <3>1, <4>2, <4>6 DEF KnownSoFar
      <4> QED
        BY <4>1, <4>4, <4>5, <4>6
    <3>5. CASE probe = "session"
      <4>1. At \in {3, 6}
        BY <1>2, <3>5, SessionScript
      <4>2. probe \notin Naming /\ probe \notin Restoring
        BY <3>5, KindsDiffer
      <4> QED
        BY <1>3, <2>2, <3>1, <3>5, <4>1, <4>2 DEF KnownSoFar
    <3>6. CASE probe \in Verifying
      <4>1. probe \notin Naming /\ probe \notin Restoring /\ probe # "session"
        BY <3>6, KindsDiffer
      <4>2. probe # "revoke" /\ probe # "unregister"
        BY <4>1 DEF Naming
      <4> QED
        BY <1>3, <3>1, <4>1, <4>2 DEF KnownSoFar
    <3> QED
      BY <3>3, <3>4, <3>5, <3>6 DEF InPlace
  <2>3. ConcludesRightly'
    BY <1>1, <1>2, <1>3, <1>4, <1>6, <2>2, DoneIsSound DEF InPlace, ConcludesRightly
  <2> QED
    BY <2>1, <2>3
<1> QED
  BY <1>3, <1>5, <1>6

LEMMA RenewStep ==
  ASSUME ProbeInv, Renew
  PROVE  ProbeInv'
<1> USE DEF ProbeInv
<1>1. Doing("renew") /\ "renew" \in StepNames \ {"restore"}
  BY DEF Renew, StepNames
<1>2. /\ phase = "probing" /\ todo # <<>> /\ Head(todo) = "renew"
      /\ Script(probe)[At] = "renew" /\ At \in 1..Len(Script(probe))
  BY <1>1, Places
<1>3. /\ UNCHANGED <<markedForRestore, probe, target, seen, passed, said, had, noise, confounded>>
      /\ UNCHANGED <<enrolled, listing, invalidates, coupled>>
      /\ \/ RaiseError /\ usable' = usable
         \/ GoOn /\ usable' = usable \cup {"refreshed"} /\ "refresh" \in usable
  BY DEF Renew
<1>4. ConclusionsHold'
  BY <1>3, ConclusionsStay DEF ConcludesRightly
<1>5. CASE RaiseError /\ usable' = usable
  <2>1. InPlace' /\ LeavesNothing'
    BY <1>2, <1>3, <1>5, RaisedKeeps DEF InPlace, LeavesNothing
  <2>2. ConcludesRightly'
    BY <1>2, <1>3, <1>5, RaisedIsSound DEF InPlace, ConcludesRightly
  <2> QED
    BY <2>1, <2>2
<1>6. CASE GoOn /\ usable' = usable \cup {"refreshed"} /\ "refresh" \in usable
  <2>1. InPlace' /\ LeavesNothing'
    BY <1>1, <1>2, <1>3, <1>6, DoneKeeps DEF InPlace, LeavesNothing
  <2>2. ASSUME At' = At + 1
        PROVE  said' = "nothing" /\ KnownSoFar'
    <3>1. said' = "nothing" /\ KnownSoFar
      BY <1>2, <1>3 DEF ConcludesRightly
    <3>2. probe' = probe /\ probe \notin Restoring /\ probe \notin Verifying
      BY <1>2, <1>3, RestoringScript, VerifyingScript
    <3>3. usable' \cap invalidates' = usable \cap invalidates
      BY <1>3, <1>6 DEF ConcludesRightly
    <3>4. CASE probe \in Naming
      <4>1. At = 6 /\ probe # "session"
        BY <1>2, <3>4, NamingScript, KindsDiffer
      <4>2. usable \cap invalidates = {} /\ "refresh" \notin invalidates
        BY <1>6, <3>1, <3>4, <4>1 DEF KnownSoFar
      <4>3. At' = 7
        BY <2>2, <4>1
      <4> QED
        BY <1>3, <3>1, <3>2, <3>3, <4>1, <4>2, <4>3 DEF KnownSoFar
    <3>5. CASE probe = "session"
      <4>1. At = 5 /\ probe \notin Naming
        BY <1>2, <3>5, SessionScript, KindsDiffer
      <4> QED
        BY <1>3, <2>2, <3>1, <3>2, <3>5, <4>1 DEF KnownSoFar
    <3> QED
      BY <3>2, <3>4, <3>5 DEF InPlace
  <2>3. {"access", "refresh", "observer"} \ usable' \subseteq invalidates'
    BY <1>3, <1>6 DEF ConcludesRightly
  <2>4. ConcludesRightly'
    BY <1>1, <1>2, <1>3, <1>4, <1>6, <2>2, <2>3, DoneIsSound DEF InPlace, ConcludesRightly
  <2> QED
    BY <2>1, <2>4
<1> QED
  BY <1>3, <1>5, <1>6


\* A token that is accepted has survived; one that is not has not, unless the answer
\* was no answer.
LEMMA TestStep ==
  ASSUME ProbeInv, TestToken
  PROVE  ProbeInv'
<1> USE DEF ProbeInv
<1>1. PICK t \in {"access", "refresh", "refreshed", "observer"} :
        /\ Doing(t)
        /\ \E other \in BOOLEAN :
             LET works == t \in usable /\ ~other IN
               /\ passed' = IF works THEN passed \cup {t} ELSE passed
               /\ usable' = IF works /\ t = "refresh" THEN usable \cup {"refreshed"} ELSE usable
               /\ confounded' = (confounded \/ other)
  BY DEF TestToken
<1>2. /\ GoOn
      /\ UNCHANGED <<markedForRestore, probe, target, seen, said, enrolled, listing, invalidates, coupled, had, noise>>
  BY DEF TestToken
<1>3. t \in StepNames \ {"restore"}
  BY DEF StepNames
<1>4. /\ phase = "probing" /\ todo # <<>> /\ Head(todo) = t
      /\ Script(probe)[At] = t /\ At \in 1..Len(Script(probe))
  BY <1>1, <1>3, Places
<1>5. probe \in Restoring
  <2>1. probe \notin Naming
    BY <1>4, NamingScript
  <2>2. probe # "session"
    BY <1>4, SessionScript
  <2>3. probe \notin Verifying
    BY <1>4, VerifyingScript
  <2> QED
    BY <2>1, <2>2, <2>3 DEF InPlace
<1>6. At \in 6..9 /\ (At = 6 <=> t = "access") /\ (At = 7 <=> t = "refresh")
  <2>1. At \in 1..10
    BY <1>4, <1>5, RestoringScript
  <2>2. /\ At = 6 <=> t = "access"
        /\ At = 7 <=> t = "refresh"
        /\ t \in {"refreshed", "observer"} => At > 7
        /\ t # "conclude" => At # 10
    BY <1>4, <1>5, <2>1, RestoringScript
  <2> QED
    BY <1>1, <2>1, <2>2
<1>7. said = "nothing" /\ KnownSoFar /\ usable \cap invalidates = {}
  BY <1>4, <1>5, <1>6 DEF ConcludesRightly, KnownSoFar
<1>8. PICK other \in BOOLEAN :
        /\ passed' = IF t \in usable /\ ~other THEN passed \cup {t} ELSE passed
        /\ usable' = IF t \in usable /\ ~other /\ t = "refresh" THEN usable \cup {"refreshed"} ELSE usable
        /\ confounded' = (confounded \/ other)
  BY <1>1
<1>9. /\ usable' \cap invalidates' = {} /\ passed' \cap invalidates' = {}
      /\ {"access", "refresh", "observer"} \ usable' \subseteq invalidates'
      /\ passed \subseteq passed'
  BY <1>2, <1>7, <1>8 DEF ConcludesRightly
<1>10. /\ confounded => confounded'
       /\ other => confounded'
  BY <1>8, Zenon
<1>11. t \in passed' \/ confounded' \/ t \notin usable
  BY <1>8, <1>10
<1>12. t \in {"access", "refresh"} => t \in passed' \cup invalidates' \/ confounded'
  BY <1>2, <1>11 DEF ConcludesRightly
<1>13. ConclusionsHold'
  BY <1>2, <1>7, <1>10, ConclusionsStay DEF ConcludesRightly
<1>14. InPlace' /\ LeavesNothing'
  BY <1>1, <1>2, <1>3, <1>4, DoneKeeps DEF InPlace, LeavesNothing
<1>15. ASSUME At' = At + 1
       PROVE  said' = "nothing" /\ KnownSoFar'
  <2>1. probe' \in Restoring /\ said' = "nothing"
    BY <1>2, <1>5, <1>7
  <2>2. probe' \notin Naming /\ probe' # "session" /\ probe' # "revoke" /\ probe' # "unregister"
    BY <2>1, KindsDiffer DEF Naming
  <2>3. At' > 6 => "access" \in passed' \cup invalidates' \/ confounded'
    <3>1. CASE At = 6
      BY <1>6, <1>12, <3>1
    <3>2. CASE At > 6
      <4>1. "access" \in passed \cup invalidates \/ confounded
        BY <1>5, <1>7, <3>2 DEF KnownSoFar
      <4> QED
        BY <1>2, <1>9, <1>10, <4>1
    <3> QED
      BY <1>6, <3>1, <3>2
  <2>4. At' > 7 => "refresh" \in passed' \cup invalidates' \/ confounded'
    <3>1. CASE At = 7
      BY <1>6, <1>12, <3>1
    <3>2. CASE At > 7
      <4>1. "refresh" \in passed \cup invalidates \/ confounded
        BY <1>5, <1>7, <3>2 DEF KnownSoFar
      <4> QED
        BY <1>2, <1>9, <1>10, <4>1
    <3>3. CASE At = 6
      BY <1>15, <3>3
    <3> QED
      BY <1>6, <3>1, <3>2, <3>3
  <2> QED
    BY <1>9, <2>1, <2>2, <2>3, <2>4 DEF KnownSoFar
<1>16. ConcludesRightly'
  BY <1>1, <1>2, <1>3, <1>4, <1>9, <1>13, <1>15, DoneIsSound DEF InPlace, ConcludesRightly
<1> QED
  BY <1>14, <1>16

\* The device that is named is in the list.
LEMMA ResolveStep ==
  ASSUME ProbeInv, ResolveTarget
  PROVE  ProbeInv'
<1> USE DEF ProbeInv
<1>1. Doing("resolve") /\ "resolve" \in StepNames \ {"restore"}
  BY DEF ResolveTarget, StepNames
<1>2. /\ phase = "probing" /\ todo # <<>> /\ Head(todo) = "resolve"
      /\ Script(probe)[At] = "resolve" /\ At \in 1..Len(Script(probe))
  BY <1>1, Places
<1>3. /\ UNCHANGED <<markedForRestore, probe, seen, passed, said, had, noise, confounded>>
      /\ UNCHANGED <<enrolled, listing, usable, invalidates, coupled>>
      /\ target' \in listing /\ GoOn
  BY DEF ResolveTarget, provider
<1>4. probe \in Naming
  <2>1. probe \notin Restoring
    BY <1>2, RestoringScript
  <2>2. probe # "session"
    BY <1>2, SessionScript
  <2>3. probe \notin Verifying
    BY <1>2, VerifyingScript
  <2> QED
    BY <2>1, <2>2, <2>3 DEF InPlace
<1>5. At = 2 /\ probe \notin Restoring /\ probe # "session"
  BY <1>2, <1>4, NamingScript, KindsDiffer
<1>6. said = "nothing" /\ KnownSoFar
  BY <1>2 DEF ConcludesRightly
<1>7. ConclusionsHold'
  BY <1>3, ConclusionsStay DEF ConcludesRightly
<1>8. InPlace' /\ LeavesNothing'
  BY <1>1, <1>2, <1>3, <1>4, <1>5, DoneKeeps DEF InPlace, LeavesNothing
<1>9. ASSUME At' = At + 1
      PROVE  said' = "nothing" /\ KnownSoFar'
  <2>1. At' = 3
    BY <1>5, <1>9
  <2>2. /\ "refreshed" \notin usable /\ seen = <<>>
        /\ listing = enrolled \/ confounded
    BY <1>4, <1>5, <1>6 DEF KnownSoFar
  <2>3. target' \in enrolled' \/ confounded'
    BY <1>3, <2>2
  <2> QED
    BY <1>3, <1>5, <1>6, <2>1, <2>2, <2>3 DEF KnownSoFar
<1>10. ConcludesRightly'
  BY <1>1, <1>2, <1>3, <1>7, <1>9, DoneIsSound DEF InPlace, ConcludesRightly
<1> QED
  BY <1>8, <1>10

LEMMA LookStep ==
  ASSUME ProbeInv, Look
  PROVE  ProbeInv'
<1> USE DEF ProbeInv
<1>1. Doing("look") /\ "look" \in StepNames \ {"restore"}
  BY DEF Look, StepNames
<1>2. /\ phase = "probing" /\ todo # <<>> /\ Head(todo) = "look"
      /\ Script(probe)[At] = "look" /\ At \in 1..Len(Script(probe))
  BY <1>1, Places
<1>3. /\ UNCHANGED <<markedForRestore, probe, target, passed, said, had, noise>>
      /\ UNCHANGED <<enrolled, listing, usable, invalidates, coupled>>
      /\ seen' = Append(seen, listing)
      /\ GoOn \/ RaiseError
  BY DEF Look, provider
<1>4. confounded' = (confounded \/ listing # enrolled)
  BY DEF Look
<1>5. /\ confounded => confounded'
      /\ listing # enrolled => confounded'
  BY <1>4, Zenon
<1>6. said = "nothing" /\ KnownSoFar
  BY <1>2 DEF ConcludesRightly
<1>7. ConclusionsHold'
  BY <1>3, <1>6 DEF ConclusionsHold
<1>8. /\ seen' \in Seq(SUBSET (OtherDevices \cup {ProbeDevice})) /\ Len(seen) \in Nat
      /\ Len(seen') = Len(seen) + 1 /\ (seen = <<>> => seen'[1] = listing)
  BY <1>3 DEF ConcludesRightly
<1>9. CASE RaiseError
  <2>1. InPlace' /\ LeavesNothing'
    BY <1>2, <1>3, <1>9, RaisedKeeps DEF InPlace, LeavesNothing
  <2>2. ConcludesRightly'
    BY <1>2, <1>3, <1>5, <1>6, <1>8, <1>9, RaisedIsSound DEF InPlace, ConcludesRightly
  <2> QED
    BY <2>1, <2>2
<1>10. CASE GoOn
  <2>1. InPlace' /\ LeavesNothing'
    BY <1>1, <1>2, <1>3, <1>10, DoneKeeps DEF InPlace, LeavesNothing
  <2>2. ASSUME At' = At + 1
        PROVE  said' = "nothing" /\ KnownSoFar'
    <3>1. said' = "nothing" /\ probe' = probe
      BY <1>3, <1>6
    <3>2. CASE probe \in Naming
      <4>1. At = 4 /\ At' = 5 /\ probe \notin Restoring /\ probe # "session"
        <5>1. At = 4
          BY <1>2, <3>2, NamingScript
        <5>2. At' = 5
          BY <2>2, <5>1
        <5> QED
          BY <3>2, <5>1, <5>2, KindsDiffer
      <4>2. "refreshed" \notin usable /\ usable \cap invalidates = {} /\ seen = <<>>
        BY <1>6, <3>2, <4>1 DEF KnownSoFar
      <4>3. probe = "unregister" => confounded' \/ (target \in seen'[1] <=> ~coupled)
        <5>1. probe = "unregister" => confounded \/ (target \in enrolled <=> ~coupled)
          BY <1>6, <4>1 DEF KnownSoFar
        <5> QED
          BY <1>5, <1>8, <4>2, <5>1
      <4>4. probe = "unregister" => confounded' \/ (target \in enrolled <=> ~coupled)
        BY <1>5, <1>6, <4>1 DEF KnownSoFar
      <4> QED
        BY <1>3, <3>1, <4>1, <4>2, <4>3, <4>4 DEF KnownSoFar
    <3>3. CASE probe = "session"
      <4>1. At \in {1, 2, 4, 7}
        BY <1>2, <3>3, SessionScript
      <4>2. probe \notin Naming /\ probe \notin Restoring /\ probe # "revoke" /\ probe # "unregister"
        BY <3>3, KindsDiffer
      <4>3. Len(seen) = (CASE At = 1 -> 0 [] At = 2 -> 1 [] At \in {3, 4} -> 2 [] At \in {5, 6, 7} -> 3
                      [] OTHER -> 4)
        BY <1>6, <3>3 DEF KnownSoFar
      <4>4. Len(seen') = (CASE At' = 1 -> 0 [] At' = 2 -> 1 [] At' \in {3, 4} -> 2 [] At' \in {5, 6, 7} -> 3
                      [] OTHER -> 4)
        BY <1>8, <2>2, <4>1, <4>3
      <4> QED
        BY <3>1, <3>3, <4>2, <4>4 DEF KnownSoFar
    <3> QED
      BY <1>2, <3>2, <3>3, RestoringScript, VerifyingScript DEF InPlace
  <2>3. ConcludesRightly'
    BY <1>1, <1>2, <1>3, <1>7, <1>8, <1>10, <2>2, DoneIsSound DEF InPlace, ConcludesRightly
  <2> QED
    BY <2>1, <2>3
<1> QED
  BY <1>3, <1>9, <1>10


LEMMA ConcludeStep ==
  ASSUME ProbeInv, Conclude
  PROVE  ProbeInv'
<1> USE DEF ProbeInv
<1>1. Doing("conclude") /\ "conclude" \in StepNames \ {"restore"}
  BY DEF Conclude, StepNames
<1>2. /\ phase = "probing" /\ todo # <<>> /\ Head(todo) = "conclude"
      /\ Script(probe)[At] = "conclude" /\ At \in 1..Len(Script(probe))
  BY <1>1, Places
<1>3. /\ UNCHANGED <<markedForRestore, probe, target, seen, passed, had, noise, confounded>>
      /\ UNCHANGED <<enrolled, listing, usable, invalidates, coupled>>
      /\ said' = Conclusion /\ GoOn
  BY DEF Conclude, provider
<1>4. probe \notin Verifying
  BY <1>2, VerifyingScript
<1>5. /\ At = Len(Script(probe))
      /\ probe \in Restoring => At = 10
      /\ probe \in Naming => At = 8
      /\ probe = "session" => At = 8
  <2>1. probe \in Restoring => At = 10 /\ Len(Script(probe)) = 10
    BY <1>2, RestoringScript
  <2>2. probe \in Naming => At = 8 /\ Len(Script(probe)) = 8
    BY <1>2, NamingScript
  <2>3. probe = "session" => At = 8 /\ Len(Script(probe)) = 8
    BY <1>2, SessionScript
  <2> QED
    BY <1>4, <2>1, <2>2, <2>3 DEF InPlace
<1>6. KnownSoFar
  BY <1>2 DEF ConcludesRightly
<1>7. ConclusionsHold'
  <2>1. CASE probe \in Restoring
    <3>1. /\ "access" \in passed \cup invalidates \/ confounded
          /\ "refresh" \in passed \cup invalidates \/ confounded
          /\ passed \cap invalidates = {}
      <4>0. At = 10
        BY <1>5, <2>1
      <4>1. At > 6 /\ At > 7
        BY <4>0
      <4>2. passed \cap invalidates = {}
        BY DEF ConcludesRightly
      <4> QED
        BY <1>6, <2>1, <4>1, <4>2 DEF KnownSoFar
    <3>2. said' = IF {"access", "refresh", "refreshed", "observer"} \subseteq passed THEN "survived"
                  ELSE IF probe = "delete" /\ {"access", "observer"} \subseteq passed
                          /\ "refresh" \notin passed THEN "refresh rejected"
                  ELSE IF passed = {"observer"} THEN "rejected"
                  ELSE "mixed"
      <4>1. probe # "revoke" /\ probe # "unregister" /\ probe # "session"
        BY <2>1 DEF Restoring
      <4> QED
        BY <1>3, <2>1, <4>1 DEF Conclusion
    <3>3. CASE {"access", "refresh", "refreshed", "observer"} \subseteq passed
      BY <1>3, <3>1, <3>2, <3>3 DEF ConclusionsHold
    <3>4. CASE said' = "refresh rejected" /\ "refresh" \notin passed
      BY <1>3, <3>1, <3>4 DEF ConclusionsHold
    <3>5. CASE said' = "rejected" /\ passed = {"observer"}
      <4>1. {"access", "refresh"} \subseteq invalidates \/ confounded
        BY <3>1, <3>5
      <4> QED
        BY <1>3, <3>5, <4>1 DEF ConclusionsHold
    <3>6. CASE said' = "mixed"
      BY <3>6 DEF ConclusionsHold
    <3> QED
      BY <3>2, <3>3, <3>4, <3>5, <3>6
  <2>2. CASE probe = "revoke"
    <3>1. said' = "survived"
      BY <1>3, <2>2 DEF Conclusion, Restoring
    <3>2. "access" \notin invalidates /\ "refresh" \notin invalidates
      <4>1. At = 8
        BY <1>5, <2>2 DEF Naming
      <4> QED
        BY <1>6, <2>2, <4>1 DEF KnownSoFar
    <3> QED
      BY <1>3, <3>1, <3>2 DEF ConclusionsHold
  <2>3. CASE probe = "unregister"
    <3>1. said' = IF target \in seen[1] THEN "kept" ELSE "gone"
      BY <1>3, <2>3 DEF Conclusion, Restoring
    <3>2. confounded \/ (target \in seen[1] <=> ~coupled)
      <4>1. At = 8
        BY <1>5, <2>3 DEF Naming
      <4> QED
        BY <1>6, <2>3, <4>1 DEF KnownSoFar
    <3> QED
      BY <1>3, <3>1, <3>2 DEF ConclusionsHold
  <2>4. CASE probe = "session"
    <3>1. said' = IF \A i \in 1..3 : seen[i] = seen[i + 1] THEN "unchanged" ELSE "changed"
      BY <1>3, <2>4 DEF Conclusion, Restoring, Unchanged
    <3>2. Len(seen) = 4
      <4>1. At = 8
        BY <1>5, <2>4
      <4> QED
        BY <1>6, <2>4, <4>1 DEF KnownSoFar
    <3>3. DOMAIN seen = 1..4
      BY <3>2 DEF ConcludesRightly
    <3>4. ASSUME \A i \in 1..3 : seen[i] = seen[i + 1]
          PROVE  \A i \in 1..4 : seen[i] = seen[1]
      <4>1. seen[1] = seen[2] /\ seen[2] = seen[3] /\ seen[3] = seen[4]
        BY <3>4
      <4>2. \A i \in 1..4 : i \in {1, 2, 3, 4}
        OBVIOUS
      <4> QED
        BY <4>1, <4>2
    <3> QED
      BY <1>3, <3>1, <3>3, <3>4 DEF ConclusionsHold
  <2> QED
    BY <1>4, <2>1, <2>2, <2>3, <2>4 DEF InPlace, Naming
<1>8. InPlace' /\ LeavesNothing'
  BY <1>1, <1>2, <1>3, DoneKeeps DEF InPlace, LeavesNothing
<1>9. At' = At + 1 => At' \notin 1..Len(Script(probe))
  BY <1>2, <1>5, TypeScript DEF InPlace
<1>10. ConcludesRightly'
  BY <1>1, <1>2, <1>3, <1>7, <1>9, DoneIsSound DEF InPlace, ConcludesRightly
<1> QED
  BY <1>8, <1>10

LEMMA RestoreStep ==
  ASSUME ProbeInv, Restore
  PROVE  ProbeInv'
<1> USE DEF ProbeInv
<1>1. Doing("restore") /\ "restore" \in StepNames
  BY DEF Restore, StepNames
<1>2. /\ phase = "probing"
      /\ Script(probe)[At] = "restore" /\ At \in 1..Len(Script(probe))
  BY <1>1, Places
<1>3. /\ todo' = Restoration /\ phase' = "restoring" /\ ending' = "done"
      /\ UNCHANGED <<markedForRestore, probe, target, seen, passed, said, had, noise, confounded>>
      /\ UNCHANGED <<enrolled, listing, usable, invalidates, coupled>>
  BY DEF Restore, provider
<1>4. probe \in Verifying
  <2>1. probe \notin Restoring
    BY <1>2, RestoringScript
  <2>2. probe # "session"
    BY <1>2, SessionScript
  <2>3. probe \notin Naming
    BY <1>2, NamingScript
  <2> QED
    BY <2>1, <2>2, <2>3 DEF InPlace
<1>5. \/ todo' = <<"enrol", "present">>
      \/ todo' = <<"enrol">> /\ probe = "verify unregister"
  BY <1>3 DEF Restoration
<1>6. Head(<<"enrol", "present">>) = "enrol" /\ Head(<<"enrol">>) = "enrol"
  OBVIOUS
<1>7. todo' \in Seq(StepNames) /\ Head(todo') = "enrol"
  <2>1. <<"enrol", "present">> \in Seq(StepNames) /\ <<"enrol">> \in Seq(StepNames)
    BY DEF StepNames
  <2> QED
    BY <1>5, <1>6, <2>1
<1>8. InPlace'
  BY <1>3, <1>4, <1>5, <1>7 DEF InPlace
<1>9. LeavesNothing'
  BY <1>3, <1>4, <1>7, KindsDiffer DEF LeavesNothing, IsPutBack
<1>10. ConclusionsHold'
  BY <1>3, ConclusionsStay DEF ConcludesRightly
<1>11. ConcludesRightly'
  BY <1>3, <1>10 DEF ConcludesRightly
<1> QED
  BY <1>8, <1>9, <1>11

LEMMA FailingStep ==
  ASSUME ProbeInv, StepFails \/ ProbeDies
  PROVE  ProbeInv'
<1> USE DEF ProbeInv
<1>1. /\ phase # "over"
      /\ UNCHANGED <<markedForRestore, probe, target, seen, passed, said, had, noise, confounded>>
      /\ UNCHANGED <<enrolled, listing, usable, invalidates, coupled>>
      /\ \/ RaiseError
         \/ todo' = <<>> /\ phase' = "over" /\ ending' = "killed"
  BY DEF StepFails, ProbeDies, provider
<1>2. ConclusionsHold'
  BY <1>1, ConclusionsStay DEF ConcludesRightly
<1>3. CASE RaiseError
  <2>1. InPlace' /\ LeavesNothing'
    BY <1>1, <1>3, RaisedKeeps DEF InPlace, LeavesNothing
  <2>2. ConcludesRightly'
    BY <1>1, <1>3, RaisedIsSound DEF InPlace, ConcludesRightly
  <2> QED
    BY <2>1, <2>2
<1>4. CASE todo' = <<>> /\ phase' = "over" /\ ending' = "killed"
  <2>1. InPlace'
    BY <1>1, <1>4, InPlaceOver DEF InPlace
  <2>2. LeavesNothing'
    BY <1>1, <1>4 DEF LeavesNothing, IsPutBack
  <2>3. ConcludesRightly'
    BY <1>1, <1>2, <1>4 DEF ConcludesRightly
  <2> QED
    BY <2>1, <2>2, <2>3
<1> QED
  BY <1>1, <1>3, <1>4

\* What the provider does by itself.
LEMMA AccountByItself ==
  ASSUME ProbeInv, ListingFollows \/ Noise
  PROVE  ProbeInv'
<1> USE DEF ProbeInv
<1>1. /\ UNCHANGED <<probe, phase, todo, markedForRestore, ending, target, seen, passed, said, had>>
      /\ UNCHANGED <<usable, invalidates, coupled>>
      /\ \/ listing' = enrolled /\ enrolled' = enrolled /\ confounded' = confounded
         \/ confounded' = TRUE /\ listing' = listing /\ phase # "over"
      /\ enrolled' \in SUBSET (OtherDevices \cup {ProbeDevice})
      /\ listing' \in SUBSET (OtherDevices \cup {ProbeDevice})
      /\ ProbeDevice \in enrolled => ProbeDevice \in enrolled'
  <2>1. CASE ListingFollows
    BY <2>1 DEF ListingFollows, ConcludesRightly
  <2>2. CASE Noise
    BY <2>2, ProbeAssumption DEF Noise, ConcludesRightly
  <2> QED
    BY <2>1, <2>2
<1>2. InPlace' /\ At' = At
  BY <1>1 DEF InPlace, At
<1>3. LeavesNothing'
  BY <1>1 DEF LeavesNothing, IsPutBack
<1>4. ConclusionsHold'
  BY <1>1, ConclusionsStay DEF ConcludesRightly
<1>5. KnownSoFar => KnownSoFar'
  BY <1>1, <1>2 DEF KnownSoFar
<1>6. ConcludesRightly'
  BY <1>1, <1>4, <1>5 DEF ConcludesRightly
<1> QED
  BY <1>2, <1>3, <1>6

LEMMA ProbesBegin == ProbeInit => ProbeInv
<1> SUFFICES ASSUME ProbeInit PROVE ProbeInv
  OBVIOUS
<1>1. Script(probe) \in Seq(StepNames) /\ Len(Script(probe)) \in 3..10 /\ todo = Script(probe)
  BY TypeScript DEF ProbeInit
<1>2. At = 1
  BY <1>1 DEF At
<1>3. InPlace
  <2>1. At \in 1..Len(Script(probe))
    <3>0. ASSUME NEW n \in 3..10 PROVE 1 \in 1..n
      OBVIOUS
    <3>1. 1 \in 1..Len(Script(probe))
      BY <1>1, <3>0
    <3> QED
      BY <1>2, <3>1
  <2>2. \A i \in 1..Len(todo) : At - 1 + i = i
    BY <1>2
  <2> QED
    BY <1>1, <2>1, <2>2 DEF InPlace, ProbeInit
<1>4. LeavesNothing
  BY DEF LeavesNothing, ProbeInit, IsPutBack
<1>5. KnownSoFar
  BY <1>2 DEF KnownSoFar, ProbeInit, Tokens
<1>6. ConcludesRightly
  BY <1>5 DEF ConcludesRightly, ConclusionsHold, ProbeInit, Tokens
<1> QED
  BY <1>3, <1>4, <1>6 DEF ProbeInv

\* Whatever a probe has concluded is so, and the probe's own device is back in the
\* account when a probe that promises it ends (IsPutBack, ConclusionsHold).
THEOREM ProbesHonest == ProbeSpec => []ProbesAreHonest
<1>1. ProbeInv /\ [ProbeNext]_probeVars => ProbeInv'
  <2> SUFFICES ASSUME ProbeInv, [ProbeNext]_probeVars PROVE ProbeInv'
    OBVIOUS
  <2>1. CASE UNCHANGED probeVars
    <3>1. At' = At
      BY <2>1 DEF probeVars, At
    <3>2. InPlace' /\ LeavesNothing'
      BY <2>1, <3>1 DEF probeVars, provider, ProbeInv, InPlace, LeavesNothing, IsPutBack
    <3>3. ConcludesRightly'
      <4>1. KnownSoFar => KnownSoFar'
        BY <2>1, <3>1 DEF probeVars, provider, KnownSoFar
      <4>2. ConclusionsHold'
        BY <2>1 DEF probeVars, provider, ProbeInv, ConcludesRightly, ConclusionsHold
      <4> QED
        BY <2>1, <4>1, <4>2 DEF probeVars, provider, ProbeInv, ConcludesRightly
    <3> QED
      BY <3>2, <3>3 DEF ProbeInv
  <2> QED
    BY <2>1, EnrolStep, WaitStep, RemoveStep, TestStep, CheckStep, RenewStep, ResolveStep, LookStep,
       ConcludeStep, RestoreStep, FailingStep, AccountByItself DEF ProbeNext
<1>2. ProbeInv => ProbesAreHonest
  BY DEF ProbeInv, LeavesNothing, ConcludesRightly, ProbesAreHonest
<1> QED
  BY <1>1, <1>2, ProbesBegin, PTL DEF ProbeSpec

-----------------------------------------------------------------------------
(* The call sensor.                                                        *)

\* An entity that is there has a timer exactly while it is on, due RingTime after the
\* last call; one that is not there has none.
TimerInv ==
  /\ clock \in 0..MaxClock /\ adds \in 0..MaxAdds
  /\ added \in BOOLEAN /\ isOn \in BOOLEAN
  /\ ~added => timers = {} /\ turnOff = Never
  /\ calledAt = Never \/ calledAt \in 0..clock
  /\ added /\ isOn => calledAt # Never /\ turnOff = calledAt + RingTime /\ timers = {turnOff}
                      /\ clock <= turnOff
  /\ added /\ ~isOn => timers = {} /\ turnOff = Never
                       /\ (calledAt = Never \/ calledAt + RingTime <= clock)

\* The sensor rings for its whole time after the last call, and no longer (SensorInv).
THEOREM SensorRings == SensorSpec => []SensorInv
<1> USE SensorBounds DEF Never
<1>1. SensorInit => TimerInv
  <2> SUFFICES ASSUME SensorInit PROVE TimerInv
    OBVIOUS
  <2>1. 0 \in 0..MaxClock /\ 0 \in 0..MaxAdds
    OBVIOUS
  <2> QED
    BY <2>1 DEF SensorInit, TimerInv
<1>2. TimerInv /\ [SensorNext]_sensorVars => TimerInv'
  <2> SUFFICES ASSUME TimerInv, [SensorNext]_sensorVars PROVE TimerInv'
    OBVIOUS
  <2> USE DEF TimerInv
  <2>1. CASE AddSensor
    <3>1. adds + 1 \in 0..MaxAdds
      BY <2>1 DEF AddSensor
    <3>2. timers = {} /\ added' = TRUE /\ isOn' = FALSE /\ timers' = {} /\ turnOff' = Never
            /\ calledAt' = Never /\ clock' = clock /\ adds' = adds + 1
      BY <2>1 DEF AddSensor
    <3> QED
      BY <3>1, <3>2
  <2>2. CASE HandleCall
    BY <2>2 DEF HandleCall
  <2>3. CASE TurnOff
    <3>1. added /\ isOn
      BY <2>3 DEF TurnOff
    <3>2. timers = {turnOff} /\ clock = turnOff
      BY <3>1, <2>3 DEF TurnOff
    <3>3. /\ timers' = {} /\ turnOff' = Never /\ isOn' = FALSE
          /\ clock' = clock /\ added' = added /\ adds' = adds /\ calledAt' = calledAt
      BY <3>2, <2>3 DEF TurnOff
    <3>4. calledAt + RingTime <= clock
      BY <3>1, <3>2
    <3> QED
      BY <3>3, <3>4
  <2>4. CASE RemoveSensor
    BY <2>4 DEF RemoveSensor
  <2>5. CASE Pass
    BY <2>5 DEF Pass
  <2>6. CASE UNCHANGED sensorVars
    BY <2>6 DEF sensorVars
  <2> QED
    BY <2>1, <2>2, <2>3, <2>4, <2>5, <2>6 DEF SensorNext
<1>3. TimerInv => SensorInv
  BY DEF TimerInv, SensorInv
<1> QED
  BY <1>1, <1>2, <1>3, PTL DEF SensorSpec

-----------------------------------------------------------------------------
(* The resources of the cards.                                             *)

Resource == [id : Nat \ {0}, card : AllCards, version : Nat, module : BOOLEAN]
AnyCard == AllCards \cup {Extension}

CardsTypeOK ==
  /\ version \in Nat /\ edits \in Nat /\ nextResource \in Nat \ {0}
  /\ resources \in Seq(Resource)
  /\ setup \in {"stopped", "cards", "running"}
  /\ waiting \in Seq(AllCards) /\ served \in Seq(AnyCard)
  /\ guard \in BOOLEAN /\ extensionTask \in BOOLEAN

\* What there is to do while it starts, and only then.
SetupInv ==
  /\ setup = "cards" => waiting # <<>>
  /\ setup = "running" => waiting = <<>>
  /\ setup = "stopped" => ~guard /\ ~extensionTask

\* An id has been given to one resource; while no user has edited them, so has a card.
ResourcesInv ==
  /\ \A i \in DOMAIN resources : resources[i].id < nextResource
  /\ \A i, j \in DOMAIN resources : resources[i].id = resources[j].id => i = j
  /\ edits = 0 => \A i, j \in DOMAIN resources : resources[i].card = resources[j].card => i = j

\* What is being written is for the card whose turn it is.
WritingInv ==
  \/ writing = NotWriting
  \/ /\ writing \in [id : Nat, card : AllCards, version : Nat, module : BOOLEAN]
     /\ setup = "cards" /\ writing.card = Head(waiting)
     /\ writing.version = version /\ writing.module
     /\ writing.id < nextResource
     /\ \A i \in DOMAIN resources : resources[i].id = writing.id => resources[i].card = writing.card
     /\ writing.id = 0 /\ edits = 0 => \A i \in DOMAIN resources : resources[i].card # writing.card

\* A card on disk has its turn yet, or is served, or users have edited it.
TurnsInv ==
  setup # "stopped" /\ MainCard \in onDisk =>
    \A card \in (onDisk \cap AllCards) \ touched :
      Serves(card) \/ \E k \in DOMAIN waiting : waiting[k] = card

\* A path is served once, that of the extension by its task.
PathsInv ==
  /\ \A i, j \in DOMAIN served : served[i] = served[j] => i = j
  /\ extensionTask => guard
  /\ \A i \in DOMAIN served : served[i] = Extension => guard /\ ~extensionTask

CardsInd == CardsTypeOK /\ SetupInv /\ ResourcesInv /\ WritingInv /\ TurnsInv /\ PathsInv

\* The cards in turn are each of them once.
LEMMA EachInTurn ==
  ASSUME NEW cards \in SUBSET AllCards
  PROVE  /\ InTurn(cards) \in Seq(cards) /\ (cards = {} => InTurn(cards) = <<>>)
         /\ cards # {} => InTurn(cards) # <<>>
         /\ \A c \in cards : \E i \in DOMAIN InTurn(cards) : InTurn(cards)[i] = c
         /\ \A i, j \in DOMAIN InTurn(cards) : InTurn(cards)[i] = InTurn(cards)[j] => i = j
<1> DEFINE n == Cardinality(cards)
<1>1. IsFiniteSet(cards)
  <2>1. IsFiniteSet(AllCards)
    <3>1. AllCards = MoreCards \cup {MainCard}
      BY DEF AllCards
    <3> QED
      BY <3>1, FS_AddElement, CardsAssumption
  <2> QED
    BY <2>1, FS_Subset
<1>2. n \in Nat /\ ExistsBijection(1..n, cards)
  BY <1>1, FS_CardinalityType
<1>3. PICK f \in [1..n -> cards] : \A c \in cards : \E i \in 1..n : f[i] = c
  BY <1>2 DEF ExistsBijection, Bijection, Surjection
<1>4. \E s \in [1..n -> cards] :
        /\ \A c \in cards : \E i \in DOMAIN s : s[i] = c
        /\ MainCard \in cards => s[1] = MainCard
  <2>1. CASE MainCard \notin cards
    BY <2>1, <1>3
  <2>2. CASE MainCard \in cards
    <3>1. PICK k \in 1..n : f[k] = MainCard
      BY <2>2, <1>3
    <3>2. 1 \in 1..n
      BY <1>2, <3>1
    <3> DEFINE s == [i \in 1..n |-> IF i = 1 THEN MainCard ELSE IF i = k THEN f[1] ELSE f[i]]
    <3>3. s \in [1..n -> cards] /\ DOMAIN s = 1..n /\ s[1] = MainCard
      BY <2>2, <3>2, <1>3
    <3>4. ASSUME NEW c \in cards PROVE \E i \in 1..n : s[i] = c
      <4>1. PICK i \in 1..n : f[i] = c
        BY <1>3
      <4>2. CASE i = k
        BY <4>1, <4>2, <3>1, <3>2, <3>3
      <4>3. CASE i = 1 /\ i # k
        <5>1. s[k] = f[1]
          BY <4>3, <3>1
        <5> QED
          BY <5>1, <4>1, <4>3
      <4>4. CASE i # 1 /\ i # k
        BY <4>1, <4>4
      <4> QED
        BY <4>2, <4>3, <4>4
    <3> HIDE DEF s
    <3> QED
      BY <3>3, <3>4
  <2> QED
    BY <2>1, <2>2
<1> DEFINE t == InTurn(cards)
<1>5. t \in [1..n -> cards] /\ \A c \in cards : \E i \in DOMAIN t : t[i] = c
  BY <1>4 DEF InTurn
<1>6. \A i, j \in 1..n : t[i] = t[j] => i = j
  <2>1. IsFiniteSet(1..n) /\ Cardinality(1..n) = n
    BY <1>2, FS_Interval
  <2>2. t \in Surjection(1..n, cards)
    BY <1>5 DEF Surjection
  <2>3. t \in Injection(1..n, cards)
    <3> HIDE DEF t
    <3> QED
      BY <2>1, <2>2, FS_SurjSameCardinalityImpliesInj
  <2> QED
    BY <2>3 DEF Injection, IsInjective
<1> HIDE DEF t
<1>7. t \in Seq(cards) /\ DOMAIN t = 1..n /\ Len(t) = n
  BY <1>5, <1>2
<1>8. cards = {} <=> n = 0
  BY <1>1, FS_EmptySet
<1>9. t = <<>> <=> n = 0
  BY <1>7, <1>2
<1> QED
  BY <1>5, <1>6, <1>7, <1>8, <1>9 DEF t

\* The first of the waiting cards has had its turn.
LEMMA TurnPasses ==
  ASSUME CardsTypeOK, SetupInv, setup = "cards", NextCard
  PROVE  /\ waiting' \in Seq(AllCards) /\ Head(waiting) \in AllCards
         /\ setup' \in {"cards", "running"}
         /\ setup' = "cards" => waiting' # <<>>
         /\ setup' = "running" => waiting' = <<>>
         /\ writing' = NotWriting
         /\ \A c : (\E k \in DOMAIN waiting : waiting[k] = c) =>
                     c = Head(waiting) \/ \E k \in DOMAIN waiting' : waiting'[k] = c
<1>1. waiting \in Seq(AllCards) /\ waiting # <<>>
  BY DEF CardsTypeOK, SetupInv
<1>2. Len(waiting) \in Nat \ {0} /\ DOMAIN waiting = 1..Len(waiting)
  BY <1>1, EmptySeq
<1>3. /\ Head(waiting) \in AllCards /\ Tail(waiting) \in Seq(AllCards)
      /\ Len(Tail(waiting)) = Len(waiting) - 1
      /\ \A i \in 1..Len(Tail(waiting)) : Tail(waiting)[i] = waiting[i + 1]
  BY <1>1, HeadTailProperties
<1>4. waiting' = Tail(waiting) /\ writing' = NotWriting
      /\ setup' = IF Len(waiting) = 1 THEN "running" ELSE "cards"
  BY DEF NextCard
<1>5. Len(Tail(waiting)) = 0 <=> Tail(waiting) = <<>>
  BY <1>3, EmptySeq
<1>6. ASSUME NEW k \in DOMAIN waiting
      PROVE  waiting[k] = Head(waiting) \/ \E j \in DOMAIN waiting' : waiting'[j] = waiting[k]
  <2>1. CASE k = 1
    BY <2>1, <1>1
  <2>2. CASE k # 1
    <3>1. k - 1 \in 1..Len(Tail(waiting)) /\ (k - 1) + 1 = k
      BY <2>2, <1>2, <1>3
    <3>2. DOMAIN Tail(waiting) = 1..Len(Tail(waiting))
      BY <1>3
    <3> QED
      BY <3>1, <3>2, <1>3, <1>4
  <2> QED
    BY <2>1, <2>2
<1> QED
  BY <1>2, <1>3, <1>4, <1>5, <1>6

\* The card whose turn it was is served, the others are served or waiting as before, and the
\* resources are as they should be: so they are after its turn.
LEMMA TurnKeepsInv ==
  ASSUME CardsInd, setup = "cards", NextCard, NEW mine, mine = Head(waiting),
         UNCHANGED <<version, onDisk, served, guard, extensionTask, edits, touched>>,
         resources' \in Seq(Resource), nextResource' \in Nat \ {0}, ResourcesInv',
         Serves(mine)',
         \A card \in AllCards \ {mine} : Serves(card) => Serves(card)'
  PROVE  CardsInd'
<1> USE DEF CardsInd
<1>1. /\ waiting' \in Seq(AllCards) /\ setup' \in {"cards", "running"}
      /\ setup' = "cards" => waiting' # <<>>
      /\ setup' = "running" => waiting' = <<>>
      /\ writing' = NotWriting
      /\ \A c : (\E k \in DOMAIN waiting : waiting[k] = c) =>
                  c = Head(waiting) \/ \E k \in DOMAIN waiting' : waiting'[k] = c
  BY TurnPasses
<1>2. CardsTypeOK'
  BY <1>1 DEF CardsTypeOK
<1>3. SetupInv'
  BY <1>1 DEF SetupInv
<1>4. WritingInv'
  BY <1>1 DEF WritingInv, NotWriting
<1>5. TurnsInv'
  <2> SUFFICES ASSUME setup' # "stopped", MainCard \in onDisk',
                      NEW card \in ((onDisk \cap AllCards) \ touched)'
               PROVE  Serves(card)' \/ \E k \in DOMAIN waiting' : waiting'[k] = card
    BY DEF TurnsInv
  <2>1. card \in AllCards /\ MainCard \in onDisk /\ card \in (onDisk \cap AllCards) \ touched
    OBVIOUS
  <2>2. Serves(card) \/ \E k \in DOMAIN waiting : waiting[k] = card
    BY <2>1 DEF TurnsInv
  <2>3. CASE card = mine
    BY <2>3
  <2>4. CASE card # mine
    BY <2>4, <2>1, <2>2, <1>1
  <2> QED
    BY <2>3, <2>4
<1>6. PathsInv'
  BY DEF PathsInv
<1> QED
  BY <1>2, <1>3, <1>4, <1>5, <1>6

\* A resource that is added keeps the invariant of the resources, and takes none away.
LEMMA AddedResource ==
  ASSUME CardsTypeOK, ResourcesInv, NEW r \in Resource, r.id = nextResource,
         resources' = Append(resources, r), nextResource' = nextResource + 1,
         version' = version, extra' = extra,
         edits' = 0 => edits = 0 /\ \A i \in DOMAIN resources : resources[i].card # r.card
  PROVE  /\ resources' \in Seq(Resource) /\ nextResource' \in Nat \ {0}
         /\ DOMAIN resources' = DOMAIN resources \cup {Len(resources) + 1}
         /\ Len(resources) + 1 \notin DOMAIN resources
         /\ resources'[Len(resources) + 1] = r
         /\ \A i \in DOMAIN resources : resources'[i] = resources[i]
         /\ ResourcesInv'
         /\ \A card : Serves(card) => Serves(card)'
<1> DEFINE last == Len(resources) + 1
<1>1. resources \in Seq(Resource) /\ nextResource \in Nat \ {0}
  BY DEF CardsTypeOK
<1>2. /\ resources' \in Seq(Resource) /\ Len(resources') = last
      /\ \A i \in 1..Len(resources) : resources'[i] = resources[i]
      /\ resources'[last] = r
  BY <1>1, AppendProperties
<1>3. DOMAIN resources = 1..Len(resources) /\ DOMAIN resources' = 1..last /\ Len(resources) \in Nat
  BY <1>1, <1>2
<1>4. 1..last = 1..Len(resources) \cup {last} /\ last \notin 1..Len(resources)
  BY <1>3
<1> HIDE DEF last
<1>5. nextResource' \in Nat \ {0} /\ nextResource < nextResource'
  BY <1>1
<1>6. \A i \in DOMAIN resources : resources[i].id \in Nat /\ resources[i].id < nextResource
  <2> TAKE i \in DOMAIN resources
  <2>1. resources[i] \in Resource
    BY <1>1, <1>3
  <2> QED
    BY <2>1 DEF ResourcesInv, Resource
<1>7. ResourcesInv'
  <2>1. \A i \in DOMAIN resources' : resources'[i].id < nextResource'
    BY <1>2, <1>3, <1>4, <1>5, <1>6, <1>1
  <2>2. \A i, j \in DOMAIN resources' : resources'[i].id = resources'[j].id => i = j
    BY <1>2, <1>3, <1>4, <1>6, <1>1 DEF ResourcesInv
  <2>3. edits' = 0 => \A i, j \in DOMAIN resources' : resources'[i].card = resources'[j].card => i = j
    BY <1>2, <1>3, <1>4 DEF ResourcesInv
  <2> QED
    BY <2>1, <2>2, <2>3 DEF ResourcesInv
<1>8. \A card : Serves(card) => Serves(card)'
  BY <1>2, <1>3, <1>4 DEF Serves
<1> QED
  BY <1>2, <1>3, <1>4, <1>5, <1>7, <1>8 DEF last

\* A step that neither stops the start nor makes it go on, nor serves or takes away anything.
LEMMA OthersMove ==
  ASSUME CardsInd, UNCHANGED <<version, onDisk, setup, waiting, served, guard, extensionTask>>,
         edits' = edits, touched' = touched, lovelace' = lovelace, extra' = extra, WritingInv'
  PROVE  CardsInd'
<1>1. CardsTypeOK' /\ SetupInv' /\ PathsInv'
  BY DEF CardsInd, CardsTypeOK, SetupInv, PathsInv, lovelace
<1>2. ResourcesInv'
  BY DEF CardsInd, ResourcesInv, lovelace
<1>3. TurnsInv'
  BY DEF CardsInd, TurnsInv, Serves, lovelace
<1> QED
  BY <1>1, <1>2, <1>3 DEF CardsInd

\* A resource that is taken away keeps the invariant of the resources.
LEMMA RemovedResource ==
  ASSUME CardsTypeOK, ResourcesInv, NEW k \in DOMAIN resources,
         resources' = RemoveAt(resources, k), nextResource' = nextResource,
         version' = version, extra' = extra, edits' = edits + 1
  PROVE  /\ resources' \in Seq(Resource) /\ ResourcesInv'
         /\ \A i \in DOMAIN resources' : \E j \in DOMAIN resources : resources'[i] = resources[j]
         /\ \A card : card # resources[k].card /\ Serves(card) => Serves(card)'
<1>1. resources \in Seq(Resource) /\ Len(resources) \in Nat /\ DOMAIN resources = 1..Len(resources)
      /\ edits' # 0
  BY DEF CardsTypeOK
<1>2. /\ resources' \in Seq(Resource) /\ Len(resources') = Len(resources) - 1
      /\ \A i \in 1..(k - 1) : resources'[i] = resources[i]
      /\ \A i \in k..(Len(resources) - 1) : resources'[i] = resources[i + 1]
  <2>1. k \in 1..Len(resources)
    BY <1>1
  <2>2. /\ RemoveAt(resources, k) \in Seq(Resource)
        /\ Len(RemoveAt(resources, k)) = Len(resources) - 1
        /\ \A j \in 1..(k - 1) : RemoveAt(resources, k)[j] = resources[j]
        /\ \A j \in k..(Len(resources) - 1) : RemoveAt(resources, k)[j] = resources[j + 1]
    BY <1>1, <2>1, RemovedMoves
  <2> QED
    BY <2>2
<1>3. DOMAIN resources' = 1..(Len(resources) - 1)
  BY <1>2
<1> DEFINE from == [i \in 1..(Len(resources) - 1) |-> IF i < k THEN i ELSE i + 1]
<1>4. \A i \in DOMAIN resources' : from[i] \in DOMAIN resources /\ resources'[i] = resources[from[i]]
  BY <1>1, <1>2, <1>3
<1>5. \A i, j \in DOMAIN resources' : from[i] = from[j] => i = j
  BY <1>1, <1>3
<1>6. ASSUME NEW j \in DOMAIN resources, j # k
      PROVE  \E i \in DOMAIN resources' : resources'[i] = resources[j]
  <2>1. CASE j < k
    BY <2>1, <1>1, <1>2, <1>3
  <2>2. CASE j > k
    <3>1. j - 1 \in k..(Len(resources) - 1) /\ (j - 1) + 1 = j /\ j - 1 \in DOMAIN resources'
      BY <2>2, <1>1, <1>3
    <3> QED
      BY <3>1, <1>2
  <2> QED
    BY <1>1, <1>6, <2>1, <2>2
<1> HIDE DEF from
<1>7. ResourcesInv'
  <2>1. \A i \in DOMAIN resources' : resources'[i].id < nextResource'
    BY <1>4 DEF ResourcesInv
  <2>2. \A i, j \in DOMAIN resources' : resources'[i].id = resources'[j].id => i = j
    BY <1>4, <1>5 DEF ResourcesInv
  <2> QED
    BY <2>1, <2>2, <1>1 DEF ResourcesInv
<1>8. ASSUME NEW card, card # resources[k].card, Serves(card) PROVE Serves(card)'
  <2>1. CASE <<card, version>> \in extra
    BY <2>1 DEF Serves
  <2>2. CASE \E j \in DOMAIN resources : /\ resources[j].card = card
                                         /\ resources[j].version = version /\ resources[j].module
    <3>1. PICK j \in DOMAIN resources : /\ resources[j].card = card
                                        /\ resources[j].version = version /\ resources[j].module
      BY <2>2
    <3>2. PICK i \in DOMAIN resources' : resources'[i] = resources[j]
      BY <3>1, <1>6, <1>8
    <3> QED
      BY <3>1, <3>2 DEF Serves
  <2> QED
    BY <2>1, <2>2, <1>8 DEF Serves
<1> QED
  BY <1>2, <1>4, <1>7, <1>8

\* A start puts every card that is there once in turn.
LEMMA StartStep == CardsInd /\ HostStarts => CardsInd'
<1> SUFFICES ASSUME CardsInd, HostStarts PROVE CardsInd'
  OBVIOUS
<1> USE DEF CardsInd
<1>1. PICK cards : /\ cards = IF MainCard \in onDisk' THEN onDisk' \ {Extension} ELSE {}
                   /\ waiting' = InTurn(cards) /\ served' = InTurn(cards)
                   /\ setup' = IF cards = {} THEN "running" ELSE "cards"
  BY DEF HostStarts
<1>2. setup = "stopped" /\ version' \in Nat /\ onDisk' \subseteq AnyCard
      /\ UNCHANGED <<lovelace, writing, guard, extensionTask, edits>>
  BY CardsAssumption DEF HostStarts, CardsTypeOK, AnyCard
<1>3. cards \in SUBSET AllCards
  BY <1>1, <1>2 DEF AnyCard
<1>4. /\ waiting' \in Seq(AllCards) /\ (cards = {} => waiting' = <<>>)
      /\ cards # {} => waiting' # <<>>
      /\ \A c \in cards : \E i \in DOMAIN waiting' : waiting'[i] = c
      /\ \A i, j \in DOMAIN waiting' : waiting'[i] = waiting'[j] => i = j
  <2>1. /\ waiting' \in Seq(cards) /\ (cards = {} => waiting' = <<>>)
        /\ cards # {} => waiting' # <<>>
        /\ \A c \in cards : \E i \in DOMAIN waiting' : waiting'[i] = c
        /\ \A i, j \in DOMAIN waiting' : waiting'[i] = waiting'[j] => i = j
    <3>1. /\ InTurn(cards) \in Seq(cards) /\ (cards = {} => InTurn(cards) = <<>>)
          /\ cards # {} => InTurn(cards) # <<>>
          /\ \A c \in cards : \E i \in DOMAIN InTurn(cards) : InTurn(cards)[i] = c
          /\ \A i, j \in DOMAIN InTurn(cards) : InTurn(cards)[i] = InTurn(cards)[j] => i = j
      BY <1>3, EachInTurn
    <3> QED
      BY <1>1, <3>1
  <2>2. waiting' \in Seq(AllCards)
    BY <1>3, <2>1
  <2> QED
    BY <2>1, <2>2
<1>5. served' = waiting'
  BY <1>1
<1>6. CardsTypeOK'
  <2>1. served' \in Seq(AnyCard)
    BY <1>4, <1>5 DEF AnyCard
  <2> QED
    BY <2>1, <1>1, <1>2, <1>4 DEF CardsTypeOK, lovelace
<1>7. SetupInv'
  BY <1>1, <1>2, <1>4 DEF SetupInv
<1>8. ResourcesInv'
  BY <1>2 DEF ResourcesInv, lovelace
<1>9. WritingInv'
  BY <1>2 DEF WritingInv, NotWriting
<1>10. TurnsInv'
  <2>1. Extension \notin AllCards
    BY CardsAssumption DEF AllCards
  <2>2. MainCard \in onDisk' => onDisk' \cap AllCards \subseteq cards
    BY <1>1, <2>1
  <2> QED
    BY <2>2, <1>4 DEF TurnsInv
<1>11. PathsInv'
  <2>1. Extension \notin AllCards
    BY CardsAssumption DEF AllCards
  <2>2. \A i \in DOMAIN served' : served'[i] \in AllCards
    BY <1>4, <1>5
  <2>3. extensionTask' => guard'
    BY <1>2 DEF PathsInv
  <2> QED
    BY <1>4, <1>5, <2>1, <2>2, <2>3 DEF PathsInv
<1> QED
  BY <1>6, <1>7, <1>8, <1>9, <1>10, <1>11

LEMMA StopStep == CardsInd /\ HostStops => CardsInd'
<1> SUFFICES ASSUME CardsInd, HostStops PROVE CardsInd'
  OBVIOUS
<1> USE DEF CardsInd, HostStops
<1>1. CardsTypeOK'
  BY EmptySeq DEF CardsTypeOK, lovelace
<1>2. SetupInv' /\ TurnsInv' /\ PathsInv'
  BY DEF SetupInv, TurnsInv, PathsInv
<1>3. ResourcesInv'
  BY DEF ResourcesInv, lovelace
<1>4. WritingInv'
  BY DEF WritingInv, NotWriting
<1> QED
  BY <1>1, <1>2, <1>3, <1>4

\* What is kept serves its card, and what is written serves it.
LEMMA KeepStep == CardsInd /\ KeepsResource => CardsInd'
<1> SUFFICES ASSUME CardsInd, KeepsResource PROVE CardsInd'
  OBVIOUS
<1> USE DEF CardsInd
<1>1. PICK mine : mine = Head(waiting)
  OBVIOUS
<1>2. PICK i \in Existing(mine) : resources[i].version = version /\ resources[i].module
  BY <1>1 DEF KeepsResource
<1>3. /\ setup = "cards" /\ NextCard
      /\ UNCHANGED <<version, onDisk, served, guard, extensionTask, edits, touched>>
      /\ resources' = resources /\ nextResource' = nextResource /\ extra' = extra
  BY DEF KeepsResource, Registering, lovelace
<1>4. resources' \in Seq(Resource) /\ nextResource' \in Nat \ {0}
  BY <1>3 DEF CardsTypeOK
<1>5. ResourcesInv'
  BY <1>3 DEF ResourcesInv
<1>6. Serves(mine)'
  BY <1>2, <1>3 DEF Serves, Existing
<1>7. \A card \in AllCards \ {mine} : Serves(card) => Serves(card)'
  BY <1>3 DEF Serves
<1> QED
  BY <1>1, <1>3, <1>4, <1>5, <1>6, <1>7, TurnKeepsInv

LEMMA WriteStep == CardsInd /\ WritesResource => CardsInd'
<1> SUFFICES ASSUME CardsInd, WritesResource PROVE CardsInd'
  OBVIOUS
<1> USE DEF CardsInd
<1>1. PICK mine : mine = Head(waiting)
  OBVIOUS
<1>2. /\ setup = "cards" /\ waiting' = waiting /\ setup' = setup /\ version' = version
      /\ UNCHANGED <<onDisk, served, guard, extensionTask, edits, touched, extra>>
      /\ resources' = resources /\ nextResource' = nextResource
  BY DEF WritesResource, Registering, lovelace
<1>3. mine \in AllCards /\ version \in Nat /\ nextResource \in Nat \ {0}
  BY <1>1, <1>2, HeadTailProperties DEF CardsTypeOK, SetupInv
<1>4. \A i \in DOMAIN resources : resources[i] \in Resource
  BY DEF CardsTypeOK
<1>5. \/ /\ Existing(mine) = {}
         /\ writing' = [id |-> 0, card |-> mine, version |-> version, module |-> TRUE]
      \/ \E i \in Existing(mine) :
           writing' = [resources[i] EXCEPT !.version = version, !.module = TRUE]
  BY <1>1 DEF WritesResource
<1>6. WritingInv'
  <2>1. CASE /\ Existing(mine) = {}
             /\ writing' = [id |-> 0, card |-> mine, version |-> version, module |-> TRUE]
    <3>1. /\ writing' \in [id : Nat, card : AllCards, version : Nat, module : BOOLEAN]
          /\ writing'.id = 0 /\ writing'.card = mine /\ writing'.version = version /\ writing'.module
      BY <2>1, <1>3
    <3>2. \A i \in DOMAIN resources : resources[i].id # 0 /\ resources[i].card # mine
      BY <2>1, <1>4 DEF Existing, Resource
    <3> QED
      BY <3>1, <3>2, <1>1, <1>2, <1>3 DEF WritingInv
  <2>2. CASE \E i \in Existing(mine) :
               writing' = [resources[i] EXCEPT !.version = version, !.module = TRUE]
    <3>1. PICK i \in DOMAIN resources :
                 /\ resources[i].card = mine
                 /\ writing' = [resources[i] EXCEPT !.version = version, !.module = TRUE]
      BY <2>2 DEF Existing
    <3>2. /\ writing' \in [id : Nat, card : AllCards, version : Nat, module : BOOLEAN]
          /\ writing'.id = resources[i].id /\ writing'.card = mine
          /\ writing'.version = version /\ writing'.module /\ writing'.id # 0
      BY <3>1, <1>3, <1>4 DEF Resource
    <3>3. writing'.id < nextResource
      BY <3>2 DEF ResourcesInv
    <3>4. \A j \in DOMAIN resources : resources[j].id = writing'.id => resources[j].card = mine
      BY <3>1, <3>2 DEF ResourcesInv
    <3> QED
      BY <3>2, <3>3, <3>4, <1>1, <1>2 DEF WritingInv
  <2> QED
    BY <1>5, <2>1, <2>2
<1> QED
  BY <1>2, <1>6, OthersMove DEF lovelace

LEMMA WrittenStep == CardsInd /\ ResourceWritten => CardsInd'
<1> SUFFICES ASSUME CardsInd, ResourceWritten PROVE CardsInd'
  OBVIOUS
<1> USE DEF CardsInd
<1>1. PICK mine : mine = Head(waiting)
  OBVIOUS
<1>2. /\ setup = "cards" /\ NextCard /\ version' = version /\ extra' = extra /\ edits' = edits
      /\ UNCHANGED <<version, onDisk, served, guard, extensionTask, edits, touched>>
  BY DEF ResourceWritten
<1>3. /\ writing \in [id : Nat, card : AllCards, version : Nat, module : BOOLEAN]
      /\ writing.card = mine /\ writing.version = version /\ writing.module
      /\ writing.id < nextResource
      /\ \A i \in DOMAIN resources : resources[i].id = writing.id => resources[i].card = mine
      /\ writing.id = 0 /\ edits = 0 => \A i \in DOMAIN resources : resources[i].card # mine
  BY <1>1 DEF WritingInv, ResourceWritten
<1>4. resources \in Seq(Resource) /\ nextResource \in Nat \ {0} /\ version \in Nat
  BY DEF CardsTypeOK
<1>5. CASE /\ IsNew
           /\ resources' = Append(resources, [writing EXCEPT !.id = nextResource])
           /\ nextResource' = nextResource + 1
  <2>1. PICK r : r = [writing EXCEPT !.id = nextResource]
    OBVIOUS
  <2>2. r \in Resource /\ r.id = nextResource /\ r.card = mine /\ r.version = version /\ r.module
    BY <2>1, <1>3, <1>4 DEF Resource
  <2>3. resources' = Append(resources, r)
    BY <2>1, <1>5
  <2>4. edits' = 0 => edits = 0 /\ \A i \in DOMAIN resources : resources[i].card # r.card
    BY <2>2, <1>2, <1>3, <1>5 DEF IsNew
  <2>5. /\ resources' \in Seq(Resource) /\ nextResource' \in Nat \ {0}
        /\ DOMAIN resources' = DOMAIN resources \cup {Len(resources) + 1}
        /\ resources'[Len(resources) + 1] = r
        /\ ResourcesInv'
        /\ \A card : Serves(card) => Serves(card)'
    BY <2>2, <2>3, <2>4, <1>2, <1>5, AddedResource
  <2>6. Serves(mine)'
    BY <2>2, <2>5, <1>2 DEF Serves
  <2> QED
    BY <2>5, <2>6, <1>1, <1>2, TurnKeepsInv
<1>6. CASE /\ ~IsNew /\ \E i \in DOMAIN resources : resources[i].id = writing.id
           /\ resources' =
                [i \in DOMAIN resources |-> IF resources[i].id = writing.id THEN writing
                                                                           ELSE resources[i]]
           /\ nextResource' = nextResource
  <2>1. writing \in Resource
    BY <1>3, <1>6 DEF Resource, IsNew
  <2>2. resources' \in Seq(Resource) /\ DOMAIN resources' = DOMAIN resources
    BY <2>1, <1>4, <1>6
  <2>3. \A i \in DOMAIN resources :
          /\ resources'[i].id = resources[i].id /\ resources'[i].card = resources[i].card
          /\ resources[i].id = writing.id => resources'[i] = writing
          /\ resources[i].id # writing.id => resources'[i] = resources[i]
    BY <1>3, <1>6
  <2>4. ResourcesInv'
    BY <2>2, <2>3, <1>2, <1>6 DEF ResourcesInv
  <2>5. Serves(mine)'
    BY <2>2, <2>3, <1>2, <1>3, <1>6 DEF Serves
  <2>6. \A card \in AllCards \ {mine} : Serves(card) => Serves(card)'
    BY <2>2, <2>3, <1>2, <1>3 DEF Serves
  <2> QED
    BY <2>2, <2>4, <2>5, <2>6, <1>1, <1>2, <1>4, <1>6, TurnKeepsInv
<1> QED
  BY <1>5, <1>6 DEF ResourceWritten

LEMMA FallStep == CardsInd /\ FallsBack => CardsInd'
<1> SUFFICES ASSUME CardsInd, FallsBack PROVE CardsInd'
  OBVIOUS
<1> USE DEF CardsInd
<1>1. PICK mine : mine = Head(waiting)
  OBVIOUS
<1>2. /\ setup = "cards" /\ NextCard
      /\ UNCHANGED <<version, onDisk, served, guard, extensionTask, edits, touched>>
      /\ resources' = resources /\ nextResource' = nextResource
      /\ extra' = extra \cup {<<mine, version>>}
  BY <1>1 DEF FallsBack, lovelace
<1>3. resources' \in Seq(Resource) /\ nextResource' \in Nat \ {0}
  BY <1>2 DEF CardsTypeOK
<1>4. ResourcesInv'
  BY <1>2 DEF ResourcesInv
<1>5. Serves(mine)'
  BY <1>2 DEF Serves
<1>6. \A card \in AllCards \ {mine} : Serves(card) => Serves(card)'
  BY <1>2 DEF Serves
<1> QED
  BY <1>1, <1>2, <1>3, <1>4, <1>5, <1>6, TurnKeepsInv

LEMMA ScheduleStep == CardsInd /\ ScheduleExtension => CardsInd'
<1> SUFFICES ASSUME CardsInd, ScheduleExtension PROVE CardsInd'
  OBVIOUS
<1> USE DEF CardsInd, ScheduleExtension
<1>1. CardsTypeOK' /\ SetupInv' /\ ResourcesInv'
  BY DEF CardsTypeOK, SetupInv, ResourcesInv, lovelace
<1>2. writing' = NotWriting
  BY DEF WritingInv, NotWriting
<1>3. WritingInv' /\ PathsInv'
  BY <1>2 DEF WritingInv, NotWriting, PathsInv
<1>4. TurnsInv'
  BY DEF TurnsInv, Serves, lovelace
<1> QED
  BY <1>1, <1>3, <1>4

LEMMA ServeStep == CardsInd /\ ServeExtension => CardsInd'
<1> SUFFICES ASSUME CardsInd, ServeExtension PROVE CardsInd'
  OBVIOUS
<1> USE DEF CardsInd
<1>1. /\ UNCHANGED <<version, onDisk, resources, nextResource, setup, waiting, writing, guard,
                     edits, touched>>
      /\ extensionTask /\ extensionTask' = FALSE /\ extra \subseteq extra'
      /\ served' = served \/ served' = Append(served, Extension)
  BY DEF ServeExtension, lovelace
<1>2. served \in Seq(AnyCard) /\ Extension \in AnyCard
  BY DEF CardsTypeOK, AnyCard
<1>3. Append(served, Extension) \in Seq(AnyCard)
  BY <1>2, AppendProperties
<1>4. CardsTypeOK'
  BY <1>1, <1>2, <1>3 DEF CardsTypeOK
<1>5. SetupInv' /\ ResourcesInv'
  BY <1>1 DEF SetupInv, ResourcesInv
<1>6. WritingInv'
  BY <1>1 DEF WritingInv, NotWriting
<1>7. TurnsInv'
  BY <1>1 DEF TurnsInv, Serves
<1>8. PathsInv'
  <2>1. guard /\ \A i \in DOMAIN served : served[i] # Extension
    BY <1>1 DEF PathsInv
  <2>2. CASE served' = served
    BY <2>1, <2>2, <1>1 DEF PathsInv
  <2>3. CASE served' = Append(served, Extension)
    <3>1. /\ Len(served) \in Nat /\ DOMAIN served = 1..Len(served)
          /\ Len(served') = Len(served) + 1 /\ DOMAIN served' = 1..(Len(served) + 1)
          /\ \A i \in DOMAIN served : served'[i] = served[i]
          /\ served'[Len(served) + 1] = Extension
      BY <2>3, <1>2, AppendProperties
    <3>2. 1..(Len(served) + 1) = 1..Len(served) \cup {Len(served) + 1}
      BY <3>1
    <3>3. \A i, j \in DOMAIN served' : served'[i] = served'[j] => i = j
      BY <2>1, <3>1, <3>2 DEF PathsInv
    <3> QED
      BY <2>1, <3>3, <1>1 DEF PathsInv
  <2> QED
    BY <1>1, <2>2, <2>3
<1> QED
  BY <1>4, <1>5, <1>6, <1>7, <1>8

\* What users add gets an id of its own; what they delete they have touched.
LEMMA UserStep == CardsInd /\ (UserAdds \/ UserDeletes) => CardsInd'
<1> SUFFICES ASSUME CardsInd, UserAdds \/ UserDeletes PROVE CardsInd'
  OBVIOUS
<1> USE DEF CardsInd
<1>1. resources \in Seq(Resource) /\ nextResource \in Nat \ {0} /\ edits \in Nat
  BY DEF CardsTypeOK
<1>2. ASSUME NEW mine, Edited(mine), resources' \in Seq(Resource), nextResource' \in Nat \ {0},
             ResourcesInv', nextResource <= nextResource',
             \A i \in DOMAIN resources' :
               \/ \E j \in DOMAIN resources : resources'[i] = resources[j]
               \/ resources'[i].id = nextResource,
             \A card : card # mine /\ Serves(card) => Serves(card)'
      PROVE  CardsInd'
  <2>1. /\ UNCHANGED <<version, onDisk, setup, waiting, writing, served, guard, extensionTask>>
        /\ edits' = edits + 1 /\ touched' = touched \cup {mine}
    BY <1>2 DEF Edited
  <2>2. CardsTypeOK' /\ SetupInv' /\ PathsInv'
    BY <1>1, <1>2, <2>1 DEF CardsTypeOK, SetupInv, PathsInv
  <2>3. TurnsInv'
    <3> SUFFICES ASSUME setup' # "stopped", MainCard \in onDisk',
                        NEW card \in ((onDisk \cap AllCards) \ touched)'
                 PROVE  Serves(card)' \/ \E k \in DOMAIN waiting' : waiting'[k] = card
      BY DEF TurnsInv
    <3>1. card \in (onDisk \cap AllCards) \ touched /\ card # mine
      BY <2>1
    <3>2. Serves(card) \/ \E k \in DOMAIN waiting : waiting[k] = card
      BY <2>1, <3>1 DEF TurnsInv
    <3> QED
      BY <1>2, <2>1, <3>1, <3>2
  <2>4. WritingInv'
    <3>1. CASE writing = NotWriting
      BY <2>1, <3>1 DEF WritingInv, NotWriting
    <3>2. CASE writing # NotWriting
      <4>1. /\ writing \in [id : Nat, card : AllCards, version : Nat, module : BOOLEAN]
            /\ setup = "cards" /\ writing.card = Head(waiting)
            /\ writing.version = version /\ writing.module /\ writing.id < nextResource
            /\ \A i \in DOMAIN resources :
                 resources[i].id = writing.id => resources[i].card = writing.card
        BY <3>2 DEF WritingInv
      <4>2. writing.id \in Nat /\ writing.id # nextResource /\ writing.id < nextResource'
        BY <4>1, <1>1, <1>2
      <4>3. \A i \in DOMAIN resources' :
              resources'[i].id = writing.id => resources'[i].card = writing.card
        BY <4>1, <4>2, <1>2
      <4>4. edits' # 0
        BY <1>1, <2>1
      <4> QED
        BY <2>1, <4>1, <4>2, <4>3, <4>4 DEF WritingInv
    <3> QED
      BY <3>1, <3>2
  <2> QED
    BY <1>2, <2>2, <2>3, <2>4
<1>3. CASE UserAdds
  <2>1. PICK card \in AllCards, v \in 1..MaxVersion, module \in BOOLEAN :
          /\ Edited(card)
          /\ resources' = Append(resources, [id |-> nextResource, card |-> card, version |-> v,
                                             module |-> module])
          /\ nextResource' = nextResource + 1
    BY <1>3 DEF UserAdds
  <2>2. PICK r : r = [id |-> nextResource, card |-> card, version |-> v, module |-> module]
    OBVIOUS
  <2>3. r \in Resource /\ r.id = nextResource
    BY <1>1, <2>2, CardsAssumption DEF Resource
  <2>4. resources' = Append(resources, r)
    BY <2>1, <2>2
  <2>5. version' = version /\ extra' = extra /\ edits' # 0
    BY <2>1, <1>1 DEF Edited
  <2>6. /\ resources' \in Seq(Resource) /\ nextResource' \in Nat \ {0}
        /\ DOMAIN resources' = DOMAIN resources \cup {Len(resources) + 1}
        /\ resources'[Len(resources) + 1] = r
        /\ \A i \in DOMAIN resources : resources'[i] = resources[i]
        /\ ResourcesInv'
        /\ \A c : Serves(c) => Serves(c)'
    BY <2>1, <2>3, <2>4, <2>5, AddedResource
  <2>7. nextResource <= nextResource'
    BY <2>1, <1>1
  <2>8. \A i \in DOMAIN resources' :
          \/ \E j \in DOMAIN resources : resources'[i] = resources[j]
          \/ resources'[i].id = nextResource
    BY <2>3, <2>6
  <2> QED
    BY <1>2, <2>1, <2>6, <2>7, <2>8
<1>4. CASE UserDeletes
  <2>1. PICK k \in DOMAIN resources :
          /\ Edited(resources[k].card) /\ nextResource' = nextResource
          /\ resources' = RemoveAt(resources, k)
    BY <1>4 DEF UserDeletes, RemoveAt
  <2>2. version' = version /\ extra' = extra /\ edits' = edits + 1
    BY <2>1 DEF Edited
  <2>3. /\ resources' \in Seq(Resource) /\ ResourcesInv'
        /\ \A i \in DOMAIN resources' : \E j \in DOMAIN resources : resources'[i] = resources[j]
        /\ \A card : card # resources[k].card /\ Serves(card) => Serves(card)'
    BY <2>1, <2>2, RemovedResource
  <2>4. nextResource' \in Nat \ {0} /\ nextResource <= nextResource'
    BY <2>1, <1>1
  <2> QED
    BY <1>2, <2>1, <2>3, <2>4
<1> QED
  BY <1>3, <1>4

\* Every card on disk is in the dashboards when the start is over, in the version that runs,
\* none has a second resource, and no path is served twice (CardsAreServed).
THEOREM CardsServed == CardsSpec => []CardsAreServed
<1>1. CardsInit => CardsInd
  <2> SUFFICES ASSUME CardsInit PROVE CardsInd
    OBVIOUS
  <2> USE DEF CardsInit
  <2>1. CardsTypeOK
    <3>1. resources \in Seq(Resource) /\ waiting \in Seq(AllCards) /\ served \in Seq(AnyCard)
      BY EmptySeq
    <3>2. 1 \in Nat \ {0} /\ 1 \in Nat /\ 0 \in Nat
      OBVIOUS
    <3> QED
      BY <3>1, <3>2 DEF CardsTypeOK
  <2> QED
    BY <2>1 DEF CardsInd, SetupInv, ResourcesInv, WritingInv, NotWriting, TurnsInv, PathsInv
<1>2. CardsInd /\ [CardsNext]_cardVars => CardsInd'
  <2> SUFFICES ASSUME CardsInd, [CardsNext]_cardVars PROVE CardsInd'
    OBVIOUS
  <2>1. CASE UNCHANGED cardVars
    <3>1. WritingInv'
      BY <2>1 DEF CardsInd, WritingInv, NotWriting, cardVars, lovelace
    <3> QED
      BY <2>1, <3>1, OthersMove DEF cardVars
  <2> QED
    BY <2>1, StartStep, StopStep, KeepStep, WriteStep, WrittenStep, FallStep, ScheduleStep,
       ServeStep, UserStep DEF CardsNext
<1>3. CardsInd => CardsAreServed
  <2> SUFFICES ASSUME CardsInd PROVE CardsAreServed
    OBVIOUS
  <2>1. setup = "running" /\ MainCard \in onDisk =>
          \A card \in (onDisk \cap AllCards) \ touched : Serves(card)
    BY DEF CardsInd, SetupInv, TurnsInv
  <2>2. ASSUME edits = 0, NEW card \in AllCards
        PROVE  Cardinality({i \in DOMAIN resources : resources[i].card = card}) <= 1
    <3> DEFINE places == {i \in DOMAIN resources : resources[i].card = card}
    <3>1. places = {} \/ \E i : places = {i}
      BY <2>2 DEF CardsInd, ResourcesInv
    <3>2. Cardinality(places) = 0 \/ Cardinality(places) = 1
      <4> HIDE DEF places
      <4> QED
        BY <3>1, FS_EmptySet, FS_Singleton
    <3> QED
      BY <3>2
  <2>3. \A i, j \in DOMAIN served : served[i] = served[j] => i = j
    BY DEF CardsInd, PathsInv
  <2> QED
    BY <2>1, <2>2, <2>3 DEF CardsAreServed
<1> QED
  BY <1>1, <1>2, <1>3, PTL DEF CardsSpec

-----------------------------------------------------------------------------
(* All of it.                                                              *)

\* The parts share no variables: what they do together, each does as if it were alone.
LEMMA PartsByThemselves ==
  DevicesSpec => /\ Spec /\ AccountSpec /\ TokenSpec /\ EntitiesSpec
                 /\ SensorSpec /\ CardsSpec /\ ProbeSpec
<1>1. DevicesInit => /\ Init /\ AccountInit /\ TokenInit /\ EntitiesInit
                     /\ SensorInit /\ CardsInit /\ ProbeInit
  BY DEF DevicesInit
<1>2. [DevicesNext]_devicesVars =>
        /\ [Next]_vars /\ [AccountNext]_accountVars /\ [TokenNext]_tokenVars
        /\ [EntitiesNext]_entityVars /\ [SensorNext]_sensorVars /\ [CardsNext]_cardVars
        /\ [ProbeNext]_probeVars
  BY DEF DevicesNext, devicesVars
<1> QED
  BY <1>1, <1>2, PTL DEF DevicesSpec, Spec, AccountSpec, TokenSpec, EntitiesSpec, SensorSpec,
                         CardsSpec, ProbeSpec

\* Each part keeps its invariant: the entry its registration, the service calls what they
\* have answered, the cameras their tokens, the platforms their one runtime, the sensor its
\* timer, and the cards are served (DevicesInv).
THEOREM DevicesInvariant == ~StoreFails => (DevicesSpec => []DevicesInv)
<1> SUFFICES ASSUME ~StoreFails PROVE DevicesSpec => []DevicesInv
  OBVIOUS
<1> DEFINE SideOK ==
             side \in {"entry", "calls", "tokens", "entities", "sensor", "cards", "probes"}
<1>1. DevicesSpec => []SideOK
  <2>1. DevicesInit => SideOK
    BY DEF DevicesInit
  <2>2. SideOK /\ [DevicesNext]_devicesVars => SideOK'
    BY DEF DevicesNext, devicesVars
  <2> HIDE DEF SideOK
  <2> QED
    BY <2>1, <2>2, PTL DEF DevicesSpec
<1>2. /\ RemovalInv /\ RemovalsAreConfirmed
      /\ AccountTypeOK /\ AnsweredInvitesSurvive /\ InvitesAreKept
      => AccountInv
  BY DEF RemovalInv, Sound, AccountInv
<1>3. /\ SideOK /\ IInv /\ AccountInv /\ TokenInv /\ EntitiesTypeOK /\ OneRuntime /\ SensorInv
      /\ CardsAreServed
      => DevicesInv
  BY DEF DevicesInv
<1> HIDE DEF SideOK
<1> QED
  BY <1>1, <1>2, <1>3, PartsByThemselves, RegistrationInvariant, RemovalInvariant,
     RemovalIsConfirmed, InvitesSurvive, TokenInvariant, PlatformsShareOne, SensorRings, CardsServed, PTL
=============================================================================
