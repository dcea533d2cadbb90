-------------------------- MODULE UfanetAuthProofs --------------------------
(***************************************************************************)
(* Proofs about UfanetAuth, for every set of calls.                        *)
(*                                                                         *)
(* A step of a call goes through several operators before it comes to      *)
(* rest: what they have in common is Landed, and that is all the invariant *)
(* needs to know of them.                                                  *)
(***************************************************************************)
EXTENDS UfanetAuth, TLAPS

\* The token a call would send.
Token(c) == IF c \in UcamsCalls THEN ucams ELSE access

Waiting == {"auth wait", "refreshing", "logging in", "ucams wait", "ucams login", "sending"}
Exchanging == {"refreshing", "logging in"}

\* Call c, in phase ph, has gone on to the next thing it waits for.
Landed(c, ph) ==
  \E where \in Waiting, q \in {"first", "recover", "retry"} :
    /\ pc' = [pc EXCEPT ![c] = where]
    /\ phase' = [phase EXCEPT ![c] = q]
    /\ sent' = IF where = "sending" THEN [sent EXCEPT ![c] = Token(c)'] ELSE sent
    /\ outcome' = outcome
    /\ q = "first" <=> ph = "first"
    /\ c \notin UcamsCalls => q = ph /\ where \notin {"ucams wait", "ucams login"}
    /\ where = "sending" => Token(c)' # 0
    /\ where \in Exchanging => ~Valid' /\ authLock \in {c, nobody}
    /\ where = "ucams login" => ucamsLock \in {c, nobody}
    /\ authLock' = IF where \in Exchanging THEN c
                   ELSE IF authLock = c THEN nobody ELSE authLock
    /\ ucamsLock' = IF where = "ucams login" THEN c
                    ELSE IF ucamsLock = c THEN nobody ELSE ucamsLock

\* What a step of call c may do to the tokens.
TokensMove(c) ==
  /\ aged' \in BOOLEAN /\ hasRefresh' \in BOOLEAN /\ ucamsAged' \in BOOLEAN
  /\ issued' \in Nat /\ issued <= issued'
  /\ ucamsIssued' \in Nat /\ ucamsIssued <= ucamsIssued'
  /\ access' \in Nat /\ access' <= issued'
  /\ access' \in {0, access} \/ access' > issued
  /\ ucams' \in Nat /\ ucams' <= ucamsIssued'
  /\ ucams' \in {0, ucams} \/ ucams' > ucamsIssued
  /\ Valid' => Valid \/ authLock = c
  /\ agings' = agings

-----------------------------------------------------------------------------
(* The operators that move a call land it.                                  *)

LEMMA ProceedLands ==
  ASSUME NEW c \in Calls, NEW ph \in {"first", "recover", "retry"}, NEW al, NEW ul,
         c \notin UcamsCalls => ph # "recover",
         Valid', Proceed(c, ph, al, ul),
         al = IF authLock = c THEN nobody ELSE authLock,
         ul = IF ucamsLock = c THEN nobody ELSE ucamsLock
  PROVE  Landed(c, ph)
PROOF
<1> USE CallsAssumption
<1>1. CASE c \notin UcamsCalls
  BY <1>1 DEF Proceed, Go, Landed, Token, Valid, Waiting, Exchanging
<1>2. CASE c \in UcamsCalls /\ UcamsValid'
  BY <1>2 DEF Proceed, Go, Landed, Token, UcamsValid, Waiting, Exchanging
<1>3. CASE c \in UcamsCalls /\ ~UcamsValid'
  BY <1>3 DEF Proceed, Go, Landed, UcamsFree, Waiting, Exchanging
<1> QED
  BY <1>1, <1>2, <1>3

LEMMA RenewLands ==
  ASSUME NEW c \in Calls, NEW ph \in {"first", "recover", "retry"}, NEW ul,
         c \notin UcamsCalls => ph # "recover",
         ~Valid', authLock # c, Renew(c, ph, ul),
         ul = IF ucamsLock = c THEN nobody ELSE ucamsLock
  PROVE  Landed(c, ph)
  BY CallsAssumption DEF Renew, Exchange, Go, AuthFree, Landed, Waiting, Exchanging

LEMMA EnsureLands ==
  ASSUME NEW c \in Calls, NEW ph \in {"first", "recover", "retry"}, NEW ul,
         c \notin UcamsCalls => ph # "recover",
         authLock # c, Ensure(c, ph, ul),
         ul = IF ucamsLock = c THEN nobody ELSE ucamsLock
  PROVE  Landed(c, ph)
PROOF
<1>1. CASE Valid' /\ Proceed(c, ph, authLock, ul)
  BY <1>1, ProceedLands
<1>2. CASE ~Valid' /\ Renew(c, ph, ul)
  BY <1>2, RenewLands
<1> QED
  BY <1>1, <1>2 DEF Ensure

LEMMA UcamsEnsuredLands ==
  ASSUME NEW c \in UcamsCalls, phase[c] \in {"first", "recover", "retry"},
         UcamsValid', authLock # c, UcamsEnsured(c, nobody),
         ucamsLock \in {c, nobody}
  PROVE  Landed(c, IF phase[c] = "recover" THEN "retry" ELSE phase[c])
PROOF
<1> USE CallsAssumption
<1>1. CASE phase[c] = "recover"
  BY <1>1, EnsureLands DEF UcamsEnsured
<1>2. CASE phase[c] # "recover"
  BY <1>2 DEF UcamsEnsured, Go, Landed, Token, UcamsValid, Waiting, Exchanging
<1> QED
  BY <1>1, <1>2

-----------------------------------------------------------------------------
(* The invariant.                                                           *)

LEMMA InitHolds == Init => IInv
PROOF
<1> USE CallsAssumption, BoundAssumption DEF Init
<1>1. Init => /\ hasRefresh \in BOOLEAN /\ aged \in BOOLEAN /\ ucamsAged \in BOOLEAN
              /\ loginRefused \in [Calls -> BOOLEAN]
  BY Zenon
<1>1a. Init => TypeOK
  BY <1>1 DEF TypeOK
<1>2. Init => LocksAreHeld /\ CallsKeepToTheirPath /\ NothingIsDoneEarly
  BY DEF LocksAreHeld, CallsKeepToTheirPath, NothingIsDoneEarly
<1>3. Init => TokensAreNumbered /\ RefusedIsGone
  BY DEF TokensAreNumbered, RefusedIsGone
<1>4. Init => NeverExecutedTwice /\ NoNeedlessExchange
  BY DEF NeverExecutedTwice, NoNeedlessExchange
<1>5. Init => RetryUsesAnotherToken /\ RenewedBeforeGivingUp
  BY DEF RetryUsesAnotherToken, RenewedBeforeGivingUp
<1> QED
  BY <1>1a, <1>2, <1>3, <1>4, <1>5 DEF IInv

\* A call that has landed, with a history that notes at most its own refusal,
\* and tokens that only move forward.
LEMMA LandingKeeps ==
  ASSUME IInv, NEW c \in Calls, NEW ph \in {"first", "recover", "retry"},
         c \notin UcamsCalls => ph # "recover",
         pc[c] # "done", Landed(c, ph), TokensMove(c),
         UNCHANGED <<executed, loginRefused>>,
         refusals' \in [Calls -> Nat], refused' \in [Calls -> Nat],
         \A d \in Calls \ {c} : refusals'[d] = refusals[d] /\ refused'[d] = refused[d],
         refusals'[c] >= refusals[c],
         IF c \in UcamsCalls THEN refused'[c] <= ucamsIssued ELSE refused'[c] <= issued,
         ph # "first" => refusals'[c] > 0 /\ refused'[c] # 0 /\ refused'[c] # Token(c)'
  PROVE  IInv'
PROOF
<1> USE CallsAssumption, BoundAssumption
<1>0. PICK where \in Waiting, q \in {"first", "recover", "retry"} :
        /\ pc' = [pc EXCEPT ![c] = where]
        /\ phase' = [phase EXCEPT ![c] = q]
        /\ sent' = IF where = "sending" THEN [sent EXCEPT ![c] = Token(c)'] ELSE sent
        /\ outcome' = outcome
        /\ q = "first" <=> ph = "first"
        /\ c \notin UcamsCalls => q = ph /\ where \notin {"ucams wait", "ucams login"}
        /\ where = "sending" => Token(c)' # 0
        /\ where \in Exchanging => ~Valid' /\ authLock \in {c, nobody}
        /\ where = "ucams login" => ucamsLock \in {c, nobody}
        /\ authLock' = IF where \in Exchanging THEN c
                       ELSE IF authLock = c THEN nobody ELSE authLock
        /\ ucamsLock' = IF where = "ucams login" THEN c
                        ELSE IF ucamsLock = c THEN nobody ELSE ucamsLock
  BY DEF Landed
<1>1. TypeOK'
  BY <1>0 DEF IInv, TypeOK, TokensMove, Waiting, Token
<1>2. LocksAreHeld'
  BY <1>0 DEF IInv, TypeOK, LocksAreHeld, Waiting, Exchanging
<1>3. CallsKeepToTheirPath'
  <2>1. \A d \in Calls : d # c =>
          pc'[d] = pc[d] /\ phase'[d] = phase[d] /\ sent'[d] = sent[d]
    BY <1>0, Zenon DEF IInv, TypeOK
  <2>2. pc'[c] = where /\ phase'[c] = q
    BY <1>0 DEF IInv, TypeOK
  <2>3. where = "sending" => sent'[c] # 0
    BY <1>0 DEF IInv, TypeOK
  <2>4. c \notin UcamsCalls => q # "recover"
    BY <1>0
  <2> QED
    BY <2>1, <2>2, <2>3, <2>4, <1>0 DEF IInv, CallsKeepToTheirPath
<1>4. NothingIsDoneEarly'
  BY <1>0 DEF IInv, TypeOK, NothingIsDoneEarly, Waiting
<1>5. TokensAreNumbered'
  <2>1. access' <= issued' /\ ucams' <= ucamsIssued'
    BY DEF TokensMove
  <2> SUFFICES ASSUME NEW d \in Calls
               PROVE  IF d \in UcamsCalls
                      THEN sent'[d] <= ucamsIssued' /\ refused'[d] <= ucamsIssued'
                      ELSE sent'[d] <= issued' /\ refused'[d] <= issued'
    BY <2>1 DEF TokensAreNumbered
  <2>2. /\ issued \in Nat /\ issued' \in Nat /\ issued <= issued'
        /\ ucamsIssued \in Nat /\ ucamsIssued' \in Nat /\ ucamsIssued <= ucamsIssued'
        /\ sent[d] \in Nat /\ refused[d] \in Nat /\ refused'[d] \in Nat
        /\ access' \in Nat /\ ucams' \in Nat
    BY DEF IInv, TypeOK, TokensMove
  <2>3. sent'[d] = sent[d] \/ sent'[d] = Token(d)'
    BY <1>0 DEF IInv, TypeOK
  <2>4. IF d \in UcamsCalls THEN refused'[d] <= ucamsIssued ELSE refused'[d] <= issued
    BY DEF IInv, TokensAreNumbered
  <2>5. IF d \in UcamsCalls THEN sent[d] <= ucamsIssued ELSE sent[d] <= issued
    BY DEF IInv, TokensAreNumbered
  <2>6. CASE d \in UcamsCalls
    BY <2>1, <2>2, <2>3, <2>4, <2>5, <2>6 DEF Token
  <2>7. CASE d \notin UcamsCalls
    BY <2>1, <2>2, <2>3, <2>4, <2>5, <2>7 DEF Token
  <2> QED
    BY <2>6, <2>7
<1>6. RefusedIsGone'
  <2> SUFFICES ASSUME NEW d \in Calls, phase'[d] # "first", pc'[d] # "done"
               PROVE  /\ refusals'[d] > 0 /\ refused'[d] # 0
                      /\ refused'[d] # (IF d \in UcamsCalls THEN ucams' ELSE access')
    BY DEF RefusedIsGone
  <2>1. CASE d = c
    BY <2>1, <1>0 DEF IInv, TypeOK, Token
  <2>2. CASE d # c
    <3>1. /\ phase[d] # "first" /\ pc[d] # "done"
          /\ refusals'[d] = refusals[d] /\ refused'[d] = refused[d]
      BY <2>2, <1>0 DEF IInv, TypeOK
    <3>2. /\ refusals[d] > 0 /\ refused[d] # 0
          /\ refused[d] # (IF d \in UcamsCalls THEN ucams ELSE access)
      BY <3>1 DEF IInv, RefusedIsGone
    <3>3. IF d \in UcamsCalls THEN refused[d] <= ucamsIssued ELSE refused[d] <= issued
      BY DEF IInv, TokensAreNumbered
    <3>4. /\ issued \in Nat /\ ucamsIssued \in Nat /\ refused[d] \in Nat
          /\ access' \in Nat /\ ucams' \in Nat
          /\ access' \in {0, access} \/ access' > issued
          /\ ucams' \in {0, ucams} \/ ucams' > ucamsIssued
      BY DEF IInv, TypeOK, TokensMove
    <3>5. CASE d \in UcamsCalls
      BY <3>1, <3>2, <3>3, <3>4, <3>5
    <3>6. CASE d \notin UcamsCalls
      BY <3>1, <3>2, <3>3, <3>4, <3>6
    <3> QED
      BY <3>5, <3>6
  <2> QED
    BY <2>1, <2>2
<1>7. NeverExecutedTwice'
  BY <1>0 DEF IInv, NeverExecutedTwice
<1>8. NoNeedlessExchange'
  BY <1>0 DEF IInv, TypeOK, NoNeedlessExchange, LocksAreHeld, TokensMove, Exchanging, Waiting
<1>9. RetryUsesAnotherToken'
  BY <1>0 DEF IInv, TypeOK, RetryUsesAnotherToken, Token, Waiting
<1>10. RenewedBeforeGivingUp'
  BY <1>0 DEF IInv, TypeOK, RenewedBeforeGivingUp, NothingIsDoneEarly
<1> QED
  BY <1>1, <1>2, <1>3, <1>4, <1>5, <1>6, <1>7, <1>8, <1>9, <1>10 DEF IInv

\* A call that has ended, and let go of its locks.
LEMMA EndingKeeps ==
  ASSUME IInv, NEW c \in Calls, NEW how \in {"ok", "failed", "unauthorised"},
         NEW al, NEW ul, End(c, how, al, ul),
         al = IF authLock = c THEN nobody ELSE authLock,
         ul = IF ucamsLock = c THEN nobody ELSE ucamsLock,
         UNCHANGED <<tokens, agings>>,
         executed' \in [Calls -> Nat], refusals' \in [Calls -> Nat],
         refused' \in [Calls -> Nat], loginRefused' \in [Calls -> BOOLEAN],
         \A d \in Calls \ {c} :
           /\ executed'[d] = executed[d] /\ refusals'[d] = refusals[d]
           /\ refused'[d] = refused[d] /\ loginRefused'[d] = loginRefused[d],
         executed'[c] <= 1,
         IF c \in UcamsCalls THEN refused'[c] <= ucamsIssued ELSE refused'[c] <= issued,
         how = "unauthorised" /\ c \notin UcamsCalls => loginRefused'[c] \/ refusals'[c] >= 2
  PROVE  IInv'
PROOF
<1> USE CallsAssumption, BoundAssumption
<1>0. /\ pc' = [pc EXCEPT ![c] = "done"]
      /\ outcome' = [outcome EXCEPT ![c] = how]
      /\ authLock' = IF authLock = c THEN nobody ELSE authLock
      /\ ucamsLock' = IF ucamsLock = c THEN nobody ELSE ucamsLock
      /\ UNCHANGED <<phase, sent>>
      /\ UNCHANGED <<access, aged, hasRefresh, ucams, ucamsAged, issued, ucamsIssued>>
      /\ agings' = agings
  BY DEF End, tokens
<1>1. TypeOK'
  BY <1>0 DEF IInv, TypeOK
<1>2. LocksAreHeld'
  BY <1>0 DEF IInv, TypeOK, LocksAreHeld
<1>3. CallsKeepToTheirPath'
  BY <1>0 DEF IInv, TypeOK, CallsKeepToTheirPath
<1>4. NothingIsDoneEarly'
  BY <1>0 DEF IInv, TypeOK, NothingIsDoneEarly
<1>5. TokensAreNumbered'
  BY <1>0 DEF IInv, TypeOK, TokensAreNumbered
<1>6. RefusedIsGone'
  BY <1>0 DEF IInv, TypeOK, RefusedIsGone
<1>7. NeverExecutedTwice'
  BY <1>0 DEF IInv, TypeOK, NeverExecutedTwice
<1>8. NoNeedlessExchange'
  BY <1>0 DEF IInv, TypeOK, NoNeedlessExchange, Valid
<1>9. RetryUsesAnotherToken'
  BY <1>0 DEF IInv, TypeOK, RetryUsesAnotherToken
<1>10. RenewedBeforeGivingUp'
  BY <1>0 DEF IInv, TypeOK, RenewedBeforeGivingUp
<1> QED
  BY <1>1, <1>2, <1>3, <1>4, <1>5, <1>6, <1>7, <1>8, <1>9, <1>10 DEF IInv

-----------------------------------------------------------------------------
(* The steps.                                                               *)

\* What the invariant says of call c before a step of its own.
LEMMA BeforeStep ==
  ASSUME IInv, NEW c \in Calls
  PROVE  /\ phase[c] \in {"first", "recover", "retry"}
         /\ c \notin UcamsCalls => phase[c] # "recover"
         /\ phase[c] # "first" /\ pc[c] # "done" =>
              refusals[c] > 0 /\ refused[c] # 0 /\ refused[c] # Token(c)
         /\ authLock = c <=> pc[c] \in Exchanging
         /\ ucamsLock = c <=> pc[c] = "ucams login"
         /\ IF c \in UcamsCalls THEN refused[c] <= ucamsIssued ELSE refused[c] <= issued
         /\ IF c \in UcamsCalls THEN sent[c] <= ucamsIssued ELSE sent[c] <= issued
         /\ pc[c] # "done" => executed[c] = 0
         /\ sent[c] \in Nat /\ refused[c] \in Nat /\ refusals[c] \in Nat
         /\ issued \in Nat /\ ucamsIssued \in Nat
PROOF
<1>1. phase[c] \in {"first", "recover", "retry"}
  BY DEF IInv, TypeOK
<1>2. c \notin UcamsCalls => phase[c] # "recover"
  BY DEF IInv, CallsKeepToTheirPath
<1>3. phase[c] # "first" /\ pc[c] # "done" =>
        refusals[c] > 0 /\ refused[c] # 0 /\ refused[c] # Token(c)
  BY DEF IInv, RefusedIsGone, Token
<1>4. /\ authLock = c <=> pc[c] \in Exchanging
      /\ ucamsLock = c <=> pc[c] = "ucams login"
  BY DEF IInv, LocksAreHeld, Exchanging
<1>5. /\ IF c \in UcamsCalls THEN refused[c] <= ucamsIssued ELSE refused[c] <= issued
      /\ IF c \in UcamsCalls THEN sent[c] <= ucamsIssued ELSE sent[c] <= issued
  BY DEF IInv, TokensAreNumbered
<1>6. pc[c] # "done" => executed[c] = 0
  BY DEF IInv, NothingIsDoneEarly
<1>7. /\ sent[c] \in Nat /\ refused[c] \in Nat /\ refusals[c] \in Nat
      /\ issued \in Nat /\ ucamsIssued \in Nat
  BY DEF IInv, TypeOK
<1> QED
  BY <1>1, <1>2, <1>3, <1>4, <1>5, <1>6, <1>7

\* Steps that leave the tokens and the history alone.
LEMMA SameTokensMove ==
  ASSUME IInv, NEW c \in Calls, UNCHANGED <<tokens, agings>>
  PROVE  TokensMove(c) /\ Token(c)' = Token(c) /\ (Valid' <=> Valid) /\ (UcamsValid' <=> UcamsValid)
PROOF
<1>1. UNCHANGED <<access, aged, hasRefresh, ucams, ucamsAged, issued, ucamsIssued, agings>>
  BY DEF tokens
<1>2. aged' \in BOOLEAN /\ hasRefresh' \in BOOLEAN /\ ucamsAged' \in BOOLEAN
  BY <1>1, Zenon DEF IInv, TypeOK
<1>3. /\ issued \in Nat /\ ucamsIssued \in Nat /\ access \in Nat /\ ucams \in Nat
      /\ access <= issued /\ ucams <= ucamsIssued
  BY DEF IInv, TypeOK, TokensAreNumbered
<1>4. Valid' <=> Valid
  BY <1>1 DEF Valid
<1>5. UcamsValid' <=> UcamsValid
  BY <1>1 DEF UcamsValid
<1>6. Token(c)' = Token(c)
  BY <1>1 DEF Token
<1> QED
  BY <1>1, <1>2, <1>3, <1>4, <1>5, <1>6 DEF TokensMove

\* A step that lands with the history it had.
LEMMA QuietLanding ==
  ASSUME IInv, NEW c \in Calls, NEW ph \in {"first", "recover", "retry"},
         c \notin UcamsCalls => ph # "recover",
         pc[c] # "done", Landed(c, ph), TokensMove(c), UNCHANGED history,
         ph # "first" => phase[c] # "first" /\ refused[c] # Token(c)'
  PROVE  IInv'
PROOF
<1>1. UNCHANGED <<executed, refused, refusals, loginRefused>>
  BY DEF history
<1>2. refusals \in [Calls -> Nat] /\ refused \in [Calls -> Nat]
  BY DEF IInv, TypeOK
<1>3. \A d \in Calls \ {c} : refusals'[d] = refusals[d] /\ refused'[d] = refused[d]
  BY <1>1
<1>4. refusals'[c] >= refusals[c]
  BY <1>1, <1>2
<1>5. ph # "first" => refusals'[c] > 0 /\ refused'[c] # 0 /\ refused'[c] # Token(c)'
  BY <1>1, BeforeStep
<1>6. IF c \in UcamsCalls THEN refused'[c] <= ucamsIssued ELSE refused'[c] <= issued
  BY <1>1, BeforeStep
<1> QED
  BY <1>1, <1>2, <1>3, <1>4, <1>5, <1>6, LandingKeeps

LEMMA StartKeeps ==
  ASSUME IInv, NEW c \in Calls, Start(c)
  PROVE  IInv'
PROOF
<1>1. /\ pc[c] = "idle" /\ Ensure(c, "first", ucamsLock)
      /\ UNCHANGED <<tokens, agings>> /\ UNCHANGED history
  BY DEF Start
<1>2. TokensMove(c)
  BY <1>1, SameTokensMove
<1>3. authLock # c /\ ucamsLock # c
  BY <1>1, BeforeStep DEF Exchanging
<1>4. Landed(c, "first")
  BY <1>1, <1>3, EnsureLands
<1> QED
  BY <1>1, <1>2, <1>4, QuietLanding

LEMMA AuthLockTakenKeeps ==
  ASSUME IInv, NEW c \in Calls, AuthLockTaken(c)
  PROVE  IInv'
PROOF
<1>1. /\ pc[c] = "auth wait" /\ authLock = nobody
      /\ \/ Valid /\ Proceed(c, phase[c], nobody, ucamsLock)
         \/ ~Valid /\ Exchange(c, phase[c], ucamsLock)
      /\ UNCHANGED <<tokens, agings>> /\ UNCHANGED history
  BY DEF AuthLockTaken
<1>2. TokensMove(c) /\ Token(c)' = Token(c) /\ (Valid' <=> Valid)
  BY <1>1, SameTokensMove
<1>3. authLock # c /\ ucamsLock # c
  BY <1>1, BeforeStep DEF Exchanging
<1>4. /\ phase[c] \in {"first", "recover", "retry"}
      /\ c \notin UcamsCalls => phase[c] # "recover"
  BY BeforeStep
<1>5. Landed(c, phase[c])
  <2>1. CASE Valid /\ Proceed(c, phase[c], nobody, ucamsLock)
    BY <2>1, <1>1, <1>2, <1>3, <1>4, ProceedLands, CallsAssumption
  <2>2. CASE ~Valid /\ Exchange(c, phase[c], ucamsLock)
    BY <2>2, <1>1, <1>2, <1>3, <1>4, CallsAssumption
    DEF Exchange, Go, Landed, Waiting, Exchanging
  <2> QED
    BY <1>1, <2>1, <2>2
<1>6. phase[c] # "first" => refused[c] # Token(c)'
  BY <1>1, <1>2, BeforeStep
<1> QED
  BY <1>1, <1>2, <1>4, <1>5, <1>6, QuietLanding

LEMMA RenewedKeeps ==
  ASSUME IInv, NEW c \in Calls, Renewed(c)
  PROVE  IInv'
PROOF
<1>1. /\ pc[c] \in Exchanging
      /\ issued' = issued + 1 /\ access' = issued + 1 /\ aged' = FALSE
      /\ hasRefresh' = TRUE /\ ucams' = 0 /\ ucamsAged' = FALSE
      /\ Proceed(c, phase[c], nobody, ucamsLock)
      /\ UNCHANGED <<ucamsIssued, agings>> /\ UNCHANGED history
  BY DEF Renewed, Exchanging
<1>2. /\ issued \in Nat /\ ucamsIssued \in Nat /\ access \in Nat /\ ucams \in Nat
  BY DEF IInv, TypeOK
<1>3. authLock = c /\ ucamsLock # c
  BY <1>1, BeforeStep DEF Exchanging
<1>4. aged' \in BOOLEAN /\ hasRefresh' \in BOOLEAN /\ ucamsAged' \in BOOLEAN
  BY <1>1, Zenon
<1>5. TokensMove(c)
  BY <1>1, <1>2, <1>3, <1>4 DEF TokensMove
<1>6. /\ phase[c] \in {"first", "recover", "retry"}
      /\ c \notin UcamsCalls => phase[c] # "recover"
  BY BeforeStep
<1>7. Valid'
  BY <1>1, <1>2 DEF Valid
<1>8. Landed(c, phase[c])
  BY <1>1, <1>3, <1>6, <1>7, ProceedLands, CallsAssumption
<1>9. phase[c] # "first" => refused[c] # Token(c)'
  <2>1. phase[c] # "first" => refused[c] # 0
    BY <1>1, BeforeStep DEF Exchanging
  <2>2. CASE c \in UcamsCalls
    BY <1>1, <2>1, <2>2 DEF Token
  <2>3. CASE c \notin UcamsCalls
    <3>1. refused[c] \in Nat /\ refused[c] <= issued
      BY <2>3, BeforeStep
    <3>2. Token(c)' = issued + 1
      BY <1>1, <2>3 DEF Token
    <3> QED
      BY <1>2, <3>1, <3>2
  <2> QED
    BY <2>2, <2>3
<1> QED
  BY <1>1, <1>5, <1>6, <1>8, <1>9, QuietLanding DEF Exchanging

LEMMA RefreshRefusedKeeps ==
  ASSUME IInv, NEW c \in Calls, RefreshRefused(c)
  PROVE  IInv'
PROOF
<1>1. /\ pc[c] = "refreshing"
      /\ Go(c, "logging in", phase[c], authLock, ucamsLock)
      /\ UNCHANGED <<tokens, agings>> /\ UNCHANGED history
  BY DEF RefreshRefused
<1>2. TokensMove(c) /\ Token(c)' = Token(c) /\ (Valid' <=> Valid)
  BY <1>1, SameTokensMove
<1>3. authLock = c /\ ucamsLock # c
  BY <1>1, BeforeStep DEF Exchanging
<1>4. /\ phase[c] \in {"first", "recover", "retry"}
      /\ c \notin UcamsCalls => phase[c] # "recover"
  BY BeforeStep
<1>5. ~Valid'
  BY <1>1, <1>2 DEF IInv, NoNeedlessExchange
<1>6. Landed(c, phase[c])
  BY <1>1, <1>3, <1>4, <1>5 DEF Go, Landed, Waiting, Exchanging
<1>7. phase[c] # "first" => refused[c] # Token(c)'
  BY <1>1, <1>2, BeforeStep
<1> QED
  BY <1>1, <1>2, <1>4, <1>6, <1>7, QuietLanding

LEMMA UcamsCallsOnly ==
  ASSUME IInv, NEW c \in Calls, pc[c] \in {"ucams wait", "ucams login"}
  PROVE  c \in UcamsCalls
  BY DEF IInv, CallsKeepToTheirPath

LEMMA UcamsLockTakenKeeps ==
  ASSUME IInv, NEW c \in Calls, UcamsLockTaken(c)
  PROVE  IInv'
PROOF
<1>1. /\ pc[c] = "ucams wait" /\ ucamsLock = nobody
      /\ UNCHANGED <<tokens, agings>> /\ UNCHANGED history
  BY DEF UcamsLockTaken
<1>2. TokensMove(c) /\ Token(c)' = Token(c) /\ (UcamsValid' <=> UcamsValid)
  BY <1>1, SameTokensMove
<1>3. authLock # c /\ ucamsLock # c
  BY <1>1, BeforeStep DEF Exchanging
<1>4. c \in UcamsCalls
  BY <1>1, UcamsCallsOnly
<1>5. phase[c] \in {"first", "recover", "retry"}
  BY BeforeStep
<1>6. phase[c] # "first" => refused[c] # Token(c)'
  BY <1>1, <1>2, BeforeStep
<1>7. CASE UcamsValid /\ UcamsEnsured(c, nobody)
  <2>1. Landed(c, IF phase[c] = "recover" THEN "retry" ELSE phase[c])
    BY <1>1, <1>2, <1>3, <1>4, <1>5, <1>7, UcamsEnsuredLands
  <2> QED
    BY <1>1, <1>2, <1>4, <1>5, <1>6, <2>1, QuietLanding
<1>8. CASE End(c, "unauthorised", authLock, nobody)
  <2>1. executed[c] <= 1
    BY DEF IInv, NeverExecutedTwice
  <2>2. /\ executed \in [Calls -> Nat] /\ refusals \in [Calls -> Nat]
        /\ refused \in [Calls -> Nat] /\ loginRefused \in [Calls -> BOOLEAN]
    BY DEF IInv, TypeOK
  <2>3. UNCHANGED <<executed, refused, refusals, loginRefused>>
    BY <1>1 DEF history
  <2>4. refused[c] <= ucamsIssued
    BY <1>4, BeforeStep
  <2> QED
    BY <1>1, <1>3, <1>4, <1>8, <2>1, <2>2, <2>3, <2>4, EndingKeeps
<1>9. CASE Go(c, "ucams login", phase[c], authLock, c)
  <2>1. Landed(c, phase[c])
    BY <1>1, <1>3, <1>4, <1>5, <1>9 DEF Go, Landed, Waiting, Exchanging
  <2> QED
    BY <1>1, <1>2, <1>4, <1>5, <1>6, <2>1, QuietLanding
<1> QED
  BY <1>7, <1>8, <1>9 DEF UcamsLockTaken

LEMMA UcamsLoggedInKeeps ==
  ASSUME IInv, NEW c \in Calls, UcamsLoggedIn(c)
  PROVE  IInv'
PROOF
<1>1. /\ pc[c] = "ucams login"
      /\ ucamsIssued' = ucamsIssued + 1 /\ ucams' = ucamsIssued + 1 /\ ucamsAged' = FALSE
      /\ UNCHANGED <<access, aged, hasRefresh, issued>>
      /\ UcamsEnsured(c, nobody)
      /\ agings' = agings /\ UNCHANGED history
  BY DEF UcamsLoggedIn
<1>2. /\ issued \in Nat /\ ucamsIssued \in Nat /\ access \in Nat /\ ucams \in Nat
      /\ access <= issued
  BY DEF IInv, TypeOK, TokensAreNumbered
<1>3. authLock # c /\ ucamsLock = c
  BY <1>1, BeforeStep DEF Exchanging
<1>4. c \in UcamsCalls
  BY <1>1, UcamsCallsOnly
<1>5. phase[c] \in {"first", "recover", "retry"}
  BY BeforeStep
<1>6. aged' \in BOOLEAN /\ hasRefresh' \in BOOLEAN
  BY <1>1, Zenon DEF IInv, TypeOK
<1>7. ucamsAged' \in BOOLEAN
  BY <1>1, Zenon
<1>8. Valid' <=> Valid
  BY <1>1 DEF Valid
<1>9. TokensMove(c)
  <2>1. /\ ucamsIssued' = ucamsIssued + 1 /\ ucams' = ucamsIssued + 1
        /\ access' = access /\ issued' = issued /\ agings' = agings
    BY <1>1
  <2>2. /\ issued' \in Nat /\ issued <= issued'
        /\ ucamsIssued' \in Nat /\ ucamsIssued <= ucamsIssued'
        /\ access' \in Nat /\ access' <= issued' /\ access' \in {0, access}
        /\ ucams' \in Nat /\ ucams' <= ucamsIssued' /\ ucams' > ucamsIssued
    BY <1>2, <2>1
  <2> QED
    BY <1>6, <1>7, <1>8, <2>1, <2>2 DEF TokensMove
<1>10. UcamsValid'
  <2>1. ucams' # 0
    <3>1. ucams' = ucamsIssued + 1
      BY <1>1
    <3> QED
      BY <1>2, <3>1
  <2>2. ~ucamsAged'
    BY <1>1, Zenon
  <2> QED
    BY <2>1, <2>2 DEF UcamsValid
<1>11. Landed(c, IF phase[c] = "recover" THEN "retry" ELSE phase[c])
  BY <1>1, <1>3, <1>4, <1>5, <1>10, UcamsEnsuredLands
<1>12. refused[c] # Token(c)'
  <2>1. refused[c] \in Nat /\ refused[c] <= ucamsIssued
    BY <1>4, BeforeStep
  <2>2. Token(c)' = ucamsIssued + 1
    BY <1>1, <1>4 DEF Token
  <2> QED
    BY <1>2, <2>1, <2>2
<1> QED
  BY <1>1, <1>4, <1>5, <1>9, <1>11, <1>12, QuietLanding

LEMMA SendRefusedKeeps ==
  ASSUME IInv, NEW c \in Calls, SendRefused(c)
  PROVE  IInv'
PROOF
<1>1. /\ pc[c] = "sending" /\ phase[c] # "retry"
      /\ refusals' = [refusals EXCEPT ![c] = @ + 1]
      /\ refused' = [refused EXCEPT ![c] = sent[c]]
      /\ UNCHANGED <<executed, loginRefused>> /\ agings' = agings
  BY DEF SendRefused, NoteRefusal
<1>2. /\ issued \in Nat /\ ucamsIssued \in Nat /\ access \in Nat /\ ucams \in Nat
      /\ access <= issued /\ ucams <= ucamsIssued
      /\ refusals \in [Calls -> Nat] /\ refused \in [Calls -> Nat] /\ sent[c] \in Nat
  BY DEF IInv, TypeOK, TokensAreNumbered
<1>3. authLock # c /\ ucamsLock # c
  BY <1>1, BeforeStep DEF Exchanging
<1>4. sent[c] # 0
  BY <1>1 DEF IInv, CallsKeepToTheirPath
<1>5. /\ refusals' \in [Calls -> Nat] /\ refused' \in [Calls -> Nat]
      /\ \A d \in Calls \ {c} : refusals'[d] = refusals[d] /\ refused'[d] = refused[d]
      /\ refusals'[c] >= refusals[c] /\ refusals'[c] > 0 /\ refused'[c] = sent[c]
  BY <1>1, <1>2
<1>6. IF c \in UcamsCalls THEN refused'[c] <= ucamsIssued ELSE refused'[c] <= issued
  BY <1>5, BeforeStep
<1>7. CASE c \in UcamsCalls
  <2>1. /\ ucams' = 0 /\ ucamsAged' = FALSE
        /\ UNCHANGED <<access, aged, hasRefresh, issued, ucamsIssued>>
        /\ Ensure(c, "recover", ucamsLock)
    BY <1>7 DEF SendRefused
  <2>2. aged' \in BOOLEAN /\ hasRefresh' \in BOOLEAN
    BY <2>1, Zenon DEF IInv, TypeOK
  <2>3. ucamsAged' \in BOOLEAN
    BY <2>1, Zenon
  <2>4. Valid' <=> Valid
    BY <2>1 DEF Valid
  <2>5. TokensMove(c)
    BY <1>1, <1>2, <2>1, <2>2, <2>3, <2>4 DEF TokensMove
  <2>6. Landed(c, "recover")
    BY <1>3, <1>7, <2>1, EnsureLands
  <2>7. Token(c)' = 0
    BY <1>7, <2>1 DEF Token
  <2> QED
    BY <1>1, <1>4, <1>5, <1>6, <1>7, <2>5, <2>6, <2>7, LandingKeeps
<1>8. CASE c \notin UcamsCalls
  <2>1. /\ access' = 0 /\ aged' = FALSE
        /\ UNCHANGED <<hasRefresh, ucams, ucamsAged, issued, ucamsIssued>>
        /\ Renew(c, "retry", ucamsLock)
    BY <1>8 DEF SendRefused
  <2>2. hasRefresh' \in BOOLEAN /\ ucamsAged' \in BOOLEAN
    BY <2>1, Zenon DEF IInv, TypeOK
  <2>3. aged' \in BOOLEAN
    BY <2>1, Zenon
  <2>4. ~Valid'
    BY <2>1 DEF Valid
  <2>5. TokensMove(c)
    BY <1>1, <1>2, <2>1, <2>2, <2>3, <2>4 DEF TokensMove
  <2>6. Landed(c, "retry")
    BY <1>3, <1>8, <2>1, <2>4, RenewLands
  <2>7. Token(c)' = 0
    BY <1>8, <2>1 DEF Token
  <2> QED
    BY <1>1, <1>4, <1>5, <1>6, <1>8, <2>5, <2>6, <2>7, LandingKeeps
<1> QED
  BY <1>7, <1>8

\* The steps that end a call.
LEMMA EndingStepsKeep ==
  ASSUME IInv, NEW c \in Calls,
         \/ LoginRefused(c) \/ ExchangeFails(c)
         \/ UcamsLoginRefused(c) \/ UcamsLoginFails(c)
         \/ Answered(c) \/ SendFails(c) \/ RetryRefused(c)
  PROVE  IInv'
PROOF
<1>1. /\ executed \in [Calls -> Nat] /\ refusals \in [Calls -> Nat]
      /\ refused \in [Calls -> Nat] /\ loginRefused \in [Calls -> BOOLEAN]
  BY DEF IInv, TypeOK
<1>2. executed[c] <= 1
  BY DEF IInv, NeverExecutedTwice
<1>3. IF c \in UcamsCalls THEN refused[c] <= ucamsIssued ELSE refused[c] <= issued
  BY BeforeStep
<1>4. IF c \in UcamsCalls THEN sent[c] <= ucamsIssued ELSE sent[c] <= issued
  BY BeforeStep
<1>5. sent[c] \in Nat /\ (pc[c] # "done" => executed[c] = 0)
  BY BeforeStep
<1>6. CASE LoginRefused(c)
  <2>1. authLock = c /\ ucamsLock # c
    BY <1>6, BeforeStep DEF LoginRefused, Exchanging
  <2>2. /\ loginRefused' = [loginRefused EXCEPT ![c] = TRUE]
        /\ refusals' = [refusals EXCEPT ![c] = @ + 1]
        /\ UNCHANGED <<executed, refused>> /\ UNCHANGED <<tokens, agings>>
        /\ End(c, "unauthorised", nobody, ucamsLock)
    BY <1>6 DEF LoginRefused
  <2>3. /\ loginRefused' \in [Calls -> BOOLEAN] /\ loginRefused'[c]
        /\ \A d \in Calls \ {c} : loginRefused'[d] = loginRefused[d]
    BY <1>1, <2>2, Zenon
  <2>4. /\ refusals' \in [Calls -> Nat]
        /\ \A d \in Calls \ {c} : refusals'[d] = refusals[d]
    BY <1>1, <2>2
  <2> QED
    BY <1>1, <1>2, <1>3, <2>1, <2>2, <2>3, <2>4, EndingKeeps
<1>7. CASE ExchangeFails(c)
  <2>1. authLock = c /\ ucamsLock # c
    BY <1>7, BeforeStep DEF ExchangeFails, Exchanging
  <2> QED
    BY <1>1, <1>2, <1>3, <1>7, <2>1, EndingKeeps DEF ExchangeFails, history
<1>8. CASE UcamsLoginRefused(c)
  <2>1. authLock # c /\ ucamsLock = c
    BY <1>8, BeforeStep DEF UcamsLoginRefused, Exchanging
  <2>2. c \in UcamsCalls
    BY <1>8, UcamsCallsOnly DEF UcamsLoginRefused
  <2>3. /\ refusals' = [refusals EXCEPT ![c] = @ + 1]
        /\ UNCHANGED <<executed, refused, loginRefused>> /\ UNCHANGED <<tokens, agings>>
        /\ End(c, "unauthorised", authLock, nobody)
    BY <1>8 DEF UcamsLoginRefused
  <2>4. /\ refusals' \in [Calls -> Nat]
        /\ \A d \in Calls \ {c} : refusals'[d] = refusals[d]
    BY <1>1, <2>3
  <2> QED
    BY <1>1, <1>2, <1>3, <2>1, <2>2, <2>3, <2>4, EndingKeeps
<1>9. CASE UcamsLoginFails(c)
  <2>1. authLock # c /\ ucamsLock = c
    BY <1>9, BeforeStep DEF UcamsLoginFails, Exchanging
  <2> QED
    BY <1>1, <1>2, <1>3, <1>9, <2>1, EndingKeeps DEF UcamsLoginFails, history
<1>10. CASE Answered(c)
  <2>1. authLock # c /\ ucamsLock # c
    BY <1>10, BeforeStep DEF Answered, Exchanging
  <2> QED
    BY <1>1, <1>3, <1>5, <1>10, <2>1, EndingKeeps DEF Answered
<1>11. CASE SendFails(c)
  <2>1. authLock # c /\ ucamsLock # c
    BY <1>11, BeforeStep DEF SendFails, Exchanging
  <2>2. PICK n \in {0, 1} : executed' = [executed EXCEPT ![c] = @ + n]
    BY <1>11 DEF SendFails
  <2>3. /\ executed' \in [Calls -> Nat] /\ executed'[c] <= 1
        /\ \A d \in Calls \ {c} : executed'[d] = executed[d]
    BY <1>1, <1>5, <1>11, <2>2 DEF SendFails
  <2> QED
    BY <1>1, <1>3, <1>11, <2>1, <2>3, EndingKeeps DEF SendFails
<1>12. CASE RetryRefused(c)
  <2>1. authLock # c /\ ucamsLock # c
    BY <1>12, BeforeStep DEF RetryRefused, Exchanging
  <2>2. refusals[c] > 0 /\ refusals[c] \in Nat
    BY <1>12, BeforeStep DEF RetryRefused
  <2>3. /\ refusals' = [refusals EXCEPT ![c] = @ + 1]
        /\ refused' = [refused EXCEPT ![c] = sent[c]]
        /\ UNCHANGED <<executed, loginRefused>>
    BY <1>12 DEF RetryRefused, NoteRefusal
  <2>4. /\ refusals' \in [Calls -> Nat] /\ refused' \in [Calls -> Nat]
        /\ refusals'[c] >= 2 /\ refused'[c] = sent[c]
        /\ \A d \in Calls \ {c} : refusals'[d] = refusals[d] /\ refused'[d] = refused[d]
    BY <1>1, <1>5, <2>2, <2>3
  <2> QED
    BY <1>1, <1>2, <1>4, <1>12, <2>1, <2>3, <2>4, EndingKeeps DEF RetryRefused
<1> QED
  BY <1>6, <1>7, <1>8, <1>9, <1>10, <1>11, <1>12

\* Time.
LEMMA AgingKeeps ==
  ASSUME IInv, AccessAges \/ UcamsAges
  PROVE  IInv'
PROOF
<1> USE CallsAssumption, BoundAssumption
<1>1. /\ UNCHANGED <<access, ucams, hasRefresh, issued, ucamsIssued, authLock, ucamsLock,
                     pc, phase, sent, outcome>>
      /\ UNCHANGED <<executed, refused, refusals, loginRefused>>
  BY DEF AccessAges, UcamsAges, history
<1>2. aged' \in BOOLEAN /\ hasRefresh' \in BOOLEAN /\ ucamsAged' \in BOOLEAN
  BY Zenon DEF IInv, TypeOK, AccessAges, UcamsAges
<1>3. agings' \in 0..MaxAgings
  <2>1. agings \in 0..MaxAgings
    BY DEF IInv, TypeOK
  <2>2. agings < MaxAgings /\ agings' = agings + 1
    BY DEF AccessAges, UcamsAges
  <2> QED
    BY <2>1, <2>2
<1>4. Valid' => Valid
  BY DEF AccessAges, UcamsAges, Valid
<1>5. TypeOK'
  BY <1>1, <1>2, <1>3 DEF IInv, TypeOK
<1>6. LocksAreHeld' /\ CallsKeepToTheirPath' /\ NothingIsDoneEarly'
  BY <1>1 DEF IInv, LocksAreHeld, CallsKeepToTheirPath, NothingIsDoneEarly
<1>7. TokensAreNumbered' /\ RefusedIsGone'
  BY <1>1 DEF IInv, TokensAreNumbered, RefusedIsGone
<1>8. NeverExecutedTwice' /\ RetryUsesAnotherToken' /\ RenewedBeforeGivingUp'
  BY <1>1 DEF IInv, NeverExecutedTwice, RetryUsesAnotherToken, RenewedBeforeGivingUp
<1>9. NoNeedlessExchange'
  BY <1>1, <1>4 DEF IInv, NoNeedlessExchange
<1> QED
  BY <1>5, <1>6, <1>7, <1>8, <1>9 DEF IInv

LEMMA NextKeeps == IInv /\ [Next]_vars => IInv'
PROOF
<1> SUFFICES ASSUME IInv, [Next]_vars PROVE IInv'
  OBVIOUS
<1>1. CASE UNCHANGED vars
  BY <1>1 DEF vars, IInv, TypeOK, LocksAreHeld, CallsKeepToTheirPath, NothingIsDoneEarly,
     TokensAreNumbered, RefusedIsGone, NeverExecutedTwice, NoNeedlessExchange,
     RetryUsesAnotherToken, RenewedBeforeGivingUp, Valid
<1>2. CASE \E c \in Calls : Start(c) \/ Step(c)
  <2>1. PICK c \in Calls : Start(c) \/ Step(c)
    BY <1>2
  <2> QED
    BY <2>1, StartKeeps, AuthLockTakenKeeps, RenewedKeeps, RefreshRefusedKeeps,
       UcamsLockTakenKeeps, UcamsLoggedInKeeps, SendRefusedKeeps, EndingStepsKeep DEF Step
<1>3. CASE AccessAges \/ UcamsAges
  BY <1>3, AgingKeeps
<1> QED
  BY <1>1, <1>2, <1>3 DEF Next

-----------------------------------------------------------------------------
\* Locks, tokens and the awaits of the calls stay related in this way, for any
\* number of calls (api.py:208-281, 765-818).
THEOREM Invariance == Spec => []IInv
  BY InitHolds, NextKeeps, PTL DEF Spec

\* Every variable keeps its type (api.py:153-281, 765-818).
THEOREM AuthTypesCorrect == Spec => []TypeOK
PROOF
<1>1. IInv => TypeOK
  BY DEF IInv
<1> QED
  BY <1>1, Invariance, PTL

\* Whatever is refused, times out or waits for a lock, the cloud carries out a
\* call at most once (api.py:251-281, 788-818).
THEOREM CallsAreNotRepeated == Spec => []NeverExecutedTwice
PROOF
<1>1. IInv => NeverExecutedTwice
  BY DEF IInv
<1> QED
  BY <1>1, Invariance, PTL

\* Calls that find the token old or refused together renew it once, and retry
\* with another one than they were refused (api.py:222-226, 273-275, 809-811).
THEOREM TokensAreRenewedOnce == Spec => [](NoNeedlessExchange /\ RetryUsesAnotherToken)
PROOF
<1>1. IInv => NoNeedlessExchange /\ RetryUsesAnotherToken
  BY DEF IInv
<1> QED
  BY <1>1, Invariance, PTL

\* A Ufanet call is not given up as unauthorised before a login or a renewed
\* token has been refused (api.py:269-281).
THEOREM LoginsAreTriedFirst == Spec => []RenewedBeforeGivingUp
PROOF
<1>1. IInv => RenewedBeforeGivingUp
  BY DEF IInv
<1> QED
  BY <1>1, Invariance, PTL
=============================================================================
