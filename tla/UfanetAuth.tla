----------------------------- MODULE UfanetAuth -----------------------------
(***************************************************************************)
(* The cloud sessions of UfanetApi (api.py): every call needs a Ufanet     *)
(* access token, some need a UCAMS token as well, and any number of calls  *)
(* run at once on one event loop.  A token is renewed under a lock and a   *)
(* refused request is repeated once with a new one.                        *)
(*                                                                         *)
(* A step of a call runs from one await that really waits to the next; a   *)
(* lock that is free is taken without waiting, as asyncio.Lock does.       *)
(* Tokens are numbered in the order they were issued, 0 is none.           *)
(***************************************************************************)
EXTENDS Integers, FiniteSets

CONSTANTS
  Calls,       \* the calls made during a run, each once
  UcamsCalls,  \* those of _async_ucams_json; the others are _async_ufanet_json
  nobody,      \* no call: the owner of a free lock
  MaxAgings    \* bound: how often a token nears its expiry

ASSUME CallsAssumption == UcamsCalls \subseteq Calls /\ nobody \notin Calls
ASSUME BoundAssumption == MaxAgings \in Nat

VARIABLES
  access,       \* self._access_token
  aged,         \* the access token expires within 120 s
  hasRefresh,   \* self._refresh_token is set
  ucams,        \* self._ucams_token
  ucamsAged,    \* the UCAMS token expires within 120 s
  issued,       \* access tokens issued so far
  ucamsIssued,  \* UCAMS tokens issued so far
  agings,       \* tokens that have come near their expiry
  authLock,     \* owner of self._auth_lock
  ucamsLock,    \* owner of self._ucams_lock
  pc,           \* what each call waits for
  phase,        \* "first" attempt, "recover" after a refusal, "retry"
  sent,         \* the token of the request under way
  outcome,      \* how each call ended
  executed,     \* how often the cloud carried the call out (history)
  refused,      \* the token of the call the cloud refused, if any (history)
  refusals,     \* refusals of requests of the call (history)
  loginRefused  \* whether a login made for the call was refused (history)

tokens  == <<access, aged, hasRefresh, ucams, ucamsAged, issued, ucamsIssued>>
history == <<executed, refused, refusals, loginRefused>>
vars == <<access, aged, hasRefresh, ucams, ucamsAged, issued, ucamsIssued, agings,
          authLock, ucamsLock, pc, phase, sent, outcome,
          executed, refused, refusals, loginRefused>>

\* _token_valid_for(..., 120) of the two tokens.
Valid == access # 0 /\ ~aged
UcamsValid == ucams # 0 /\ ~ucamsAged

\* A lock that has waiters is not taken by others, even while it is free.
AuthFree == authLock = nobody /\ \A c \in Calls : pc[c] # "auth wait"
UcamsFree == ucamsLock = nobody /\ \A c \in Calls : pc[c] # "ucams wait"

Init ==
  /\ access \in {0, 1} /\ aged = FALSE
  /\ hasRefresh = (access = 1)
  /\ ucams = 0 /\ ucamsAged = FALSE
  /\ issued = 1 /\ ucamsIssued = 0 /\ agings = 0
  /\ authLock = nobody /\ ucamsLock = nobody
  /\ pc = [c \in Calls |-> "idle"]
  /\ phase = [c \in Calls |-> "first"]
  /\ sent = [c \in Calls |-> 0]
  /\ outcome = [c \in Calls |-> "none"]
  /\ executed = [c \in Calls |-> 0]
  /\ refused = [c \in Calls |-> 0]
  /\ refusals = [c \in Calls |-> 0]
  /\ loginRefused = [c \in Calls |-> FALSE]

-----------------------------------------------------------------------------
(* Where a call goes next.  `al` and `ul` are the owners of the two locks   *)
(* once it has got there; the tokens are those at the end of the step.      *)

Go(c, where, ph, al, ul) ==
  /\ pc' = [pc EXCEPT ![c] = where]
  /\ phase' = [phase EXCEPT ![c] = ph]
  /\ authLock' = al /\ ucamsLock' = ul
  /\ sent' = IF where = "sending"
             THEN [sent EXCEPT ![c] = IF c \in UcamsCalls THEN ucams' ELSE access']
             ELSE sent
  /\ UNCHANGED outcome

End(c, how, al, ul) ==
  /\ pc' = [pc EXCEPT ![c] = "done"]
  /\ outcome' = [outcome EXCEPT ![c] = how]
  /\ authLock' = al /\ ucamsLock' = ul
  /\ UNCHANGED <<phase, sent>>

\* Inside the auth lock: refresh if there is a refresh token, else log in.
Exchange(c, ph, ul) ==
  Go(c, IF hasRefresh THEN "refreshing" ELSE "logging in", ph, c, ul)

\* _async_refresh_ufanet, entered with an access token that will not do.
Renew(c, ph, ul) ==
  \/ AuthFree /\ Exchange(c, ph, ul)
  \/ ~AuthFree /\ Go(c, "auth wait", ph, authLock, ul)

\* The access token is good: send, for UCAMS with a token of its own.
Proceed(c, ph, al, ul) ==
  \/ /\ c \notin UcamsCalls
     /\ Go(c, "sending", ph, al, ul)
  \/ /\ c \in UcamsCalls /\ UcamsValid'
     /\ Go(c, "sending", IF ph = "recover" THEN "retry" ELSE ph, al, ul)
  \/ /\ c \in UcamsCalls /\ ~UcamsValid'
     /\ \/ UcamsFree /\ Go(c, "ucams login", ph, al, c)
        \/ ~UcamsFree /\ Go(c, "ucams wait", ph, al, ul)

\* _ensure_ufanet_access and what follows.
Ensure(c, ph, ul) ==
  \/ Valid' /\ Proceed(c, ph, authLock, ul)
  \/ ~Valid' /\ Renew(c, ph, ul)

\* _ensure_ucams_auth returns: the retry after a refusal ensures both again.
UcamsEnsured(c, ul) ==
  \/ phase[c] = "recover" /\ Ensure(c, "retry", ul)
  \/ phase[c] # "recover" /\ Go(c, "sending", phase[c], authLock, ul)

-----------------------------------------------------------------------------
(* Steps of a call.                                                         *)

Start(c) ==
  /\ pc[c] = "idle"
  /\ UNCHANGED <<tokens, agings, history>>
  /\ Ensure(c, "first", ucamsLock)

\* A faulty AuthLockTaken: the token is not looked at again under the lock.
AuthLockTakenUnchecked(c) ==
  /\ pc[c] = "auth wait" /\ authLock = nobody
  /\ Exchange(c, phase[c], ucamsLock)
  /\ UNCHANGED <<tokens, agings, history>>

\* The auth lock is handed over; another call may have renewed the token.
AuthLockTaken(c) ==
  /\ pc[c] = "auth wait" /\ authLock = nobody
  /\ UNCHANGED <<tokens, agings, history>>
  /\ \/ Valid /\ Proceed(c, phase[c], nobody, ucamsLock)
     \/ ~Valid /\ Exchange(c, phase[c], ucamsLock)

\* New tokens, of a refresh or a login; the UCAMS token goes with the old one.
Renewed(c) ==
  /\ pc[c] \in {"refreshing", "logging in"}
  /\ issued' = issued + 1
  /\ access' = issued + 1 /\ aged' = FALSE
  /\ hasRefresh' = TRUE
  /\ ucams' = 0 /\ ucamsAged' = FALSE
  /\ Proceed(c, phase[c], nobody, ucamsLock)
  /\ UNCHANGED <<ucamsIssued, agings, history>>

\* A faulty RefreshRefused: the login is not tried.
RefreshRefusedForGood(c) ==
  /\ pc[c] = "refreshing"
  /\ End(c, "unauthorised", nobody, ucamsLock)
  /\ UNCHANGED <<tokens, agings, history>>

\* The refresh token is refused, or the answer makes no sense: log in instead.
RefreshRefused(c) ==
  /\ pc[c] = "refreshing"
  /\ Go(c, "logging in", phase[c], authLock, ucamsLock)
  /\ UNCHANGED <<tokens, agings, history>>

LoginRefused(c) ==
  /\ pc[c] = "logging in"
  /\ loginRefused' = [loginRefused EXCEPT ![c] = TRUE]
  /\ refusals' = [refusals EXCEPT ![c] = @ + 1]
  /\ End(c, "unauthorised", nobody, ucamsLock)
  /\ UNCHANGED <<tokens, agings, executed, refused>>

\* A faulty ExchangeFails: the lock is kept.
ExchangeFailsKeepingLock(c) ==
  /\ pc[c] \in {"refreshing", "logging in"}
  /\ End(c, "failed", authLock, ucamsLock)
  /\ UNCHANGED <<tokens, agings, history>>

\* No answer, or for a login one that makes no sense.
ExchangeFails(c) ==
  /\ pc[c] \in {"refreshing", "logging in"}
  /\ End(c, "failed", nobody, ucamsLock)
  /\ UNCHANGED <<tokens, agings, history>>

\* The UCAMS lock is handed over.
UcamsLockTaken(c) ==
  /\ pc[c] = "ucams wait" /\ ucamsLock = nobody
  /\ UNCHANGED <<tokens, agings, history>>
  /\ \/ UcamsValid /\ UcamsEnsured(c, nobody)
     \/ /\ ~UcamsValid /\ access = 0
        /\ End(c, "unauthorised", authLock, nobody)
     \/ /\ ~UcamsValid /\ access # 0
        /\ Go(c, "ucams login", phase[c], authLock, c)

UcamsLoggedIn(c) ==
  /\ pc[c] = "ucams login"
  /\ ucamsIssued' = ucamsIssued + 1
  /\ ucams' = ucamsIssued + 1 /\ ucamsAged' = FALSE
  /\ UNCHANGED <<access, aged, hasRefresh, issued>>
  /\ UcamsEnsured(c, nobody)
  /\ UNCHANGED <<agings, history>>

UcamsLoginRefused(c) ==
  /\ pc[c] = "ucams login"
  /\ refusals' = [refusals EXCEPT ![c] = @ + 1]
  /\ End(c, "unauthorised", authLock, nobody)
  /\ UNCHANGED <<tokens, agings, executed, refused, loginRefused>>

UcamsLoginFails(c) ==
  /\ pc[c] = "ucams login"
  /\ End(c, "failed", authLock, nobody)
  /\ UNCHANGED <<tokens, agings, history>>

Answered(c) ==
  /\ pc[c] = "sending"
  /\ executed' = [executed EXCEPT ![c] = @ + 1]
  /\ End(c, "ok", authLock, ucamsLock)
  /\ UNCHANGED <<tokens, agings, refused, refusals, loginRefused>>

\* A faulty SendFails: whatever got no answer is sent again.
SendFailsAndRepeats(c) ==
  /\ pc[c] = "sending"
  /\ UNCHANGED <<tokens, agings, refused, refusals, loginRefused>>
  /\ \E n \in {0, 1} : executed' = [executed EXCEPT ![c] = @ + n]
  /\ \/ phase[c] = "retry" /\ End(c, "failed", authLock, ucamsLock)
     \/ phase[c] # "retry" /\ Go(c, "sending", "retry", authLock, ucamsLock)

\* A timeout, a broken connection or an error status: the cloud may have
\* carried the request out all the same.
SendFails(c) ==
  /\ pc[c] = "sending"
  /\ \E n \in {0, 1} : executed' = [executed EXCEPT ![c] = @ + n]
  /\ End(c, "failed", authLock, ucamsLock)
  /\ UNCHANGED <<tokens, agings, refused, refusals, loginRefused>>

NoteRefusal(c) ==
  /\ refusals' = [refusals EXCEPT ![c] = @ + 1]
  /\ refused' = [refused EXCEPT ![c] = sent[c]]
  /\ UNCHANGED <<executed, loginRefused>>

\* 401 or 403 on the first attempt: the token is dropped, whatever has become
\* of it since the request was sent, and a new one fetched for one retry.
SendRefused(c) ==
  /\ pc[c] = "sending" /\ phase[c] # "retry"
  /\ NoteRefusal(c)
  /\ IF c \in UcamsCalls
     THEN /\ ucams' = 0 /\ ucamsAged' = FALSE
          /\ UNCHANGED <<access, aged, hasRefresh, issued, ucamsIssued>>
          /\ Ensure(c, "recover", ucamsLock)
     ELSE /\ access' = 0 /\ aged' = FALSE
          /\ UNCHANGED <<hasRefresh, ucams, ucamsAged, issued, ucamsIssued>>
          /\ Renew(c, "retry", ucamsLock)
  /\ UNCHANGED agings

RetryRefused(c) ==
  /\ pc[c] = "sending" /\ phase[c] = "retry"
  /\ NoteRefusal(c)
  /\ End(c, "unauthorised", authLock, ucamsLock)
  /\ UNCHANGED <<tokens, agings>>

-----------------------------------------------------------------------------
(* Time passes.                                                             *)

AccessAges ==
  /\ Valid /\ agings < MaxAgings
  /\ aged' = TRUE /\ agings' = agings + 1
  /\ UNCHANGED <<access, hasRefresh, ucams, ucamsAged, issued, ucamsIssued, authLock,
                 ucamsLock, pc, phase, sent, outcome, history>>

UcamsAges ==
  /\ UcamsValid /\ agings < MaxAgings
  /\ ucamsAged' = TRUE /\ agings' = agings + 1
  /\ UNCHANGED <<access, aged, hasRefresh, ucams, issued, ucamsIssued, authLock,
                 ucamsLock, pc, phase, sent, outcome, history>>

-----------------------------------------------------------------------------
\* The steps of a call that an answer, a timeout or a lock brings about.
Step(c) ==
  \/ AuthLockTaken(c) \/ Renewed(c) \/ RefreshRefused(c) \/ LoginRefused(c)
  \/ ExchangeFails(c)
  \/ UcamsLockTaken(c) \/ UcamsLoggedIn(c) \/ UcamsLoginRefused(c) \/ UcamsLoginFails(c)
  \/ Answered(c) \/ SendFails(c) \/ SendRefused(c) \/ RetryRefused(c)

Next ==
  \/ \E c \in Calls : Start(c) \/ Step(c)
  \/ AccessAges \/ UcamsAges

Spec == Init /\ [][Next]_vars

\* Every request is answered or times out after 30 s, and a lock is handed to
\* the one who has waited longest.
FairSpec == Spec /\ \A c \in Calls : WF_vars(Step(c))

-----------------------------------------------------------------------------
(* Properties.                                                              *)

TypeOK ==
  /\ access \in Nat /\ ucams \in Nat /\ issued \in Nat /\ ucamsIssued \in Nat
  /\ agings \in 0..MaxAgings
  /\ aged \in BOOLEAN /\ hasRefresh \in BOOLEAN /\ ucamsAged \in BOOLEAN
  /\ authLock \in Calls \cup {nobody}
  /\ ucamsLock \in Calls \cup {nobody}
  /\ pc \in [Calls -> {"idle", "auth wait", "refreshing", "logging in", "ucams wait",
                       "ucams login", "sending", "done"}]
  /\ phase \in [Calls -> {"first", "recover", "retry"}]
  /\ sent \in [Calls -> Nat]
  /\ outcome \in [Calls -> {"none", "ok", "failed", "unauthorised"}]
  /\ executed \in [Calls -> Nat]
  /\ refused \in [Calls -> Nat]
  /\ refusals \in [Calls -> Nat]
  /\ loginRefused \in [Calls -> BOOLEAN]

\* The one retry never has the cloud carry out a call twice: what opens a door
\* opens it once (api.py:251-281, 788-818).
NeverExecutedTwice == \A c \in Calls : executed[c] <= 1

\* However many calls find the token too old or refused at the same time, none
\* of them asks for a new one while a good one is there (api.py:222-226).
NoNeedlessExchange ==
  \A c \in Calls : pc[c] \in {"refreshing", "logging in"} => ~Valid

\* The retry is made with another token than the one that was refused
\* (api.py:273-275, 809-811).
RetryUsesAnotherToken ==
  \A c \in Calls : pc[c] = "sending" /\ phase[c] = "retry" => sent[c] # refused[c]

\* A Ufanet call is given up as unauthorised only when a login has been refused,
\* or the token that replaced a refused one (api.py:269-281).
RenewedBeforeGivingUp ==
  \A c \in Calls \ UcamsCalls :
    outcome[c] = "unauthorised" => loginRefused[c] \/ refusals[c] >= 2

\* No call is given up as unauthorised unless the cloud has refused something it
\* sent: "Authentication failed or credentials are no longer valid" (api.py:75).
RefusedBeforeGivingUp ==
  \A c \in Calls : outcome[c] = "unauthorised" => refusals[c] > 0

\* Calls never wait for one another for ever (api.py:176-177, 224, 770).
EveryCallEnds == \A c \in Calls : pc[c] # "idle" ~> pc[c] = "done"

-----------------------------------------------------------------------------
(* Why the safety properties hold: an inductive invariant.                  *)

LocksAreHeld ==
  \A c \in Calls :
    /\ authLock = c <=> pc[c] \in {"refreshing", "logging in"}
    /\ ucamsLock = c <=> pc[c] = "ucams login"

\* Ufanet calls know nothing of UCAMS, and what is sent has a token.
CallsKeepToTheirPath ==
  \A c \in Calls :
    /\ c \notin UcamsCalls => pc[c] \notin {"ucams wait", "ucams login"}
    /\ c \notin UcamsCalls => phase[c] # "recover"
    /\ pc[c] = "sending" => sent[c] # 0

\* Only what is over has been carried out or has an outcome.
NothingIsDoneEarly ==
  \A c \in Calls : pc[c] # "done" => executed[c] = 0 /\ outcome[c] = "none"

TokensAreNumbered ==
  /\ access <= issued /\ ucams <= ucamsIssued
  /\ \A c \in Calls :
       IF c \in UcamsCalls THEN sent[c] <= ucamsIssued /\ refused[c] <= ucamsIssued
                           ELSE sent[c] <= issued /\ refused[c] <= issued

\* While a call recovers, the token it was refused never comes back.
RefusedIsGone ==
  \A c \in Calls : phase[c] # "first" /\ pc[c] # "done" =>
    /\ refusals[c] > 0 /\ refused[c] # 0
    /\ refused[c] # (IF c \in UcamsCalls THEN ucams ELSE access)

IInv ==
  /\ TypeOK
  /\ LocksAreHeld
  /\ CallsKeepToTheirPath
  /\ NothingIsDoneEarly
  /\ TokensAreNumbered
  /\ RefusedIsGone
  /\ NeverExecutedTwice
  /\ NoNeedlessExchange
  /\ RetryUsesAnotherToken
  /\ RenewedBeforeGivingUp
=============================================================================
