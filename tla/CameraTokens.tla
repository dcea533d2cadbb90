---------------------------- MODULE CameraTokens ----------------------------
(***************************************************************************)
(* The cache of UfanetApi (api.py) for what UCAMS says of a camera, above  *)
(* all the tokens with which its media server is asked for live video,     *)
(* snapshots and the archive, and the operations that use it.              *)
(*                                                                         *)
(* Cache and lock belong to one camera, so one camera stands for all.      *)
(* Each answer of UCAMS brings a new pair of tokens, here the number of    *)
(* the answer.  Operations are sequences of the three things they do with  *)
(* the camera; where two of them follow each other without an await the    *)
(* model allows others to step in between.                                 *)
(***************************************************************************)
EXTENDS Naturals, Sequences

CONSTANTS
  Users,         \* operations under way at the same time
  MaxAnswers,    \* bound: answers of UCAMS
  MaxOperations  \* bound: operations that are begun

NoToken == 0
Nobody == "nobody"

ASSUME TokenBounds ==
  /\ MaxAnswers \in Nat /\ MaxOperations \in Nat
  /\ Nobody \notin Users

VARIABLES
  cached,      \* self._camera_cache: the number of its answer, or NoToken
  lacking,     \* answers that came without the archive's token
  holder,      \* who has the camera's lock, or Nobody
  answers,     \* answers of UCAMS
  young,       \* tokens with more than 300 seconds to live
  accepted,    \* tokens the media server takes
  user,        \* the operation of each user, see NoOperation
  begun        \* operations begun

tokenVars == <<cached, lacking, holder, answers, young, accepted, user, begun>>

\* What an operation does with the camera: "look" at its data, "try" its token in a
\* request to the media server, "hand" out a URL with its token.
HlsUrl == <<"hand">>
Snapshot == <<"try">>
RangesService == <<"look", "try">>
UrlService == <<"look", "try", "hand">>
PrivateRangesService == RangesService
PrivateUrlService == UrlService
SetUpArchive == <<"look", "try">>
ArchiveStream == <<"try", "hand">>
Operations ==
  {HlsUrl, Snapshot, RangesService, UrlService, PrivateRangesService, PrivateUrlService,
   SetUpArchive, ArchiveStream}

NeedsArchive(o) == o # HlsUrl /\ o # Snapshot

NoOperation ==
  [pc |-> "idle", todo |-> <<>>, archive |-> FALSE, force |-> FALSE, token |-> NoToken,
   refused |-> NoToken, cameras |-> 0]

TokenInit ==
  /\ cached = NoToken /\ lacking = {} /\ holder = Nobody /\ answers = 0
  /\ young = {} /\ accepted = {} /\ begun = 0
  /\ user = [u \in Users |-> NoOperation]

-----------------------------------------------------------------------------
(* async_get_camera.                                                       *)

GoesOn(o) ==
  IF Len(o.todo) = 1 THEN [o EXCEPT !.pc = "over", !.todo = <<>>]
                     ELSE [o EXCEPT !.pc = "get", !.todo = Tail(o.todo)]

\* The operation has its camera.
Has(u, token) ==
  LET next == [user[u] EXCEPT !.token = token, !.force = FALSE, !.cameras = @ + 1] IN
    IF next.archive /\ Head(next.todo) # "look" /\ token \in lacking'
    THEN NoOperation      \* the camera has no archive token
    ELSE IF Head(next.todo) = "try" THEN [next EXCEPT !.pc = "try"]
    ELSE GoesOn(next)

\* A faulty IsGood, which does not look at the time that is left.
IsGoodEnough(u) == ~user[u].force /\ cached # NoToken /\ cached \notin lacking

\* Both tokens in the cache are good for five minutes.
IsGood(u) == ~user[u].force /\ cached \in young /\ cached \notin lacking

FromCache(u) ==
  /\ user[u].pc = "get" /\ IsGood(u)
  /\ UNCHANGED lacking
  /\ user' = [user EXCEPT ![u] = Has(u, cached)]
  /\ UNCHANGED <<cached, holder, answers, young, accepted, begun>>

NotInCache(u) ==
  /\ user[u].pc = "get" /\ ~IsGood(u)
  /\ user' = [user EXCEPT ![u].pc = "lock"]
  /\ UNCHANGED <<cached, lacking, holder, answers, young, accepted, begun>>

\* With the lock the cache is looked at again.
Lock(u) ==
  /\ user[u].pc = "lock" /\ holder = Nobody
  /\ UNCHANGED lacking
  /\ IF IsGood(u) THEN user' = [user EXCEPT ![u] = Has(u, cached)] /\ UNCHANGED holder
                  ELSE user' = [user EXCEPT ![u].pc = "fetch"] /\ holder' = u
  /\ UNCHANGED <<cached, answers, young, accepted, begun>>

\* UCAMS answers with new tokens; only that for live video must be there.
Answered(u) ==
  /\ user[u].pc = "fetch" /\ answers < MaxAnswers /\ answers' = answers + 1
  /\ cached' = answers' /\ holder' = Nobody
  /\ young' = young \cup {answers'} /\ accepted' = accepted \cup {answers'}
  /\ lacking' \in {lacking, lacking \cup {answers'}}
  /\ user' = [user EXCEPT ![u] = Has(u, answers')]
  /\ UNCHANGED begun

\* UCAMS refuses the login of the integration to a request, for this camera or for
\* anything else: before it is made again with a new one, the cache is cleared.
LoginRefused ==
  /\ cached # NoToken /\ cached' = NoToken
  /\ UNCHANGED <<lacking, holder, answers, young, accepted, user, begun>>

\* A request fails, or whoever wanted the result has gone.
Fail(u) ==
  /\ user[u].pc \in {"lock", "fetch", "try"}
  /\ user' = [user EXCEPT ![u] = NoOperation]
  /\ holder' = IF holder = u THEN Nobody ELSE holder
  /\ UNCHANGED <<cached, lacking, answers, young, accepted, begun>>

-----------------------------------------------------------------------------
(* The operations.                                                         *)

Operate(u) ==
  /\ user[u].pc = "idle" /\ begun < MaxOperations /\ begun' = begun + 1
  /\ \E o \in Operations :
       user' = [user EXCEPT ![u] = [NoOperation EXCEPT !.pc = "get", !.todo = o,
                                                       !.archive = NeedsArchive(o)]]
  /\ UNCHANGED <<cached, lacking, holder, answers, young, accepted>>

\* The media server takes the token, or refuses it: then the camera is asked for
\* anew, once.
Tried(u) ==
  /\ user[u].pc = "try"
  /\ LET now == user[u]
         retries == now.token \notin accepted /\ now.refused = NoToken IN
       user' = [user EXCEPT ![u] =
         IF retries THEN [now EXCEPT !.pc = "get", !.force = TRUE, !.refused = now.token]
         ELSE IF now.token \notin accepted THEN NoOperation
         ELSE GoesOn(now)]
  /\ UNCHANGED <<cached, lacking, holder, answers, young, accepted, begun>>

OperationEnds(u) ==
  /\ user[u].pc = "over"
  /\ user' = [user EXCEPT ![u] = NoOperation]
  /\ UNCHANGED <<cached, lacking, holder, answers, young, accepted, begun>>

-----------------------------------------------------------------------------
(* Time, and the provider.                                                 *)

FiveMinutesLeft(t) ==
  /\ t \in young /\ young' = young \ {t}
  /\ UNCHANGED <<cached, lacking, holder, answers, accepted, user, begun>>

\* A token runs out, or is invalidated before.
NoLongerAccepted(t) ==
  /\ t \in accepted /\ accepted' = accepted \ {t}
  /\ UNCHANGED <<cached, lacking, holder, answers, young, user, begun>>

TokenNext ==
  \/ \E u \in Users :
       \/ Operate(u) \/ FromCache(u) \/ NotInCache(u) \/ Lock(u) \/ Answered(u) \/ Fail(u)
       \/ Tried(u) \/ OperationEnds(u)
  \/ LoginRefused
  \/ \E t \in 1..answers : FiveMinutesLeft(t) \/ NoLongerAccepted(t)

TokenSpec == TokenInit /\ [][TokenNext]_tokenVars

-----------------------------------------------------------------------------
(* Properties.                                                             *)

OperationRecord(n) ==
  [pc : {"idle", "get", "lock", "fetch", "try", "over"},
   todo : Seq({"look", "try", "hand"}), archive : BOOLEAN, force : BOOLEAN,
   token : 0..n, refused : 0..n, cameras : Nat]

\* Types, and one request for the camera at a time.
TokenTypeOK ==
  /\ cached \in 0..answers /\ answers \in 0..MaxAnswers /\ begun \in 0..MaxOperations
  /\ lacking \subseteq 1..answers /\ young \subseteq 1..answers /\ accepted \subseteq 1..answers
  /\ holder \in Users \cup {Nobody}
  /\ user \in [Users -> OperationRecord(answers)]
  /\ \A u \in Users :
       /\ user[u].pc = "fetch" <=> holder = u
       /\ user[u].pc \in {"get", "lock", "fetch", "try"} => user[u].todo # <<>>

\* An operation that was refused a token asks for a new one, and nobody goes back to
\* an older one.
RefusedAreOld ==
  \A u \in Users :
    /\ user[u].force => user[u].pc \in {"get", "lock", "fetch"}
    /\ user[u].refused = NoToken \/ user[u].force
         \/ cached = NoToken \/ cached > user[u].refused

TokenInv == TokenTypeOK /\ RefusedAreOld

\* Whoever gets the camera gets tokens that are good for five minutes more, and none
\* that the media server has just refused to it, although others ask for the same
\* camera, force it, fail or give up meanwhile (api.py:820-893, 907-925; "Live token
\* can be invalidated independently; force one refresh", api.py:888).
TokensLast ==
  [][\A u \in Users :
       user'[u].cameras > user[u].cameras =>
         /\ user'[u].token \in young'
         /\ user'[u].token # user'[u].refused]_tokenVars
=============================================================================
