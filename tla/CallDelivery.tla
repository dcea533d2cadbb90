---------------------------- MODULE CallDelivery ----------------------------
(***************************************************************************)
(* What the integration promises the automations that listen for           *)
(* ufanet_intercom_call, with no word of polls, pages in flight, memory,   *)
(* pushes or listeners: calls are reported once, those of a batch after    *)
(* all older ones; and one is passed over only because it was there before *)
(* the coordinator started, because a burst pushed it off the first page,  *)
(* or with all the news of a page, because nobody was listening.           *)
(***************************************************************************)
EXTENDS Integers, FiniteSetsExt

CONSTANTS
  MaxCalls,   \* bound: calls ever placed
  PageSize    \* rows of the first history page

VARIABLES
  placed,      \* calls 1..placed exist
  deliveries,  \* deliveries[c]: events fired for call c
  skipped      \* calls taken as history, or not listened to

vars == <<placed, deliveries, skipped>>

Calls == 1..MaxCalls

\* The newest call the automations or a baseline have already dealt with.
NewestDealtWith ==
  Max({0} \cup skipped \cup {c \in Calls : deliveries[c] > 0})

\* The first page as it was when `newest` was the newest call.
PageAt(newest) == {c \in 1..newest : c > newest - PageSize}

Init ==
  /\ placed = 0
  /\ deliveries = [c \in Calls |-> 0]
  /\ skipped = {}

Place ==
  /\ placed < MaxCalls
  /\ placed' = placed + 1
  /\ UNCHANGED <<deliveries, skipped>>

\* One batch: everything on a page that is newer than all reported before.
Deliver ==
  \E newest \in (NewestDealtWith + 1)..placed :
    /\ deliveries' = [c \in Calls |->
                       IF c \in PageAt(newest) /\ c > NewestDealtWith
                       THEN deliveries[c] + 1 ELSE deliveries[c]]
    /\ UNCHANGED <<placed, skipped>>

\* A coordinator starts: what is on the page now is history.
Baseline ==
  /\ skipped' = skipped \cup PageAt(placed)
  /\ UNCHANGED <<placed, deliveries>>

\* One batch that nobody listens to.
PassOver ==
  \E newest \in (NewestDealtWith + 1)..placed :
    /\ skipped' = skipped \cup {c \in PageAt(newest) : c > NewestDealtWith}
    /\ UNCHANGED <<placed, deliveries>>

Next == Place \/ Deliver \/ Baseline \/ PassOver

Spec == Init /\ [][Next]_vars
=============================================================================
