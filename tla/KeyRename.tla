----------------------------- MODULE KeyRename -----------------------------
(***************************************************************************)
(* The service calls about physical keys: list them, rename one, read the  *)
(* passages of one (key_management.py, key_history.py, key_inventory.py).  *)
(* Each asks the passage coordinator for a refresh, reads the inventory    *)
(* the API object keeps, and a rename then reads it back up to five times. *)
(*                                                                         *)
(* What a refresh does with passages is the matter of KeyPassages; here it *)
(* is three requests.  Home Assistant starts one on its schedule and, by   *)
(* way of a debouncer, when a call asks for it.  Time is in half-seconds.  *)
(***************************************************************************)
EXTENDS Naturals, Sequences

CONSTANTS
  KeyCalls,      \* service calls
  Renamers,      \* bound: those of them that may rename
  Keys, Names,   \* physical keys and their names
  Gone,          \* in the place of the name of a deleted key
  Cleared,       \* the inventory while it is being listed
  Delays,        \* RENAME_VERIFY_DELAYS
  Cooldown,      \* REQUEST_REFRESH_DEFAULT_COOLDOWN of Home Assistant
  MaxChanges,    \* bound: renames and deletions by others
  Faulty         \* TRUE: requests may fail and lists may lag

ASSUME PatienceAssumption == Delays \in Seq(Nat) /\ Len(Delays) > 0 /\ Cooldown \in Nat
ASSUME KeysAssumption == Gone \notin Names /\ MaxChanges \in Nat /\ Faulty \in BOOLEAN

VARIABLES
  keyName,     \* the name of each key at Ufanet, or Gone
  keyList,     \* what /api/v4/key/list/ shows, which may lag
  changes,     \* how often others have changed a key
  inventory,   \* api.physical_key_inventory
  refreshOk,   \* coordinator.last_update_success
  refreshing,  \* the request under way in the scheduled and the asked refresh
  cooling,     \* time left of the debouncer's cooldown, 0 for no timer
  again,       \* _execute_at_end_of_timer
  asked,       \* each service call
  listedSince  \* what was listed for each call's key since it chose it (history)

ufanetKeys == <<keyName, keyList, changes>>
debouncer == <<cooling, again>>
keyVars == <<ufanetKeys, inventory, refreshOk, refreshing, debouncer, asked, listedSince>>

NotAsked == [do |-> "none", key |-> Gone, name |-> Gone, pc |-> "idle",
             try |-> 0, wait |-> 0, result |-> "none"]

KeyInit ==
  /\ keyName \in [Keys -> Names] /\ keyList = keyName /\ changes = 0
  /\ inventory = Cleared /\ refreshOk = FALSE
  /\ refreshing = [r \in {"scheduled", "asked"} |-> "none"]
  /\ cooling = 0 /\ again = FALSE
  /\ asked = [c \in KeyCalls |-> NotAsked]
  /\ listedSince = [c \in KeyCalls |-> {}]

\* The call answers; of what it was about only a rename's name is of interest.
Ended(c, result) ==
  asked' = [asked EXCEPT ![c] =
    [NotAsked EXCEPT !.pc = "done", !.result = result,
                     !.name = IF result = "renamed" THEN asked[c].name ELSE Gone]]

-----------------------------------------------------------------------------
(* A refresh: capability, inventory, histories.                            *)

\* Home Assistant's schedule, which a refresh stops until it has ended; a
\* refresh also cancels the timer.
Scheduled ==
  /\ \A r \in DOMAIN refreshing : refreshing[r] = "none"
  /\ refreshing' = [refreshing EXCEPT !["scheduled"] = "capability"]
  /\ cooling' = 0 /\ again' = FALSE
  /\ UNCHANGED <<ufanetKeys, inventory, refreshOk, asked, listedSince>>

\* _async_refresh ends: the debouncer starts to cool and its caller goes on.
Refreshed(r, ok) ==
  /\ refreshing' = [refreshing EXCEPT ![r] = "none"]
  /\ refreshOk' = ok
  /\ IF r = "asked"
     THEN /\ cooling' = Cooldown /\ again' = FALSE
          /\ asked' = [c \in KeyCalls |->
               [asked[c] EXCEPT !.pc = IF @ = "awaiting" THEN "look" ELSE @]]
     ELSE UNCHANGED <<cooling, again, asked>>

\* The capability is known; the inventory is emptied before it is listed.
CapabilityKnown(r) ==
  /\ refreshing[r] = "capability"
  /\ refreshing' = [refreshing EXCEPT ![r] = "list"]
  /\ inventory' = Cleared
  /\ UNCHANGED <<ufanetKeys, refreshOk, debouncer, asked, listedSince>>

\* async_get_physical_keys.
InventoryListed(r) ==
  /\ refreshing[r] = "list"
  /\ refreshing' = [refreshing EXCEPT ![r] = "history"]
  /\ inventory' = keyList
  /\ listedSince' = [c \in KeyCalls |->
       IF asked[c].pc = "post" \/ (asked[c].try > 0 /\ asked[c].pc # "done")
       THEN listedSince[c] \cup {keyList[asked[c].key]} ELSE listedSince[c]]
  /\ UNCHANGED <<ufanetKeys, refreshOk, debouncer, asked>>

\* The histories are read one way or the other, and the cursors saved.
HistoriesRead(r) ==
  /\ refreshing[r] = "history"
  /\ Refreshed(r, TRUE)
  /\ UNCHANGED <<ufanetKeys, inventory, listedSince>>

RefreshBreaks(r) ==
  /\ Faulty /\ refreshing[r] # "none"
  /\ Refreshed(r, FALSE)
  /\ UNCHANGED <<ufanetKeys, inventory, listedSince>>

-----------------------------------------------------------------------------
(* A service call.                                                         *)

KeyCall(c) ==
  /\ asked[c].pc = "idle"
  /\ \E k \in Keys :
       \/ \E n \in Names : c \in Renamers /\ asked' = [asked EXCEPT ![c] =
            [NotAsked EXCEPT !.do = "rename", !.key = k, !.name = n, !.pc = "ask"]]
       \/ \E do \in {"list", "passages"} : asked' = [asked EXCEPT ![c] =
            [NotAsked EXCEPT !.do = do, !.key = k, !.pc = "ask"]]
  /\ UNCHANGED <<ufanetKeys, inventory, refreshOk, refreshing, debouncer, listedSince>>

\* async_request_refresh with nothing in its way: the call awaits the refresh.
AskForRefresh(c) ==
  /\ asked[c].pc = "ask" /\ asked[c].wait = 0
  /\ cooling = 0 /\ refreshing["asked"] = "none"
  /\ refreshing' = [refreshing EXCEPT !["asked"] = "capability"]
  /\ asked' = [asked EXCEPT ![c].pc = "awaiting"]
  /\ UNCHANGED <<ufanetKeys, inventory, refreshOk, debouncer, listedSince>>

\* The call goes on after its refresh, or at once when the debouncer is cooling
\* or busy with another refresh; nothing happens in between then.
GoesOn(c) ==
  \/ asked[c].pc = "look" /\ UNCHANGED debouncer
  \/ /\ asked[c].pc = "ask" /\ asked[c].wait = 0
     /\ cooling > 0 \/ refreshing["asked"] # "none"
     /\ again' = (again \/ cooling > 0)
     /\ UNCHANGED cooling

\* The name the inventory has for the call's key.
Known(c) == IF inventory = Cleared THEN Gone ELSE inventory[asked[c].key]

\* _async_fresh_key_inventory has no inventory to give.
Unavailable(c) ==
  /\ asked[c].try = 0 /\ GoesOn(c) /\ ~refreshOk
  /\ Ended(c, "unavailable")
  /\ UNCHANGED <<ufanetKeys, inventory, refreshOk, refreshing, listedSince>>

AnswerList(c) ==
  /\ asked[c].do = "list" /\ GoesOn(c) /\ refreshOk
  /\ Ended(c, "listed")
  /\ UNCHANGED <<ufanetKeys, inventory, refreshOk, refreshing, listedSince>>

\* The key is resolved, and what follows at once.
ResolveForRename(c) ==
  /\ asked[c].do = "rename" /\ asked[c].try = 0 /\ GoesOn(c) /\ refreshOk
  /\ CASE Known(c) = Gone          -> Ended(c, "refused")
       [] Known(c) = asked[c].name -> Ended(c, "unchanged")
       [] OTHER                    -> asked' = [asked EXCEPT ![c].pc = "post"]
  /\ UNCHANGED <<ufanetKeys, inventory, refreshOk, refreshing, listedSince>>

ResolveForPassages(c) ==
  /\ asked[c].do = "passages" /\ GoesOn(c) /\ refreshOk
  /\ IF Known(c) = Gone THEN Ended(c, "refused")
                        ELSE asked' = [asked EXCEPT ![c].pc = "fetch"]
  /\ UNCHANGED <<ufanetKeys, inventory, refreshOk, refreshing, listedSince>>

\* async_rename_physical_key, sent once: carried out or not, answered or not.
Post(c) ==
  /\ asked[c].pc = "post"
  /\ \/ /\ keyName[asked[c].key] # Gone
        /\ keyName' = [keyName EXCEPT ![asked[c].key] = asked[c].name]
     \/ Faulty /\ UNCHANGED keyName
  /\ keyList' \in {keyName'} \cup IF Faulty THEN {keyList} ELSE {}
  /\ \/ asked' = [asked EXCEPT ![c].pc = "ask", ![c].try = 1, ![c].wait = Delays[1]]
     \/ Faulty /\ Ended(c, "failed")
  /\ UNCHANGED <<changes, inventory, refreshOk, refreshing, debouncer, listedSince>>

\* The key was deleted meanwhile.
PostRejected(c) ==
  /\ asked[c].pc = "post" /\ keyName[asked[c].key] = Gone
  /\ Ended(c, "failed")
  /\ UNCHANGED <<ufanetKeys, inventory, refreshOk, refreshing, debouncer, listedSince>>

\* A faulty ReadBack, which is content when the key is there.
ReadBackAnyName(c) ==
  /\ asked[c].try > 0 /\ GoesOn(c)
  /\ CASE refreshOk /\ Known(c) # Gone -> Ended(c, "renamed")
       [] asked[c].try = Len(Delays) -> Ended(c, "unconfirmed")
       [] OTHER -> asked' = [asked EXCEPT ![c].pc = "ask", ![c].try = @ + 1,
                                          ![c].wait = Delays[asked[c].try + 1]]
  /\ UNCHANGED <<ufanetKeys, inventory, refreshOk, refreshing, listedSince>>

\* A faulty ReadBack, which never gives up.
ReadBackForever(c) ==
  /\ asked[c].try > 0 /\ GoesOn(c)
  /\ IF refreshOk /\ Known(c) = asked[c].name
     THEN Ended(c, "renamed")
     ELSE asked' = [asked EXCEPT ![c].pc = "ask", ![c].wait = Delays[Len(Delays)]]
  /\ UNCHANGED <<ufanetKeys, inventory, refreshOk, refreshing, listedSince>>

\* One turn of _async_verify_renamed_key.
ReadBack(c) ==
  /\ asked[c].try > 0 /\ GoesOn(c)
  /\ CASE refreshOk /\ Known(c) = asked[c].name -> Ended(c, "renamed")
       [] asked[c].try = Len(Delays) -> Ended(c, "unconfirmed")
       [] OTHER -> asked' = [asked EXCEPT ![c].pc = "ask", ![c].try = @ + 1,
                                          ![c].wait = Delays[asked[c].try + 1]]
  /\ UNCHANGED <<ufanetKeys, inventory, refreshOk, refreshing, listedSince>>

\* _parse_filtered_passage_response: a row of another key spoils the page.
FetchPassages(c) ==
  /\ asked[c].pc = "fetch"
  /\ \E rows \in IF Faulty THEN SUBSET Keys ELSE {{asked[c].key}} :
       Ended(c, IF rows \subseteq {asked[c].key} THEN "fetched" ELSE "failed")
  /\ UNCHANGED <<ufanetKeys, inventory, refreshOk, refreshing, debouncer, listedSince>>

-----------------------------------------------------------------------------
(* Time and others.                                                        *)

\* At the end of the cooldown the refresh that was put off begins.
Passes ==
  /\ cooling > 0 \/ \E c \in KeyCalls : asked[c].wait > 0
  /\ cooling' = IF cooling > 0 THEN cooling - 1 ELSE 0
  /\ asked' = [c \in KeyCalls |->
       IF asked[c].wait > 0 THEN [asked[c] EXCEPT !.wait = @ - 1] ELSE asked[c]]
  /\ IF cooling = 1 /\ again
     THEN /\ again' = FALSE
          /\ refreshing' = [refreshing EXCEPT !["asked"] = "capability"]
     ELSE UNCHANGED <<again, refreshing>>
  /\ UNCHANGED <<ufanetKeys, inventory, refreshOk, listedSince>>

\* Somebody renames or deletes a key with the app.
OthersChange ==
  /\ changes < MaxChanges /\ changes' = changes + 1
  /\ \E k \in Keys, n \in Names \cup {Gone} :
       keyName[k] # Gone /\ keyName' = [keyName EXCEPT ![k] = n]
  /\ keyList' \in {keyName'} \cup IF Faulty THEN {keyList} ELSE {}
  /\ UNCHANGED <<inventory, refreshOk, refreshing, debouncer, asked, listedSince>>

ListCatchesUp ==
  /\ keyList # keyName /\ keyList' = keyName
  /\ UNCHANGED <<keyName, changes, inventory, refreshOk, refreshing, debouncer, asked,
                 listedSince>>

Refreshes(r) ==
  \/ CapabilityKnown(r) \/ InventoryListed(r) \/ HistoriesRead(r) \/ RefreshBreaks(r)

Serves(c) ==
  \/ AskForRefresh(c) \/ Unavailable(c) \/ AnswerList(c)
  \/ ResolveForRename(c) \/ Post(c) \/ PostRejected(c) \/ ReadBack(c)
  \/ ResolveForPassages(c) \/ FetchPassages(c)

KeyNext ==
  \/ Scheduled \/ Passes \/ OthersChange \/ ListCatchesUp
  \/ \E r \in DOMAIN refreshing : Refreshes(r)
  \/ \E c \in KeyCalls : KeyCall(c) \/ Serves(c)

\* Requests have time limits and time passes, so refreshes end and calls go on.
KeySpec ==
  /\ KeyInit /\ [][KeyNext]_keyVars
  /\ WF_keyVars(Passes)
  /\ \A r \in {"scheduled", "asked"} : WF_keyVars(Refreshes(r))
  /\ \A c \in KeyCalls : WF_keyVars(Serves(c))

-----------------------------------------------------------------------------
(* Properties.                                                             *)

KeyTypeOK ==
  /\ keyName \in [Keys -> Names \cup {Gone}] /\ keyList \in [Keys -> Names \cup {Gone}]
  /\ changes \in 0..MaxChanges
  /\ inventory = Cleared \/ inventory \in [Keys -> Names \cup {Gone}]
  /\ refreshOk \in BOOLEAN /\ again \in BOOLEAN /\ cooling \in 0..Cooldown
  /\ refreshing \in [{"scheduled", "asked"} -> {"none", "capability", "list", "history"}]
  /\ asked \in [KeyCalls ->
       [do : {"none", "list", "rename", "passages"}, key : Keys \cup {Gone},
        name : Names \cup {Gone}, try : 0..Len(Delays), wait : Nat,
        pc : {"idle", "ask", "awaiting", "look", "fetch", "post", "done"},
        result : {"none", "unavailable", "listed", "refused", "unchanged", "renamed",
                  "unconfirmed", "fetched", "failed"}]]

\* A rename that is answered as verified was seen: a list that was fetched after
\* the request was decided on shows the new name, however many refreshes were
\* put off, overlapped, emptied the inventory or failed (key_management.py:139-181).
RenamedWasListed ==
  \A c \in KeyCalls : asked[c].result = "renamed" => asked[c].name \in listedSince[c]

KeyInv == KeyTypeOK /\ RenamedWasListed

\* What the test says of the reading back, "Provider propagation lag retries
\* reads" (tests/test_key_management.py:184): a rename is not given up before the
\* list has been read again.
GivenUpAfterReadBack ==
  \A c \in KeyCalls : asked[c].result = "unconfirmed" => listedSince[c] # {}

\* Every call is answered: no refresh is awaited forever.
CallsAreAnswered ==
  \A c \in KeyCalls : asked[c].pc \notin {"idle", "done"} ~> asked[c].pc = "done"
=============================================================================
