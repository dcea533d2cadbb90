-------------------------- MODULE FcmRegistration --------------------------
(***************************************************************************)
(* The integration's own device registration with Ufanet: who creates it,  *)
(* where its id is kept, and who removes it.  UfanetFcmManager registers   *)
(* and unregisters (fcm.py), the entry's setup, unload and removal decide  *)
(* when (__init__.py), and the private store carries the id and the note   *)
(* that a removal is still owed across reloads and restarts.               *)
(*                                                                         *)
(* Firebase credentials, the transport and its health are left out; the    *)
(* transport's watchdog is FcmWatchdog.  A request the client has given up *)
(* has been carried out by then or never will be.                          *)
(***************************************************************************)
EXTENDS Naturals, FiniteSets

CONSTANTS
  Ids,            \* device ids uuid4 may come up with
  NoId,           \* no device id
  MaxSwitches,    \* bound: changes of the call update mode
  MaxKills,       \* bound: restarts of Home Assistant
  StoreFails      \* TRUE: the store may refuse reads and writes

ASSUME IdsAssumption == NoId \notin Ids
ASSUME BoundsAssumption == MaxSwitches \in Nat /\ MaxKills \in Nat
ASSUME StoreAssumption == StoreFails \in BOOLEAN

VARIABLES
  mode,        \* the entry's option call_update_mode: "fcm", "polling"
  switches,    \* how often the mode was changed
  kills,       \* how often Home Assistant was restarted
  generated,   \* ids uuid4 has come up with
  leaving,     \* the user has asked to remove the entry
  stage,       \* config entry, see Stages
  usedMode,    \* hass.data's call_update_mode: the mode setup went by
  manager,     \* hass.data's fcm_manager is there
  state,       \* the manager's _state: [id, pending]
  attempt,     \* _async_attempt_start: "none", "sent", "applied", "ending"
  succeeded,   \* ufanet_registration_succeeded
  saving,      \* a background save of the state is queued
  applied,     \* the unregister request in flight has been carried out
  store,       \* the private store: [id, pending], Nothing if there is none
  issue,       \* the repair issue fcm_unregister_failed
  registered,  \* ids registered with Ufanet
  unsure,      \* the unregister request of the removal failed (history)
  unseen,      \* FCM was switched off and the manager that had registered the device
               \* was not there to unregister it, or died before it could (history)
  orphans      \* ids registered by managers that died before they were stored (history)

entry   == <<mode, switches, leaving>>
history == <<kills, generated, unsure, unseen, orphans>>
vars == <<mode, switches, kills, generated, leaving, stage, usedMode, manager, state,
          attempt, succeeded, saving, applied, store, issue, registered, unsure, unseen,
          orphans>>

\* "cleaning": setup retries a pending unregister; "starting": setup awaits the
\* manager's first attempt; "stopping", "marking", "unregistering": unload
\* awaits the last save, the save of the mark, the request; "removing": the
\* entry's removal awaits the request.
Stages == {"down", "cleaning", "starting", "loaded", "stopping", "marking",
           "unregistering", "removing", "gone"}

Nothing == [id |-> NoId, pending |-> FALSE]

\* There is nothing to remove, or a note that it has to be.
Tells(content) == content = Nothing \/ content.pending

\* What the store holds after a write of `content`.
Written(content) == {content} \cup IF StoreFails THEN {store} ELSE {}

\* What a read of the store may yield.
Read == {store} \cup IF StoreFails THEN {Nothing} ELSE {}

-----------------------------------------------------------------------------
Init ==
  /\ mode \in {"fcm", "polling"}
  /\ switches = 0 /\ kills = 0 /\ generated = {}
  /\ leaving = FALSE
  /\ stage = "down" /\ usedMode = "polling"
  /\ manager = FALSE /\ state = Nothing
  /\ attempt = "none" /\ succeeded = FALSE /\ saving = FALSE /\ applied = FALSE
  /\ store = Nothing
  /\ issue = FALSE
  /\ registered = {}
  /\ unsure = FALSE /\ unseen = FALSE /\ orphans = {}

-----------------------------------------------------------------------------
(* The user and the host.                                                  *)

\* The options flow changes the mode; the reload it asks for is Unload below.
SwitchMode ==
  /\ ~leaving /\ switches < MaxSwitches
  /\ mode' = IF mode = "fcm" THEN "polling" ELSE "fcm"
  /\ switches' = switches + 1
  /\ unseen' = IF mode = "fcm" /\ ~manager /\ ~Tells(store) THEN TRUE ELSE unseen
  /\ UNCHANGED <<leaving, kills, generated, unsure, orphans, stage, usedMode, manager, state,
                 attempt, succeeded, saving, applied, store, issue, registered>>

AskToRemove ==
  /\ ~leaving
  /\ leaving' = TRUE
  /\ UNCHANGED <<mode, switches, history, stage, usedMode, manager, state, attempt,
                 succeeded, saving, applied, store, issue, registered>>

\* Home Assistant stops without unloading entries, or dies; a removal that is
\* cut short is not remembered, and repair issues are not persistent.  With a
\* manager goes what it has not saved: the id it registered, the mode it saw end.
Restart ==
  /\ stage # "gone" /\ kills < MaxKills
  /\ kills' = kills + 1
  /\ unseen' = IF mode = "polling" /\ manager /\ ~Tells(store) THEN TRUE ELSE unseen
  /\ orphans' = orphans \cup (registered \ {store.id})
  /\ stage' = "down" /\ leaving' = FALSE
  /\ manager' = FALSE /\ state' = Nothing
  /\ attempt' = "none" /\ succeeded' = FALSE /\ saving' = FALSE /\ applied' = FALSE
  /\ issue' = FALSE
  /\ UNCHANGED <<mode, switches, generated, unsure, usedMode, store, registered>>

-----------------------------------------------------------------------------
(* Setup in polling mode: async_retry_pending_fcm_unregister.              *)

\* The rest of setup may fail, which is retried later.
SetUpOrRetry == stage' \in {"loaded", "down"}

\* Nothing is owed, or the store cannot be read.
NoCleanup ==
  /\ stage = "down" /\ ~leaving /\ mode = "polling"
  /\ usedMode' = mode
  /\ issue' \in (IF store.pending THEN {} ELSE {FALSE}) \cup (IF StoreFails THEN {TRUE} ELSE {})
  /\ SetUpOrRetry
  /\ UNCHANGED <<entry, history, manager, state, attempt, succeeded, saving, applied,
                 store, registered>>

CleanupStarts ==
  /\ stage = "down" /\ ~leaving /\ mode = "polling"
  /\ store.pending
  /\ usedMode' = mode
  /\ stage' = "cleaning"
  /\ UNCHANGED <<entry, history, manager, state, attempt, succeeded, saving, applied,
                 store, issue, registered>>

CleanupSucceeds ==
  /\ stage = "cleaning" /\ applied
  /\ applied' = FALSE
  /\ store' \in Written(Nothing)
  /\ issue' = FALSE
  /\ SetUpOrRetry
  /\ UNCHANGED <<entry, history, usedMode, manager, state, attempt, succeeded, saving,
                 registered>>

\* A faulty CleanupFails, which does not keep what is owed.
CleanupFailsForgetting ==
  /\ stage = "cleaning"
  /\ applied' = FALSE
  /\ store' = Nothing
  /\ issue' = TRUE
  /\ SetUpOrRetry
  /\ UNCHANGED <<entry, history, usedMode, manager, state, attempt, succeeded, saving,
                 registered>>

CleanupFails ==
  /\ stage = "cleaning"
  /\ applied' = FALSE
  /\ issue' = TRUE
  /\ SetUpOrRetry
  /\ UNCHANGED <<entry, history, usedMode, manager, state, attempt, succeeded, saving,
                 store, registered>>

-----------------------------------------------------------------------------
(* Setup in fcm mode: async_start.                                         *)

\* The Firebase configuration cannot be read: the entry polls, no manager.
SetupWithoutConfig ==
  /\ stage = "down" /\ ~leaving /\ mode = "fcm"
  /\ usedMode' = mode /\ unseen' = FALSE
  /\ stage' = "loaded"
  /\ UNCHANGED <<entry, kills, generated, unsure, orphans, manager, state, attempt, succeeded, saving, applied,
                 store, issue, registered>>

\* A faulty Adopt: another Firebase project makes another device.
AdoptAnew(stored) ==
  \/ /\ stored # Nothing
     /\ state' = stored
     /\ UNCHANGED generated
  \/ \E id \in Ids \ generated :
       /\ state' = [id |-> id, pending |-> FALSE]
       /\ generated' = generated \cup {id}

\* _normalize_state and the Firebase fingerprint: a stored id is kept, though
\* another Firebase project makes everything else start anew.
Adopt(stored) ==
  \/ /\ stored # Nothing
     /\ state' \in {stored, [stored EXCEPT !.pending = FALSE]}
     /\ UNCHANGED generated
  \/ /\ stored = Nothing
     /\ \E id \in Ids \ generated :
          /\ state' = [id |-> id, pending |-> FALSE]
          /\ generated' = generated \cup {id}

ManagerStarts ==
  /\ stage = "down" /\ ~leaving /\ mode = "fcm"
  /\ usedMode' = mode /\ unseen' = FALSE
  /\ stage' = "starting"
  /\ manager' = TRUE
  /\ \E stored \in Read : Adopt(stored)
  /\ attempt' \in {"sent", "ending"}
  /\ UNCHANGED <<entry, kills, unsure, orphans, succeeded, saving, applied, store, issue,
                 registered>>

\* The watchdog starts the transport afresh.  The Firebase checkin that comes
\* before the request may fail.
WatchdogRestarts ==
  /\ stage = "loaded" /\ manager /\ attempt = "none"
  /\ succeeded' = FALSE
  /\ attempt' \in {"sent", "ending"}
  /\ UNCHANGED <<entry, history, stage, usedMode, manager, state, saving, applied,
                 store, issue, registered>>

RegisterReaches ==
  /\ attempt = "sent"
  /\ attempt' = "applied"
  /\ registered' = registered \cup {state.id}
  /\ UNCHANGED <<entry, history, stage, usedMode, manager, state, succeeded, saving,
                 applied, store, issue>>

RegisterSucceeds ==
  /\ attempt = "applied"
  /\ attempt' = "ending"
  /\ succeeded' = TRUE
  /\ state' = [state EXCEPT !.pending = FALSE]
  /\ issue' = FALSE
  /\ UNCHANGED <<entry, history, stage, usedMode, manager, saving, applied, store,
                 registered>>

RegisterFails ==
  /\ attempt \in {"sent", "applied"}
  /\ attempt' = "ending"
  /\ UNCHANGED <<entry, history, stage, usedMode, manager, state, succeeded, saving,
                 applied, store, issue, registered>>

\* However the attempt went, it ends with a save; a first attempt lets setup
\* go on.
AttemptEnds ==
  /\ attempt = "ending"
  /\ attempt' = "none"
  /\ store' \in Written(state)
  /\ stage' = IF stage = "starting" THEN "loaded" ELSE stage
  /\ UNCHANGED <<entry, history, usedMode, manager, state, succeeded, saving, applied,
                 issue, registered>>

\* The manager is dropped.
Forget ==
  /\ manager' = FALSE /\ state' = Nothing
  /\ succeeded' = FALSE /\ saving' = FALSE

\* The platforms cannot be set up: the manager is stopped, and setup fails.
PlatformsFail ==
  /\ stage = "starting" /\ attempt = "ending"
  /\ stage' = "down"
  /\ attempt' = "none"
  /\ store' \in Written(state)
  /\ unseen' = IF mode = "polling" /\ ~Tells(store') THEN TRUE ELSE unseen
  /\ Forget
  /\ UNCHANGED <<entry, kills, generated, unsure, orphans, usedMode, applied, issue,
                 registered>>

\* New Firebase credentials or a push: a save in the background.
QueueSave ==
  /\ manager /\ stage \in {"starting", "loaded"} /\ ~saving
  /\ saving' = TRUE
  /\ UNCHANGED <<entry, history, stage, usedMode, manager, state, attempt, succeeded,
                 applied, store, issue, registered>>

SaveEnds ==
  /\ saving /\ stage \in {"starting", "loaded"}
  /\ saving' = FALSE
  /\ store' \in Written(state)
  /\ UNCHANGED <<entry, history, stage, usedMode, manager, state, attempt, succeeded,
                 applied, issue, registered>>

-----------------------------------------------------------------------------
(* Unload: async_stop and, if the mode has changed, async_unregister.      *)

UnloadWithoutManager ==
  /\ stage = "loaded" /\ ~manager
  /\ stage' = "down"
  /\ UNCHANGED <<entry, history, usedMode, manager, state, attempt, succeeded, saving,
                 applied, store, issue, registered>>

\* The attempt under way is cancelled, and a last save is queued.
StopManager ==
  /\ stage = "loaded" /\ manager
  /\ stage' = "stopping"
  /\ attempt' = "none" /\ saving' = TRUE
  /\ UNCHANGED <<entry, history, usedMode, manager, state, succeeded, applied, store,
                 issue, registered>>

StoppedForGood ==
  /\ stage = "stopping" /\ mode # usedMode
  /\ stage' = "marking"
  /\ saving' = FALSE
  /\ store' \in Written(state)
  /\ state' = [state EXCEPT !.pending = TRUE]
  /\ UNCHANGED <<entry, history, usedMode, manager, attempt, succeeded, applied, issue,
                 registered>>

StoppedForNow ==
  /\ stage = "stopping" /\ mode = usedMode
  /\ stage' = "down"
  /\ store' \in Written(state)
  /\ Forget
  /\ UNCHANGED <<entry, history, usedMode, attempt, applied, issue, registered>>

\* A faulty MarkIsSaved: the mark stays in memory.
MarkIsNotSaved ==
  /\ stage = "marking"
  /\ stage' = "unregistering"
  /\ UNCHANGED <<entry, history, usedMode, manager, state, attempt, succeeded, saving,
                 applied, store, issue, registered>>

MarkIsSaved ==
  /\ stage = "marking"
  /\ stage' = "unregistering"
  /\ store' \in Written(state)
  /\ UNCHANGED <<entry, history, usedMode, manager, state, attempt, succeeded, saving,
                 applied, issue, registered>>

UnregisterSucceeds ==
  /\ stage = "unregistering" /\ applied
  /\ stage' = "down"
  /\ applied' = FALSE
  /\ store' \in Written(Nothing)
  /\ issue' = FALSE
  /\ Forget
  /\ UNCHANGED <<entry, history, usedMode, attempt, registered>>

UnregisterFails ==
  /\ stage = "unregistering"
  /\ stage' = "down"
  /\ applied' = FALSE
  /\ issue' = TRUE
  /\ Forget
  /\ UNCHANGED <<entry, history, usedMode, attempt, store, registered>>

-----------------------------------------------------------------------------
(* Removal of the unloaded entry: async_remove_stored_fcm_registration.    *)

\* A faulty RemovalStarts, which does not wait for the unload.
RemovalStartsAtOnce ==
  /\ leaving /\ stage \in {"down", "loaded"}
  /\ \E stored \in Read :
       \/ stored # Nothing /\ stage' = "removing" /\ UNCHANGED <<store, issue>>
       \/ /\ stored = Nothing
          /\ stage' = "gone"
          /\ store' \in Written(Nothing)
          /\ issue' = FALSE
  /\ UNCHANGED <<entry, history, usedMode, manager, state, attempt, succeeded, saving,
                 applied, registered>>

RemovalStarts ==
  /\ leaving /\ stage = "down"
  /\ \E stored \in Read :
       \/ stored # Nothing /\ stage' = "removing" /\ UNCHANGED <<store, issue>>
       \/ /\ stored = Nothing
          /\ stage' = "gone"
          /\ store' \in Written(Nothing)
          /\ issue' = FALSE
  /\ UNCHANGED <<entry, history, usedMode, manager, state, attempt, succeeded, saving,
                 applied, registered>>

\* Best effort: the local state goes whether or not the request succeeded.
RemovalEnds ==
  /\ stage = "removing"
  /\ stage' = "gone"
  /\ unsure' = ~applied
  /\ applied' = FALSE
  /\ store' \in Written(Nothing)
  /\ issue' = FALSE
  /\ UNCHANGED <<entry, kills, generated, unseen, orphans, usedMode, manager, state, attempt,
                 succeeded, saving, registered>>

\* The id an unregister request names.
Target == IF stage = "unregistering" THEN state.id ELSE store.id

\* An unregister request is carried out.
UnregisterReaches ==
  /\ stage \in {"cleaning", "unregistering", "removing"} /\ ~applied
  /\ applied' = TRUE
  /\ registered' = registered \ {Target}
  /\ UNCHANGED <<entry, history, stage, usedMode, manager, state, attempt, succeeded,
                 saving, store, issue>>

-----------------------------------------------------------------------------
Next ==
  \/ SwitchMode \/ AskToRemove \/ Restart
  \/ NoCleanup \/ CleanupStarts
  \/ CleanupSucceeds \/ CleanupFails
  \/ SetupWithoutConfig \/ ManagerStarts \/ WatchdogRestarts
  \/ RegisterReaches \/ RegisterSucceeds \/ RegisterFails
  \/ AttemptEnds \/ PlatformsFail
  \/ QueueSave \/ SaveEnds
  \/ UnloadWithoutManager \/ StopManager \/ StoppedForGood \/ StoppedForNow
  \/ MarkIsSaved \/ UnregisterSucceeds \/ UnregisterFails
  \/ RemovalStarts \/ RemovalEnds
  \/ UnregisterReaches

Spec == Init /\ [][Next]_vars

-----------------------------------------------------------------------------
(* Properties.                                                             *)

State == [id : Ids \cup {NoId}, pending : BOOLEAN]

FlagsTypeOK ==
  /\ leaving \in BOOLEAN /\ manager \in BOOLEAN /\ succeeded \in BOOLEAN
  /\ saving \in BOOLEAN /\ applied \in BOOLEAN /\ issue \in BOOLEAN
  /\ unsure \in BOOLEAN /\ unseen \in BOOLEAN

DataTypeOK ==
  /\ mode \in {"fcm", "polling"} /\ usedMode \in {"fcm", "polling"}
  /\ switches \in 0..MaxSwitches /\ kills \in 0..MaxKills
  /\ generated \in SUBSET Ids /\ registered \in SUBSET Ids
  /\ orphans \in SUBSET Ids
  /\ stage \in Stages
  /\ attempt \in {"none", "sent", "applied", "ending"}
  /\ state \in State /\ store \in State

TypeOK == FlagsTypeOK /\ DataTypeOK

\* What is registered and not lost in a kill between the request and the save.
Known == registered \ orphans

\* However often the entry is reloaded or killed, the transport restarted, the
\* Firebase project replaced or the mode switched to and fro, the account has one
\* device of this integration, and an orphan beside it only for a manager that was
\* killed before it had saved the id (fcm.py:359-370, 425-431).
OneDevice == \A i, j \in Known : i = j

\* While the entry exists, what is registered can be found again to remove it:
\* the store or the manager knows the id (fcm.py:345-370, 446-451, 574-610).
RegistrationIsKnown ==
  stage # "gone" => Known \subseteq {state.id, store.id}

\* An entry that polls because FCM was switched off has no registration left,
\* or the user is told of the leftover and the store remembers to remove it,
\* unless FCM was switched off where no manager saw it, or the manager that saw
\* it was killed before it had saved the mark (__init__.py:314-320, 569-584;
\* fcm.py:574-610).
LeftoversAreAnnounced ==
  stage = "loaded" /\ usedMode = "polling" =>
    Known = {} \/ (issue /\ store.pending) \/ unseen

\* What the change log says, without the exceptions, of a Home Assistant that is not
\* killed: "Added automatic unregister ... when switching from FCM to polling", and
\* "persisted a bounded cleanup retry, and added ... Repair warning" (CHANGELOG.md:97-98).
LeftoversAreNeverSilent ==
  stage = "loaded" /\ usedMode = "polling" /\ kills = 0 =>
    registered = {} \/ (issue /\ store.pending)

\* When the diagnostics say that the device is registered, it is: no cleanup
\* of an earlier mode, reload or removal takes it away (fcm.py:423-436).
SucceededMeansRegistered ==
  succeeded /\ stage \in {"starting", "loaded"} => state.id \in registered

\* A removed entry leaves a device behind only if the request to remove it
\* failed (fcm.py:162-195).
RemovalLeavesNothing == stage = "gone" => Known = {} \/ unsure

\* What other components are promised about the device: see OwnDevice.  The id
\* is the manager's, else the store's (fcm_sessions.py:142-180), and the entry
\* has the registration removed in the three places that unregister
\* (fcm.py:141-151, 178-190, 574-610).
Own == INSTANCE OwnDevice WITH
  OwnIds <- Ids,
  present <- stage # "gone",
  proven <- IF manager THEN state.id ELSE store.id,
  withUfanet <- Known,
  givingUp <- stage \in {"cleaning", "unregistering", "removing"}

ImplementsOwnDevice == Own!OwnSpec

-----------------------------------------------------------------------------
(* Why they hold while the store works: an inductive invariant.            *)

ManagerLives ==
  /\ stage \in {"starting", "stopping", "marking", "unregistering"} => manager
  /\ manager => /\ stage \in {"starting", "loaded", "stopping", "marking", "unregistering"}
                /\ usedMode = "fcm"
  /\ ~manager => state = Nothing /\ attempt = "none" /\ ~succeeded /\ ~saving
  /\ attempt # "none" => stage \in {"starting", "loaded"}
  /\ stage = "starting" => attempt # "none"
  /\ attempt = "applied" => state.id \in registered

ProperIds ==
  /\ manager => state.id \in Ids
  /\ store # Nothing => store.id \in Ids

StoreAgrees ==
  /\ manager /\ store # Nothing => store.id = state.id
  /\ stage = "cleaning" => store.pending
  /\ stage = "removing" => store # Nothing
  /\ stage = "unregistering" => store = state /\ state.pending
  /\ stage = "marking" => state.pending
  /\ stage # "gone" => Known \subseteq {IF manager THEN state.id ELSE store.id}

\* Outside an attempt the store names what is registered.
StoreIsCurrent ==
  /\ manager /\ stage = "loaded" /\ attempt = "none" /\ Known # {} => store.id = state.id
  /\ stage = "gone" => store = Nothing

\* Once nothing but the store can tell, it tells that a removal is owed.
Owed ==
  /\ ~manager /\ stage # "gone"
  /\ mode = "polling" \/ (usedMode = "polling" /\ stage \in {"cleaning", "loaded"})
  => Known = {} \/ store.pending \/ unseen

AppliedIsDone ==
  applied => stage \in {"cleaning", "unregistering", "removing"} /\ Known = {}

\* An id that was lost is never come up with again.
OrphansStayApart ==
  /\ manager => state.id \in generated \ orphans
  /\ store # Nothing => store.id \in generated \ orphans
  /\ orphans \subseteq generated

IInv ==
  /\ TypeOK
  /\ ManagerLives
  /\ ProperIds
  /\ StoreAgrees
  /\ StoreIsCurrent
  /\ Owed
  /\ AppliedIsDone
  /\ OrphansStayApart
  /\ OneDevice
  /\ LeftoversAreAnnounced
  /\ SucceededMeansRegistered
  /\ RemovalLeavesNothing
=============================================================================
