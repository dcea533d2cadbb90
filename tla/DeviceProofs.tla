---------------------------- MODULE DeviceProofs ----------------------------
(***************************************************************************)
(* Proofs about what makes Home Assistant a device of the account and about *)
(* the account's other devices.                                            *)
(*                                                                         *)
(* FcmRegistration: its types, whether the store works or not, and its     *)
(* safety properties while it does, whenever the mode is switched and      *)
(* whenever Home Assistant is killed.  IInv is the inductive invariant.    *)
(*                                                                         *)
(* AccountActions, however calls and registrations interleave: what a call *)
(* removes was asked for or confirmed, what it reports as revoked is gone, *)
(* and nobody but an entry takes away its device, unless it registered     *)
(* between the two reads of a call.  RemovalInv is the inductive invariant. *)
(*                                                                         *)
(* The invite store of AccountActions shares no state with its service     *)
(* calls: what it holds and what it has saved are the newest invitations   *)
(* it was given, less those it was told to forget.                         *)
(***************************************************************************)
EXTENDS FcmRegistration, AccountActions, FiniteSetTheorems, SequenceTheorems, TLAPS

-----------------------------------------------------------------------------
(* Types.                                                                  *)

\* No step spoils a flag.
LEMMA FlagsStayTyped ==
  ASSUME TypeOK, Next
  PROVE  FlagsTypeOK'
<1> USE DEF FlagsTypeOK, entry, history
<1>0. FlagsTypeOK
  BY DEF TypeOK
\* The user and the host.
<1>1. CASE SwitchMode
  BY <1>0, <1>1, Zenon DEF SwitchMode
<1>2. CASE AskToRemove
  BY <1>0, <1>2, Zenon DEF AskToRemove
<1>3. CASE Restart
  BY <1>0, <1>3, Zenon DEF Restart
\* Setup in polling mode.
<1>4. CASE NoCleanup
  BY <1>0, <1>4, Zenon DEF NoCleanup
<1>5. CASE CleanupStarts
  BY <1>0, <1>5, Zenon DEF CleanupStarts
<1>6. CASE CleanupSucceeds
  BY <1>0, <1>6, Zenon DEF CleanupSucceeds
<1>7. CASE CleanupFails
  BY <1>0, <1>7, Zenon DEF CleanupFails
\* Setup in fcm mode, attempts and saves.
<1>8. CASE SetupWithoutConfig
  BY <1>0, <1>8, Zenon DEF SetupWithoutConfig
<1>9. CASE ManagerStarts
  BY <1>0, <1>9, Zenon DEF ManagerStarts, Adopt
<1>10. CASE WatchdogRestarts
  BY <1>0, <1>10, Zenon DEF WatchdogRestarts
<1>11. CASE RegisterReaches
  BY <1>0, <1>11, Zenon DEF RegisterReaches
<1>12. CASE RegisterSucceeds
  BY <1>0, <1>12, Zenon DEF RegisterSucceeds
<1>13. CASE RegisterFails
  BY <1>0, <1>13, Zenon DEF RegisterFails
<1>14. CASE AttemptEnds
  BY <1>0, <1>14, Zenon DEF AttemptEnds
<1>15. CASE PlatformsFail
  BY <1>0, <1>15, Zenon DEF PlatformsFail, Forget
<1>16. CASE QueueSave
  BY <1>0, <1>16, Zenon DEF QueueSave
<1>17. CASE SaveEnds
  BY <1>0, <1>17, Zenon DEF SaveEnds
\* Unload.
<1>18. CASE UnloadWithoutManager
  BY <1>0, <1>18, Zenon DEF UnloadWithoutManager
<1>19. CASE StopManager
  BY <1>0, <1>19, Zenon DEF StopManager
<1>20. CASE StoppedForGood
  BY <1>0, <1>20, Zenon DEF StoppedForGood
<1>21. CASE StoppedForNow
  BY <1>0, <1>21, Zenon DEF StoppedForNow, Forget
<1>22. CASE MarkIsSaved
  BY <1>0, <1>22, Zenon DEF MarkIsSaved
<1>23. CASE UnregisterSucceeds
  BY <1>0, <1>23, Zenon DEF UnregisterSucceeds, Forget
<1>24. CASE UnregisterFails
  BY <1>0, <1>24, Zenon DEF UnregisterFails, Forget
\* Removal.
<1>25. CASE RemovalStarts
  BY <1>0, <1>25, Zenon DEF RemovalStarts
<1>26. CASE RemovalEnds
  BY <1>0, <1>26, Zenon DEF RemovalEnds
<1>27. CASE UnregisterReaches
  BY <1>0, <1>27, Zenon DEF UnregisterReaches
<1> QED
  BY <1>1, <1>2, <1>3, <1>4, <1>5, <1>6, <1>7, <1>8, <1>9, <1>10,
         <1>11, <1>12, <1>13, <1>14, <1>15, <1>16, <1>17, <1>18, <1>19, <1>20,
         <1>21, <1>22, <1>23, <1>24, <1>25, <1>26, <1>27 DEF Next

\* States are built and changed within their type.
LEMMA StateFacts ==
  /\ Nothing \in State
  /\ \A i \in Ids : [id |-> i, pending |-> FALSE] \in State
  /\ \A s \in State : /\ [s EXCEPT !.pending = FALSE] \in State
                      /\ [s EXCEPT !.pending = TRUE] \in State
BY DEF Nothing, State

\* No step spoils the rest of the state.
LEMMA DataStaysTyped ==
  ASSUME TypeOK, ManagerLives, ProperIds, Next
  PROVE  DataTypeOK'
<1> USE BoundsAssumption, StateFacts DEF DataTypeOK, Stages, entry, history
<1>0. DataTypeOK
  BY DEF TypeOK
\* The user and the host.
<1>1. CASE SwitchMode
  BY <1>0, <1>1 DEF SwitchMode
<1>2. CASE AskToRemove
  BY <1>0, <1>2 DEF AskToRemove
<1>3. CASE Restart
  BY <1>0, <1>3 DEF Restart
\* Setup in polling mode.
<1>4. CASE NoCleanup
  BY <1>0, <1>4 DEF NoCleanup, SetUpOrRetry
<1>5. CASE CleanupStarts
  BY <1>0, <1>5 DEF CleanupStarts
<1>6. CASE CleanupSucceeds
  BY <1>0, <1>6 DEF CleanupSucceeds, SetUpOrRetry, Written
<1>7. CASE CleanupFails
  BY <1>0, <1>7 DEF CleanupFails, SetUpOrRetry
\* Setup in fcm mode, attempts and saves.
<1>8. CASE SetupWithoutConfig
  BY <1>0, <1>8 DEF SetupWithoutConfig
<1>9. CASE ManagerStarts
  BY <1>0, <1>9 DEF ManagerStarts, Read, Adopt
<1>10. CASE WatchdogRestarts
  BY <1>0, <1>10 DEF WatchdogRestarts
<1>11. CASE RegisterReaches
  BY <1>0, <1>11 DEF RegisterReaches, ManagerLives, ProperIds
<1>12. CASE RegisterSucceeds
  BY <1>0, <1>12 DEF RegisterSucceeds
<1>13. CASE RegisterFails
  BY <1>0, <1>13 DEF RegisterFails
<1>14. CASE AttemptEnds
  BY <1>0, <1>14 DEF AttemptEnds, Written
<1>15. CASE PlatformsFail
  BY <1>0, <1>15 DEF PlatformsFail, Written, Forget
<1>16. CASE QueueSave
  BY <1>0, <1>16 DEF QueueSave
<1>17. CASE SaveEnds
  BY <1>0, <1>17 DEF SaveEnds, Written
\* Unload.
<1>18. CASE UnloadWithoutManager
  BY <1>0, <1>18 DEF UnloadWithoutManager
<1>19. CASE StopManager
  BY <1>0, <1>19 DEF StopManager
<1>20. CASE StoppedForGood
  BY <1>0, <1>20 DEF StoppedForGood, Written
<1>21. CASE StoppedForNow
  BY <1>0, <1>21 DEF StoppedForNow, Written, Forget
<1>22. CASE MarkIsSaved
  BY <1>0, <1>22 DEF MarkIsSaved, Written
<1>23. CASE UnregisterSucceeds
  BY <1>0, <1>23 DEF UnregisterSucceeds, Written, Forget
<1>24. CASE UnregisterFails
  BY <1>0, <1>24 DEF UnregisterFails, Forget
\* Removal.
<1>25. CASE RemovalStarts
  BY <1>0, <1>25 DEF RemovalStarts, Read, Written
<1>26. CASE RemovalEnds
  BY <1>0, <1>26 DEF RemovalEnds, Written
<1>27. CASE UnregisterReaches
  BY <1>0, <1>27 DEF UnregisterReaches, Target
<1> QED
  BY <1>1, <1>2, <1>3, <1>4, <1>5, <1>6, <1>7, <1>8, <1>9, <1>10,
         <1>11, <1>12, <1>13, <1>14, <1>15, <1>16, <1>17, <1>18, <1>19, <1>20,
         <1>21, <1>22, <1>23, <1>24, <1>25, <1>26, <1>27 DEF Next

\* No step leaves a manager, an attempt or an id where it does not belong.
LEMMA ManagersStayInPlace ==
  ASSUME TypeOK, ManagerLives, ProperIds, Next
  PROVE  ManagerLives' /\ ProperIds'
<1> USE IdsAssumption DEF ManagerLives, ProperIds, Nothing, entry, history
<1>0. DataTypeOK /\ State = [id : Ids \cup {NoId}, pending : BOOLEAN]
  BY DEF TypeOK, State
<1> USE DEF DataTypeOK, Stages
\* The user and the host.
<1>1. CASE SwitchMode
  BY <1>0, <1>1 DEF SwitchMode
<1>2. CASE AskToRemove
  BY <1>0, <1>2 DEF AskToRemove
<1>3. CASE Restart
  BY <1>0, <1>3 DEF Restart
\* Setup in polling mode.
<1>4. CASE NoCleanup
  BY <1>0, <1>4 DEF NoCleanup, SetUpOrRetry
<1>5. CASE CleanupStarts
  BY <1>0, <1>5 DEF CleanupStarts
<1>6. CASE CleanupSucceeds
  BY <1>0, <1>6 DEF CleanupSucceeds, SetUpOrRetry, Written
<1>7. CASE CleanupFails
  BY <1>0, <1>7 DEF CleanupFails, SetUpOrRetry
\* Setup in fcm mode, attempts and saves.
<1>8. CASE SetupWithoutConfig
  BY <1>0, <1>8 DEF SetupWithoutConfig
<1>9. CASE ManagerStarts
  BY <1>0, <1>9 DEF ManagerStarts, Read, Adopt
<1>10. CASE WatchdogRestarts
  BY <1>0, <1>10 DEF WatchdogRestarts
<1>11. CASE RegisterReaches
  BY <1>0, <1>11 DEF RegisterReaches
<1>12. CASE RegisterSucceeds
  BY <1>0, <1>12 DEF RegisterSucceeds
<1>13. CASE RegisterFails
  BY <1>0, <1>13 DEF RegisterFails
<1>14. CASE AttemptEnds
  BY <1>0, <1>14 DEF AttemptEnds, Written
<1>15. CASE PlatformsFail
  BY <1>0, <1>15 DEF PlatformsFail, Written, Forget
<1>16. CASE QueueSave
  BY <1>0, <1>16 DEF QueueSave
<1>17. CASE SaveEnds
  BY <1>0, <1>17 DEF SaveEnds, Written
\* Unload.
<1>18. CASE UnloadWithoutManager
  BY <1>0, <1>18 DEF UnloadWithoutManager
<1>19. CASE StopManager
  BY <1>0, <1>19 DEF StopManager
<1>20. CASE StoppedForGood
  BY <1>0, <1>20 DEF StoppedForGood, Written
<1>21. CASE StoppedForNow
  BY <1>0, <1>21 DEF StoppedForNow, Written, Forget
<1>22. CASE MarkIsSaved
  BY <1>0, <1>22 DEF MarkIsSaved, Written
<1>23. CASE UnregisterSucceeds
  BY <1>0, <1>23 DEF UnregisterSucceeds, Written, Forget
<1>24. CASE UnregisterFails
  BY <1>0, <1>24 DEF UnregisterFails, Forget
\* Removal.
<1>25. CASE RemovalStarts
  BY <1>0, <1>25 DEF RemovalStarts, Read, Written
<1>26. CASE RemovalEnds
  BY <1>0, <1>26 DEF RemovalEnds, Written
<1>27. CASE UnregisterReaches
  BY <1>0, <1>27 DEF UnregisterReaches, Target
<1> QED
  BY <1>1, <1>2, <1>3, <1>4, <1>5, <1>6, <1>7, <1>8, <1>9, <1>10,
         <1>11, <1>12, <1>13, <1>14, <1>15, <1>16, <1>17, <1>18, <1>19, <1>20,
         <1>21, <1>22, <1>23, <1>24, <1>25, <1>26, <1>27 DEF Next

\* Every variable of the registration model keeps its type, whatever the user,
\* the host and the store do (fcm.py:189-569).
THEOREM FcmTypesCorrect == Spec => []TypeOK
<1> DEFINE Typed == TypeOK /\ ManagerLives /\ ProperIds
<1>1. Init => Typed
  <2> SUFFICES ASSUME Init PROVE Typed
    OBVIOUS
  <2>1. FlagsTypeOK
    BY DEF Init, FlagsTypeOK
  <2>2. DataTypeOK
    BY BoundsAssumption, StateFacts DEF Init, DataTypeOK, Stages
  <2> QED
    BY <2>1, <2>2 DEF Init, TypeOK, ManagerLives, ProperIds
<1>2. Typed /\ [Next]_vars => Typed'
  <2> SUFFICES ASSUME Typed, [Next]_vars PROVE Typed'
    OBVIOUS
  <2>1. CASE Next
    BY <2>1, FlagsStayTyped, DataStaysTyped, ManagersStayInPlace DEF TypeOK
  <2>2. CASE UNCHANGED vars
    BY <2>2 DEF vars, TypeOK, FlagsTypeOK, DataTypeOK, ManagerLives, ProperIds
  <2> QED
    BY <2>1, <2>2
<1> QED
  BY <1>1, <1>2, PTL DEF Spec

-----------------------------------------------------------------------------
(* Safety.                                                                 *)

\* What the store, the manager and the provider know stays in agreement.
LEMMA StoreStaysHonest ==
  ASSUME ~StoreFails, IInv, Next
  PROVE  /\ StoreAgrees' /\ StoreIsCurrent' /\ Owed' /\ AppliedIsDone' /\ OrphansStayApart'
         /\ OneDevice' /\ LeftoversAreAnnounced' /\ SucceededMeansRegistered'
         /\ RemovalLeavesNothing'
<1>0. DataTypeOK /\ State = [id : Ids \cup {NoId}, pending : BOOLEAN]
  BY DEF IInv, TypeOK, State
<1> USE IdsAssumption DEF IInv, ManagerLives, ProperIds, StoreAgrees, StoreIsCurrent, Owed,
        Known, Tells, AppliedIsDone, OrphansStayApart, OneDevice, LeftoversAreAnnounced, SucceededMeansRegistered,
        RemovalLeavesNothing, Nothing, DataTypeOK, Stages, entry, history
\* The user and the host.
<1>1. CASE SwitchMode
  BY <1>0, <1>1 DEF SwitchMode
<1>2. CASE AskToRemove
  BY <1>0, <1>2 DEF AskToRemove
<1>3. CASE Restart
  BY <1>0, <1>3 DEF Restart
\* Setup in polling mode.
<1>4. CASE NoCleanup
  BY <1>0, <1>4 DEF NoCleanup, SetUpOrRetry
<1>5. CASE CleanupStarts
  BY <1>0, <1>5 DEF CleanupStarts
<1>6. CASE CleanupSucceeds
  BY <1>0, <1>6 DEF CleanupSucceeds, SetUpOrRetry, Written
<1>7. CASE CleanupFails
  BY <1>0, <1>7 DEF CleanupFails, SetUpOrRetry
\* Setup in fcm mode, attempts and saves.
<1>8. CASE SetupWithoutConfig
  BY <1>0, <1>8 DEF SetupWithoutConfig
<1>9. CASE ManagerStarts
  BY <1>0, <1>9 DEF ManagerStarts, Read, Adopt
<1>10. CASE WatchdogRestarts
  BY <1>0, <1>10 DEF WatchdogRestarts
<1>11. CASE RegisterReaches
  BY <1>0, <1>11 DEF RegisterReaches
<1>12. CASE RegisterSucceeds
  BY <1>0, <1>12 DEF RegisterSucceeds
<1>13. CASE RegisterFails
  BY <1>0, <1>13 DEF RegisterFails
<1>14. CASE AttemptEnds
  BY <1>0, <1>14 DEF AttemptEnds, Written
<1>15. CASE PlatformsFail
  BY <1>0, <1>15 DEF PlatformsFail, Written, Forget
<1>16. CASE QueueSave
  BY <1>0, <1>16 DEF QueueSave
<1>17. CASE SaveEnds
  BY <1>0, <1>17 DEF SaveEnds, Written
\* Unload.
<1>18. CASE UnloadWithoutManager
  BY <1>0, <1>18 DEF UnloadWithoutManager
<1>19. CASE StopManager
  BY <1>0, <1>19 DEF StopManager
<1>20. CASE StoppedForGood
  BY <1>0, <1>20 DEF StoppedForGood, Written
<1>21. CASE StoppedForNow
  BY <1>0, <1>21 DEF StoppedForNow, Written, Forget
<1>22. CASE MarkIsSaved
  BY <1>0, <1>22 DEF MarkIsSaved, Written
<1>23. CASE UnregisterSucceeds
  BY <1>0, <1>23 DEF UnregisterSucceeds, Written, Forget
<1>24. CASE UnregisterFails
  BY <1>0, <1>24 DEF UnregisterFails, Forget
\* Removal.
<1>25. CASE RemovalStarts
  BY <1>0, <1>25 DEF RemovalStarts, Read, Written
<1>26. CASE RemovalEnds
  BY <1>0, <1>26 DEF RemovalEnds, Written
<1>27. CASE UnregisterReaches
  BY <1>0, <1>27 DEF UnregisterReaches, Target
<1> QED
  BY <1>1, <1>2, <1>3, <1>4, <1>5, <1>6, <1>7, <1>8, <1>9, <1>10,
         <1>11, <1>12, <1>13, <1>14, <1>15, <1>16, <1>17, <1>18, <1>19, <1>20,
         <1>21, <1>22, <1>23, <1>24, <1>25, <1>26, <1>27 DEF Next

\* IInv is an invariant of the system whose store works.
LEMMA RegistrationInvariant == ~StoreFails => (Spec => []IInv)
<1> SUFFICES ASSUME ~StoreFails PROVE Spec => []IInv
  OBVIOUS
<1>1. Init => IInv
  <2> SUFFICES ASSUME Init PROVE IInv
    OBVIOUS
  <2>1. FlagsTypeOK
    BY DEF Init, FlagsTypeOK
  <2>2. DataTypeOK
    BY BoundsAssumption, StateFacts DEF Init, DataTypeOK, Stages
  <2> QED
    BY <2>1, <2>2 DEF Init, IInv, TypeOK, ManagerLives, ProperIds, StoreAgrees,
       StoreIsCurrent, Known, Owed, AppliedIsDone, OrphansStayApart, OneDevice, LeftoversAreAnnounced,
       SucceededMeansRegistered, RemovalLeavesNothing
<1>2. IInv /\ [Next]_vars => IInv'
  <2> SUFFICES ASSUME IInv, [Next]_vars PROVE IInv'
    OBVIOUS
  <2>1. CASE Next
    <3>1. TypeOK' /\ ManagerLives' /\ ProperIds'
      BY <2>1, FlagsStayTyped, DataStaysTyped, ManagersStayInPlace DEF IInv, TypeOK
    <3> QED
      BY <2>1, <3>1, StoreStaysHonest DEF IInv
  <2>2. CASE UNCHANGED vars
    BY <2>2 DEF vars, IInv, TypeOK, FlagsTypeOK, DataTypeOK, ManagerLives, ProperIds,
       StoreAgrees, StoreIsCurrent, Known, Owed, AppliedIsDone, OrphansStayApart, OneDevice, LeftoversAreAnnounced,
       SucceededMeansRegistered, RemovalLeavesNothing
  <2> QED
    BY <2>1, <2>2
<1> QED
  BY <1>1, <1>2, PTL DEF Spec

\* Reloads, restarts, restarts of the transport, new Firebase projects and mode
\* switches never leave the account with two devices of this integration
\* (fcm.py:359-370, 425-431).
THEOREM OneDeviceOnly == ~StoreFails => (Spec => []OneDevice)
<1> SUFFICES ASSUME ~StoreFails PROVE Spec => []OneDevice
  OBVIOUS
<1>1. IInv => OneDevice
  BY DEF IInv
<1> QED
  BY <1>1, RegistrationInvariant, PTL

\* While the store works, switching FCM off leaves no registration behind that nobody
\* will remove and the user is not told of, unless no manager was there to see it, or the
\* one that was died before its mark was saved (__init__.py:314-320, 569-584).
THEOREM LeftoversAreKept ==
  ~StoreFails => (Spec => [](RegistrationIsKnown /\ LeftoversAreAnnounced))
<1> SUFFICES ASSUME ~StoreFails
             PROVE  Spec => [](RegistrationIsKnown /\ LeftoversAreAnnounced)
  OBVIOUS
<1>1. IInv => RegistrationIsKnown /\ LeftoversAreAnnounced
  BY DEF IInv, StoreAgrees, ManagerLives, RegistrationIsKnown
<1> QED
  BY <1>1, RegistrationInvariant, PTL

\* A removed entry leaves a device behind only if the request to remove it
\* failed, and a device that counts as registered is (fcm.py:162-195, 423-436).
THEOREM RemovalIsThorough ==
  ~StoreFails => (Spec => [](RemovalLeavesNothing /\ SucceededMeansRegistered))
<1> SUFFICES ASSUME ~StoreFails
             PROVE  Spec => [](RemovalLeavesNothing /\ SucceededMeansRegistered)
  OBVIOUS
<1>1. IInv => RemovalLeavesNothing /\ SucceededMeansRegistered
  BY DEF IInv
<1> QED
  BY <1>1, RegistrationInvariant, PTL

-----------------------------------------------------------------------------
(* The refinement of OwnDevice.                                            *)

\* Every step leaves the four things OwnDevice speaks of alone, or is one of its steps.
LEMMA OwnStep ==
  ASSUME ~StoreFails, IInv, Next
  PROVE  Own!OwnNext \/ UNCHANGED Own!ownVars
<1> DEFINE named == IF manager THEN state.id ELSE store.id
           givingUp == stage \in {"cleaning", "unregistering", "removing"}
           Keep == UNCHANGED <<named, Known, givingUp, stage # "gone">>
           Name == /\ stage # "gone" /\ stage' # "gone"
                   /\ Known = {} /\ Known' = {}
                   /\ named' \in Ids \cup {NoId}
           Register == /\ stage # "gone" /\ stage' # "gone"
                       /\ named # NoId /\ Known' = {named}
                       /\ named' = named /\ givingUp' = givingUp
           Decide == /\ stage # "gone" /\ stage' # "gone"
                     /\ named' = named /\ Known' = Known
           Withdraw == /\ stage # "gone" /\ stage' # "gone" /\ givingUp
                       /\ Known' = {}
                       /\ named' = named /\ givingUp' = givingUp
           Leave == /\ stage # "gone" /\ stage' = "gone"
                    /\ named' = NoId /\ Known' = Known
           Lose == /\ stage # "gone" /\ stage' = "down"
                   /\ named' = NoId /\ Known' = {}
<1> HIDE DEF Keep, Name, Register, Decide, Withdraw, Leave, Lose
<1>0. DataTypeOK /\ State = [id : Ids \cup {NoId}, pending : BOOLEAN]
  BY DEF IInv, TypeOK, State
<1>1. Keep \/ Name \/ Register \/ Decide \/ Withdraw \/ Leave \/ Lose
  <2> USE IdsAssumption DEF IInv, ManagerLives, ProperIds, StoreAgrees, StoreIsCurrent, Known,
          OrphansStayApart, AppliedIsDone, Nothing, DataTypeOK, Stages, entry, history
  \* The user and the host.
  <2>1. CASE SwitchMode
    BY <1>0, <2>1 DEF SwitchMode, Keep
  <2>2. CASE AskToRemove
    BY <1>0, <2>2 DEF AskToRemove, Keep
  <2>3. CASE Restart
    <3>1. CASE store.id = named
      BY <1>0, <2>3, <3>1 DEF Restart, Decide
    <3>2. CASE store.id # named
      <4>1. manager /\ store = Nothing
        BY <1>0, <3>2
      <4> QED
        BY <1>0, <2>3, <4>1 DEF Restart, Lose
    <3> QED
      BY <3>1, <3>2
  \* Setup in polling mode.
  <2>4. CASE NoCleanup
    BY <1>0, <2>4 DEF NoCleanup, SetUpOrRetry, Keep
  <2>5. CASE CleanupStarts
    BY <1>0, <2>5 DEF CleanupStarts, Decide
  <2>6. CASE CleanupSucceeds
    BY <1>0, <2>6 DEF CleanupSucceeds, SetUpOrRetry, Written, Name
  <2>7. CASE CleanupFails
    BY <1>0, <2>7 DEF CleanupFails, SetUpOrRetry, Decide
  \* Setup in fcm mode, attempts and saves.
  <2>8. CASE SetupWithoutConfig
    BY <1>0, <2>8 DEF SetupWithoutConfig, Keep
  <2>9. CASE ManagerStarts
    BY <1>0, <2>9 DEF ManagerStarts, Read, Adopt, Name, Keep
  <2>10. CASE WatchdogRestarts
    BY <1>0, <2>10 DEF WatchdogRestarts, Keep
  <2>11. CASE RegisterReaches
    BY <1>0, <2>11 DEF RegisterReaches, Register
  <2>12. CASE RegisterSucceeds
    BY <1>0, <2>12 DEF RegisterSucceeds, Keep
  <2>13. CASE RegisterFails
    BY <1>0, <2>13 DEF RegisterFails, Keep
  <2>14. CASE AttemptEnds
    BY <1>0, <2>14 DEF AttemptEnds, Written, Keep
  <2>15. CASE PlatformsFail
    BY <1>0, <2>15 DEF PlatformsFail, Written, Forget, Keep
  <2>16. CASE QueueSave
    BY <1>0, <2>16 DEF QueueSave, Keep
  <2>17. CASE SaveEnds
    BY <1>0, <2>17 DEF SaveEnds, Written, Keep
  \* Unload.
  <2>18. CASE UnloadWithoutManager
    BY <1>0, <2>18 DEF UnloadWithoutManager, Keep
  <2>19. CASE StopManager
    BY <1>0, <2>19 DEF StopManager, Keep
  <2>20. CASE StoppedForGood
    BY <1>0, <2>20 DEF StoppedForGood, Written, Keep
  <2>21. CASE StoppedForNow
    BY <1>0, <2>21 DEF StoppedForNow, Written, Forget, Keep
  <2>22. CASE MarkIsSaved
    BY <1>0, <2>22 DEF MarkIsSaved, Written, Decide
  <2>23. CASE UnregisterSucceeds
    BY <1>0, <2>23 DEF UnregisterSucceeds, Written, Forget, Name
  <2>24. CASE UnregisterFails
    BY <1>0, <2>24 DEF UnregisterFails, Forget, Decide
  \* Removal.
  <2>25. CASE RemovalStarts
    BY <1>0, <2>25 DEF RemovalStarts, Read, Written, Decide, Leave
  <2>26. CASE RemovalEnds
    BY <1>0, <2>26 DEF RemovalEnds, Written, Leave
  <2>27. CASE UnregisterReaches
    BY <1>0, <2>27 DEF UnregisterReaches, Target, Withdraw
  <2> QED
    BY <2>1, <2>2, <2>3, <2>4, <2>5, <2>6, <2>7, <2>8, <2>9, <2>10,
       <2>11, <2>12, <2>13, <2>14, <2>15, <2>16, <2>17, <2>18, <2>19, <2>20,
       <2>21, <2>22, <2>23, <2>24, <2>25, <2>26, <2>27 DEF Next
<1>2. Keep => UNCHANGED Own!ownVars
  BY DEF Keep, Own!ownVars
<1>3. Name => Own!Name
  BY DEF Name, Own!Name
<1>4. Register => Own!Register
  BY DEF Register, Own!Register
<1>5. Decide => Own!Decide
  BY DEF Decide, Own!Decide
<1>6. Withdraw => Own!Withdraw
  BY DEF Withdraw, Own!Withdraw
<1>7. Leave => Own!Leave
  BY DEF Leave, Own!Leave
<1>8. Lose => Own!Lose
  BY DEF Lose, Own!Lose
<1> QED
  BY <1>1, <1>2, <1>3, <1>4, <1>5, <1>6, <1>7, <1>8 DEF Own!OwnNext

\* What the entry does with its registration is what OwnDevice promises the rest of the
\* account: the id is named, by the manager or the store, for as long as the device is
\* registered, and only the entry withdraws it (fcm.py:141-195, 345-370, 574-610;
\* fcm_sessions.py:142-180).
THEOREM OwnDeviceIsImplemented == ~StoreFails => (Spec => ImplementsOwnDevice)
<1> SUFFICES ASSUME ~StoreFails PROVE Spec => ImplementsOwnDevice
  OBVIOUS
<1>1. Init => Own!OwnInit
  BY DEF Init, Known, Own!OwnInit, Nothing
<1>2. IInv /\ [Next]_vars => [Own!OwnNext]_(Own!ownVars)
  <2> SUFFICES ASSUME IInv, [Next]_vars
               PROVE  Own!OwnNext \/ UNCHANGED Own!ownVars
    OBVIOUS
  <2>1. CASE Next
    BY <2>1, OwnStep
  <2>2. CASE UNCHANGED vars
    BY <2>2 DEF vars, Known, Own!ownVars
  <2> QED
    BY <2>1, <2>2
<1> QED
  BY <1>1, <1>2, RegistrationInvariant, PTL DEF Spec, ImplementsOwnDevice, Own!OwnSpec

-----------------------------------------------------------------------------
(* The devices and sessions of the account.                                *)

LEMMA PhonesAreCounted == IsFiniteSet(Phones) /\ Cardinality(Phones) \in Nat
<1>1. Phones \subseteq Items
  BY DEF Items, Devices
<1>2. IsFiniteSet(Phones)
  BY <1>1, ItemsAssumption, FS_Subset
<1> QED
  BY <1>2, FS_CardinalityType

LEMMA HandlersHandleItems ==
  \A h \in Handlers : h.class \subseteq Items \cup Invites
  BY DEF Handlers, ListFcmSessions, RevokeFcmSession, RevokeOtherFcmSessions,
         ListAuthorizedDevices, RevokeAuthorizedDevice, RevokeOtherAuthorizedDevices,
         ListFcmRegistrations, UnregisterFcmRegistration, UnregisterOtherFcmRegistrations,
         GetGuestAccess, CreateTemporaryGuestLink, RevokeTemporaryGuestLink,
         RevokeSharedAccess, CreateGuestInvite, ForgetGuestInvite, Items

LEMMA TypeIdle == Idle \in CallRecord
  BY PhonesAreCounted DEF Idle, CallRecord, Handlers


-----------------------------------------------------------------------------
(* Types.                                                                  *)

\* How a call ends keeps its type.
LEMMA TypeEnds ==
  ASSUME CallsTypeOK, NEW c \in Calls,
         NEW result \in {"refused", "listed", "failed", "answered", "revoked", "unverified",
                         "saved"},
         Ends(c, result)
  PROVE  call' \in [Calls -> CallRecord]
<1>1. call \in [Calls -> CallRecord]
  BY DEF CallsTypeOK
<1>2. [Idle EXCEPT !.pc = "done", !.result = result] \in CallRecord
  BY TypeIdle DEF CallRecord
<1>3. [call[c] EXCEPT !.pc = "done", !.result = result,
                      !.unread = {}, !.spared = {}, !.todo = {}] \in CallRecord
  BY <1>1 DEF CallRecord
<1> QED
  BY <1>1, <1>2, <1>3 DEF Ends

\* What comes back keeps the type of the history.
LEMMA TypeCameBack ==
  ASSUME CallsTypeOK, NEW items \in SUBSET Items, CameBack(items)
  PROVE  back' \in [Calls -> SUBSET Items]
  BY DEF CallsTypeOK, CameBack

\* A call that starts has everything to do: it reads the owners before it lists devices.
LEMMA CallStarts ==
  ASSUME NEW c \in Calls, Call(c)
  PROVE  \E r \in CallRecord :
           /\ call' = [call EXCEPT ![c] = r]
           /\ r.todo = {} /\ r.targets = {} /\ r.result = "none"
           /\ r.pc \in {"owners", "list", "create", "invite", "forget"}
           /\ r.pc = "owners" => r.do.class = Devices
           /\ r.pc = "list" => r.do.class # Devices
           /\ r.unread = IF r.do.class = Devices THEN Entries ELSE {}
<1>1. PICK h \in Handlers :
        \E at \in IF h.class = Devices THEN {Account} ELSE {ScopeOf[i] : i \in DOMAIN ScopeOf},
           ref \in IF h.act \in {"one", "forget"} THEN h.class ELSE {NoDevice},
           n \in IF h.act = "others" THEN 1..Cardinality(Phones) ELSE {0} :
          /\ ref \in OwnIds => ref \in remote
          /\ call' = [call EXCEPT ![c] =
               [Idle EXCEPT !.do = h, !.at = at, !.ref = ref, !.count = n,
                            !.unread = IF h.class = Devices THEN Entries ELSE {},
                            !.pc = CASE h.class = Devices -> "owners"
                                     [] h.act \in {"create", "invite", "forget"} -> h.act
                                     [] OTHER -> "list"]]
  BY DEF Call
<1> DEFINE unread == IF h.class = Devices THEN Entries ELSE {}
           pc == CASE h.class = Devices -> "owners"
                   [] h.act \in {"create", "invite", "forget"} -> h.act
                   [] OTHER -> "list"
<1>2. PICK at \in IF h.class = Devices THEN {Account} ELSE {ScopeOf[i] : i \in DOMAIN ScopeOf},
           ref \in IF h.act \in {"one", "forget"} THEN h.class ELSE {NoDevice},
           n \in IF h.act = "others" THEN 1..Cardinality(Phones) ELSE {0} :
          /\ ref \in OwnIds => ref \in remote
          /\ call' = [call EXCEPT ![c] = [Idle EXCEPT !.do = h, !.at = at, !.ref = ref,
                                            !.count = n, !.unread = unread, !.pc = pc]]
  BY <1>1
<1>3. /\ at \in {Account} \cup {ScopeOf[i] : i \in DOMAIN ScopeOf}
      /\ ref \in Items \cup Invites \cup {NoDevice}
  BY <1>2, HandlersHandleItems
<1>4. n \in 0..Cardinality(Phones)
  BY <1>2, PhonesAreCounted
<1>5. unread \in SUBSET Entries /\ pc \in {"owners", "create", "invite", "forget", "list"}
  OBVIOUS
<1>6. /\ unread = IF h.class = Devices THEN Entries ELSE {}
      /\ pc = "owners" => h.class = Devices
      /\ pc = "list" => h.class # Devices
  OBVIOUS
<1> HIDE DEF unread, pc
<1> DEFINE r == [Idle EXCEPT !.do = h, !.at = at, !.ref = ref,
                             !.count = n, !.unread = unread, !.pc = pc]
<1>7. r \in CallRecord
  BY <1>3, <1>4, <1>5, TypeIdle DEF CallRecord
<1>8. /\ r.todo = {} /\ r.targets = {} /\ r.result = "none"
      /\ r.do = h /\ r.pc = pc /\ r.unread = unread
  BY DEF Idle
<1> QED
  BY <1>2, <1>5, <1>6, <1>7, <1>8

\* A service call keeps the types.
LEMMA TypeServe ==
  ASSUME CallsTypeOK, NEW c \in Calls, Serve(c)
  PROVE  CallsTypeOK'
<1>0. call \in [Calls -> CallRecord] /\ removed \in [Calls -> SUBSET Items]
  BY DEF CallsTypeOK
<1>1. CASE Call(c)
  <2>1. PICK r \in CallRecord : call' = [call EXCEPT ![c] = r]
    BY <1>1, CallStarts
  <2> QED
    BY <1>0, <1>1, <2>1 DEF Call, CallsTypeOK, own, accountHistory
<1>2. CASE ReadOwner(c)
  <2>1. PICK e \in call[c].unread :
          call' = [call EXCEPT ![c] = [call[c] EXCEPT
            !.unread = call[c].unread \ {e},
            !.spared = call[c].spared \cup ({proven[e]} \ {NoDevice}),
            !.pc = IF call[c].unread = {e} THEN "list" ELSE "owners"]]
    BY <1>0, <1>2 DEF ReadOwner
  <2>2. e \in Entries /\ {proven[e]} \ {NoDevice} \subseteq OwnIds
    BY <1>0, <2>1 DEF CallsTypeOK, CallRecord
  <2>3. [call[c] EXCEPT
           !.unread = call[c].unread \ {e},
           !.spared = call[c].spared \cup ({proven[e]} \ {NoDevice}),
           !.pc = IF call[c].unread = {e} THEN "list" ELSE "owners"] \in CallRecord
    BY <1>0, <2>2 DEF CallRecord
  <2>4. call' \in [Calls -> CallRecord]
    BY <1>0, <2>1, <2>3
  <2> QED
    BY <1>2, <2>4 DEF ReadOwner, CallsTypeOK, own, accountHistory
<1>3. CASE IsRefused(c)
  BY <1>3, TypeEnds DEF IsRefused, CallsTypeOK, own, accountHistory
<1>4. CASE Listed(c)
  <2>1. Chosen(c) \subseteq Items
    BY DEF Chosen, Free, CallsTypeOK
  <2>2. CASE Chosen(c) = {}
    BY <1>4, <2>2, TypeEnds DEF Listed, CallsTypeOK, own, accountHistory
  <2>3. CASE Chosen(c) # {}
    <3>1. [call[c] EXCEPT !.targets = Chosen(c), !.todo = Chosen(c), !.pc = "remove"]
            \in CallRecord
      BY <1>0, <2>1 DEF CallRecord
    <3>2. call' = [call EXCEPT ![c] = [call[c] EXCEPT !.targets = Chosen(c),
                                         !.todo = Chosen(c), !.pc = "remove"]]
      BY <1>0, <1>4, <2>3 DEF Listed
    <3> QED
      BY <1>0, <1>4, <3>1, <3>2 DEF Listed, CallsTypeOK, own, accountHistory
  <2> QED
    BY <2>2, <2>3
<1>5. CASE Ask(c)
  <2>1. PICK i \in call[c].todo :
          /\ \/ /\ remote' = remote \ {i}
                /\ removed' = [removed EXCEPT ![c] = @ \cup {i}]
             \/ UNCHANGED <<remote, removed>>
          /\ call' = [call EXCEPT ![c] = [call[c] EXCEPT
               !.todo = call[c].todo \ {i},
               !.pc = IF call[c].todo = {i} THEN "verify" ELSE call[c].pc]]
    BY <1>0, <1>5 DEF Ask
  <2>2. i \in Items
    BY <1>0, <2>1 DEF CallRecord
  <2>3. call' \in [Calls -> CallRecord]
    <3>1. [call[c] EXCEPT
             !.todo = call[c].todo \ {i},
             !.pc = IF call[c].todo = {i} THEN "verify" ELSE call[c].pc] \in CallRecord
      BY <1>0 DEF CallRecord
    <3> QED
      BY <1>0, <2>1, <3>1
  <2>4. removed' \in [Calls -> SUBSET Items] /\ remote' \subseteq Items
    BY <1>0, <2>1, <2>2 DEF CallsTypeOK
  <2> QED
    BY <1>5, <2>3, <2>4 DEF Ask, CallsTypeOK, own
<1>6. CASE AskFails(c)
  <2>1. PICK i \in call[c].todo :
          \/ /\ remote' = remote \ {i}
             /\ removed' = [removed EXCEPT ![c] = @ \cup {i}]
          \/ UNCHANGED <<remote, removed>>
    BY <1>6 DEF AskFails
  <2>2. i \in Items
    BY <1>0, <2>1 DEF CallRecord
  <2>3. removed' \in [Calls -> SUBSET Items] /\ remote' \subseteq Items
    BY <1>0, <2>1, <2>2 DEF CallsTypeOK
  <2>4. call' \in [Calls -> CallRecord]
    BY <1>6, TypeEnds DEF AskFails
  <2> QED
    BY <1>6, <2>3, <2>4 DEF AskFails, CallsTypeOK, own
<1>7. CASE Verify(c)
  <2>1. call' \in [Calls -> CallRecord]
    BY <1>7, TypeEnds DEF Verify
  <2> QED
    BY <1>7, <2>1 DEF Verify, CallsTypeOK, own, accountHistory
<1>8. CASE CreateLink(c)
  <2>1. call' \in [Calls -> CallRecord]
    BY <1>8, TypeEnds DEF CreateLink
  <2>2. remote' \subseteq Items /\ back' \in [Calls -> SUBSET Items]
    <3>1. CASE UNCHANGED <<remote, back>>
      BY <3>1 DEF CallsTypeOK
    <3>2. ASSUME NEW l \in Links, remote' = remote \cup {l}, CameBack({l})
          PROVE  remote' \subseteq Items /\ back' \in [Calls -> SUBSET Items]
      BY <3>2, TypeCameBack DEF Items, CallsTypeOK
    <3> QED
      BY <1>8, <3>1, <3>2 DEF CreateLink
  <2> QED
    BY <1>8, <2>1, <2>2 DEF CreateLink, CallsTypeOK, own
<1>9. CASE Invite(c)
  <2>1. ASSUME NEW i \in Invites,
               call' = [call EXCEPT ![c] = [@ EXCEPT !.pc = "save", !.ref = i]]
        PROVE  call' \in [Calls -> CallRecord]
    <3>1. [call[c] EXCEPT !.pc = "save", !.ref = i] \in CallRecord
      BY <1>0 DEF CallRecord
    <3> QED
      BY <1>0, <2>1, <3>1
  <2>2. call' \in [Calls -> CallRecord]
    BY <1>9, <2>1, TypeEnds DEF Invite
  <2> QED
    BY <1>9, <2>2 DEF Invite, CallsTypeOK, own, accountHistory
<1>10. CASE ForgetInvite(c)
  <2>1. ASSUME Goes(c, "save")
        PROVE  call' \in [Calls -> CallRecord]
    BY <1>0, <2>1 DEF CallRecord, Goes
  <2>2. call' \in [Calls -> CallRecord]
    BY <1>10, <2>1, TypeEnds DEF ForgetInvite
  <2> QED
    BY <1>10, <2>2 DEF ForgetInvite, CallsTypeOK, own, accountHistory
<1>11. CASE Save(c)
  BY <1>11, TypeEnds DEF Save, CallsTypeOK, own, accountHistory
<1> QED
  BY <1>1, <1>2, <1>3, <1>4, <1>5, <1>6, <1>7, <1>8, <1>9, <1>10, <1>11 DEF Serve

\* The restart, the account and the entries keep the types.
LEMMA TypeEnvironment ==
  ASSUME CallsTypeOK, Environment
  PROVE  CallsTypeOK'
<1>0. /\ call \in [Calls -> CallRecord]
      /\ removed \in [Calls -> SUBSET Items] /\ back \in [Calls -> SUBSET Items]
      /\ late \in [Calls -> SUBSET OwnIds]
  BY DEF CallsTypeOK
<1>1. CASE HostRestarts
  <2>1. [Idle EXCEPT !.pc = "done", !.result = "lost"] \in CallRecord
    BY TypeIdle DEF CallRecord
  <2>2. call' \in [Calls -> CallRecord]
    BY <1>0, <1>1, <2>1 DEF HostRestarts
  <2>3. /\ removed' \in [Calls -> SUBSET Items] /\ back' \in [Calls -> SUBSET Items]
        /\ late' \in [Calls -> SUBSET OwnIds]
    BY <1>0, <1>1 DEF HostRestarts
  <2> QED
    BY <1>1, <2>2, <2>3 DEF HostRestarts, CallsTypeOK, own
<1>2. CASE Appears
  <2>1. PICK i \in Phones \cup Grants : remote' = remote \cup {i} /\ CameBack({i})
    BY <1>2 DEF Appears
  <2>2. {i} \in SUBSET Items
    BY DEF Items, Devices
  <2> QED
    BY <1>2, <2>1, <2>2, TypeCameBack DEF Appears, CallsTypeOK, own
<1>3. CASE Disappears
  BY <1>3 DEF Disappears, CallsTypeOK, own, accountHistory
<1>4. ASSUME NEW e \in Entries, NamesItself(e) \/ Registers(e) \/ Withdraws(e) \/ IsLost(e)
      PROVE  CallsTypeOK'
  <2>1. IdsOf[e] \subseteq OwnIds /\ IdsOf[e] \subseteq Items
    BY DEF OwnIds, Items, Devices
  <2>2. CASE NamesItself(e)
    <3>1. PICK id \in IdsOf[e] \cup {NoDevice} : proven' = [proven EXCEPT ![e] = id]
      BY <2>2 DEF NamesItself
    <3> QED
      BY <2>1, <2>2, <3>1 DEF NamesItself, CallsTypeOK, accountHistory
  <2>3. CASE Registers(e)
    <3>1. {proven[e]} \in SUBSET Items /\ {proven[e]} \in SUBSET OwnIds
      BY <2>1, <2>3 DEF Registers, CallsTypeOK
    <3>2. late' \in [Calls -> SUBSET OwnIds]
      BY <1>0, <2>3, <3>1 DEF Registers
    <3> QED
      BY <2>3, <3>1, <3>2, TypeCameBack DEF Registers, CallsTypeOK, own
  <2>4. CASE Withdraws(e)
    BY <2>1, <2>4 DEF Withdraws, CallsTypeOK, accountHistory
  <2>5. CASE IsLost(e)
    BY <2>1, <2>5 DEF IsLost, CallsTypeOK, accountHistory
  <2> QED
    BY <1>4, <2>2, <2>3, <2>4, <2>5
<1> QED
  BY <1>1, <1>2, <1>3, <1>4 DEF Environment

-----------------------------------------------------------------------------
(* The invariant.                                                          *)

\* What a call has reported as revoked is gone, or came back since.
GoneOrBack(c) ==
  call[c].result = "revoked" => call[c].targets \cap remote \subseteq back[c]

Sound(c) == OwnersAreRead(c) /\ TargetsAreConfirmed(c) /\ GoneOrBack(c)

RemovalInv == CallsTypeOK /\ OwnDevicesAreNamed /\ \A c \in Calls : Sound(c)

LEMMA InitSafe == AccountInit => RemovalInv
<1> SUFFICES ASSUME AccountInit PROVE RemovalInv
  OBVIOUS
<1>1. CallsTypeOK
  BY TypeIdle DEF AccountInit, CallsTypeOK, Items, Devices
<1>2. remote \cap OwnIds = {}
  BY ItemsAssumption DEF AccountInit, Devices, Items
<1>3. OwnDevicesAreNamed
  BY <1>2 DEF OwnDevicesAreNamed, OwnIds
<1>4. \A c \in Calls : Sound(c)
  BY DEF AccountInit, Idle, ListFcmSessions, Sound, OwnersAreRead, TargetsAreConfirmed,
         GoneOrBack
<1> QED
  BY <1>1, <1>3, <1>4 DEF RemovalInv

\* A service call other than c stays sound when things that are no entry's
\* device come back or anything goes.
LEMMA OthersStaySound ==
  ASSUME RemovalInv, NEW d \in Calls,
         call'[d] = call[d], removed'[d] = removed[d], late'[d] = late[d],
         NEW items \in SUBSET (Items \ OwnIds),
         remote' \subseteq remote \cup items, back[d] \cup (items \cap call[d].targets) \subseteq back'[d]
  PROVE  Sound(d)'
<1>1. OwnersAreRead(d)'
  <2>1. \A e \in Entries : IdsOf[e] \subseteq OwnIds
    BY DEF OwnIds
  <2> QED
    BY <2>1 DEF RemovalInv, Sound, OwnersAreRead
<1>2. TargetsAreConfirmed(d)'
  BY DEF RemovalInv, Sound, TargetsAreConfirmed
<1>3. GoneOrBack(d)'
  BY DEF RemovalInv, Sound, GoneOrBack
<1> QED
  BY <1>1, <1>2, <1>3 DEF Sound

\* In particular when nothing comes back.
LEMMA OthersStaySoundWhenThingsGo ==
  ASSUME RemovalInv, NEW d \in Calls,
         call'[d] = call[d], removed'[d] = removed[d], late'[d] = late[d],
         remote' \subseteq remote, back[d] \subseteq back'[d]
  PROVE  Sound(d)'
<1>1. {} \in SUBSET (Items \ OwnIds)
  OBVIOUS
<1>2. remote' \subseteq remote \cup {} /\ back[d] \cup ({} \cap call[d].targets) \subseteq back'[d]
  OBVIOUS
<1> QED
  BY <1>1, <1>2, OthersStaySound

\* A step of call c is the only thing that happens to the calls, brings back nothing
\* but a link, and leaves every entry's device where it was, if it is not a late one.
LEMMA OneCallMoves ==
  ASSUME RemovalInv, NEW c \in Calls, Serve(c)
  PROVE  /\ \A d \in Calls \ {c} : call'[d] = call[d] /\ removed'[d] = removed[d]
         /\ \E items \in SUBSET (Items \ OwnIds) :
              /\ remote' \subseteq remote \cup items
              /\ \A d \in Calls : back[d] \cup (items \cap call[d].targets) \subseteq back'[d]
         /\ remote' \cap OwnIds \subseteq remote
         /\ remote' \cap OwnIds = remote \cap OwnIds \/ TakesLate(c)
         /\ UNCHANGED <<own, late>>
<1>0. /\ call \in [Calls -> CallRecord]
      /\ removed \in [Calls -> SUBSET Items] /\ back \in [Calls -> SUBSET Items]
  BY DEF RemovalInv, CallsTypeOK
<1>1. ASSUME NEW result, Ends(c, result)
      PROVE  \A d \in Calls \ {c} : call'[d] = call[d]
  BY <1>0, <1>1 DEF Ends
<1>2. ASSUME UNCHANGED <<remote, back>>
      PROVE  /\ \E items \in SUBSET (Items \ OwnIds) :
                  /\ remote' \subseteq remote \cup items
                  /\ \A d \in Calls :
                       back[d] \cup (items \cap call[d].targets) \subseteq back'[d]
             /\ remote' \cap OwnIds = remote \cap OwnIds
  <2>1. {} \in SUBSET (Items \ OwnIds)
    OBVIOUS
  <2> QED
    BY <1>2, <2>1
<1>3. CASE Call(c)
  BY <1>0, <1>2, <1>3 DEF Call, accountHistory
<1>4. CASE ReadOwner(c)
  BY <1>0, <1>2, <1>4 DEF ReadOwner, accountHistory
<1>5. CASE IsRefused(c)
  BY <1>0, <1>1, <1>2, <1>5 DEF IsRefused, accountHistory
<1>6. CASE Listed(c)
  BY <1>0, <1>1, <1>2, <1>6 DEF Listed, accountHistory
<1>7. CASE Ask(c) \/ AskFails(c)
  <2>1. PICK i \in call[c].todo :
          \/ remote' = remote \ {i} /\ removed' = [removed EXCEPT ![c] = @ \cup {i}]
          \/ UNCHANGED <<remote, removed>>
    BY <1>7 DEF Ask, AskFails
  <2>2. i \in OwnIds => i \in late[c]
    BY DEF RemovalInv, Sound, TargetsAreConfirmed
  <2>3. UNCHANGED <<back, late, own>> /\ \A d \in Calls \ {c} : call'[d] = call[d]
    BY <1>0, <1>1, <1>7 DEF Ask, AskFails
  <2>4. {} \in SUBSET (Items \ OwnIds)
    OBVIOUS
  <2>5. remote' \subseteq remote
    BY <2>1
  <2>8. remote' \cap OwnIds = remote \cap OwnIds \/ TakesLate(c)
    <3>1. CASE i \in OwnIds /\ remote' = remote \ {i} /\ removed'[c] = removed[c] \cup {i}
      BY <2>2, <3>1 DEF TakesLate
    <3>2. CASE i \notin OwnIds \/ UNCHANGED remote
      BY <2>1, <3>2
    <3> QED
      BY <1>0, <2>1, <3>1, <3>2
  <2>6. \A d \in Calls \ {c} : removed'[d] = removed[d]
    BY <1>0, <2>1
  <2>7. \E items \in SUBSET (Items \ OwnIds) :
          /\ remote' \subseteq remote \cup items
          /\ \A d \in Calls : back[d] \cup (items \cap call[d].targets) \subseteq back'[d]
    BY <2>3, <2>4, <2>5
  <2> QED
    BY <2>3, <2>5, <2>6, <2>7, <2>8
<1>8. CASE Verify(c)
  BY <1>0, <1>1, <1>2, <1>8 DEF Verify, accountHistory
<1>9. CASE CreateLink(c)
  <2>1. UNCHANGED <<own, removed, late>> /\ \A d \in Calls \ {c} : call'[d] = call[d]
    BY <1>1, <1>9 DEF CreateLink
  <2>2. CASE UNCHANGED <<remote, back>>
    BY <1>2, <2>1, <2>2
  <2>3. ASSUME NEW l \in Links, remote' = remote \cup {l}, CameBack({l})
        PROVE  /\ \E items \in SUBSET (Items \ OwnIds) :
                    /\ remote' \subseteq remote \cup items
                    /\ \A d \in Calls :
                         back[d] \cup (items \cap call[d].targets) \subseteq back'[d]
               /\ remote' \cap OwnIds = remote \cap OwnIds
    <3>1. {l} \in SUBSET (Items \ OwnIds)
      BY ItemsAssumption DEF Items, Devices
    <3> QED
      BY <1>0, <2>3, <3>1 DEF CameBack
  <2> QED
    BY <1>9, <2>1, <2>2, <2>3 DEF CreateLink
<1>10. CASE Invite(c)
  BY <1>0, <1>1, <1>2, <1>10 DEF Invite, accountHistory
<1>11. CASE ForgetInvite(c)
  BY <1>0, <1>1, <1>2, <1>11 DEF ForgetInvite, Goes, accountHistory
<1>12. CASE Save(c)
  BY <1>0, <1>1, <1>2, <1>12 DEF Save, accountHistory
<1> QED
  BY <1>3, <1>4, <1>5, <1>6, <1>7, <1>8, <1>9, <1>10, <1>11, <1>12 DEF Serve

\* What a call may choose is no entry's device, but a late one, and fits what was asked for.
LEMMA ChosenIsConfirmed ==
  ASSUME RemovalInv, NEW c \in Calls, call[c].pc = "list"
  PROVE  /\ Chosen(c) \cap OwnIds \subseteq late[c]
         /\ \A i \in Chosen(c) : i \in call[c].do.class /\ Scope(i) = call[c].at
         /\ call[c].do.act = "one" => Chosen(c) \subseteq {call[c].ref}
         /\ call[c].do.act = "others" => Cardinality(Chosen(c)) <= call[c].count
<1>0. call[c] \in CallRecord
  BY DEF RemovalInv, CallsTypeOK
<1>1. Chosen(c) \subseteq Free(c)
  BY DEF Chosen
<1>2. ASSUME NEW i \in Free(c), i \in OwnIds
      PROVE  i \in late[c]
  <2>1. PICK e \in Entries : i \in IdsOf[e]
    BY <1>2 DEF OwnIds
  <2>2. call[c].do.class \cap Devices # {} => call[c].do.class = Devices
    BY <1>0, ItemsAssumption DEF CallRecord, Handlers, ListFcmSessions, RevokeFcmSession,
       RevokeOtherFcmSessions, ListAuthorizedDevices, RevokeAuthorizedDevice,
       RevokeOtherAuthorizedDevices, ListFcmRegistrations, UnregisterFcmRegistration,
       UnregisterOtherFcmRegistrations, GetGuestAccess, CreateTemporaryGuestLink,
       RevokeTemporaryGuestLink, RevokeSharedAccess, CreateGuestInvite, ForgetGuestInvite,
       Items
  <2>3. call[c].do.class = Devices
    BY <1>2, <2>2 DEF Free, Devices
  <2>4. remote \cap IdsOf[e] \subseteq call[c].spared \cup late[c]
    BY <2>3 DEF RemovalInv, Sound, OwnersAreRead
  <2> QED
    BY <1>2, <2>1, <2>4 DEF Free
<1>3. \A i \in Free(c) : i \in call[c].do.class /\ Scope(i) = call[c].at
  BY DEF Free
<1>4. call[c].count \in Nat
  BY <1>0, PhonesAreCounted DEF CallRecord
<1>5. call[c].do.act = "others" => Cardinality(Chosen(c)) <= call[c].count
  BY <1>4, FS_EmptySet DEF Chosen
<1> QED
  BY <1>1, <1>2, <1>3, <1>5 DEF Chosen

\* However a call ends, it stays sound.
LEMMA EndedIsSound ==
  ASSUME RemovalInv, NEW c \in Calls,
         NEW result \in {"refused", "listed", "failed", "answered", "revoked", "unverified",
                         "saved"},
         Ends(c, result), late'[c] = late[c],
         result \in {"refused", "listed"} => removed'[c] = {},
         removed'[c] \subseteq call[c].targets,
         result = "revoked" => call[c].targets \cap remote' = {}
  PROVE  Sound(c)'
<1>0. call \in [Calls -> CallRecord]
  BY DEF RemovalInv, CallsTypeOK
<1>1. CASE result \in {"refused", "listed"}
  <2>1. /\ call'[c].pc = "done" /\ call'[c].result = result
        /\ call'[c].do = ListFcmSessions /\ call'[c].todo = {} /\ call'[c].targets = {}
    BY <1>0, <1>1 DEF Ends, Idle
  <2> QED
    BY <1>1, <2>1 DEF Sound, OwnersAreRead, TargetsAreConfirmed, GoneOrBack, ListFcmSessions
<1>2. CASE result \notin {"refused", "listed"}
  <2>1. call'[c] = [call[c] EXCEPT !.pc = "done", !.result = result,
                                   !.unread = {}, !.spared = {}, !.todo = {}]
    BY <1>0, <1>2 DEF Ends
  <2>2. /\ call'[c].pc = "done" /\ call'[c].result = result
        /\ call'[c].do = call[c].do /\ call'[c].at = call[c].at /\ call'[c].ref = call[c].ref
        /\ call'[c].count = call[c].count /\ call'[c].todo = {}
        /\ call'[c].targets = call[c].targets
    BY <1>0, <2>1 DEF CallRecord
  <2> QED
    BY <1>2, <2>2 DEF RemovalInv, Sound, OwnersAreRead, TargetsAreConfirmed, GoneOrBack
<1> QED
  BY <1>1, <1>2

\* A step of a call leaves it sound.
LEMMA CallStaysSound ==
  ASSUME RemovalInv, NEW c \in Calls, Serve(c)
  PROVE  Sound(c)'
<1>0. /\ call \in [Calls -> CallRecord] /\ call[c] \in CallRecord
      /\ removed \in [Calls -> SUBSET Items] /\ Sound(c)
  BY DEF RemovalInv, CallsTypeOK
<1>1. removed[c] \subseteq call[c].targets /\ call[c].todo \subseteq call[c].targets
  BY <1>0 DEF Sound, TargetsAreConfirmed
<1>14. late'[c] = late[c]
  BY OneCallMoves
<1>2. /\ call[c].pc \in {"owners", "list", "create", "invite", "forget", "save", "idle"} =>
           call[c].targets = {} /\ removed[c] = {} /\ call[c].todo = {}
      /\ call[c].pc # "done" => call[c].result = "none"
  BY <1>0, <1>1 DEF Sound, TargetsAreConfirmed
<1>3. CASE Call(c)
  <2>1. PICK r \in CallRecord :
          /\ call'[c] = r
          /\ r.todo = {} /\ r.targets = {} /\ r.result = "none"
          /\ r.pc \in {"owners", "list", "create", "invite", "forget"}
          /\ r.pc = "owners" => r.do.class = Devices
          /\ r.pc = "list" => r.do.class # Devices
          /\ r.unread = IF r.do.class = Devices THEN Entries ELSE {}
    BY <1>0, <1>3, CallStarts
  <2>2. removed'[c] = {}
    BY <1>2, <1>3 DEF Call, accountHistory
  <2>3. Cardinality({}) <= r.count
    BY PhonesAreCounted, FS_EmptySet DEF CallRecord
  <2> QED
    BY <2>1, <2>2, <2>3 DEF Sound, OwnersAreRead, TargetsAreConfirmed, GoneOrBack
<1>4. CASE ReadOwner(c)
  <2>1. PICK e \in call[c].unread :
          call'[c] = [call[c] EXCEPT
            !.unread = call[c].unread \ {e},
            !.spared = call[c].spared \cup ({proven[e]} \ {NoDevice}),
            !.pc = IF call[c].unread = {e} THEN "list" ELSE "owners"]
    BY <1>0, <1>4 DEF ReadOwner
  <2>2. /\ call'[c].do = call[c].do /\ call'[c].at = call[c].at /\ call'[c].ref = call[c].ref
        /\ call'[c].count = call[c].count /\ call'[c].todo = {} /\ call'[c].targets = {}
        /\ call'[c].result = "none" /\ call'[c].unread = call[c].unread \ {e}
        /\ call'[c].spared = call[c].spared \cup ({proven[e]} \ {NoDevice})
        /\ call'[c].pc = IF call[c].unread = {e} THEN "list" ELSE "owners"
    BY <1>0, <1>2, <1>4, <2>1 DEF ReadOwner, CallRecord
  <2>3. UNCHANGED <<remote, removed, late>>
    BY <1>4 DEF ReadOwner, accountHistory
  <2>4. remote \cap IdsOf[e] \subseteq {proven[e]} \ {NoDevice}
    BY <1>0, ItemsAssumption DEF RemovalInv, CallsTypeOK, OwnDevicesAreNamed, CallRecord
  <2>5. OwnersAreRead(c)'
    BY <1>0, <1>4, <2>1, <2>2, <2>3, <2>4 DEF Sound, OwnersAreRead, ReadOwner
  <2>6. TargetsAreConfirmed(c)'
    BY <1>0, <1>2, <1>4, <2>2, <2>3 DEF Sound, TargetsAreConfirmed, ReadOwner
  <2>7. GoneOrBack(c)'
    BY <2>2 DEF GoneOrBack
  <2> QED
    BY <2>5, <2>6, <2>7 DEF Sound
<1>5. CASE IsRefused(c)
  BY <1>2, <1>5, <1>14, EndedIsSound DEF IsRefused, accountHistory
<1>6. CASE Listed(c)
  <2>1. removed'[c] = {}
    BY <1>2, <1>6 DEF Listed, accountHistory
  <2>2. CASE Chosen(c) = {}
    BY <1>6, <2>1, <2>2, <1>14, EndedIsSound DEF Listed
  <2>3. CASE Chosen(c) # {}
    <3>1. /\ call'[c].do = call[c].do /\ call'[c].at = call[c].at /\ call'[c].ref = call[c].ref
          /\ call'[c].count = call[c].count /\ call'[c].todo = Chosen(c)
          /\ call'[c].targets = Chosen(c) /\ call'[c].result = "none"
          /\ call'[c].pc = "remove"
      BY <1>0, <1>2, <1>6, <2>3 DEF Listed, CallRecord
    <3> QED
      BY <1>6, <1>14, <2>1, <3>1, ChosenIsConfirmed
         DEF Listed, Sound, OwnersAreRead, TargetsAreConfirmed, GoneOrBack
  <2> QED
    BY <2>2, <2>3
<1>7. CASE Ask(c)
  <2>1. PICK i \in call[c].todo :
          /\ \/ removed' = [removed EXCEPT ![c] = @ \cup {i}]
             \/ UNCHANGED removed
          /\ call'[c] = [call[c] EXCEPT
               !.todo = call[c].todo \ {i},
               !.pc = IF call[c].todo = {i} THEN "verify" ELSE call[c].pc]
    BY <1>0, <1>7 DEF Ask
  <2>2. /\ call'[c].do = call[c].do /\ call'[c].at = call[c].at /\ call'[c].ref = call[c].ref
        /\ call'[c].count = call[c].count /\ call'[c].todo = call[c].todo \ {i}
        /\ call'[c].targets = call[c].targets /\ call'[c].result = "none"
        /\ call'[c].pc \in {"remove", "verify"}
    BY <1>0, <1>2, <1>7, <2>1 DEF Ask, CallRecord
  <2>3. removed'[c] \subseteq call[c].targets
    BY <1>0, <1>1, <2>1
  <2> QED
    BY <1>0, <1>14, <2>2, <2>3 DEF Sound, OwnersAreRead, TargetsAreConfirmed, GoneOrBack
<1>8. CASE AskFails(c)
  <2>1. removed'[c] \subseteq call[c].targets
    BY <1>0, <1>1, <1>8 DEF AskFails
  <2> QED
    BY <1>8, <2>1, <1>14, EndedIsSound DEF AskFails
<1>9. CASE Verify(c)
  BY <1>1, <1>9, <1>14, EndedIsSound DEF Verify, accountHistory
<1>10. CASE CreateLink(c)
  BY <1>1, <1>10, <1>14, EndedIsSound DEF CreateLink
<1>11. CASE Invite(c)
  <2>1. removed'[c] = {}
    BY <1>2, <1>11 DEF Invite, accountHistory
  <2>2. ASSUME NEW i, call' = [call EXCEPT ![c] = [@ EXCEPT !.pc = "save", !.ref = i]]
        PROVE  Sound(c)'
    <3>1. /\ call'[c].pc = "save" /\ call'[c].do = call[c].do /\ call'[c].at = call[c].at
          /\ call'[c].count = call[c].count /\ call'[c].todo = {} /\ call'[c].targets = {}
          /\ call'[c].result = "none"
      BY <1>0, <1>2, <1>11, <2>2 DEF Invite, CallRecord
    <3> QED
      BY <1>0, <1>2, <1>11, <1>14, <2>1, <3>1
         DEF Invite, Sound, OwnersAreRead, TargetsAreConfirmed, GoneOrBack
  <2> QED
    BY <1>11, <2>1, <2>2, <1>14, EndedIsSound DEF Invite
<1>12. CASE ForgetInvite(c)
  <2>1. removed'[c] = {}
    BY <1>2, <1>12 DEF ForgetInvite, accountHistory
  <2>2. ASSUME Goes(c, "save")
        PROVE  Sound(c)'
    <3>1. /\ call'[c].pc = "save" /\ call'[c].do = call[c].do /\ call'[c].at = call[c].at
          /\ call'[c].count = call[c].count /\ call'[c].todo = {} /\ call'[c].targets = {}
          /\ call'[c].result = "none"
      BY <1>0, <1>2, <1>12, <2>2 DEF ForgetInvite, Goes, CallRecord
    <3> QED
      BY <1>0, <1>2, <1>12, <1>14, <2>1, <3>1
         DEF ForgetInvite, Sound, OwnersAreRead, TargetsAreConfirmed, GoneOrBack
  <2> QED
    BY <1>12, <2>1, <2>2, <1>14, EndedIsSound DEF ForgetInvite
<1>13. CASE Save(c)
  BY <1>1, <1>13, <1>14, EndedIsSound DEF Save, accountHistory
<1> QED
  BY <1>3, <1>4, <1>5, <1>6, <1>7, <1>8, <1>9, <1>10, <1>11, <1>12, <1>13 DEF Serve

\* The step of a service call keeps the invariant.
LEMMA ServeIsSafe ==
  ASSUME RemovalInv, NEW c \in Calls, Serve(c)
  PROVE  RemovalInv'
<1>1. CallsTypeOK'
  BY TypeServe DEF RemovalInv
<1>2. OwnDevicesAreNamed'
  BY OneCallMoves DEF RemovalInv, OwnDevicesAreNamed, OwnIds, own
<1>3. ASSUME NEW d \in Calls PROVE Sound(d)'
  <2>1. CASE d = c
    BY <2>1, CallStaysSound
  <2>2. CASE d # c
    <3>1. PICK items \in SUBSET (Items \ OwnIds) :
            /\ remote' \subseteq remote \cup items
            /\ \A x \in Calls : back[x] \cup (items \cap call[x].targets) \subseteq back'[x]
      BY OneCallMoves
    <3>2. call'[d] = call[d] /\ removed'[d] = removed[d] /\ late'[d] = late[d]
      BY <2>2, OneCallMoves
    <3> QED
      BY <3>1, <3>2, OthersStaySound
  <2> QED
    BY <2>1, <2>2
<1> QED
  BY <1>1, <1>2, <1>3 DEF RemovalInv

\* So do the steps of the host, the account and the entries.
LEMMA EnvironmentIsSafe ==
  ASSUME RemovalInv, Environment
  PROVE  RemovalInv'
<1>0. /\ call \in [Calls -> CallRecord]
      /\ removed \in [Calls -> SUBSET Items] /\ back \in [Calls -> SUBSET Items]
      /\ late \in [Calls -> SUBSET OwnIds]
      /\ proven \in [Entries -> OwnIds \cup {NoDevice}]
      /\ \A e \in Entries : IdsOf[e] \subseteq OwnIds
  BY DEF RemovalInv, CallsTypeOK, OwnIds
<1>1. CallsTypeOK'
  BY TypeEnvironment DEF RemovalInv
<1>2. CASE HostRestarts
  <2>1. ASSUME NEW d \in Calls PROVE Sound(d)'
    <3>1. CASE call[d].pc \in {"idle", "done"}
      <4>1. call'[d] = call[d] /\ remote' = remote
        BY <1>0, <1>2, <3>1 DEF HostRestarts
      <4>2. CASE call[d].result = "lost"
        <5>1. removed'[d] = {}
          BY <1>0, <1>2, <4>1, <4>2 DEF HostRestarts
        <5>2. Sound(d)
          BY DEF RemovalInv
        <5> QED
          BY <4>1, <4>2, <5>1, <5>2 DEF Sound, OwnersAreRead, TargetsAreConfirmed, GoneOrBack
      <4>3. CASE call[d].result # "lost"
        <5>1. removed'[d] = removed[d] /\ back'[d] = back[d] /\ late'[d] = late[d]
          BY <1>0, <1>2, <4>1, <4>3 DEF HostRestarts
        <5> QED
          BY <4>1, <5>1 DEF RemovalInv, Sound, OwnersAreRead, TargetsAreConfirmed, GoneOrBack
      <4> QED
        BY <4>2, <4>3
    <3>2. CASE call[d].pc \notin {"idle", "done"}
      <4>1. call'[d] = [Idle EXCEPT !.pc = "done", !.result = "lost"]
        BY <1>2, <3>2 DEF HostRestarts
      <4>2. /\ call'[d].do = ListFcmSessions /\ call'[d].pc = "done"
            /\ call'[d].result = "lost" /\ call'[d].targets = {} /\ call'[d].todo = {}
        BY <4>1 DEF Idle
      <4>3. removed'[d] = {}
        BY <1>2, <4>2 DEF HostRestarts
      <4> QED
        BY <4>2, <4>3
           DEF Sound, OwnersAreRead, TargetsAreConfirmed, GoneOrBack, ListFcmSessions
    <3> QED
      BY <3>1, <3>2
  <2>2. OwnDevicesAreNamed'
    BY <1>2 DEF HostRestarts, RemovalInv, OwnDevicesAreNamed, own
  <2> QED
    BY <1>1, <2>1, <2>2 DEF RemovalInv
<1>3. CASE Appears
  <2>1. PICK i \in Phones \cup Grants : remote' = remote \cup {i} /\ CameBack({i})
    BY <1>3 DEF Appears
  <2>2. {i} \in SUBSET (Items \ OwnIds)
    BY ItemsAssumption DEF Items, Devices
  <2>3. UNCHANGED <<own, call, removed, late>>
    BY <1>3 DEF Appears
  <2>4. ASSUME NEW d \in Calls PROVE Sound(d)'
    BY <2>1, <2>2, <2>3, OthersStaySound DEF CameBack
  <2>5. OwnDevicesAreNamed'
    BY <1>0, <2>1, <2>2, <2>3 DEF RemovalInv, OwnDevicesAreNamed, own
  <2> QED
    BY <1>1, <2>4, <2>5 DEF RemovalInv
<1>4. CASE Disappears
  <2>1. remote' \subseteq remote /\ UNCHANGED <<own, call, removed, back, late>>
    BY <1>4 DEF Disappears, accountHistory
  <2>2. ASSUME NEW d \in Calls PROVE Sound(d)'
    BY <2>1, OthersStaySoundWhenThingsGo
  <2>3. OwnDevicesAreNamed'
    BY <2>1 DEF RemovalInv, OwnDevicesAreNamed, own
  <2> QED
    BY <1>1, <2>2, <2>3 DEF RemovalInv
<1>5. ASSUME NEW e \in Entries, NamesItself(e)
      PROVE  RemovalInv'
  <2>1. UNCHANGED <<remote, call, removed, back, late>> /\ remote \cap IdsOf[e] = {}
    BY <1>5 DEF NamesItself, accountHistory
  <2>2. \A f \in Entries \ {e} : proven'[f] = proven[f]
    BY <1>0, <1>5 DEF NamesItself
  <2>3. ASSUME NEW d \in Calls PROVE Sound(d)'
    BY <2>1, OthersStaySoundWhenThingsGo
  <2>4. OwnDevicesAreNamed'
    BY <2>1, <2>2 DEF RemovalInv, OwnDevicesAreNamed
  <2> QED
    BY <1>1, <2>3, <2>4 DEF RemovalInv
<1>6. ASSUME NEW e \in Entries, Registers(e)
      PROVE  RemovalInv'
  <2>1. /\ remote' = remote \cup {proven[e]} /\ CameBack({proven[e]})
        /\ proven[e] \in IdsOf[e] /\ UNCHANGED <<own, call, removed>>
    BY <1>6 DEF Registers, RemovalInv, CallsTypeOK
  <2>2. \A f \in Entries \ {e} : proven[e] \notin IdsOf[f]
    BY <2>1, ItemsAssumption
  <2>3. OwnDevicesAreNamed'
    BY <2>1, <2>2 DEF RemovalInv, OwnDevicesAreNamed, own
  <2>4. ASSUME NEW d \in Calls PROVE Sound(d)'
    <3>1. Sound(d)
      BY DEF RemovalInv
    <3>2. \A f \in Entries \ {e} : remote' \cap IdsOf[f] = remote \cap IdsOf[f]
      BY <2>1, <2>2
    <3>3. /\ late[d] \subseteq late'[d]
          /\ HasMissed(d, e) => proven[e] \in late'[d]
      BY <1>0, <1>6 DEF Registers
    <3>4. OwnersAreRead(d)'
      BY <2>1, <3>1, <3>2, <3>3 DEF Sound, OwnersAreRead, HasMissed
    <3>5. TargetsAreConfirmed(d)'
      BY <2>1, <3>1, <3>3 DEF Sound, TargetsAreConfirmed
    <3>6. GoneOrBack(d)'
      BY <2>1, <3>1 DEF Sound, GoneOrBack, CameBack
    <3> QED
      BY <3>4, <3>5, <3>6 DEF Sound
  <2> QED
    BY <1>1, <2>3, <2>4 DEF RemovalInv
<1>7. ASSUME NEW e \in Entries, Withdraws(e)
      PROVE  RemovalInv'
  <2>1. remote' \subseteq remote /\ UNCHANGED <<proven, call, removed, back, late>>
    BY <1>7 DEF Withdraws, accountHistory
  <2>2. ASSUME NEW d \in Calls PROVE Sound(d)'
    BY <2>1, OthersStaySoundWhenThingsGo
  <2>3. OwnDevicesAreNamed'
    BY <2>1 DEF RemovalInv, OwnDevicesAreNamed
  <2> QED
    BY <1>1, <2>2, <2>3 DEF RemovalInv
<1>8. ASSUME NEW e \in Entries, IsLost(e)
      PROVE  RemovalInv'
  <2>1. remote' \subseteq remote /\ UNCHANGED <<call, removed, back, late>>
    BY <1>8 DEF IsLost, accountHistory
  <2>2. ASSUME NEW d \in Calls PROVE Sound(d)'
    BY <2>1, OthersStaySoundWhenThingsGo
  <2>3. ASSUME NEW f \in Entries PROVE remote' \cap IdsOf[f] \subseteq {proven'[f]}
    <3>1. CASE f = e
      BY <1>8, <3>1 DEF IsLost
    <3>2. CASE f # e
      BY <1>0, <1>8, <2>1, <3>2 DEF IsLost, RemovalInv, OwnDevicesAreNamed
    <3> QED
      BY <3>1, <3>2
  <2> QED
    BY <1>1, <2>2, <2>3 DEF RemovalInv, OwnDevicesAreNamed
<1> QED
  BY <1>2, <1>3, <1>4, <1>5, <1>6, <1>7, <1>8 DEF Environment

\* RemovalInv is an invariant: what a call chooses was asked for, and is no entry's device
\* but one that registered while it asked (fcm_sessions.py:142-180).
THEOREM RemovalInvariant == AccountSpec => []RemovalInv
<1>1. RemovalInv /\ [AccountNext]_accountVars => RemovalInv'
  <2> SUFFICES ASSUME RemovalInv, [AccountNext]_accountVars PROVE RemovalInv'
    OBVIOUS
  <2>1. CASE Environment
    BY <2>1, EnvironmentIsSafe
  <2>2. ASSUME NEW c \in Calls, Serve(c) PROVE RemovalInv'
    BY <2>2, ServeIsSafe
  <2>3. CASE UNCHANGED accountVars
    BY <2>3 DEF accountVars, own, RemovalInv, CallsTypeOK, OwnDevicesAreNamed, Sound,
               OwnersAreRead, TargetsAreConfirmed, GoneOrBack, accountHistory
  <2> QED
    BY <2>1, <2>2, <2>3 DEF AccountNext
<1> QED
  BY <1>1, InitSafe, PTL DEF AccountSpec

\* What a call reports as revoked is gone, or has come back after the call
\* chose it (services.py:321-335, 355-372; authorized_devices.py:236-250).
THEOREM RevokedIsGone == AccountSpec => []RevokedMeansGone
<1>1. RemovalInv => RevokedMeansGone
  BY DEF RemovalInv, Sound, GoneOrBack, RevokedMeansGone
<1> QED
  BY <1>1, RemovalInvariant, PTL

\* A call removes nothing but what it was asked for, or no more things than
\* were confirmed (services.py:307-396, 1048-1190; authorized_devices.py:217-390).
THEOREM RemovalIsConfirmed == AccountSpec => []RemovalsAreConfirmed
<1>1. RemovalInv => RemovalsAreConfirmed
  <2> SUFFICES ASSUME RemovalInv, NEW c \in Calls
               PROVE  /\ call[c].do.act = "one" => removed[c] \subseteq {call[c].ref}
                      /\ call[c].do.act = "others" => Cardinality(removed[c]) <= call[c].count
                      /\ \A i \in removed[c] : i \in call[c].do.class /\ Scope(i) = call[c].at
                      /\ call[c].result \in {"refused", "listed"} => removed[c] = {}
    BY DEF RemovalsAreConfirmed
  <2>1. TargetsAreConfirmed(c) /\ call[c] \in CallRecord /\ removed[c] \subseteq call[c].targets
    BY DEF RemovalInv, CallsTypeOK, Sound, TargetsAreConfirmed
  <2>2. IsFiniteSet(call[c].targets)
    BY <2>1, ItemsAssumption, FS_Subset DEF CallRecord
  <2>3. /\ Cardinality(removed[c]) <= Cardinality(call[c].targets)
        /\ Cardinality(removed[c]) \in Nat /\ Cardinality(call[c].targets) \in Nat
    BY <2>1, <2>2, FS_Subset, FS_CardinalityType
  <2>4. call[c].count \in Nat
    BY <2>1, PhonesAreCounted DEF CallRecord
  <2> QED
    BY <2>1, <2>3, <2>4 DEF TargetsAreConfirmed
<1> QED
  BY <1>1, RemovalInvariant, PTL

-----------------------------------------------------------------------------
(* Nobody but an entry takes away its device.                              *)

\* A step of the account is, for every entry, one that OwnDevice allows, or takes a
\* late device.
LEMMA DevicesStep ==
  ASSUME RemovalInv, [AccountNext]_accountVars, NEW e \in Entries
  PROVE  \/ OwnOf(e)!OwnNext \/ UNCHANGED OwnOf(e)!ownVars
         \/ \E c \in Calls : TakesLate(c)
<1>0. /\ proven \in [Entries -> OwnIds \cup {NoDevice}] /\ IdsOf[e] \subseteq OwnIds
      /\ withdrawing \subseteq Entries
  BY DEF RemovalInv, CallsTypeOK, OwnIds
<1>1. ASSUME UNCHANGED own, remote' \cap OwnIds = remote \cap OwnIds
      PROVE  UNCHANGED OwnOf(e)!ownVars
  BY <1>0, <1>1 DEF own, OwnOf!ownVars
<1>2. CASE UNCHANGED accountVars
  BY <1>1, <1>2 DEF accountVars
<1>3. ASSUME NEW c \in Calls, Serve(c)
      PROVE  UNCHANGED OwnOf(e)!ownVars \/ TakesLate(c)
  BY <1>1, <1>3, OneCallMoves
<1>4. CASE HostRestarts
  BY <1>1, <1>4 DEF HostRestarts
<1>5. CASE Appears
  BY <1>1, <1>5, ItemsAssumption DEF Appears, Items, Devices
<1>6. CASE Disappears
  BY <1>1, <1>6 DEF Disappears
<1>7. ASSUME NEW f \in Entries, NamesItself(f)
      PROVE  OwnOf(e)!Name \/ UNCHANGED OwnOf(e)!ownVars
  BY <1>0, <1>7 DEF NamesItself, OwnOf!Name, OwnOf!ownVars
<1>8. ASSUME NEW f \in Entries, Registers(f)
      PROVE  OwnOf(e)!Register \/ UNCHANGED OwnOf(e)!ownVars
  <2>1. proven[f] \in IdsOf[f] /\ UNCHANGED own
    BY <1>8 DEF Registers, RemovalInv, CallsTypeOK
  <2>2. CASE f = e
    BY <1>8, <2>1, <2>2 DEF Registers, own, OwnOf!Register
  <2>3. CASE f # e
    BY <1>8, <2>1, <2>3, ItemsAssumption DEF Registers, own, OwnOf!ownVars
  <2> QED
    BY <2>2, <2>3
<1>9. ASSUME NEW f \in Entries, Withdraws(f)
      PROVE  OwnOf(e)!Decide \/ OwnOf(e)!Withdraw \/ UNCHANGED OwnOf(e)!ownVars
  <2>1. CASE f = e
    BY <1>9, <2>1 DEF Withdraws, OwnOf!Decide, OwnOf!Withdraw
  <2>2. CASE f # e
    BY <1>9, <2>2, ItemsAssumption DEF Withdraws, OwnOf!ownVars
  <2> QED
    BY <2>1, <2>2
<1>10. ASSUME NEW f \in Entries, IsLost(f)
       PROVE  OwnOf(e)!Lose \/ UNCHANGED OwnOf(e)!ownVars
  <2>1. CASE f = e
    BY <1>0, <1>10, <2>1 DEF IsLost, OwnOf!Lose
  <2>2. CASE f # e
    BY <1>0, <1>10, <2>2, ItemsAssumption DEF IsLost, OwnOf!ownVars
  <2> QED
    BY <2>1, <2>2
<1> QED
  BY <1>2, <1>3, <1>4, <1>5, <1>6, <1>7, <1>8, <1>9, <1>10
     DEF AccountNext, Environment, OwnOf!OwnNext

\* No service call takes away the device of an entry, so the account does to every
\* entry's device what OwnDevice allows, but for a device that registered after the call
\* had asked its entry and before it listed the devices (fcm_sessions.py:142-180).
THEOREM DevicesAreSpared == AccountSpec => OwnDevicesAreSpared
<1>1. RemovalInv /\ [AccountNext]_accountVars =>
        [\A e \in Entries :
           \/ OwnOf(e)!OwnNext \/ UNCHANGED OwnOf(e)!ownVars
           \/ \E c \in Calls : TakesLate(c)]_accountVars
  BY DevicesStep
<1> QED
  BY <1>1, RemovalInvariant, PTL DEF AccountSpec, OwnDevicesAreSpared

-----------------------------------------------------------------------------
(* The invite store.                                                       *)

StoreTypeOK ==
  /\ memory \in Seq(Invites) /\ saved \in Seq(Invites) /\ issued \in Seq(Invites)
  /\ Len(memory) <= MaxStoredInvites /\ Len(saved) <= MaxStoredInvites
  /\ forgotten \subseteq Invites

PlacesAreRight(list) == \A k \in 1..Len(list) : FollowedBy(list[k], k - 1)

\* A further invitation follows all that were stored before.
LEMMA MoreFollow ==
  ASSUME NEW s \in Seq(Invites), issued = s, NEW i \in Invites, issued' = Append(s, i)
  PROVE  /\ \A x : \A count \in Nat : FollowedBy(x, count) => FollowedBy(x, count + 1)'
         /\ \A count \in Nat : \A x : FollowedBy(x, count) => FollowedBy(x, count)'
         /\ FollowedBy(i, 0)'
<1>1. Len(issued') = Len(s) + 1 /\ Len(s) \in Nat /\ issued'[Len(s) + 1] = i
      /\ \A n \in 1..Len(s) : issued'[n] = s[n] /\ n \in 1..Len(issued')
  OBVIOUS
<1>2. ASSUME NEW x, NEW count \in Nat, FollowedBy(x, count)
      PROVE  FollowedBy(x, count + 1)' /\ FollowedBy(x, count)'
  <2>1. PICK n \in 1..Len(s) : s[n] = x /\ Len(s) - n >= count
    BY <1>2 DEF FollowedBy
  <2>2. n \in 1..Len(issued') /\ issued'[n] = x /\ Len(issued') - n >= count + 1
    BY <1>1, <2>1
  <2> QED
    BY <2>2 DEF FollowedBy
<1>3. FollowedBy(i, 0)'
  BY <1>1 DEF FollowedBy
<1> QED
  BY <1>2, <1>3

\* What an invitation does to the list: it is the first, the others move on by one and
\* one may drop out at the end.
LEMMA AddedMoves ==
  ASSUME NEW list \in Seq(Invites), Len(list) <= MaxStoredInvites, NEW i \in Invites,
         i \notin ToSet(list)
  PROVE  /\ Added(list, i) \in Seq(Invites) /\ Len(Added(list, i)) \in 1..MaxStoredInvites
         /\ Added(list, i)[1] = i
         /\ Len(Added(list, i)) <= Len(list) + 1
         /\ Len(list) < MaxStoredInvites => Len(Added(list, i)) = Len(list) + 1
         /\ Len(list) = MaxStoredInvites => Len(Added(list, i)) = MaxStoredInvites
         /\ \A k \in 2..Len(Added(list, i)) : Added(list, i)[k] = list[k - 1]
<1> DEFINE longer == <<i>> \o list
           most == IF Len(list) < MaxStoredInvites THEN Len(list) + 1 ELSE MaxStoredInvites
<1>1. /\ longer \in Seq(Invites) /\ Len(longer) = Len(list) + 1 /\ longer[1] = i
      /\ \A k \in 2..Len(longer) : longer[k] = list[k - 1]
  OBVIOUS
<1>2. Len(list) \in Nat /\ most \in 1..Len(longer) /\ most \in 1..MaxStoredInvites
  BY <1>1, InvitesAssumption
<1>3. Added(list, i) = SubSeq(longer, 1, most)
  BY DEF Added
<1>4. ASSUME NEW s \in Seq(Invites), NEW m \in 1..Len(s)
      PROVE  /\ SubSeq(s, 1, m) \in Seq(Invites) /\ Len(SubSeq(s, 1, m)) = m
             /\ \A k \in 1..m : SubSeq(s, 1, m)[k] = s[k]
  OBVIOUS
<1> HIDE DEF longer
<1>5. /\ SubSeq(longer, 1, most) \in Seq(Invites) /\ Len(SubSeq(longer, 1, most)) = most
      /\ \A k \in 1..most : SubSeq(longer, 1, most)[k] = longer[k]
  BY <1>1, <1>2, <1>4
<1>6. \A k \in 2..most : k \in 1..most /\ k \in 2..Len(longer)
  BY <1>2
<1> QED
  BY <1>1, <1>2, <1>3, <1>5, <1>6

\* What is behind an element that is removed moves up.
LEMMA RemovedMoves ==
  ASSUME NEW Elements, NEW list \in Seq(Elements), NEW k \in 1..Len(list)
  PROVE  /\ RemoveAt(list, k) \in Seq(Elements) /\ Len(RemoveAt(list, k)) = Len(list) - 1
         /\ \A j \in 1..(k - 1) : RemoveAt(list, k)[j] = list[j]
         /\ \A j \in k..(Len(list) - 1) : RemoveAt(list, k)[j] = list[j + 1]
<1> DEFINE before == SubSeq(list, 1, k - 1)
           after == SubSeq(list, k + 1, Len(list))
<1>1. Len(list) \in Nat
  OBVIOUS
<1>2. /\ before \in Seq(Elements) /\ Len(before) = k - 1
      /\ \A j \in 1..(k - 1) : before[j] = list[j]
  OBVIOUS
<1>3. /\ after \in Seq(Elements)
      /\ Len(after) = Len(list) - k
      /\ \A j \in 1..(Len(list) - k) : after[j] = list[k + j]
  OBVIOUS
<1>4. ASSUME NEW s \in Seq(Elements), NEW t \in Seq(Elements)
      PROVE  /\ s \o t \in Seq(Elements) /\ Len(s \o t) = Len(s) + Len(t)
             /\ \A j \in 1..Len(s) : (s \o t)[j] = s[j]
             /\ \A j \in 1..Len(t) : (s \o t)[Len(s) + j] = t[j]
  OBVIOUS
<1>5. RemoveAt(list, k) = before \o after
  BY DEF RemoveAt
<1> HIDE DEF before, after
<1>6. /\ before \o after \in Seq(Elements) /\ Len(before \o after) = (k - 1) + (Len(list) - k)
      /\ \A j \in 1..(k - 1) : (before \o after)[j] = before[j]
      /\ \A j \in 1..(Len(list) - k) : (before \o after)[(k - 1) + j] = after[j]
  <2>1. /\ before \o after \in Seq(Elements) /\ Len(before \o after) = Len(before) + Len(after)
        /\ \A j \in 1..Len(before) : (before \o after)[j] = before[j]
        /\ \A j \in 1..Len(after) : (before \o after)[Len(before) + j] = after[j]
    BY <1>2, <1>3, <1>4
  <2> QED
    BY <1>2, <1>3, <2>1
<1>7. ASSUME NEW j \in k..(Len(list) - 1)
      PROVE  (before \o after)[j] = list[j + 1]
  <2>1. j - (k - 1) \in 1..(Len(list) - k)
    BY <1>1
  <2>2. (k - 1) + (j - (k - 1)) = j /\ k + (j - (k - 1)) = j + 1
    BY <1>1
  <2>3. (before \o after)[(k - 1) + (j - (k - 1))] = after[j - (k - 1)]
    BY <1>6, <2>1
  <2>4. after[j - (k - 1)] = list[k + (j - (k - 1))]
    BY <1>3, <2>1
  <2> QED
    BY <2>2, <2>3, <2>4
<1>8. (k - 1) + (Len(list) - k) = Len(list) - 1
  BY <1>1
<1> QED
  BY <1>2, <1>5, <1>6, <1>7, <1>8

\* How the store moves until a restart: an invitation is added, one is forgotten, the
\* list is written, or nothing happens.
StoreMoves ==
  \/ \E i \in Invites : i \notin ToSet(memory) /\ memory' = Added(memory, i) /\ issued' = Append(issued, i)
       /\ UNCHANGED <<saved, forgotten>>
  \/ \E k \in 1..Len(memory) : memory' = RemoveAt(memory, k) /\ forgotten' = forgotten \cup {memory[k]}
       /\ UNCHANGED <<saved, issued>>
  \/ saved' = memory /\ forgotten' = forgotten \ ToSet(memory) /\ UNCHANGED <<memory, issued>>
  \/ UNCHANGED inviteVars

\* What moves in the store loses no invitation but one that is forgotten or has been
\* followed by as many as the store holds.
LEMMA StoreLosesNothing ==
  ASSUME StoreTypeOK, PlacesAreRight(memory), PlacesAreRight(saved), StoreMoves
  PROVE  /\ StoreTypeOK' /\ PlacesAreRight(memory)' /\ PlacesAreRight(saved)'
         /\ \A x : Kept(x, memory) => Kept(x, memory)'
         /\ \A x : Kept(x, memory) /\ Kept(x, saved) => Kept(x, saved)'
<1> USE DEF ToSet
<1>0. Len(memory) \in Nat /\ Len(saved) \in Nat /\ MaxStoredInvites \in Nat /\ MaxStoredInvites # 0
  BY InvitesAssumption DEF StoreTypeOK
<1>1. ASSUME NEW i \in Invites, i \notin ToSet(memory), memory' = Added(memory, i),
             issued' = Append(issued, i), UNCHANGED <<saved, forgotten>>
      PROVE  /\ StoreTypeOK' /\ PlacesAreRight(memory)' /\ PlacesAreRight(saved)'
             /\ \A x : Kept(x, saved) => Kept(x, saved)'
             /\ \A x : Kept(x, memory) => Kept(x, memory)'
  <2>1. /\ memory' \in Seq(Invites) /\ Len(memory') \in 1..MaxStoredInvites
        /\ memory'[1] = i
        /\ Len(memory') <= Len(memory) + 1
        /\ Len(memory) < MaxStoredInvites => Len(memory') = Len(memory) + 1
        /\ Len(memory) = MaxStoredInvites => Len(memory') = MaxStoredInvites
        /\ \A k \in 2..Len(memory') : memory'[k] = memory[k - 1]
    BY <1>1, AddedMoves DEF StoreTypeOK
  <2>2. /\ \A x : \A count \in Nat : FollowedBy(x, count) => FollowedBy(x, count + 1)'
        /\ \A count \in Nat : \A x : FollowedBy(x, count) => FollowedBy(x, count)'
        /\ FollowedBy(i, 0)'
    BY <1>1, MoreFollow DEF StoreTypeOK
  <2>3. StoreTypeOK'
    BY <1>1, <2>1 DEF StoreTypeOK
  <2>4. PlacesAreRight(memory)'
    <3>1. ASSUME NEW k \in 1..Len(memory'), NEW x, x = memory'[k]
          PROVE  FollowedBy(x, k - 1)'
      <4>1. CASE k = 1
        <5>1. x = i /\ k - 1 = 0
          BY <2>1, <3>1, <4>1
        <5> QED
          BY <2>2, <5>1
      <4>2. CASE k # 1
        <5>1. k \in 2..Len(memory') /\ k - 1 \in 1..Len(memory) /\ k - 2 \in Nat /\ k - 2 + 1 = k - 1
              /\ k - 1 - 1 = k - 2
          BY <1>0, <2>1, <4>2
        <5>2. x = memory[k - 1]
          BY <2>1, <3>1, <5>1
        <5>3. FollowedBy(x, k - 2)
          BY <5>1, <5>2 DEF PlacesAreRight
        <5>4. FollowedBy(x, k - 2 + 1)'
          BY <2>2, <5>1, <5>3
        <5> QED
          BY <5>1, <5>4
      <4> QED
        BY <4>1, <4>2
    <3> QED
      BY <3>1 DEF PlacesAreRight, FollowedBy
  <2>5. PlacesAreRight(saved)'
    <3>1. ASSUME NEW k \in 1..Len(saved), NEW x, x = saved[k]
          PROVE  FollowedBy(x, k - 1)'
      <4>1. FollowedBy(x, k - 1) /\ k - 1 \in Nat
        BY <1>0, <3>1 DEF PlacesAreRight
      <4> QED
        BY <2>2, <4>1
    <3> QED
      BY <1>1, <3>1 DEF PlacesAreRight, FollowedBy
  <2>6. \A x : Kept(x, saved) => Kept(x, saved)'
    BY <1>0, <1>1, <2>2 DEF Kept
  <2>7. ASSUME NEW x, Kept(x, memory)
        PROVE  Kept(x, memory)'
    <3>1. CASE x \in forgotten \/ FollowedBy(x, MaxStoredInvites)
      BY <1>0, <1>1, <2>2, <3>1 DEF Kept
    <3>2. ASSUME NEW k \in 1..Len(memory), memory[k] = x
          PROVE  Kept(x, memory)'
      <4>1. CASE k < MaxStoredInvites
        <5>1. k + 1 \in 2..Len(memory') /\ k + 1 - 1 = k
          BY <1>0, <2>1, <4>1 DEF StoreTypeOK
        <5>2. memory'[k + 1] = x
          BY <2>1, <3>2, <5>1
        <5>3. k + 1 \in 1..Len(memory')
          BY <5>1
        <5>4. x \in ToSet(memory')
          BY <2>1, <5>2, <5>3
        <5> QED
          BY <5>4 DEF Kept
      <4>2. CASE k = MaxStoredInvites
        <5>1. FollowedBy(x, k - 1) /\ k - 1 \in Nat /\ k - 1 + 1 = MaxStoredInvites
          BY <1>0, <3>2, <4>2 DEF PlacesAreRight
        <5>2. FollowedBy(x, MaxStoredInvites)'
          BY <2>2, <5>1
        <5> QED
          BY <5>2 DEF Kept
      <4> QED
        BY <1>0, <4>1, <4>2 DEF StoreTypeOK
    <3>3. x \in ToSet(memory) => \E k \in 1..Len(memory) : memory[k] = x
      BY DEF StoreTypeOK
    <3> QED
      BY <2>7, <3>1, <3>2, <3>3 DEF Kept
  <2> QED
    BY <2>3, <2>4, <2>5, <2>6, <2>7
<1>2. ASSUME NEW k \in 1..Len(memory), memory' = RemoveAt(memory, k),
             forgotten' = forgotten \cup {memory[k]}, UNCHANGED <<saved, issued>>
      PROVE  /\ StoreTypeOK' /\ PlacesAreRight(memory)' /\ PlacesAreRight(saved)'
             /\ \A x : Kept(x, saved) => Kept(x, saved)'
             /\ \A x : Kept(x, memory) => Kept(x, memory)'
  <2>1. /\ memory' \in Seq(Invites) /\ Len(memory') = Len(memory) - 1
        /\ \A j \in 1..(k - 1) : memory'[j] = memory[j]
        /\ \A j \in k..(Len(memory) - 1) : memory'[j] = memory[j + 1]
    BY <1>2, RemovedMoves DEF StoreTypeOK
  <2>2. memory[k] \in Invites
    BY <1>2 DEF StoreTypeOK
  <2>3. StoreTypeOK'
    BY <1>0, <1>2, <2>1, <2>2 DEF StoreTypeOK
  <2>4. \A x : \A count \in Nat : FollowedBy(x, count)' <=> FollowedBy(x, count)
    BY <1>2 DEF FollowedBy
  <2>5. \A x : \A count \in Nat : FollowedBy(x, count + 1) => FollowedBy(x, count)
    BY DEF FollowedBy, StoreTypeOK
  <2>6. PlacesAreRight(memory)'
    <3>1. ASSUME NEW j \in 1..Len(memory'), NEW x, x = memory'[j]
          PROVE  FollowedBy(x, j - 1)
      <4>1. CASE j < k
        <5>1. j \in 1..(k - 1) /\ j \in 1..Len(memory) /\ j - 1 \in Nat
          BY <1>0, <4>1
        <5>2. x = memory[j]
          BY <2>1, <3>1, <5>1
        <5> QED
          BY <5>1, <5>2 DEF PlacesAreRight
      <4>2. CASE j >= k
        <5>1. j \in k..(Len(memory) - 1) /\ j + 1 \in 1..Len(memory) /\ j - 1 \in Nat
              /\ j + 1 - 1 = j - 1 + 1
          BY <1>0, <2>1, <4>2
        <5>2. x = memory[j + 1]
          BY <2>1, <3>1, <5>1
        <5>3. FollowedBy(x, j - 1 + 1)
          BY <5>1, <5>2 DEF PlacesAreRight
        <5> QED
          BY <2>5, <5>1, <5>3
      <4> QED
        BY <1>0, <2>1, <4>1, <4>2
    <3> QED
      BY <1>2, <3>1 DEF PlacesAreRight, FollowedBy
  <2>7. PlacesAreRight(saved)'
    BY <1>0, <1>2, <2>4 DEF PlacesAreRight
  <2>8. \A x : Kept(x, saved) => Kept(x, saved)'
    BY <1>0, <1>2, <2>4 DEF Kept
  <2>9. ASSUME NEW x, Kept(x, memory)
        PROVE  Kept(x, memory)'
    <3>1. CASE x \in forgotten \/ FollowedBy(x, MaxStoredInvites)
      BY <1>0, <1>2, <2>4, <3>1 DEF Kept
    <3>2. ASSUME NEW j \in 1..Len(memory), memory[j] = x
          PROVE  Kept(x, memory)'
      <4>1. CASE j = k
        BY <1>2, <3>2, <4>1 DEF Kept
      <4>2. CASE j < k
        <5>1. j \in 1..(k - 1) /\ j \in 1..Len(memory')
          BY <1>0, <2>1, <4>2
        <5>2. x \in ToSet(memory')
          BY <2>1, <3>2, <5>1
        <5> QED
          BY <5>2 DEF Kept
      <4>3. CASE j > k
        <5>1. j - 1 \in k..(Len(memory) - 1) /\ j - 1 \in 1..Len(memory') /\ j - 1 + 1 = j
          BY <1>0, <2>1, <4>3
        <5>2. memory'[j - 1] = x
          BY <2>1, <3>2, <5>1
        <5>3. x \in ToSet(memory')
          BY <2>1, <5>1, <5>2
        <5> QED
          BY <5>3 DEF Kept
      <4> QED
        BY <1>0, <4>1, <4>2, <4>3
    <3>3. x \in ToSet(memory) => \E j \in 1..Len(memory) : memory[j] = x
      BY DEF StoreTypeOK
    <3> QED
      BY <2>9, <3>1, <3>2, <3>3 DEF Kept
  <2> QED
    BY <2>3, <2>6, <2>7, <2>8, <2>9
<1>3. CASE saved' = memory /\ forgotten' = forgotten \ ToSet(memory) /\ UNCHANGED <<memory, issued>>
  <2>1. \A x : \A count : FollowedBy(x, count)' <=> FollowedBy(x, count)
    BY <1>3 DEF FollowedBy
  <2>2. \A x : Kept(x, memory) => Kept(x, memory)' /\ Kept(x, saved)'
    BY <1>3, <2>1 DEF Kept
  <2>3. StoreTypeOK' /\ PlacesAreRight(memory)' /\ PlacesAreRight(saved)'
    BY <1>3, <2>1 DEF PlacesAreRight, StoreTypeOK
  <2> QED
    BY <2>2, <2>3
<1>4. CASE UNCHANGED inviteVars
  <2>1. \A x : \A count : FollowedBy(x, count)' <=> FollowedBy(x, count)
    BY <1>4 DEF FollowedBy, inviteVars
  <2> QED
    BY <1>4, <2>1 DEF Kept, StoreTypeOK, PlacesAreRight, inviteVars
<1> QED
  BY <1>1, <1>2, <1>3, <1>4 DEF StoreMoves

\* What is being stored, or has been.
AnsweredAreKept ==
  \A c \in Calls :
    /\ call[c].result # "none" => call[c].pc = "done"
    /\ call[c].do = CreateGuestInvite /\ (call[c].pc = "save" \/ call[c].result = "saved")
         => Kept(call[c].ref, memory)
    /\ call[c].do = CreateGuestInvite /\ call[c].result = "saved" => Kept(call[c].ref, saved)

StoreInv ==
  /\ CallsTypeOK /\ StoreTypeOK /\ restarts \in 0..MaxRestarts
  /\ PlacesAreRight(memory) /\ PlacesAreRight(saved) /\ AnsweredAreKept

\* A step of one call: what it stores is kept, and nothing of the others is lost.
LEMMA AnswersAreKept ==
  ASSUME StoreInv, NEW c \in Calls, NEW r \in CallRecord, call' = [call EXCEPT ![c] = r],
         StoreMoves, restarts' = restarts, CallsTypeOK',
         r.result # "none" => r.pc = "done",
         r.do = CreateGuestInvite /\ (r.pc = "save" \/ r.result = "saved") => Kept(r.ref, memory)',
         r.do = CreateGuestInvite /\ r.result = "saved" => Kept(r.ref, saved)'
  PROVE  StoreInv'
<1>1. /\ StoreTypeOK' /\ PlacesAreRight(memory)' /\ PlacesAreRight(saved)'
      /\ \A x : Kept(x, memory) => Kept(x, memory)'
      /\ \A x : Kept(x, memory) /\ Kept(x, saved) => Kept(x, saved)'
  BY StoreLosesNothing DEF StoreInv
<1>2. ASSUME NEW d \in Calls, NEW x, x = call'[d].ref
      PROVE  /\ call'[d].result # "none" => call'[d].pc = "done"
             /\ call'[d].do = CreateGuestInvite /\ (call'[d].pc = "save" \/ call'[d].result = "saved")
                  => Kept(x, memory)'
             /\ call'[d].do = CreateGuestInvite /\ call'[d].result = "saved" => Kept(x, saved)'
  <2>1. CASE d = c
    <3>1. call'[d] = r
      BY <2>1 DEF StoreInv, CallsTypeOK
    <3> QED
      BY <1>2, <3>1
  <2>2. CASE d # c
    <3>1. call'[d] = call[d]
      BY <2>2 DEF StoreInv, CallsTypeOK
    <3>2. /\ call[d].result # "none" => call[d].pc = "done"
          /\ call[d].do = CreateGuestInvite /\ (call[d].pc = "save" \/ call[d].result = "saved")
               => Kept(x, memory)
          /\ call[d].do = CreateGuestInvite /\ call[d].result = "saved" => Kept(x, saved)
      BY <1>2, <3>1 DEF StoreInv, AnsweredAreKept
    <3> QED
      BY <1>1, <3>1, <3>2
  <2> QED
    BY <2>1, <2>2
<1>3. AnsweredAreKept'
  BY <1>2 DEF AnsweredAreKept, Kept, FollowedBy
<1> QED
  BY <1>1, <1>3 DEF StoreInv

\* What a call becomes as it ends.
LEMMA EndsAs ==
  ASSUME StoreInv, NEW c \in Calls,
         NEW result \in {"refused", "listed", "failed", "answered", "revoked", "unverified", "saved"},
         Ends(c, result)
  PROVE  \E r \in CallRecord :
           /\ call' = [call EXCEPT ![c] = r] /\ r.pc = "done" /\ r.result = result
           /\ result \notin {"refused", "listed"} => r.do = call[c].do /\ r.ref = call[c].ref
<1>1. call \in [Calls -> CallRecord]
  BY DEF StoreInv, CallsTypeOK
<1>2. CASE result \in {"refused", "listed"}
  <2>1. PICK r : r = [Idle EXCEPT !.pc = "done", !.result = result]
    OBVIOUS
  <2>2. r \in CallRecord /\ r.pc = "done" /\ r.result = result
    BY <2>1, TypeIdle DEF CallRecord
  <2>3. call' = [call EXCEPT ![c] = r]
    BY <1>2, <2>1 DEF Ends
  <2> QED
    BY <1>2, <2>2, <2>3
<1>3. CASE result \notin {"refused", "listed"}
  <2>1. PICK r : r = [call[c] EXCEPT !.pc = "done", !.result = result,
                      !.unread = {}, !.spared = {}, !.todo = {}]
    OBVIOUS
  <2>2. r \in CallRecord /\ r.pc = "done" /\ r.result = result /\ r.do = call[c].do /\ r.ref = call[c].ref
    BY <1>1, <2>1 DEF CallRecord
  <2>3. call' = [call EXCEPT ![c] = r]
    BY <1>3, <2>1 DEF Ends
  <2> QED
    BY <1>3, <2>2, <2>3
<1> QED
  BY <1>2, <1>3

\* A call ends, but not with something stored.
LEMMA EndsElsewhere ==
  ASSUME StoreInv, NEW c \in Calls,
         NEW result \in {"refused", "listed", "failed", "answered", "revoked", "unverified"},
         Ends(c, result), StoreMoves, restarts' = restarts, CallsTypeOK'
  PROVE  StoreInv'
<1>1. PICK r \in CallRecord : call' = [call EXCEPT ![c] = r] /\ r.pc = "done" /\ r.result = result
  BY EndsAs
<1> QED
  BY <1>1, AnswersAreKept

LEMMA ServeKeeps ==
  ASSUME StoreInv, NEW c \in Calls, Serve(c)
  PROVE  StoreInv'
<1>0. CallsTypeOK' /\ call \in [Calls -> CallRecord] /\ memory \in Seq(Invites) /\ AnsweredAreKept
  BY TypeServe DEF StoreInv, CallsTypeOK, StoreTypeOK
<1>1. CASE Call(c)
  <2>1. PICK r \in CallRecord :
          /\ call' = [call EXCEPT ![c] = r] /\ r.result = "none"
          /\ r.pc \in {"owners", "list", "create", "invite", "forget"}
    BY <1>1, CallStarts
  <2>2. StoreMoves /\ restarts' = restarts
    BY <1>1 DEF Call, StoreMoves
  <2> QED
    BY <1>0, <2>1, <2>2, AnswersAreKept
<1>2. CASE ReadOwner(c)
  <2>1. PICK e \in call[c].unread :
          call' = [call EXCEPT ![c] = [call[c] EXCEPT
            !.unread = call[c].unread \ {e},
            !.spared = call[c].spared \cup ({proven[e]} \ {NoDevice}),
            !.pc = IF call[c].unread = {e} THEN "list" ELSE "owners"]]
    BY <1>0, <1>2 DEF ReadOwner
  <2>2. PICK r : r = [call[c] EXCEPT
            !.unread = call[c].unread \ {e},
            !.spared = call[c].spared \cup ({proven[e]} \ {NoDevice}),
            !.pc = IF call[c].unread = {e} THEN "list" ELSE "owners"]
    OBVIOUS
  <2>3. call' = [call EXCEPT ![c] = r]
    BY <2>1, <2>2
  <2>4. r.pc \in {"list", "owners"} /\ r.result = call[c].result
    BY <1>0, <2>2 DEF CallRecord
  <2>5. call[c].result = "none"
    BY <1>0, <1>2 DEF ReadOwner, AnsweredAreKept
  <2>6. r \in CallRecord
    BY <1>0, <2>3 DEF CallsTypeOK
  <2>7. StoreMoves /\ restarts' = restarts
    BY <1>2 DEF ReadOwner, StoreMoves
  <2> QED
    BY <1>0, <2>3, <2>4, <2>5, <2>6, <2>7, AnswersAreKept
<1>3. CASE IsRefused(c)
  <2>1. Ends(c, "refused") /\ StoreMoves /\ restarts' = restarts
    BY <1>3 DEF IsRefused, StoreMoves
  <2> QED
    BY <1>0, <2>1, EndsElsewhere
<1>4. CASE Listed(c)
  <2>1. StoreMoves /\ restarts' = restarts
    BY <1>4 DEF Listed, StoreMoves
  <2>2. CASE Ends(c, "listed") \/ Ends(c, "refused")
    BY <1>0, <2>1, <2>2, EndsElsewhere
  <2>3. CASE Chosen(c) # {}
    <3>1. PICK r : r = [call[c] EXCEPT !.targets = Chosen(c), !.todo = Chosen(c), !.pc = "remove"]
      OBVIOUS
    <3>2. call' = [call EXCEPT ![c] = r]
      BY <1>0, <1>4, <2>3, <3>1 DEF Listed
    <3>3. r.pc = "remove" /\ r.result = call[c].result
      BY <1>0, <3>1 DEF CallRecord
    <3>4. call[c].result = "none"
      BY <1>0, <1>4 DEF Listed, AnsweredAreKept
    <3>5. r \in CallRecord
      BY <1>0, <3>2 DEF CallsTypeOK
    <3> QED
      BY <1>0, <2>1, <3>2, <3>3, <3>4, <3>5, AnswersAreKept
  <2> QED
    BY <1>4, <2>2, <2>3 DEF Listed
<1>5. CASE Ask(c)
  <2>1. PICK i \in call[c].todo :
          call' = [call EXCEPT ![c] = [call[c] EXCEPT
               !.todo = call[c].todo \ {i},
               !.pc = IF call[c].todo = {i} THEN "verify" ELSE call[c].pc]]
    BY <1>0, <1>5 DEF Ask
  <2>2. PICK r : r = [call[c] EXCEPT
               !.todo = call[c].todo \ {i},
               !.pc = IF call[c].todo = {i} THEN "verify" ELSE call[c].pc]
    OBVIOUS
  <2>3. call' = [call EXCEPT ![c] = r]
    BY <2>1, <2>2
  <2>4. r.pc \in {"remove", "verify"} /\ r.result = call[c].result
    BY <1>0, <1>5, <2>2 DEF CallRecord, Ask
  <2>5. call[c].result = "none"
    BY <1>0, <1>5 DEF Ask, AnsweredAreKept
  <2>6. r \in CallRecord
    BY <1>0, <2>3 DEF CallsTypeOK
  <2>7. StoreMoves /\ restarts' = restarts
    BY <1>5 DEF Ask, StoreMoves
  <2> QED
    BY <1>0, <2>3, <2>4, <2>5, <2>6, <2>7, AnswersAreKept
<1>6. CASE AskFails(c)
  <2>1. Ends(c, "failed") /\ StoreMoves /\ restarts' = restarts
    BY <1>6 DEF AskFails, StoreMoves
  <2> QED
    BY <1>0, <2>1, EndsElsewhere
<1>7. CASE Verify(c)
  <2>1. StoreMoves /\ restarts' = restarts
    BY <1>7 DEF Verify, StoreMoves
  <2>2. \/ Ends(c, "failed") \/ Ends(c, "answered") \/ Ends(c, "revoked") \/ Ends(c, "unverified")
    BY <1>7 DEF Verify
  <2> QED
    BY <1>0, <2>1, <2>2, EndsElsewhere
<1>8. CASE CreateLink(c)
  <2>1. StoreMoves /\ restarts' = restarts
    BY <1>8 DEF CreateLink, StoreMoves
  <2>2. Ends(c, "failed") \/ Ends(c, "answered")
    BY <1>8 DEF CreateLink
  <2> QED
    BY <1>0, <2>1, <2>2, EndsElsewhere
<1>9. CASE Invite(c)
  <2>1. restarts' = restarts /\ UNCHANGED <<saved, forgotten>>
    BY <1>9 DEF Invite
  <2>2. CASE Ends(c, "failed") /\ UNCHANGED <<memory, issued>>
    <3>1. StoreMoves
      BY <2>1, <2>2 DEF StoreMoves, inviteVars
    <3> QED
      BY <1>0, <2>1, <2>2, <3>1, EndsElsewhere
  <2>3. ASSUME NEW i \in Invites, i \in ToSet(memory), memory' = Added(memory, i),
               Ends(c, "answered") /\ UNCHANGED issued
        PROVE  StoreInv'
    <3>1. memory' = memory
      BY <2>3 DEF Added
    <3>2. StoreMoves
      BY <2>1, <2>3, <3>1 DEF StoreMoves, inviteVars
    <3> QED
      BY <1>0, <2>1, <2>3, <3>2, EndsElsewhere
  <2>4. ASSUME NEW i \in Invites, i \notin ToSet(memory), memory' = Added(memory, i),
               issued' = Append(issued, i),
               call' = [call EXCEPT ![c] = [@ EXCEPT !.pc = "save", !.ref = i]]
        PROVE  StoreInv'
    <3>1. PICK r : r = [call[c] EXCEPT !.pc = "save", !.ref = i]
      OBVIOUS
    <3>2. call' = [call EXCEPT ![c] = r]
      BY <1>0, <2>4, <3>1
    <3>3. r.pc = "save" /\ r.ref = i /\ r.result = call[c].result
      BY <1>0, <3>1 DEF CallRecord
    <3>4. call[c].result = "none"
      BY <1>0, <1>9 DEF Invite, AnsweredAreKept
    <3>5. r \in CallRecord
      BY <1>0, <3>2 DEF CallsTypeOK
    <3>6. StoreMoves
      BY <2>1, <2>4 DEF StoreMoves
    <3>7. Kept(i, memory)'
      <4>1. Added(memory, i)[1] = i /\ Len(Added(memory, i)) \in 1..MaxStoredInvites
            /\ Added(memory, i) \in Seq(Invites)
        BY <2>4, AddedMoves DEF StoreInv, StoreTypeOK
      <4>2. 1 \in DOMAIN memory' /\ memory'[1] = i
        BY <2>4, <4>1, InvitesAssumption
      <4> QED
        BY <4>2 DEF Kept, ToSet
    <3> QED
      BY <1>0, <2>1, <3>2, <3>3, <3>4, <3>5, <3>6, <3>7, AnswersAreKept
  <2> QED
    BY <1>9, <2>2, <2>3, <2>4 DEF Invite
<1>10. CASE ForgetInvite(c)
  <2>1. restarts' = restarts /\ UNCHANGED <<saved, issued>>
    BY <1>10 DEF ForgetInvite
  <2>2. CASE Ends(c, "refused") /\ UNCHANGED <<memory, forgotten>>
    <3>1. StoreMoves
      BY <2>1, <2>2 DEF StoreMoves, inviteVars
    <3> QED
      BY <1>0, <2>1, <2>2, <3>1, EndsElsewhere
  <2>3. ASSUME NEW k \in DOMAIN memory, memory[k] = call[c].ref, memory' = RemoveAt(memory, k),
               Goes(c, "save"), forgotten' = forgotten \cup {call[c].ref}
        PROVE  StoreInv'
    <3>1. PICK r : r = [call[c] EXCEPT !.pc = "save"]
      OBVIOUS
    <3>2. call' = [call EXCEPT ![c] = r]
      BY <1>0, <2>3, <3>1 DEF Goes
    <3>3. r.pc = "save" /\ r.ref = call[c].ref /\ r.result = call[c].result
      BY <1>0, <3>1 DEF CallRecord
    <3>4. call[c].result = "none"
      BY <1>0, <1>10 DEF ForgetInvite, AnsweredAreKept
    <3>5. r \in CallRecord
      BY <1>0, <3>2 DEF CallsTypeOK
    <3>6. StoreMoves
      BY <1>0, <2>1, <2>3 DEF StoreMoves
    <3>7. Kept(r.ref, memory)'
      BY <2>3, <3>3 DEF Kept
    <3> QED
      BY <1>0, <2>1, <3>2, <3>3, <3>4, <3>5, <3>6, <3>7, AnswersAreKept
  <2> QED
    BY <1>10, <2>2, <2>3 DEF ForgetInvite
<1>11. CASE Save(c)
  <2>1. /\ saved' = memory /\ forgotten' = forgotten \ ToSet(memory) /\ UNCHANGED <<memory, issued>>
        /\ Ends(c, "saved") /\ restarts' = restarts /\ call[c].pc = "save"
    BY <1>11 DEF Save
  <2>2. StoreMoves
    BY <2>1 DEF StoreMoves
  <2>3. PICK r \in CallRecord :
          /\ call' = [call EXCEPT ![c] = r] /\ r.pc = "done" /\ r.result = "saved"
          /\ r.do = call[c].do /\ r.ref = call[c].ref
    BY <2>1, EndsAs
  <2>4. r.do = CreateGuestInvite => Kept(r.ref, memory)
    BY <1>0, <2>1, <2>3 DEF AnsweredAreKept
  <2>5. Kept(r.ref, memory) => Kept(r.ref, memory)' /\ Kept(r.ref, saved)'
    BY <2>1 DEF Kept, FollowedBy
  <2> QED
    BY <1>0, <2>1, <2>2, <2>3, <2>4, <2>5, AnswersAreKept
<1> QED
  BY <1>1, <1>2, <1>3, <1>4, <1>5, <1>6, <1>7, <1>8, <1>9, <1>10, <1>11 DEF Serve

\* Home Assistant restarts, and what is on disk is read again.
LEMMA RestartKeeps ==
  ASSUME StoreInv, HostRestarts
  PROVE  StoreInv'
<1>0. CallsTypeOK' /\ call \in [Calls -> CallRecord]
  BY TypeEnvironment DEF StoreInv, CallsTypeOK, Environment
<1>1. /\ memory' = saved /\ UNCHANGED <<saved, issued, forgotten>>
      /\ restarts' = restarts + 1 /\ restarts < MaxRestarts
      /\ call' = [c \in Calls |-> IF call[c].pc \in {"idle", "done"} THEN call[c]
                              ELSE [Idle EXCEPT !.pc = "done", !.result = "lost"]]
  BY DEF HostRestarts
<1>2. \A x : \A count : FollowedBy(x, count)' <=> FollowedBy(x, count)
  BY <1>1 DEF FollowedBy
<1>3. \A x : Kept(x, saved) => Kept(x, memory)' /\ Kept(x, saved)'
  BY <1>1, <1>2 DEF Kept
<1>4. StoreTypeOK' /\ PlacesAreRight(memory)' /\ PlacesAreRight(saved)'
  BY <1>1, <1>2 DEF PlacesAreRight, StoreTypeOK, StoreInv
<1>5. restarts' \in 0..MaxRestarts
  BY <1>1, InvitesAssumption DEF StoreInv
<1>6. ASSUME NEW d \in Calls, NEW x, x = call'[d].ref
      PROVE  /\ call'[d].result # "none" => call'[d].pc = "done"
             /\ call'[d].do = CreateGuestInvite /\ (call'[d].pc = "save" \/ call'[d].result = "saved")
                  => Kept(x, memory)'
             /\ call'[d].do = CreateGuestInvite /\ call'[d].result = "saved" => Kept(x, saved)'
  <2>1. CASE call[d].pc \in {"idle", "done"}
    <3>1. call'[d] = call[d] /\ call[d].pc # "save"
      BY <1>1, <2>1
    <3>2. /\ call[d].result # "none" => call[d].pc = "done"
          /\ call[d].do = CreateGuestInvite /\ call[d].result = "saved" => Kept(x, saved)
      BY <1>6, <3>1 DEF StoreInv, AnsweredAreKept
    <3> QED
      BY <1>3, <3>1, <3>2
  <2>2. CASE call[d].pc \notin {"idle", "done"}
    <3>1. call'[d].pc = "done" /\ call'[d].result = "lost"
      BY <1>1, <2>2 DEF Idle
    <3> QED
      BY <3>1
  <2> QED
    BY <2>1, <2>2
<1>7. AnsweredAreKept'
  BY <1>6 DEF AnsweredAreKept, Kept, FollowedBy
<1> QED
  BY <1>0, <1>4, <1>5, <1>7 DEF StoreInv

\* An invitation that was answered is on disk, forgotten by the user, or followed by as
\* many newer ones as the store holds, across restarts (AnsweredInvitesSurvive).
THEOREM InvitesSurvive ==
  AccountSpec => [](AccountTypeOK /\ AnsweredInvitesSurvive /\ InvitesAreKept)
<1>1. AccountInit => StoreInv
  <2> SUFFICES ASSUME AccountInit PROVE StoreInv
    OBVIOUS
  <2>1. CallsTypeOK
    BY TypeIdle DEF AccountInit, CallsTypeOK, Items, Devices
  <2>2. /\ memory = <<>> /\ saved = <<>> /\ issued = <<>> /\ forgotten = {} /\ restarts = 0
        /\ \A c \in Calls : call[c].result = "none" /\ call[c].pc = "idle"
    BY DEF AccountInit, Idle
  <2>3. StoreTypeOK /\ PlacesAreRight(memory) /\ PlacesAreRight(saved) /\ restarts \in 0..MaxRestarts
    BY <2>2, InvitesAssumption DEF StoreTypeOK, PlacesAreRight
  <2> QED
    BY <2>1, <2>2, <2>3 DEF StoreInv, AnsweredAreKept
<1>2. StoreInv /\ [AccountNext]_accountVars => StoreInv'
  <2> SUFFICES ASSUME StoreInv, [AccountNext]_accountVars PROVE StoreInv'
    OBVIOUS
  <2>1. CASE Environment /\ ~HostRestarts
    <3>1. UNCHANGED <<inviteVars, call, restarts>>
      BY <2>1 DEF Environment, Appears, Disappears, NamesItself, Registers, Withdraws, IsLost, inviteVars
    <3>2. CallsTypeOK'
      BY <2>1, TypeEnvironment DEF StoreInv
    <3> QED
      BY <3>1, <3>2 DEF StoreInv, StoreTypeOK, PlacesAreRight, AnsweredAreKept, Kept, FollowedBy, inviteVars
  <2>2. CASE UNCHANGED accountVars
    BY <2>2 DEF StoreInv, StoreTypeOK, PlacesAreRight, AnsweredAreKept, Kept, FollowedBy, accountVars, own,
                CallsTypeOK, OwnIds
  <2> QED
    BY <2>1, <2>2, RestartKeeps, ServeKeeps DEF AccountNext
<1>3. StoreInv => AccountTypeOK /\ AnsweredInvitesSurvive /\ InvitesAreKept
  BY DEF StoreInv, StoreTypeOK, AccountTypeOK, AnsweredAreKept, AnsweredInvitesSurvive, InvitesAreKept, PlacesAreRight
<1> QED
  BY <1>1, <1>2, <1>3, PTL DEF AccountSpec
=============================================================================
