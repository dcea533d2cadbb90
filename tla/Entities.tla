------------------------------ MODULE Entities ------------------------------
(***************************************************************************)
(* The entities that are made while the entry runs: those of physical keys *)
(* for the intercoms that turn out to have them (event.py, sensor.py,      *)
(* button.py), and those of private cameras (private_entities.py), whose   *)
(* UfanetPrivateCameraRuntime the platforms load together and share.       *)
(*                                                                         *)
(* Each platform has a factory that makes what is missing and remembers    *)
(* it; it runs when its platform is set up and with every update of what   *)
(* it listens to.  An intercom may have a private camera, which is then    *)
(* not a standalone one.  What the entities show is left out.              *)
(***************************************************************************)
EXTENDS Naturals, FiniteSets

CONSTANTS
  Platforms,      \* those that are loaded, of AllPlatforms
  Intercoms,
  PrivateCameras,
  MaxUpdates,     \* bound: changes of what the account has
  MaxRuntimes     \* bound: runtimes of private cameras that are begun

NoRuntime == 0

AllPlatforms == {"camera", "datetime", "number", "button", "event", "sensor"}

ASSUME PlatformsAssumption == Platforms \subseteq AllPlatforms
ASSUME EntityBounds == MaxUpdates \in Nat /\ MaxRuntimes \in Nat

VARIABLES
  known,        \* intercoms in the coordinator's data
  capable,      \* those of which the key passages are known to work
  inventory,    \* private cameras of the account
  owned,        \* those of them that belong to an intercom
  recording,    \* those with an archive
  updates,
  platform,     \* state of each platform, see Platforms
  waitsFor,     \* the runtime it waits for, or has
  runtimeKey,   \* runtime[_PRIVATE_RUNTIME_KEY]: the number of the runtime
  taskKey,      \* runtime[_PRIVATE_RUNTIME_TASK_KEY]: the number of its runtime
  begunRuntimes,
  task,         \* async_initialize of each: "begun", "read", "done" or "broken"
  controllers,  \* manager.archive_controllers
  detected,     \* cameras in the data of its analytics
  syncing,      \* its _async_sync_runner: "idle", "controllers", "analytics"
  again,        \* its _sync_pending
  noticed,      \* the runtime has heard of the last change (history)
  keysNoticed,  \* so have the key factories (history)
  made          \* made[k]: whose entity of kind k has been made

account == <<known, capable, inventory, owned, recording>>
loading == <<platform, waitsFor, runtimeKey, taskKey, begunRuntimes, task>>
private == <<controllers, detected, syncing, again>>
entityVars == <<account, updates, loading, private, noticed, keysNoticed, made>>

PrivatePlatforms == Platforms \ {"sensor"}

PlatformOf(k) ==
  CASE k \in {"live", "archive"} -> "camera"
    [] k = "position" -> "datetime"
    [] k = "lengths" -> "number"
    [] k \in {"navigation", "key button"} -> "button"
    [] k \in {"motion", "key event"} -> "event"
    [] k = "key sensors" -> "sensor"

KeyKinds == {k \in {"key event", "key sensors", "key button"} : PlatformOf(k) \in Platforms}
PrivateKinds ==
  {k \in {"live", "archive", "position", "lengths", "navigation", "motion"} :
     PlatformOf(k) \in Platforms}
Kinds == KeyKinds \cup PrivateKinds

Standalone == inventory \ owned

EntitiesInit ==
  /\ known \in SUBSET Intercoms /\ capable \in SUBSET known
  /\ inventory \in SUBSET PrivateCameras
  /\ owned \in SUBSET inventory /\ recording \in SUBSET inventory
  /\ updates = 0 /\ begunRuntimes = 0 /\ task = [r \in 1..MaxRuntimes |-> "begun"]
  /\ platform = [p \in Platforms |-> "waiting"] /\ waitsFor = [p \in Platforms |-> NoRuntime]
  /\ runtimeKey = NoRuntime /\ taskKey = NoRuntime
  /\ controllers = {} /\ detected = {} /\ syncing = "idle" /\ again = FALSE
  /\ noticed = TRUE /\ keysNoticed = TRUE
  /\ made = [k \in Kinds |-> {}]

-----------------------------------------------------------------------------
(* The factories.                                                          *)

\* Whom an entity of each kind is for, by the state they are called in.
KeyEvents == capable' \cap known'
KeySensors == capable' \cap known'
KeyButtons == capable' \cap known'
LiveCameras == Standalone'
ArchiveCameras == Standalone' \cap controllers' \cap recording'
ArchivePositions == Standalone' \cap controllers'
Lengths == Standalone' \cap controllers'
Navigations == Standalone' \cap controllers'
MotionEvents == Standalone' \cap detected'

For(k) ==
  CASE k = "key event" -> KeyEvents [] k = "key sensors" -> KeySensors
    [] k = "key button" -> KeyButtons
    [] k = "live" -> LiveCameras [] k = "archive" -> ArchiveCameras
    [] k = "position" -> ArchivePositions [] k = "lengths" -> Lengths
    [] k = "navigation" -> Navigations [] k = "motion" -> MotionEvents

\* The factories of keys listen before their platform goes on to the private cameras.
Listens(k, state) == state[PlatformOf(k)] \in {"loaded"} \cup
  (IF k \in KeyKinds THEN {"awaiting", "failed"} ELSE {})

\* The factories of some kinds run, of those that are listening.
Make(kinds) ==
  made' = [k \in Kinds |->
    IF k \in kinds /\ Listens(k, platform') THEN made[k] \cup For(k) ELSE made[k]]

-----------------------------------------------------------------------------
(* Loading the platforms.                                                  *)

\* A platform without private cameras.
SetUpPlatform(p) ==
  /\ platform[p] = "waiting" /\ p \notin PrivatePlatforms
  /\ platform' = [platform EXCEPT ![p] = "loaded"]
  /\ UNCHANGED <<account, updates, waitsFor, runtimeKey, taskKey, begunRuntimes, task, private,
                 noticed, keysNoticed>>
  /\ Make({"key sensors"})

\* async_ensure_private_camera_runtime: an existing runtime is taken, one that is
\* being initialised is waited for, or a new one is begun.
Ensure(p) ==
  /\ platform[p] = "waiting" /\ p \in PrivatePlatforms
  /\ IF runtimeKey # NoRuntime /\ taskKey = NoRuntime
     THEN /\ platform' = [platform EXCEPT ![p] = "loaded"]
          /\ waitsFor' = [waitsFor EXCEPT ![p] = runtimeKey]
          /\ UNCHANGED <<runtimeKey, taskKey, begunRuntimes, task, private, noticed>>
     ELSE /\ platform' = [platform EXCEPT ![p] = "awaiting"]
          /\ IF taskKey # NoRuntime
             THEN /\ waitsFor' = [waitsFor EXCEPT ![p] = taskKey]
                  /\ UNCHANGED <<runtimeKey, taskKey, begunRuntimes, task, private, noticed>>
             ELSE /\ begunRuntimes < MaxRuntimes /\ begunRuntimes' = begunRuntimes + 1
                  /\ runtimeKey' = begunRuntimes' /\ taskKey' = begunRuntimes'
                  /\ waitsFor' = [waitsFor EXCEPT ![p] = begunRuntimes']
                  /\ controllers' = {} /\ detected' = {} /\ syncing' = "idle" /\ again' = FALSE
                  /\ noticed' = TRUE /\ UNCHANGED task
  /\ UNCHANGED <<account, updates, keysNoticed>>
  /\ Make({k \in Kinds : PlatformOf(k) = p})

\* async_initialize has read the cameras and begins their archives.
ReadCameras(r) ==
  /\ r <= begunRuntimes /\ task[r] = "begun"
  /\ task' = [task EXCEPT ![r] = "read"]
  /\ controllers' = IF r = runtimeKey THEN Standalone \cap recording ELSE controllers
  /\ noticed' = TRUE
  /\ UNCHANGED <<account, updates, platform, waitsFor, runtimeKey, taskKey, begunRuntimes,
                 detected, syncing, again, keysNoticed, made>>

\* It is through with the motion analytics too, and listens from now on.
Initialized(r) ==
  /\ r <= begunRuntimes /\ task[r] = "read"
  /\ task' = [task EXCEPT ![r] = "done"]
  /\ \E supported \in SUBSET Standalone : detected' = supported
  /\ UNCHANGED <<account, updates, platform, waitsFor, runtimeKey, taskKey, begunRuntimes,
                 controllers, syncing, again, noticed, keysNoticed, made>>

InitializeBreaks(r) ==
  /\ r <= begunRuntimes /\ task[r] \in {"begun", "read"}
  /\ task' = [task EXCEPT ![r] = "broken"]
  /\ UNCHANGED <<account, updates, platform, waitsFor, runtimeKey, taskKey, begunRuntimes,
                 private, noticed, keysNoticed, made>>

\* A faulty Resumes, which clears the keys of whatever runtime is there.
ResumesBlindly(p) ==
  /\ platform[p] = "awaiting"
  /\ LET r == waitsFor[p] IN
     /\ task[r] \in {"done", "broken"}
     /\ taskKey' = NoRuntime
     /\ runtimeKey' = IF task[r] = "broken" THEN NoRuntime ELSE runtimeKey
     /\ platform' = [platform EXCEPT ![p] = IF task[r] = "done" THEN "loaded" ELSE "failed"]
  /\ UNCHANGED <<account, updates, waitsFor, begunRuntimes, task, private, noticed, keysNoticed>>
  /\ Make({k \in Kinds : PlatformOf(k) = p})

\* A platform goes on when the runtime it waits for is there, or fails with it; the
\* first removes the keys of that runtime, and not those of another.
Resumes(p) ==
  /\ platform[p] = "awaiting"
  /\ LET r == waitsFor[p] IN
     /\ task[r] \in {"done", "broken"}
     /\ taskKey' = IF taskKey = r THEN NoRuntime ELSE taskKey
     /\ runtimeKey' = IF task[r] = "broken" /\ runtimeKey = r THEN NoRuntime ELSE runtimeKey
     /\ platform' = [platform EXCEPT ![p] = IF task[r] = "done" THEN "loaded" ELSE "failed"]
  /\ UNCHANGED <<account, updates, waitsFor, begunRuntimes, task, private, noticed, keysNoticed>>
  /\ Make({k \in Kinds : PlatformOf(k) = p})

-----------------------------------------------------------------------------
(* What happens in the account, and is noticed.                            *)

Listening == runtimeKey # NoRuntime /\ task[runtimeKey] = "done"

\* _handle_source_update: the reconciliation begins at once or is repeated.
Notices ==
  /\ noticed' = Listening
  /\ IF ~Listening THEN UNCHANGED <<controllers, syncing, again>>
     ELSE IF syncing # "idle" THEN again' = TRUE /\ UNCHANGED <<controllers, syncing>>
     ELSE /\ syncing' = "controllers" /\ again' = FALSE
          /\ controllers' = controllers \cup (Standalone' \cap recording')

Updating == updates < MaxUpdates /\ updates' = updates + 1

\* The private cameras are others.
InventoryUpdate ==
  /\ Updating
  /\ \E cameras, recorded, intercoms \in SUBSET PrivateCameras :
       /\ recorded \subseteq cameras /\ intercoms = owned \cap cameras
       /\ inventory' = cameras /\ recording' = recorded /\ owned' = intercoms
  /\ UNCHANGED <<known, capable>>
  /\ Notices
  /\ UNCHANGED <<loading, detected, keysNoticed, made>>

\* The intercoms are others, or have other cameras.
IntercomUpdate ==
  /\ Updating
  /\ known' \in SUBSET Intercoms /\ owned' \in SUBSET inventory
  /\ UNCHANGED <<capable, inventory, recording>>
  /\ Notices
  /\ keysNoticed' = FALSE
  /\ UNCHANGED <<loading, detected, made>>

\* The key passages have been refreshed.
KeyUpdate ==
  /\ Updating
  /\ capable' \in SUBSET Intercoms
  /\ keysNoticed' = TRUE
  /\ UNCHANGED <<known, inventory, owned, recording, loading, private, noticed>>
  /\ Make(KeyKinds)

\* The new archives are read; then the analytics are refreshed, or need not be.
ControllersReady ==
  /\ syncing = "controllers" /\ syncing' = "analytics"
  /\ \E supported \in SUBSET Standalone : detected' = supported
  /\ UNCHANGED <<account, updates, loading, controllers, again, noticed, keysNoticed>>
  /\ Make({"motion"})

\* A faulty Synced, which tells nobody.
SyncedSilently ==
  /\ syncing = "analytics" /\ again' = FALSE
  /\ IF again THEN /\ syncing' = "controllers"
                   /\ controllers' = controllers \cup (Standalone \cap recording)
              ELSE syncing' = "idle" /\ UNCHANGED controllers
  /\ UNCHANGED <<account, updates, loading, detected, noticed, keysNoticed, made>>

\* The factories are told, and if there was a change meanwhile it goes on.
Synced ==
  /\ syncing = "analytics" /\ again' = FALSE
  /\ IF again THEN /\ syncing' = "controllers"
                   /\ controllers' = controllers \cup (Standalone \cap recording)
              ELSE syncing' = "idle" /\ UNCHANGED controllers
  /\ UNCHANGED <<account, updates, loading, detected, noticed, keysNoticed>>
  /\ Make(PrivateKinds \ {"motion"})

EntitiesNext ==
  \/ \E p \in Platforms : SetUpPlatform(p) \/ Ensure(p) \/ Resumes(p)
  \/ \E r \in 1..MaxRuntimes : ReadCameras(r) \/ Initialized(r) \/ InitializeBreaks(r)
  \/ InventoryUpdate \/ IntercomUpdate \/ KeyUpdate \/ ControllersReady \/ Synced

EntitiesSpec == EntitiesInit /\ [][EntitiesNext]_entityVars

-----------------------------------------------------------------------------
(* Properties.                                                             *)

EntitiesTypeOK ==
  /\ known \subseteq Intercoms /\ capable \subseteq Intercoms
  /\ inventory \subseteq PrivateCameras
  /\ owned \subseteq inventory /\ recording \subseteq inventory
  /\ updates \in 0..MaxUpdates /\ begunRuntimes \in 0..MaxRuntimes
  /\ runtimeKey \in 0..begunRuntimes /\ taskKey \in 0..begunRuntimes
  /\ platform \in [Platforms -> {"waiting", "awaiting", "loaded", "failed"}]
  /\ waitsFor \in [Platforms -> 0..begunRuntimes]
  /\ task \in [1..MaxRuntimes -> {"begun", "read", "done", "broken"}]
  /\ syncing \in {"idle", "controllers", "analytics"}
  /\ {again, noticed, keysNoticed} \subseteq BOOLEAN
  /\ controllers \subseteq PrivateCameras /\ detected \subseteq PrivateCameras
  /\ made \in [Kinds -> SUBSET (Intercoms \cup PrivateCameras)]

\* All loaded platforms share one runtime, that of the key, also if the first to be
\* initialised failed while others had begun to wait for it (private_runtime.py:286-318,
\* "Create one shared standalone-camera runtime across concurrently loaded platforms").
OneRuntime ==
  \A p \in PrivatePlatforms : platform[p] = "loaded" => waitsFor[p] = runtimeKey

\* At rest everything in the account has its entities: a change is not lost that came
\* while the platforms were loading, the runtime was reconciling or an archive was
\* being read (private_entities.py:46-241, event.py:52-108, sensor.py:48-72,
\* button.py:88-113).
NothingIsMissing ==
  /\ keysNoticed => \A k \in KeyKinds :
       Listens(k, platform) => capable \cap known \subseteq made[k]
  /\ noticed /\ Listening /\ syncing = "idle" => \A k \in PrivateKinds :
       Listens(k, platform) =>
         (CASE k = "live" -> Standalone
            [] k = "motion" -> Standalone \cap detected
            [] OTHER -> Standalone \cap recording) \subseteq made[k]
=============================================================================
