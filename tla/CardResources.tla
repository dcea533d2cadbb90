---------------------------- MODULE CardResources ----------------------------
(***************************************************************************)
(* How the packaged cards get into the dashboards when Home Assistant      *)
(* starts (async_setup of __init__.py): as resources of Lovelace, which    *)
(* are stored and outlive upgrades and which users edit too, or else as    *)
(* extra scripts of this run.  The extension for authorised devices is     *)
(* always an extra script (authorized_devices.py).                         *)
(*                                                                         *)
(* A resource is a record of an id, a card, the version in its URL and     *)
(* whether it is a module.                                                 *)
(***************************************************************************)
EXTENDS Naturals, Sequences, FiniteSets

CONSTANTS
  MainCard,       \* the archive card, without which nothing is registered
  MoreCards,      \* the cards of keys, of their history and of private cameras
  Extension,      \* the card of authorised devices
  MaxVersion,     \* bound: upgrades
  MaxStarts,      \* bound: starts of Home Assistant
  MaxUserEdits    \* bound: edits of the resources by users

ASSUME CardsAssumption ==
  /\ MainCard \notin MoreCards /\ Extension \notin MoreCards \cup {MainCard}
  /\ {MaxVersion, MaxStarts, MaxUserEdits} \subseteq Nat /\ IsFiniteSet(MoreCards)

AllCards == {MainCard} \cup MoreCards

VARIABLES
  version,      \* of the integration that runs
  onDisk,       \* the cards it has brought
  storage,      \* the resources can be written
  resources,    \* of the dashboards, in their order
  nextResource, \* the id of the next one
  starts,
  setup,        \* "stopped", "cards", "running"
  waiting,      \* cards that have still to be registered
  writing,      \* what is being written for the first of them, or NotWriting
  served,       \* static paths
  extra,        \* extra scripts, with their versions
  guard,        \* hass.data[_FRONTEND_SETUP_GUARD]
  extensionTask,\* the task that serves the extension runs
  edits,
  touched       \* cards that users have edited since (history)

lovelace == <<resources, nextResource>>
cardVars == <<version, onDisk, storage, lovelace, starts, setup, waiting, writing, served, extra,
              guard, extensionTask, edits, touched>>

NotWriting == [id |-> 0]

CardsInit ==
  /\ version = 1 /\ onDisk = {} /\ storage = FALSE
  /\ resources = <<>> /\ nextResource = 1 /\ starts = 0
  /\ setup = "stopped" /\ waiting = <<>> /\ writing = NotWriting
  /\ served = <<>> /\ extra = {} /\ guard = FALSE /\ extensionTask = FALSE
  /\ edits = 0 /\ touched = {}

-----------------------------------------------------------------------------
(* async_setup.                                                            *)

\* The cards one after the other, the main card first.
InTurn(cards) ==
  CHOOSE s \in [1..Cardinality(cards) -> cards] :
    /\ \A c \in cards : \E i \in DOMAIN s : s[i] = c
    /\ MainCard \in cards => s[1] = MainCard

\* Home Assistant starts, with a new version perhaps, and the files of some cards.
\* Without the main card nothing is registered; the others follow it.
HostStarts ==
  /\ setup = "stopped" /\ starts < MaxStarts /\ starts' = starts + 1
  /\ version' \in version..MaxVersion /\ onDisk' \in SUBSET (AllCards \cup {Extension})
  /\ storage' \in BOOLEAN
  /\ LET cards == IF MainCard \in onDisk' THEN onDisk' \ {Extension} ELSE {} IN
       /\ waiting' = InTurn(cards)
       /\ served' = InTurn(cards)
       /\ setup' = IF cards = {} THEN "running" ELSE "cards"
  /\ extra' = {} /\ touched' = {}
  /\ UNCHANGED <<lovelace, writing, guard, extensionTask, edits>>

\* It stops at any time; the resources stay.
HostStops ==
  /\ setup # "stopped" /\ setup' = "stopped"
  /\ waiting' = <<>> /\ writing' = NotWriting /\ served' = <<>> /\ extra' = {}
  /\ guard' = FALSE /\ extensionTask' = FALSE
  /\ UNCHANGED <<version, onDisk, storage, lovelace, starts, edits, touched>>

\* The resources with the address of the card, of whatever version.
Existing(card) == {i \in DOMAIN resources : resources[i].card = card}

NextCard ==
  /\ waiting' = Tail(waiting) /\ writing' = NotWriting
  /\ setup' = IF Len(waiting) = 1 THEN "running" ELSE "cards"

Registering == setup = "cards" /\ writing = NotWriting

\* The resource is already as it should be.
KeepsResource ==
  /\ Registering /\ storage
  /\ \E i \in Existing(Head(waiting)) :
       /\ \A j \in Existing(Head(waiting)) : i <= j
       /\ resources[i].version = version /\ resources[i].module
  /\ NextCard
  /\ UNCHANGED <<version, onDisk, storage, lovelace, starts, served, extra, guard, extensionTask,
                 edits, touched>>

\* The first one is updated, or a new one made; that is written with an await.
WritesResource ==
  /\ Registering /\ storage
  /\ LET found == Existing(Head(waiting)) IN
     \/ /\ found = {}
        /\ writing' = [id |-> 0, card |-> Head(waiting), version |-> version, module |-> TRUE]
     \/ \E i \in found :
          /\ \A j \in found : i <= j
          /\ resources[i].version # version \/ ~resources[i].module
          /\ writing' = [resources[i] EXCEPT !.version = version, !.module = TRUE]
  /\ UNCHANGED <<version, onDisk, storage, lovelace, starts, setup, waiting, served, extra, guard,
                 extensionTask, edits, touched>>

IsNew == writing.id = 0

\* It is written, unless the resource has been deleted meanwhile.
ResourceWritten ==
  /\ setup = "cards" /\ writing # NotWriting
  /\ \/ /\ IsNew
        /\ resources' = Append(resources, [writing EXCEPT !.id = nextResource])
        /\ nextResource' = nextResource + 1
     \/ /\ ~IsNew /\ \E i \in DOMAIN resources : resources[i].id = writing.id
        /\ resources' =
             [i \in DOMAIN resources |-> IF resources[i].id = writing.id THEN writing
                                                                        ELSE resources[i]]
        /\ UNCHANGED nextResource
  /\ NextCard
  /\ UNCHANGED <<version, onDisk, storage, starts, served, extra, guard, extensionTask, edits,
                 touched>>

\* There is no storage, or the request fails: the card becomes an extra script.
FallsBack ==
  /\ setup = "cards"
  /\ extra' = extra \cup {<<Head(waiting), version>>}
  /\ NextCard
  /\ UNCHANGED <<version, onDisk, storage, lovelace, starts, served, guard, extensionTask, edits,
                 touched>>

-----------------------------------------------------------------------------
(* The extension.                                                          *)

\* The button platform of an entry is set up, or reloaded.
ScheduleExtension ==
  /\ setup = "running" /\ ~guard
  /\ guard' = TRUE /\ extensionTask' = TRUE
  /\ UNCHANGED <<version, onDisk, storage, lovelace, starts, setup, waiting, writing, served,
                 extra, edits, touched>>

\* The task serves the file, if there is one, or fails.
ServeExtension ==
  /\ extensionTask /\ extensionTask' = FALSE
  /\ \/ /\ Extension \in onDisk
        /\ served' = Append(served, Extension)
        /\ extra' = extra \cup {<<Extension, version>>}
     \/ UNCHANGED <<served, extra>>
  /\ UNCHANGED <<version, onDisk, storage, lovelace, starts, setup, waiting, writing, guard,
                 edits, touched>>

-----------------------------------------------------------------------------
(* Users.                                                                  *)

Edited(card) ==
  /\ edits < MaxUserEdits /\ edits' = edits + 1
  /\ touched' = touched \cup {card}
  /\ UNCHANGED <<version, onDisk, storage, starts, setup, waiting, writing, served, extra, guard,
                 extensionTask>>

\* README.md:93 tells users to add the main card themselves.
UserAdds ==
  \E card \in AllCards, v \in 1..MaxVersion, module \in BOOLEAN :
    /\ Edited(card)
    /\ resources' = Append(resources, [id |-> nextResource, card |-> card, version |-> v,
                                       module |-> module])
    /\ nextResource' = nextResource + 1

UserDeletes ==
  \E i \in DOMAIN resources :
    /\ Edited(resources[i].card)
    /\ resources' = SubSeq(resources, 1, i - 1) \o SubSeq(resources, i + 1, Len(resources))
    /\ UNCHANGED nextResource

CardsNext ==
  \/ HostStarts \/ HostStops
  \/ KeepsResource \/ WritesResource \/ ResourceWritten \/ FallsBack
  \/ ScheduleExtension \/ ServeExtension
  \/ UserAdds \/ UserDeletes

CardsSpec == CardsInit /\ [][CardsNext]_cardVars

-----------------------------------------------------------------------------
(* Properties.                                                             *)

Serves(card) ==
  \/ <<card, version>> \in extra
  \/ \E i \in DOMAIN resources :
       resources[i].card = card /\ resources[i].version = version /\ resources[i].module

\* When the start is over every card on disk is in the dashboards in the version that
\* runs, however resources were left by earlier versions and failures, unless a user
\* has taken it away again; over all starts and upgrades no card gets a second
\* resource that no user has added; and no path is served twice.
CardsAreServed ==
  /\ setup = "running" /\ MainCard \in onDisk =>
       \A card \in (onDisk \cap AllCards) \ touched : Serves(card)
  /\ edits = 0 => \A card \in AllCards : Cardinality({i \in DOMAIN resources : resources[i].card = card}) <= 1
  /\ \A i, j \in DOMAIN served : served[i] = served[j] => i = j
=============================================================================
