----------------------------- MODULE MCDevices -----------------------------
(* Instances for TLC of what happens in the account and what an entry makes *)
(* of it: an entry with its own registration, the service calls of all      *)
(* entries, which know an entry's own device as OwnDevice, the tokens of a  *)
(* camera, the entities, the call sensor, the resources of the cards, and   *)
(* the probes.  They share no state, so one side moves and the others stay  *)
(* as they are at the start.                                                *)
EXTENDS FcmRegistration, AccountActions, CameraTokens, Entities, CallSensor, CardResources,
        DeviceProbes

CONSTANTS
  first, second, third,     \* the ids the entry may come up with
  home, cottage,            \* two entries of one account
  homeId, cottageId,        \* their device ids
  phone, tablet,            \* other devices
  gateLink, doorLink, guest, firstInvite, secondInvite,
  gate, door,               \* two intercoms
  one, another,             \* two service calls
  mainCard, keysCard, devicesCard, probeDevice

VARIABLE side

EachOneId == [e \in Entries |-> IF e = home THEN {homeId} ELSE {cottageId}]

TwoIntercoms ==
  [i \in {gateLink, doorLink, guest, firstInvite, secondInvite} |->
     IF i = doorLink THEN door ELSE gate]

Symmetric == Permutations(Calls) \cup Permutations(Phones)

\* Bound: devices and guests share no state, so only one of them moves; and one
\* call is about devices, since Disappears and Appears do what others would do.
OneFamily ==
  \/ /\ \A c \in Calls : call[c].pc # "idle" => call[c].do.class # Devices
     /\ remote \cap Devices = Phones
     /\ \A e \in Entries : proven[e] = NoDevice /\ withdrawing = {}
  \/ /\ \A c, d \in Calls : call[c].pc # "idle" /\ call[d].pc # "idle" => c = d
     /\ \A c \in Calls : call[c].pc # "idle" => call[c].do.class = Devices
     /\ remote \subseteq Devices
     /\ restarts = 0

\* Platforms of each kind; number is like datetime, and button like event and datetime.
SomePlatforms == {"camera", "datetime", "event", "sensor"}

devicesVars ==
  <<vars, accountVars, tokenVars, entityVars, sensorVars, cardVars, probeVars, side>>

DevicesInit ==
  /\ side \in {"entry", "calls", "tokens", "entities", "sensor", "cards", "probes"}
  /\ Init /\ (side # "entry" => mode = "fcm")
  /\ AccountInit /\ (side # "calls" => remote = Phones)
  /\ TokenInit /\ SensorInit /\ CardsInit
  /\ EntitiesInit /\ (side # "entities" => known = {} /\ inventory = {})
  /\ ProbeInit /\ (side # "probes" => probe = "session" /\ enrolled = {} /\ invalidates = {}
                                     /\ coupled)

DevicesNext ==
  \/ side = "entry" /\ Next
     /\ UNCHANGED <<accountVars, tokenVars, entityVars, sensorVars, cardVars, probeVars, side>>
  \/ side = "calls" /\ AccountNext
     /\ UNCHANGED <<vars, tokenVars, entityVars, sensorVars, cardVars, probeVars, side>>
  \/ side = "tokens" /\ TokenNext
     /\ UNCHANGED <<vars, accountVars, entityVars, sensorVars, cardVars, probeVars, side>>
  \/ side = "entities" /\ EntitiesNext
     /\ UNCHANGED <<vars, accountVars, tokenVars, sensorVars, cardVars, probeVars, side>>
  \/ side = "sensor" /\ SensorNext
     /\ UNCHANGED <<vars, accountVars, tokenVars, entityVars, cardVars, probeVars, side>>
  \/ side = "cards" /\ CardsNext
     /\ UNCHANGED <<vars, accountVars, tokenVars, entityVars, sensorVars, probeVars, side>>
  \/ side = "probes" /\ ProbeNext
     /\ UNCHANGED <<vars, accountVars, tokenVars, entityVars, sensorVars, cardVars, side>>

DevicesSpec == DevicesInit /\ [][DevicesNext]_devicesVars

\* Types; one request for a camera at a time; one runtime of private cameras for all
\* platforms; the call sensor rings for its time; and the cards are served.
DevicesInv ==
  CASE side = "tokens" -> TokenInv
    [] side = "entities" -> EntitiesTypeOK /\ OneRuntime
    [] side = "sensor" -> SensorInv
    [] side = "calls" -> AccountInv
    [] side = "cards" -> CardsAreServed
    [] side = "probes" -> TRUE
    [] side = "entry" -> IInv
=============================================================================
