----------------------------- MODULE CallSensor -----------------------------
(***************************************************************************)
(* The sensor that is on for a while after a call (binary_sensor.py): each *)
(* call arms a timer anew, and an entity that is removed disarms it.       *)
(***************************************************************************)
EXTENDS Naturals

CONSTANTS
  RingTime,   \* INCOMING_CALL_STATE_SECONDS
  MaxClock,   \* bound: time that passes
  MaxAdds     \* bound: how often the entity is added

Never == MaxClock + RingTime + 1

ASSUME SensorBounds == RingTime \in Nat \ {0} /\ MaxClock \in Nat /\ MaxAdds \in Nat

VARIABLES
  clock,
  added,        \* the entity is there
  adds,
  isOn,         \* _attr_is_on
  turnOff,      \* _cancel_turn_off: when the timer it cancels is due, or Never
  timers,       \* timers that are armed
  calledAt      \* the last call since it is there, or Never (history)

sensorVars == <<clock, added, adds, isOn, turnOff, timers, calledAt>>

SensorInit ==
  /\ clock = 0 /\ added = FALSE /\ adds = 0
  /\ isOn = FALSE /\ turnOff = Never /\ timers = {} /\ calledAt = Never

AddSensor ==
  /\ ~added /\ added' = TRUE /\ adds < MaxAdds /\ adds' = adds + 1
  /\ isOn' = FALSE /\ turnOff' = Never /\ calledAt' = Never
  /\ UNCHANGED <<clock, timers>>

HandleCall ==
  /\ added
  /\ timers' = (timers \ {turnOff}) \cup {clock + RingTime}
  /\ turnOff' = clock + RingTime /\ isOn' = TRUE
  /\ calledAt' = clock
  /\ UNCHANGED <<clock, added, adds>>

TurnOff ==
  /\ clock \in timers /\ timers' = timers \ {clock}
  /\ turnOff' = Never /\ isOn' = FALSE
  /\ UNCHANGED <<clock, added, adds, calledAt>>

RemoveSensor ==
  /\ added /\ added' = FALSE
  /\ timers' = timers \ {turnOff} /\ turnOff' = Never
  /\ UNCHANGED <<clock, adds, isOn, calledAt>>

\* Timers are kept on time.
Pass ==
  /\ clock < MaxClock /\ clock \notin timers /\ clock' = clock + 1
  /\ UNCHANGED <<added, adds, isOn, turnOff, timers, calledAt>>

SensorNext == AddSensor \/ HandleCall \/ TurnOff \/ RemoveSensor \/ Pass

SensorSpec == SensorInit /\ [][SensorNext]_sensorVars

-----------------------------------------------------------------------------
(* Properties.                                                             *)

\* Types, and the sensor rings for its whole time after the last call and no longer,
\* however calls, timers, removals and additions follow each other: a timer of an
\* earlier call or of a removed entity turns nothing off (binary_sensor.py:50-90).
SensorInv ==
  /\ clock \in 0..MaxClock /\ adds \in 0..MaxAdds
  /\ {added, isOn} \subseteq BOOLEAN
  /\ {turnOff, calledAt} \subseteq 0..Never /\ timers \subseteq 0..Never
  /\ added => /\ isOn => calledAt # Never /\ clock <= calledAt + RingTime
              /\ calledAt # Never /\ clock < calledAt + RingTime => isOn
  /\ ~added => timers = {}
=============================================================================
