---------------------------- MODULE FcmWatchdog ----------------------------
(***************************************************************************)
(* The supervision of the push transport: UfanetFcmManager's watchdog task *)
(* (fcm.py), which watches the state of the Firebase client, tells the     *)
(* call coordinator when polling must carry the load, raises and withdraws *)
(* a repair issue, and recreates a client that is gone or stalled.         *)
(*                                                                         *)
(* Time passes in ticks of FCM_WATCHDOG_INTERVAL_SECONDS.  The awaits of   *)
(* the task are its program counter; between two of them it is atomic.     *)
(***************************************************************************)
EXTENDS Integers

CONSTANTS
  RepairTicks,   \* FCM_REPAIR_AFTER_SECONDS (24 ticks in the code)
  StallTicks,    \* FCM_TRANSPORT_STALL_SECONDS (36)
  BaseDelay,     \* FCM_RESTART_BASE_SECONDS (1)
  MaxDelay,      \* FCM_RESTART_MAX_SECONDS (60)
  MaxFailures,   \* bound: consecutive failures that are told apart
  MaxLosses      \* bound: how often an established transport is lost

ASSUME TicksAssumption ==
  /\ RepairTicks \in Nat \ {0} /\ StallTicks \in Nat /\ RepairTicks <= StallTicks
ASSUME DelaysAssumption ==
  /\ BaseDelay \in Nat \ {0} /\ MaxDelay \in Nat /\ BaseDelay <= MaxDelay
ASSUME BoundsAssumption == MaxFailures \in Nat \ {0} /\ MaxLosses \in Nat
\* Arithmetic that TLC can evaluate and the provers cannot.
ASSUME PowersAssumption == \A n \in 0 .. MaxFailures : 2^n \in Nat

VARIABLES
  pc,         \* the task: "attempting", "launched", "sleeping", "due",
              \* "stopping", "waiting", "stopped"
  transport,  \* the client: "none", "connecting", "healthy", "terminal"
  started,    \* listener_started
  running,    \* listener_running: polling is relaxed to its safety interval
  outage,     \* ticks since _unhealthy_since, NoOutage for None
  failures,   \* consecutive_failures
  issue,      \* the repair issue fcm_listener_unavailable
  wait,       \* ticks left to wait before the restart
  losses,     \* how often the transport was lost
  lost,       \* ticks without a transport, at most two are counted (history)
  idle,       \* ticks since the last attempt began, likewise (history)
  quick       \* restarts of this outage after the shortest delay, up to three (history)

health  == <<running, outage, failures, issue>>
history == <<lost, idle, quick>>
vars == <<pc, transport, started, running, outage, failures, issue, wait, losses,
          lost, idle, quick>>

NoOutage == -1

AtMost(bound, n) == IF n > bound THEN bound ELSE n

Healthy == started /\ transport = "healthy"

Delay == AtMost(MaxDelay, BaseDelay * 2^(IF failures = 0 THEN 0 ELSE failures - 1))

\* How long the transport has been away, once it has been looked at.
OutageNow ==
  IF Healthy THEN NoOutage
  ELSE IF running \/ outage = NoOutage THEN 0
  ELSE outage

\* A faulty Evaluate, which notices no loss.
EvaluateGains(raises) ==
  /\ running' = (running \/ Healthy)
  /\ outage' = OutageNow
  /\ failures' = IF Healthy /\ ~running THEN 0 ELSE failures
  /\ issue' = IF Healthy /\ ~running THEN FALSE ELSE issue \/ raises

\* A faulty Evaluate, which leaves the issue of the last outage.
EvaluateLeavesIssue(raises) ==
  /\ running' = Healthy
  /\ outage' = OutageNow
  /\ failures' = IF Healthy /\ ~running THEN 0 ELSE failures
  /\ issue' = (issue \/ raises)

\* _async_evaluate_transport; an iteration may raise the issue thereafter.
Evaluate(raises) ==
  /\ running' = Healthy
  /\ outage' = OutageNow
  /\ failures' = IF Healthy /\ ~running THEN 0 ELSE failures
  /\ issue' = IF Healthy /\ ~running THEN FALSE ELSE issue \/ raises

-----------------------------------------------------------------------------
\* async_start: the first attempt belongs to the setup of the entry.
Init ==
  /\ pc = "attempting"
  /\ transport = "connecting" /\ started = FALSE
  /\ running = FALSE /\ outage = 0 /\ failures = 0 /\ issue = FALSE
  /\ wait = 0
  /\ losses = 0
  /\ lost = 0 /\ idle = 0 /\ quick = 0

\* Five seconds pass; whatever is due is done first.
Tick ==
  /\ pc \notin {"due", "stopped"} /\ ~(pc = "waiting" /\ wait = 0)
  /\ pc' = IF pc = "sleeping" THEN "due" ELSE pc
  /\ wait' = IF pc = "waiting" THEN wait - 1 ELSE wait
  /\ outage' = IF outage = NoOutage THEN NoOutage ELSE AtMost(StallTicks, outage + 1)
  /\ lost' = IF transport = "healthy" THEN 0 ELSE AtMost(2, lost + 1)
  /\ idle' = AtMost(2, idle + 1)
  /\ UNCHANGED <<transport, started, running, failures, issue, losses, quick>>

-----------------------------------------------------------------------------
(* The client.                                                             *)

Connect ==
  /\ started /\ transport = "connecting"
  /\ transport' = "healthy"
  /\ lost' = 0
  /\ UNCHANGED <<pc, started, health, wait, losses, idle, quick>>

\* The connection is lost: the library tries again by itself, or gives up.
Lose ==
  /\ started /\ transport \in {"connecting", "healthy"} /\ losses < MaxLosses
  /\ transport' \in {"connecting", "terminal"} \ {transport}
  /\ losses' = losses + 1
  /\ UNCHANGED <<pc, started, health, wait, history>>

-----------------------------------------------------------------------------
(* The watchdog: _async_watchdog_iteration.                                *)

\* A faulty Terminal: a client that could not be started is not missed.
TerminalState == transport = "terminal"

Terminal == transport \in {"none", "terminal"}
Stalled == started /\ OutageNow >= StallTicks
Prolonged == OutageNow >= RepairTicks

FindHealthy ==
  /\ pc = "due" /\ Healthy
  /\ pc' = "sleeping"
  /\ Evaluate(FALSE)
  /\ quick' = 0
  /\ UNCHANGED <<transport, started, wait, losses, lost, idle>>

KeepWaiting ==
  /\ pc = "due" /\ ~Healthy /\ ~Terminal /\ ~Stalled
  /\ pc' = "sleeping"
  /\ Evaluate(Prolonged)
  /\ UNCHANGED <<transport, started, wait, losses, history>>

\* A faulty GiveUp: the client is dropped but still counts as started.
GiveUpStarted ==
  /\ pc = "due" /\ ~Healthy /\ (Terminal \/ Stalled)
  /\ pc' = "stopping"
  /\ Evaluate(Prolonged)
  /\ transport' = "none"
  /\ wait' = Delay
  /\ quick' = IF Delay = BaseDelay THEN AtMost(3, quick + 1) ELSE quick
  /\ UNCHANGED <<started, losses, lost, idle>>

GiveUp ==
  /\ pc = "due" /\ ~Healthy /\ (Terminal \/ Stalled)
  /\ pc' = "stopping"
  /\ Evaluate(Prolonged)
  /\ transport' = "none" /\ started' = FALSE
  /\ wait' = Delay
  /\ quick' = IF Delay = BaseDelay THEN AtMost(3, quick + 1) ELSE quick
  /\ UNCHANGED <<losses, lost, idle>>

ClientStops ==
  /\ pc = "stopping"
  /\ pc' = "waiting"
  /\ UNCHANGED <<transport, started, health, wait, losses, history>>

-----------------------------------------------------------------------------
(* One attempt: _async_attempt_start and the look at its result.           *)

Attempt ==
  /\ pc = "waiting" /\ wait = 0
  /\ pc' = "attempting"
  /\ transport' = "connecting"
  /\ idle' = 0
  /\ UNCHANGED <<started, health, wait, losses, lost, quick>>

\* Checkin, registration or the start of the listener fails.
AttemptFails ==
  /\ pc = "attempting"
  /\ pc' = "sleeping"
  /\ transport' = "none"
  /\ failures' = AtMost(MaxFailures, failures + 1)
  /\ outage' = OutageNow
  /\ UNCHANGED <<started, running, issue, wait, losses, history>>

Launch ==
  /\ pc = "attempting"
  /\ pc' = "launched"
  /\ started' = TRUE
  /\ UNCHANGED <<transport, health, wait, losses, history>>

\* The state is saved; by then the listener may have got somewhere.
AttemptEnds ==
  /\ pc = "launched"
  /\ pc' = "sleeping"
  /\ Evaluate(FALSE)
  /\ quick' = IF Healthy THEN 0 ELSE quick
  /\ UNCHANGED <<transport, started, wait, losses, lost, idle>>

\* async_stop cancels the task wherever it is and stops the client.
Stop ==
  /\ pc # "stopped"
  /\ pc' = "stopped"
  /\ transport' = "none" /\ started' = FALSE
  /\ running' = FALSE /\ issue' = FALSE
  /\ UNCHANGED <<outage, failures, wait, losses, history>>

-----------------------------------------------------------------------------
Watchdog ==
  FindHealthy \/ KeepWaiting \/ GiveUp \/ ClientStops \/ Attempt \/ AttemptEnds

Next ==
  \/ Tick \/ Connect \/ Lose
  \/ Watchdog
  \/ AttemptFails \/ Launch
  \/ Stop

Spec == Init /\ [][Next]_vars

\* Time passes, the task goes on, and the outside, asked again and again, does
\* not refuse for ever.
Fairness ==
  /\ WF_vars(Tick)
  /\ WF_vars(Watchdog)
  /\ SF_vars(Launch)
  /\ SF_vars(Connect)

FairSpec == Spec /\ Fairness

-----------------------------------------------------------------------------
TypeOK ==
  /\ pc \in {"attempting", "launched", "sleeping", "due", "stopping", "waiting", "stopped"}
  /\ transport \in {"none", "connecting", "healthy", "terminal"}
  /\ started \in BOOLEAN /\ running \in BOOLEAN /\ issue \in BOOLEAN
  /\ outage \in NoOutage .. StallTicks
  /\ failures \in 0 .. MaxFailures
  /\ wait \in 0 .. MaxDelay
  /\ losses \in 0 .. MaxLosses
  /\ lost \in 0 .. 2 /\ idle \in 0 .. 2 /\ quick \in 0 .. 3

\* Polling is relaxed to its safety interval only while the transport is up: a
\* loss is acted upon, and normal polling restored, before a second tick of the
\* watchdog passes without a transport (CHANGELOG.md:155, fcm.py:507-547).
PollingReturns == running => lost <= 1

\* The repair issue speaks of a prolonged outage that is not over yet: it is
\* never raised early, never while polling is relaxed, and goes with recovery.
RepairIssueIsTrue == issue => ~running /\ outage >= RepairTicks

\* What the two rest on: where the task may hold a relaxed interval, and how
\* fresh a loss still is there.
IInv ==
  /\ TypeOK
  /\ PollingReturns
  /\ RepairIssueIsTrue
  /\ running => pc \in {"sleeping", "due"} /\ outage = NoOutage
  /\ running /\ pc = "sleeping" => lost = 0
  /\ transport = "healthy" => lost = 0
  /\ pc \in {"stopping", "waiting", "attempting", "stopped"} => ~started

\* Each outage ends with the transport in use again, unless the entry is
\* unloaded: no failure, terminal state or stall leaves the watchdog idle.
Reconnects == []<>(running \/ pc = "stopped")

\* CHANGELOG.md:154: "Added an FCM watchdog that distinguishes listener task
\* startup from a confirmed MCS connection and recreates terminal or stalled
\* listeners with exponential backoff."  The shortest delay is due before and
\* after the first failure; a third one in the same outage is no backoff.
RestartsBackOff == quick <= 2
=============================================================================
