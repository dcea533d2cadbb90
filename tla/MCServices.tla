----------------------------- MODULE MCServices -----------------------------
(* Instances for TLC of the service calls about keys and of the watchdog.    *)
(* They share no state, so one side moves and the other stays as it is at    *)
(* the start; each is as fair as by itself.                                  *)
EXTENDS KeyRename, FcmWatchdog

VARIABLE side

TwoDelays == <<0, 1>>

servicesVars == <<keyVars, vars, side>>

ServicesInit == side \in {"keys", "watchdog"} /\ KeyInit /\ Init

KeysMove(action) == side = "keys" /\ action /\ UNCHANGED <<vars, side>>
WatchdogMoves(action) == side = "watchdog" /\ action /\ UNCHANGED <<keyVars, side>>

ServicesNext == KeysMove(KeyNext) \/ WatchdogMoves(Next)

ServicesSpec ==
  /\ ServicesInit /\ [][ServicesNext]_servicesVars
  /\ WF_servicesVars(KeysMove(Passes))
  /\ \A r \in {"scheduled", "asked"} : WF_servicesVars(KeysMove(Refreshes(r)))
  /\ \A c \in KeyCalls : WF_servicesVars(KeysMove(Serves(c)))
  /\ WF_servicesVars(WatchdogMoves(Tick)) /\ WF_servicesVars(WatchdogMoves(Watchdog))
  /\ SF_servicesVars(WatchdogMoves(Launch)) /\ SF_servicesVars(WatchdogMoves(Connect))

\* Where the watchdog moves, each outage ends with the transport in use again, unless
\* the entry is unloaded (fcm.py:462-547).
OutagesEnd == side = "watchdog" => Reconnects
=============================================================================
