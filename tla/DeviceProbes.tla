---------------------------- MODULE DeviceProbes ----------------------------
(***************************************************************************)
(* The probes of tools/research that find out what removing a device from  *)
(* the account does: to the login it was made with, to that of the probe,  *)
(* to the list of authorised devices.  Three kinds: those that remove and  *)
(* restore a device of their own (fcm_probe_py), those that remove one the *)
(* user names, and one that only watches (auth_session_probe_py).          *)
(*                                                                         *)
(* A probe is a script.  Each request may fail without effect or after it  *)
(* was carried out, but not be carried out after that; the list of devices *)
(* may lag behind; and what the provider does with the tokens is open.     *)
(***************************************************************************)
EXTENDS Naturals, Sequences

CONSTANTS
  ProbeDevice,    \* ufanet_device_id of the state file
  OtherDevices,
  MaxNoise        \* bound: devices that come and go by themselves

ASSUME ProbeAssumption == ProbeDevice \notin OtherDevices /\ MaxNoise \in Nat

Tokens == {"access", "refresh", "observer", "refreshed"}

VARIABLES
  probe,       \* which one, see Script
  phase,       \* "probing", "restoring" or "over"
  todo,        \* steps that are left
  markedForRestore, \* restore_needed
  ending,      \* "none", "done", "failed", "not restored", "killed"
  target,      \* the device that is removed
  seen,        \* the lists of devices it has read
  passed,      \* the tests of tokens that were accepted
  said,        \* its conclusion, or "nothing"
  enrolled,    \* devices of the account
  listing,     \* the list of them, which may lag
  usable,      \* tokens of the probe that are valid
  invalidates, \* those of them that a removal invalidates
  coupled,     \* DELETE /api/v0/fcm/ takes a device from the list, too
  had,         \* the probe's device has been in the account (history)
  noise,       \* devices that came or went (bound)
  confounded   \* answers were not due to the removal alone (history)

provider == <<enrolled, listing, usable, invalidates, coupled>>
probeVars == <<probe, phase, todo, markedForRestore, ending, target, seen, passed, said,
               provider, had, noise, confounded>>

-----------------------------------------------------------------------------
(* The scripts.                                                            *)

LogoutProbe ==
  <<"enrol", "present", "check", "remove", "absent", "access", "refresh", "refreshed",
    "observer", "conclude">>
DeleteProbe == LogoutProbe
VerifyLogout == <<"enrol", "present", "remove", "absent", "restore">>
VerifyUnregister == <<"enrol", "remove", "restore">>
RevokeProbe == <<"check", "resolve", "remove", "look", "check", "renew", "check", "conclude">>
UnregisterProbe == RevokeProbe
SessionProbe == <<"look", "look", "check", "look", "renew", "check", "look", "conclude">>

Script(p) ==
  CASE p = "logout" -> LogoutProbe [] p = "delete" -> DeleteProbe
    [] p = "verify logout" -> VerifyLogout [] p = "verify unregister" -> VerifyUnregister
    [] p = "revoke" -> RevokeProbe [] p = "unregister" -> UnregisterProbe
    [] p = "session" -> SessionProbe

Restoring == {"logout", "delete"}
Verifying == {"verify logout", "verify unregister"}
Naming == {"revoke", "unregister"}

\* The steps of a restoration; verify_unregister does not look whether it is seen.
Restoration == IF probe = "verify unregister" THEN <<"enrol">> ELSE <<"enrol", "present">>

ProbeInit ==
  /\ probe \in Restoring \cup Verifying \cup Naming \cup {"session"}
  /\ phase = "probing" /\ todo = Script(probe)
  /\ markedForRestore = FALSE /\ ending = "none" /\ target = ProbeDevice
  /\ seen = <<>> /\ passed = {} /\ said = "nothing"
  /\ enrolled \in SUBSET (OtherDevices \cup {ProbeDevice}) /\ listing = enrolled
  /\ usable = Tokens \ {"refreshed"} /\ coupled \in BOOLEAN
  /\ invalidates \in SUBSET {"access", "refresh", "observer"}
  /\ had = (ProbeDevice \in enrolled) /\ noise = 0 /\ confounded = FALSE

-----------------------------------------------------------------------------
(* How a step goes on.                                                     *)

Doing(step) == phase # "over" /\ todo # <<>> /\ Head(todo) = step

GoOn ==
  IF Len(todo) > 1 THEN todo' = Tail(todo) /\ UNCHANGED <<phase, ending>>
  ELSE IF phase = "probing" /\ markedForRestore'
  THEN todo' = Restoration /\ phase' = "restoring" /\ ending' = "done"
  ELSE /\ todo' = <<>> /\ phase' = "over"
       /\ ending' = IF phase = "probing" THEN "done" ELSE ending

\* An exception: the finally clause restores, if that is needed; an exception in the
\* restoration is reported as such.
RaiseError ==
  IF phase = "probing" /\ markedForRestore'
  THEN todo' = Restoration /\ phase' = "restoring" /\ ending' = "failed"
  ELSE /\ todo' = <<>> /\ phase' = "over"
       /\ ending' = IF phase = "restoring" THEN "not restored" ELSE "failed"

\* The login a request is made with: the restoration of the finally clause makes its own.
Login(step) ==
  CASE probe \in Restoring /\ phase = "restoring" -> "fresh"
    [] probe \in Restoring /\ (step = "absent" \/ step = "present") -> "observer"
    [] "refreshed" \in usable -> "refreshed"
    [] OTHER -> "access"
Accepted(step) == Login(step) \in usable \cup {"fresh"}

-----------------------------------------------------------------------------
(* The steps.                                                              *)

Enrol ==
  /\ Doing("enrol")
  /\ \E done \in {Accepted("enrol"), FALSE} : \E answered \in {done, FALSE} :
       /\ enrolled' = IF done THEN enrolled \cup {ProbeDevice} ELSE enrolled
       /\ had' = (had \/ done)
       /\ UNCHANGED markedForRestore
       /\ IF answered THEN GoOn ELSE RaiseError
  /\ UNCHANGED <<probe, target, seen, passed, said, listing, usable, invalidates, coupled, noise,
                 confounded>>

\* _wait_authorized_device_presence: until the list shows what is expected, or too long.
Wait(step, expected) ==
  /\ Doing(step)
  /\ UNCHANGED markedForRestore
  /\ IF Accepted(step) /\ (ProbeDevice \in listing) = expected THEN GoOn ELSE RaiseError
  /\ UNCHANGED <<probe, target, seen, passed, said, provider, had, noise, confounded>>
WaitPresent == Wait("present", TRUE)
WaitAbsent == Wait("absent", FALSE)

\* A faulty RemoveDevice, after which the restoration is marked only with its answer.
RemoveDeviceThenMark ==
  /\ Doing("remove")
  /\ \E done, answered \in BOOLEAN :
       /\ answered => done
       /\ enrolled' = IF done /\ (probe \in {"logout", "verify logout", "revoke"} \/ coupled)
                      THEN enrolled \ {target} ELSE enrolled
       /\ usable' = IF done THEN usable \ invalidates ELSE usable
       /\ markedForRestore' = (probe \in Restoring /\ answered)
       /\ IF answered THEN GoOn ELSE RaiseError
  /\ UNCHANGED <<probe, target, seen, passed, said, listing, invalidates, coupled, had, noise,
                 confounded>>

\* The request logs the device out or only deletes its registration; the probes with a
\* finally clause have marked before that the device is to be restored.
RemoveDevice ==
  /\ Doing("remove")
  /\ \E done, answered \in BOOLEAN :
       /\ answered => done
       /\ enrolled' = IF done /\ (probe \in {"logout", "verify logout", "revoke"} \/ coupled)
                      THEN enrolled \ {target} ELSE enrolled
       /\ usable' = IF done THEN usable \ invalidates ELSE usable
       /\ markedForRestore' = (probe \in Restoring)
       /\ IF answered THEN GoOn ELSE RaiseError
  /\ UNCHANGED <<probe, target, seen, passed, said, listing, invalidates, coupled, had, noise,
                 confounded>>

\* A token is tried; an answer that is neither yes nor no counts as no.
TestToken ==
  /\ \E t \in {"access", "refresh", "refreshed", "observer"} :
       /\ Doing(t)
       /\ \E other \in BOOLEAN :
            LET works == t \in usable /\ ~other IN
              /\ passed' = IF works THEN passed \cup {t} ELSE passed
              /\ usable' = IF works /\ t = "refresh" THEN usable \cup {"refreshed"} ELSE usable
              /\ confounded' = (confounded \/ other)
  /\ UNCHANGED markedForRestore
  /\ GoOn
  /\ UNCHANGED <<probe, target, seen, said, enrolled, listing, invalidates, coupled, had, noise>>

\* A request that must be accepted, with what is used of the login.
CheckAccess ==
  /\ Doing("check")
  /\ UNCHANGED markedForRestore
  /\ IF Accepted("check") THEN GoOn ELSE RaiseError
  /\ UNCHANGED <<probe, target, seen, passed, said, provider, had, noise, confounded>>

Renew ==
  /\ Doing("renew")
  /\ UNCHANGED markedForRestore
  /\ IF "refresh" \in usable THEN usable' = usable \cup {"refreshed"} /\ GoOn
                             ELSE UNCHANGED usable /\ RaiseError
  /\ UNCHANGED <<probe, target, seen, passed, said, enrolled, listing, invalidates, coupled, had,
                 noise, confounded>>

\* The device the user has named must be one of the list.
ResolveTarget ==
  /\ Doing("resolve")
  /\ UNCHANGED markedForRestore
  /\ \E d \in listing \ {ProbeDevice} : target' = d
  /\ GoOn
  /\ UNCHANGED <<probe, seen, passed, said, provider, had, noise, confounded>>

\* The list is read; "revoke" does not accept that its target is still there.
Look ==
  /\ Doing("look")
  /\ seen' = Append(seen, listing)
  /\ UNCHANGED markedForRestore
  /\ confounded' = (confounded \/ listing # enrolled)
  /\ IF ~Accepted("look") \/ (probe = "revoke" /\ target \in listing) THEN RaiseError ELSE GoOn
  /\ UNCHANGED <<probe, target, passed, said, provider, had, noise>>

Unchanged(before, after) == before = after

Conclusion ==
  CASE probe \in Restoring ->
         IF {"access", "refresh", "refreshed", "observer"} \subseteq passed THEN "survived"
         ELSE IF probe = "delete" /\ {"access", "observer"} \subseteq passed
                 /\ "refresh" \notin passed THEN "refresh rejected"
         ELSE IF passed = {"observer"} THEN "rejected"
         ELSE "mixed"
    [] probe = "revoke" -> "survived"
    [] probe = "unregister" -> IF target \in seen[1] THEN "kept" ELSE "gone"
    [] probe = "session" ->
         IF \A i \in 1..3 : Unchanged(seen[i], seen[i + 1]) THEN "unchanged" ELSE "changed"

Conclude ==
  /\ Doing("conclude")
  /\ said' = Conclusion
  /\ UNCHANGED markedForRestore
  /\ GoOn
  /\ UNCHANGED <<probe, target, seen, passed, provider, had, noise, confounded>>

\* The verifying probes restore when all has gone well.
Restore ==
  /\ Doing("restore")
  /\ todo' = Restoration /\ phase' = "restoring" /\ ending' = "done"
  /\ UNCHANGED <<probe, markedForRestore, target, seen, passed, said, provider, had, noise,
                 confounded>>

\* A request fails, or the user interrupts the probe.
StepFails ==
  /\ phase # "over" /\ Head(todo) \notin {"conclude", "restore"}
  /\ UNCHANGED markedForRestore
  /\ RaiseError
  /\ UNCHANGED <<probe, target, seen, passed, said, provider, had, noise, confounded>>

\* The probe dies, or is interrupted in its restoration.
ProbeDies ==
  /\ phase # "over"
  /\ todo' = <<>> /\ phase' = "over" /\ ending' = "killed"
  /\ UNCHANGED <<probe, markedForRestore, target, seen, passed, said, provider, had, noise,
                 confounded>>

-----------------------------------------------------------------------------
(* The provider.                                                           *)

ListingFollows ==
  /\ listing # enrolled /\ listing' = enrolled
  /\ UNCHANGED <<probe, phase, todo, markedForRestore, ending, target, seen, passed, said,
                 enrolled, usable, invalidates, coupled, had, noise, confounded>>

Noise ==
  /\ phase # "over" /\ noise < MaxNoise /\ noise' = noise + 1 /\ confounded' = TRUE
  /\ \E d \in OtherDevices : enrolled' = (enrolled \cup {d}) \ (enrolled \cap {d})
  /\ UNCHANGED <<probe, phase, todo, markedForRestore, ending, target, seen, passed, said,
                 listing, usable, invalidates, coupled, had>>

ProbeNext ==
  \/ Enrol \/ WaitPresent \/ WaitAbsent \/ RemoveDevice \/ TestToken \/ CheckAccess \/ Renew
  \/ ResolveTarget \/ Look \/ Conclude \/ Restore \/ StepFails \/ ProbeDies
  \/ ListingFollows \/ Noise

ProbeSpec == ProbeInit /\ [][ProbeNext]_probeVars

-----------------------------------------------------------------------------
(* Properties.                                                             *)

\* A probe that removes its own device has put it back when it ends, or says that it
\* could not, unless it dies: whichever request fails, and on whichever side of its
\* being carried out (logout_jwt_probe.py:353-477, fcm_delete_jwt_probe.py:133-279).
\* The older verifying probes promise that only for when they succeed (probe.py:382-494).
IsPutBack ==
  phase = "over" =>
    /\ probe \in Restoring /\ ending \in {"done", "failed"} /\ had => ProbeDevice \in enrolled
    /\ probe \in Verifying /\ ending = "done" => ProbeDevice \in enrolled

\* What a probe concludes is so.  That a removal leaves the login alone it never
\* concludes wrongly; that it does not, only if something else went wrong as well.
ConclusionsHold ==
  /\ said = "survived" => invalidates \cap {"access", "refresh"} = {}
  /\ said = "rejected" => {"access", "refresh"} \subseteq invalidates \/ confounded
  /\ said = "refresh rejected" => "refresh" \in invalidates \/ confounded
  /\ said = "kept" => ~coupled \/ confounded
  /\ said = "gone" => coupled \/ confounded
  /\ said = "unchanged" => \A i \in DOMAIN seen : seen[i] = seen[1]

ProbesAreHonest == IsPutBack /\ ConclusionsHold
=============================================================================
