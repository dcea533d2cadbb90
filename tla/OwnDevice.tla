----------------------------- MODULE OwnDevice -----------------------------
(***************************************************************************)
(* What the rest of the integration may rely on about the device an entry  *)
(* has registered with Ufanet, and what it owes to it: the id is proven,   *)
(* readable from the manager or the private store, as long as the device   *)
(* is registered, and nobody but the entry itself withdraws it.            *)
(* FcmRegistration keeps the first half; AccountActions, which removes     *)
(* other devices of the account, must not break the second.                *)
(***************************************************************************)
CONSTANTS
  OwnIds,  \* the device ids this entry may come up with
  NoId     \* no device id

VARIABLES
  present,    \* the entry exists
  proven,     \* the id that the manager or else the store names
  withUfanet, \* the ids of this entry that are registered with Ufanet
  givingUp    \* the entry is having its registration removed

ownVars == <<present, proven, withUfanet, givingUp>>

OwnInit == present = TRUE /\ proven = NoId /\ withUfanet = {} /\ givingUp = FALSE

\* The id comes and goes while nothing is registered under it.
Name ==
  /\ present /\ withUfanet = {}
  /\ proven' \in OwnIds \cup {NoId} /\ givingUp' \in BOOLEAN
  /\ UNCHANGED <<present, withUfanet>>

Register ==
  /\ present /\ proven # NoId
  /\ withUfanet' = {proven}
  /\ UNCHANGED <<present, proven, givingUp>>

Decide ==
  /\ present
  /\ givingUp' \in BOOLEAN
  /\ UNCHANGED <<present, proven, withUfanet>>

Withdraw ==
  /\ present /\ givingUp
  /\ withUfanet' = {}
  /\ UNCHANGED <<present, proven, givingUp>>

\* Home Assistant dies before the id is stored: the device is nobody's from then on.
Lose ==
  /\ present
  /\ proven' = NoId /\ withUfanet' = {} /\ givingUp' = FALSE
  /\ UNCHANGED present

\* The entry is removed; its last request to unregister may have failed.
Leave ==
  /\ present
  /\ present' = FALSE /\ proven' = NoId /\ givingUp' = FALSE
  /\ UNCHANGED withUfanet

OwnNext == Name \/ Register \/ Decide \/ Withdraw \/ Lose \/ Leave

OwnSpec == OwnInit /\ [][OwnNext]_ownVars
=============================================================================
