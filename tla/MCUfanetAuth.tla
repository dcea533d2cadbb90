---------------------------- MODULE MCUfanetAuth ----------------------------
(* Instances of UfanetAuth for TLC.                                         *)
EXTENDS UfanetAuth

CONSTANTS door, camera, archive   \* one call to Ufanet, two to UCAMS
=============================================================================
