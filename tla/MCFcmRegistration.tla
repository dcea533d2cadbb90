------------------------- MODULE MCFcmRegistration -------------------------
(* Instances of FcmRegistration for TLC.                                   *)
EXTENDS FcmRegistration

CONSTANTS first, second, third   \* three device ids
=============================================================================
