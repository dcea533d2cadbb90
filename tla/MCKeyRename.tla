---------------------------- MODULE MCKeyRename ----------------------------
(* Instances of KeyRename for TLC.                                         *)
EXTENDS KeyRename

\* RENAME_VERIFY_DELAYS in half-seconds; the cooldown of 10 s is then 20.
FiveDelays == <<0, 1, 2, 4, 8>>
=============================================================================
