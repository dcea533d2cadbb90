--------------------------- MODULE MCKeyPassages ---------------------------
(* Instances of KeyPassages for TLC.                                       *)
EXTENDS KeyPassages

CONSTANTS fob, card   \* two keys

\* The two keys take turns at every intercom.
KeysTakeTurns == [s \in Intercoms |-> [i \in Rows |-> IF i % 2 = 1 THEN fob ELSE card]]
=============================================================================
