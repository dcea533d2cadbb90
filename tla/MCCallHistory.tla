--------------------------- MODULE MCCallHistory ---------------------------
(* Instances of CallHistory for TLC.                                       *)
EXTENDS CallHistory

CONSTANTS front, yard   \* two cameras

\* One intercom: every call belongs to the same camera.
OneCamera == [c \in Calls |-> front]

\* Two intercoms: the first call rings at the quiet one.
TwoCameras == [c \in Calls |-> IF c = 1 THEN yard ELSE front]
=============================================================================
