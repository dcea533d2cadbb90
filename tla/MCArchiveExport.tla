-------------------------- MODULE MCArchiveExport --------------------------
(* An instance of ArchiveExport for TLC: one fragment, of a call that two    *)
(* exports may save at once.                                                *)
EXTENDS ArchiveExport, TLC

CONSTANTS
  ring,      \* the fragment of the call
  theRing    \* the call

OneCall == [f \in Fragments |-> theRing]

\* Exports are interchangeable.
JobsAlike == Permutations(Jobs)
=============================================================================
