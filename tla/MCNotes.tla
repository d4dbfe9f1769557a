------------------------------ MODULE MCNotes ------------------------------
(* Model values for the run of MemoryNotes.                                 *)
EXTENDS MemoryNotes

CONSTANT k1

OneKey == {k1}
=============================================================================
