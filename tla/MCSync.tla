------------------------------- MODULE MCSync -------------------------------
(* Model values for the runs of MemorySync.                                 *)
EXTENDS MemorySync, TLC

CONSTANTS c1, c2

NoKeys == {}
OneConsumer == {c1}
TwoConsumers == {c1, c2}
ConsumerSymmetry == Permutations(TwoConsumers)

\* No step of a reader depends on the search index: the runs about readers need
\* not tell its states apart.
WithoutIndex == <<now, head, floor, entries, idem, blocked, phase, stored, syncVars>>
=============================================================================
