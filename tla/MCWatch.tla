------------------------------ MODULE MCWatch ------------------------------
(* Model values for the run of MemoryWatch.                                 *)
EXTENDS MemoryWatch, TLC

CONSTANTS h1, h2

TwoHandlers == {h1, h2}

\* No action and no property tells the bridge's handlers apart.
HandlerSymmetry == Permutations(TwoHandlers)
=============================================================================
