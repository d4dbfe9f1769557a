----------------------------- MODULE MCNotifier -----------------------------
(* Model values for the runs of Notifier.                                   *)
EXTENDS Notifier

CONSTANT b1

OneBinding == {b1}
NoBindings == {}
=============================================================================
