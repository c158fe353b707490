---------------------------- MODULE MCReconcileCycle ----------------------------
(* Three tasks at a time: one that succeeds, one that fails and whose host is    *)
(* retired, and one whose receipt can never be written.                         *)
EXTENDS ReconcileCycle
CONSTANTS good, bad, poison
=============================================================================
