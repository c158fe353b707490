----------------------------- MODULE MCOperatorFence -----------------------------
(* Two peers with one session and two operations of which one intent is     *)
(* shared, so that both UNIQUE keys of the settlements table matter.        *)
EXTENDS OperatorFence, TLC

CONSTANTS p1, p2, s1, o1, o2, i1, i2, e1

MCOwner == {p1, p2}
MCSession == {s1}
MCOp == {o1, o2}
MCIntent == {i1, i2}
MCEvidence == {e1}
MCLease == {1}

\* Peers, operations and intents are only compared for equality, here and in
\* the properties of OperatorFence.cfg, none of which is a liveness property.
MCSymmetry ==
    Permutations(MCOwner) \cup Permutations(MCOp) \cup Permutations(MCIntent)
=============================================================================
