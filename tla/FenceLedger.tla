------------------------------- MODULE FenceLedger -------------------------------
(***************************************************************************)
(* What the operator fence promises, with no lease, clock, anchor or       *)
(* session in sight: authority moves from epoch to epoch only while no     *)
(* effect is open, at most one effect is open at a time, an open effect is *)
(* closed by recording one terminal outcome for it, and an effect whose    *)
(* outcome is recorded is never opened again.                              *)
(***************************************************************************)
EXTENDS Integers

CONSTANTS Op, Outcome, None

VARIABLES
    epoch,      \* the generation that holds authority
    open,       \* the effect that is open, or None
    recorded    \* the pairs <<effect, outcome>> recorded so far

ledgerVars == <<epoch, open, recorded>>

Init ==
    /\ epoch = 0
    /\ open = None
    /\ recorded = {}

NewEpoch ==
    /\ open = None
    /\ epoch' \in Nat
    /\ epoch' > epoch
    /\ UNCHANGED <<open, recorded>>

Open(op) ==
    /\ open = None
    /\ \A o \in Outcome : <<op, o>> \notin recorded
    /\ open' = op
    /\ UNCHANGED <<epoch, recorded>>

Close(op, o) ==
    /\ open = op
    /\ open' = None
    /\ recorded' = recorded \cup {<<op, o>>}
    /\ UNCHANGED epoch

Next ==
    \/ NewEpoch
    \/ \E op \in Op : Open(op)
    \/ \E op \in Op, o \in Outcome : Close(op, o)

Spec == Init /\ [][Next]_ledgerVars
=============================================================================
