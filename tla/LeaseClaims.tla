------------------------------- MODULE LeaseClaims -------------------------------
(***************************************************************************)
(* What the lease table promises, with no row, clock, nonce or marker in   *)
(* sight: an owner claims keys in one step, and only if no claim of        *)
(* another owner that holds stands in the way of its request; a claim      *)
(* leaves only by being dropped, never to another owner in the same step;  *)
(* and a task that is over loses all its claims and claims nothing again.  *)
(*                                                                         *)
(* A claim that ran out stays on record until it is dropped or its key is  *)
(* claimed anew.  Until then its owner may bring it back, and nothing is   *)
(* asked of it then: that the exclusions were looked at when it was made   *)
(* is all that is promised.                                                *)
(***************************************************************************)
EXTENDS Naturals

CONSTANTS
    Owner, Task, Key,
    Excludes    \* <<owner, keys, claim>>: the claim, while it holds, stands in
                \* the way of a request of that owner for those keys

VARIABLES
    held,       \* the claims <<owner, key>> that hold
    lapsed,     \* the claims that ran out
    over        \* the tasks that are over

claimVars == <<held, lapsed, over>>

Init ==
    /\ held = {}
    /\ lapsed = {}
    /\ over = {}

\* The owner comes to hold some of the keys; what was on record for them goes.
Take(o, ks) ==
    /\ o \notin over
    /\ held \subseteq held'
    /\ held' \ held \subseteq {o} \X ks
    /\ lapsed' = {c \in lapsed : \A d \in held' \ held : d[2] # c[2]}
    /\ UNCHANGED over

\* A request for the keys asked is granted.  What is on record already may be
\* among them, and may be left as it is.
Claim(o, asked) ==
    /\ Take(o, asked)
    /\ \A c \in held : /\ c[2] \in asked => c[1] = o
                       /\ <<o, asked, c>> \notin Excludes

Revive(o) ==
    /\ Take(o, Key)
    /\ held' \ held \subseteq lapsed

\* Claims run out or are dropped.
Leave ==
    /\ held' \subseteq held
    /\ lapsed' \subseteq lapsed \cup (held \ held')
    /\ UNCHANGED over

End(t) ==
    /\ over' = over \cup {t}
    /\ held' = {c \in held : c[1] # t}
    /\ lapsed' = {c \in lapsed : c[1] # t}

Next ==
    \/ Leave
    \/ \E t \in Task : End(t)
    \/ \E o \in Owner : Revive(o) \/ \E asked \in SUBSET Key : Claim(o, asked)

Spec == Init /\ [][Next]_claimVars
=============================================================================
