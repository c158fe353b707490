---------------------------- MODULE MCResourceLeases ----------------------------
(***************************************************************************)
(* Small instances of ResourceLeases: a directory with a file in it, the   *)
(* repository both lie in, and one of its branches.                        *)
(***************************************************************************)
EXTENDS ResourceLeases, TLC

CONSTANTS lane, operator, task, run, dir, file, repo, branch, p1, p2, p3, b1, b2,
          work, other

\* Who acts for whom.
ScopeCallers == p1 :> lane @@ p2 :> operator @@ p3 :> task
TwoOfTask == p1 :> task @@ p2 :> task @@ p3 :> lane
TwoOfLane == p1 :> lane @@ p2 :> lane @@ p3 :> run

\* The two processes of one owner can be swapped, and so can two bindings.
TwinSymmetry == Permutations({p1, p2}) \cup Permutations({b1, b2})
PurposeSymmetry == Permutations({work, other})

SingleAsks == [o \in Owner |-> {{k} : k \in Key}]

\* Two subtree scopes, one inside the other, and the repository both lie in. A task
\* asks for the inner path as a plain one, also together with a branch.
MCWithin == ({dir, file} \X {dir, file}) \ {<<file, dir>>}
MCScope == {<<lane, dir>>, <<operator, file>>}
MCCovers == {repo} \X {dir, file}
ScopeAsks ==
    lane :> {{dir}}
    @@ operator :> {{file}, {repo}}
    @@ task :> {{file}, {file, branch}}
=============================================================================
