---------------------------- MODULE MCDurableTasks -----------------------------
(***************************************************************************)
(* A small instance of DurableTasks: one task that needs two resources,    *)
(* which others want as well.                                              *)
(***************************************************************************)
EXTENDS DurableTasks, TLC

CONSTANTS task, repo, path

BothKeys == task :> {repo, path}
=============================================================================
