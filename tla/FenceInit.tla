-------------------------------- MODULE FenceInit --------------------------------
(***************************************************************************)
(* Opening the fence store, the first time and every time after            *)
(* (OperatorFenceStore.__init__ in src/src/grabowski_operator_fence.py).   *)
(*                                                                         *)
(* Three files make up the store: the database, the session key and the    *)
(* generation anchor; a marker file exists while they are being set up.    *)
(* The opener holds an flock, so it is alone, but its process may die      *)
(* between any two file operations, and the flock dies with it.  A write   *)
(* of a sidecar is atomic (temporary file, fsync, rename), and so is the   *)
(* schema transaction.                                                     *)
(*                                                                         *)
(* What an attempt draws at random (session key, instance id) is the       *)
(* number of the attempt.  Between two openings a file may be lost; unsafe *)
(* modes, symlinks and damaged contents are left out.                      *)
(***************************************************************************)
EXTENDS Integers, FiniteSets

CONSTANTS
    Proc,           \* processes that open the store
    MaxCrashes,     \* bound: openings that die or raise half-way
    MaxLost,        \* bound: files lost by accident
    None            \* no such file, no such process

ASSUME InitBounds == MaxCrashes \in Nat /\ MaxLost \in Nat

ASSUME NoneIsNew == None \notin Nat /\ None \notin Proc

File == {"database", "key", "anchor"}

\* A file is absent, created and empty, or holds what one attempt drew.
Empty == 0
Content == Nat \cup {None}

VARIABLES
    file,           \* the content of each file
    marker,         \* whether the initialization marker exists
    lock,           \* the process that holds the initialization lock, or None
    pc,             \* how far each process is
    sessionKey,     \* the session key in a process's memory, or None
    attempts,       \* how often a session key has been drawn
    crashes,
    lost            \* the files lost by accident

diskVars == <<file, marker>>
procVars == <<pc, sessionKey>>
vars == <<diskVars, lock, procVars, attempts, crashes, lost>>

Step == {"closed", "look", "discard", "create", "draw", "schema", "anchor",
         "read", "reconcile", "finish", "open"}

Init ==
    /\ file = [f \in File |-> None]
    /\ marker = FALSE
    /\ lock = None
    /\ pc = [p \in Proc |-> "closed"]
    /\ sessionKey = [p \in Proc |-> None]
    /\ attempts = 0
    /\ crashes = 0
    /\ lost = {}
-----------------------------------------------------------------------------
Exists(f) == file[f] # None
Put(f, content) == file' = [file EXCEPT ![f] = content]

Goto(p, from, to) == pc[p] = from /\ pc' = [pc EXCEPT ![p] = to]

Lock(p) ==
    /\ lock = None
    /\ Goto(p, "closed", "look")
    /\ lock' = p
    /\ UNCHANGED <<diskVars, sessionKey, attempts, crashes, lost>>

\* The opener leaves with the store in hand.
Unlock(p) ==
    /\ lock' = None
    /\ UNCHANGED <<sessionKey, attempts, crashes, lost>>

\* Mutant: the session key is not looked for beside a missing database.
FilesMissingAnchor ==
    IF Exists("database") THEN ~Exists("anchor") \/ ~Exists("key")
                          ELSE Exists("anchor")

\* Without a marker the files must be all there, or none of them.
FilesMissing ==
    IF Exists("database") THEN ~Exists("anchor") \/ ~Exists("key")
                          ELSE Exists("anchor") \/ Exists("key")

\* The marker of an interrupted set-up: start again.
FindMarker(p) ==
    /\ marker
    /\ Goto(p, "look", "discard")
    /\ UNCHANGED <<diskVars, lock, sessionKey, attempts, crashes, lost>>

\* Mutant: the set-up starts without a marker.
FindNothingUnmarked(p) ==
    /\ ~marker
    /\ ~Exists("database") /\ ~FilesMissing
    /\ Goto(p, "look", "create")
    /\ UNCHANGED <<diskVars, lock, sessionKey, attempts, crashes, lost>>

FindNothing(p) ==
    /\ ~marker
    /\ ~Exists("database") /\ ~FilesMissing
    /\ Goto(p, "look", "create")
    /\ marker' = TRUE
    /\ UNCHANGED <<file, lock, sessionKey, attempts, crashes, lost>>

FindStore(p) ==
    /\ ~marker
    /\ Exists("database") /\ ~FilesMissing
    /\ Goto(p, "look", "read")
    /\ UNCHANGED <<diskVars, lock, sessionKey, attempts, crashes, lost>>

\* Mutant: only the sidecars are discarded.
DiscardSidecars(p) ==
    /\ \/ \E f \in {"anchor", "key"} :
             /\ Exists(f)
             /\ f = "key" => ~Exists("anchor")
             /\ Put(f, None)
             /\ Goto(p, "discard", "discard")
       \/ /\ ~Exists("anchor") /\ ~Exists("key")
          /\ Goto(p, "discard", "create")
          /\ UNCHANGED file
    /\ UNCHANGED <<marker, lock, sessionKey, attempts, crashes, lost>>

\* Files are unlinked one by one: database, anchor, key.
Discard(p) ==
    /\ \/ \E f \in File :
             /\ Exists(f)
             /\ f # "database" => ~Exists("database")
             /\ f = "key" => ~Exists("anchor")
             /\ Put(f, None)
             /\ Goto(p, "discard", "discard")
       \/ /\ \A f \in File : ~Exists(f)
          /\ Goto(p, "discard", "create")
          /\ UNCHANGED file
    /\ UNCHANGED <<marker, lock, sessionKey, attempts, crashes, lost>>

\* O_CREAT | O_EXCL
Create(p) ==
    /\ ~Exists("database")
    /\ Goto(p, "create", "draw")
    /\ Put("database", Empty)
    /\ UNCHANGED <<marker, lock, sessionKey, attempts, crashes, lost>>

\* Session key to memory and to disk; the instance id to memory.
Draw(p) ==
    /\ Goto(p, "draw", "schema")
    /\ attempts' = attempts + 1
    /\ sessionKey' = [sessionKey EXCEPT ![p] = attempts + 1]
    /\ Put("key", attempts + 1)
    /\ UNCHANGED <<marker, lock, crashes, lost>>

CommitSchema(p) ==
    /\ Goto(p, "schema", "anchor")
    /\ Put("database", sessionKey[p])
    /\ UNCHANGED <<marker, lock, sessionKey, attempts, crashes, lost>>

WriteAnchor(p) ==
    /\ Goto(p, "anchor", "reconcile")
    /\ Put("anchor", sessionKey[p])
    /\ UNCHANGED <<marker, lock, sessionKey, attempts, crashes, lost>>

\* An existing store: the key is read and the schema validated.
ReadKey(p) ==
    /\ file["database"] # Empty
    /\ Goto(p, "read", "reconcile")
    /\ sessionKey' = [sessionKey EXCEPT ![p] = file["key"]]
    /\ UNCHANGED <<diskVars, lock, attempts, crashes, lost>>

\* The anchor names the instance; a set-up still has its marker to remove.
Reconcile(p) ==
    /\ file["anchor"] = file["database"]
    /\ \/ /\ marker
          /\ Goto(p, "reconcile", "finish")
          /\ UNCHANGED <<lock, sessionKey, attempts, crashes, lost>>
       \/ /\ ~marker
          /\ Goto(p, "reconcile", "open")
          /\ Unlock(p)
    /\ UNCHANGED diskVars

Finish(p) ==
    /\ Goto(p, "finish", "open")
    /\ marker' = FALSE
    /\ Unlock(p)
    /\ UNCHANGED file

\* The request is served, the process ends.
Close(p) ==
    /\ Goto(p, "open", "closed")
    /\ sessionKey' = [sessionKey EXCEPT ![p] = None]
    /\ UNCHANGED <<diskVars, lock, attempts, crashes, lost>>

\* The checks an opener may fail; it raises and the lock is free again.
Refuses(p) ==
    \/ pc[p] = "look" /\ ~marker /\ FilesMissing
    \/ pc[p] = "create" /\ Exists("database")
    \/ pc[p] = "read" /\ file["database"] = Empty
    \/ pc[p] = "reconcile" /\ file["anchor"] # file["database"]

Leave(p) ==
    /\ pc' = [pc EXCEPT ![p] = "closed"]
    /\ sessionKey' = [sessionKey EXCEPT ![p] = None]
    /\ lock' = None
    /\ UNCHANGED <<diskVars, attempts, lost>>

Refuse(p) ==
    /\ lock = p
    /\ Refuses(p)
    /\ Leave(p)
    /\ UNCHANGED crashes

\* The process dies, or a file operation raises.
Crash(p) ==
    /\ lock = p
    /\ crashes < MaxCrashes
    /\ crashes' = crashes + 1
    /\ Leave(p)

Lose(f) ==
    /\ lock = None
    /\ Exists(f)
    /\ Cardinality(lost) < MaxLost
    /\ lost' = lost \cup {f}
    /\ Put(f, None)
    /\ UNCHANGED <<marker, lock, procVars, attempts, crashes>>

SetUp(p) ==
    FindNothing(p) \/ Create(p) \/ Draw(p) \/ CommitSchema(p) \/ WriteAnchor(p) \/ Finish(p)

Opening(p) ==
    \/ FindMarker(p) \/ FindStore(p) \/ Discard(p) \/ SetUp(p)
    \/ ReadKey(p) \/ Reconcile(p) \/ Refuse(p)

Next ==
    \/ \E p \in Proc : Lock(p) \/ Opening(p) \/ Close(p) \/ Crash(p)
    \/ \E f \in File : Lose(f)

Spec == Init /\ [][Next]_vars

\* Whoever opens goes on, and the peers keep sending requests, each of which
\* opens the store.
FairSpec ==
    Spec /\ \A p \in Proc : WF_vars(Opening(p)) /\ WF_vars(Lock(p)) /\ WF_vars(Close(p))
-----------------------------------------------------------------------------
\* Type correctness; the lock is held by the process that is opening.
TypeOK ==
    /\ file \in [File -> Content]
    /\ marker \in BOOLEAN
    /\ pc \in [Proc -> Step]
    /\ lock \in Proc \cup {None}
    /\ \A p \in Proc : lock = p <=> pc[p] \notin {"closed", "open"}
    /\ sessionKey \in [Proc -> Content]
    /\ attempts \in Nat
    /\ crashes \in 0..MaxCrashes
    /\ lost \subseteq File

\* Two processes that use the store at the same time use the same store: the
\* key they digest sessions with is the one on disk, and the database and
\* the anchor are of the same set-up.  No opener mistakes an established
\* store for a half-made one, even when files of it have been lost.
OneStore ==
    \A p \in Proc : pc[p] = "open" =>
        /\ \A q \in Proc : pc[q] = "open" => sessionKey[q] = sessionKey[p]
        /\ \A f \in File : Exists(f) => file[f] = sessionKey[p]

\* Without the marker the store is complete or not there at all, wherever an
\* opener died.
WholeOrAbsent ==
    (~marker /\ lost = {}) =>
        \/ \A f \in File : file[f] = None
        \/ \E c \in 1..attempts : \A f \in File : file[f] = c

\* An opener is refused only after a file was lost: no crash of a set-up
\* leaves a store that later openers refuse.
RefusedOnlyForLoss == (\E p \in Proc : Refuses(p)) => lost # {}

\* A set-up that was interrupted is completed by the openers that follow.
SetUpCompletes == marker ~> (~marker \/ lost # {})
=============================================================================
