----------------------------- MODULE ResourceLeases -----------------------------
(***************************************************************************)
(* The lease table of src/grabowski_resources.py.                          *)
(*                                                                         *)
(* One SQLite table holds at most one row per resource key.  Every         *)
(* operation is one BEGIN IMMEDIATE transaction, so it is one action; but  *)
(* it reads the clock before it waits for the database's write lock, so it *)
(* works with any `now' of the last MaxLag ticks.  Rows are not removed    *)
(* when they expire: a row is live while its expiry is ahead of `now'.     *)
(*                                                                         *)
(* Callers keep what the table showed them and bind later calls to it      *)
(* (expected_leases): receipt, before and attempt are what a process       *)
(* remembers, and a crash forgets them.                                    *)
(***************************************************************************)
EXTENDS Integers

CONSTANTS
    Owner,          \* lease owners: lanes, tasks, operators, Bureau runs
    Lane,           \* the owners lane:..., whose new rows carry a fresh nonce
    Task,           \* the owners task:..., which can be terminalized
    Rebinder,       \* the owners that rebind (Bureau pickup runs)
    Key,            \* resource keys
    PathKey,        \* the keys path:...
    RepoKey,        \* the keys repo:..., broad or of one branch
    BranchKey,      \* the keys repo:R:branch:b, of which attempts are made
    Gate,           \* the keys gate:github-merge:...
    Within,         \* <<outer, inner>>: path keys, equal or ancestor and descendant
    Covers,         \* <<repo, path>>: the path lies in the repository
    Scope,          \* <<owner, path>>: the owner's metadata marks it a subtree
    Purpose,        \* purpose and identity metadata of a lease
    AttemptPurpose, \* the purpose of a lease taken for one branch attempt
    Binding,        \* identities of branch mutation attempts
    Proc,           \* callers
    OwnerOf,        \* the owner a caller acts for
    Asks,           \* the key sets the callers of an owner acquire together
    Keeper,         \* callers that keep what they are shown
    Ttl,            \* lease lengths, MIN_TTL_SECONDS at least
    MaxLag,         \* longest wait for the write lock (sqlite3 timeout)
    MaxClock,       \* bound on the clock
    MaxNonce,       \* bound on the nonces drawn
    None

KeySets == (SUBSET Key) \ {{}}

Origin == {"preexisting", "attempt_only"}

\* The attempt marker in a row's metadata; the times are 0 when the row was
\* taken for the attempt alone.
Marker == [binding : Binding, origin : Origin, previousExpires : Nat, attemptExpires : Nat]

Row == [owner : Owner, purpose : Purpose \cup {AttemptPurpose}, nonce : Nat \cup {None},
        acquired : Nat, updated : Nat, expires : Nat, marker : Marker \cup {None}]

\* What acquire_branch_mutation_attempt returns: the row as it is then.
AttemptLease == [key : BranchKey, row : {r \in Row : r.marker # None}]

ASSUME OwnerAssumption ==
    /\ Lane \subseteq Owner /\ Task \subseteq Owner /\ Rebinder \subseteq Owner
    /\ Rebinder \cap Lane = {}
    /\ OwnerOf \in [Proc -> Owner]
    /\ Keeper \subseteq Proc
ASSUME KeyAssumption ==
    /\ PathKey \subseteq Key /\ RepoKey \subseteq Key /\ Gate \subseteq Key
    /\ BranchKey \subseteq RepoKey
    /\ PathKey \cap RepoKey = {}
    /\ Within \subseteq PathKey \X PathKey
    /\ Covers \subseteq RepoKey \X PathKey
    /\ Scope \subseteq Owner \X PathKey
    /\ Asks \in [Owner -> SUBSET KeySets]
ASSUME NumberAssumption ==
    /\ Ttl \subseteq Nat
    /\ \A ttl \in Ttl : ttl > MaxLag        \* 30 s at least, 10 s at most
    /\ MaxLag \in Nat /\ MaxClock \in Nat /\ MaxNonce \in Nat
ASSUME NoneAssumption ==
    None \notin Marker /\ None \notin Row /\ None \notin AttemptLease

VARIABLES
    clock,      \* the host's clock, in seconds
    lease,      \* the table: a row or None for each key
    terminal,   \* the tasks with a terminalization record
    nonces,     \* how many nonces were drawn
    receipt,    \* per caller: the rows it was shown last
    before,     \* per caller: the rows it renewed, as they were before
    attempt     \* per caller: the branch attempt it is in, or None

table == <<lease, terminal, nonces>>
memory == <<receipt, before, attempt>>
vars == <<clock, table, memory>>

TypeOK ==
    /\ clock \in 0..MaxClock
    /\ lease \in [Key -> Row \cup {None}]
    /\ terminal \subseteq Task
    /\ nonces \in 0..MaxNonce
    /\ receipt \in [Proc -> [Key -> Row \cup {None}]]
    /\ before \in [Proc -> [Key -> Row \cup {None}]]
    /\ attempt \in [Proc -> AttemptLease \cup {None}]

Init ==
    /\ clock = 0
    /\ lease = [k \in Key |-> None]
    /\ terminal = {}
    /\ nonces = 0
    /\ receipt = [p \in Proc |-> [k \in Key |-> None]]
    /\ before = [p \in Proc |-> [k \in Key |-> None]]
    /\ attempt = [p \in Proc |-> None]

-----------------------------------------------------------------------------
\* The times a transaction that commits now may have read before it waited.
Nows == {n \in 0..clock : n >= clock - MaxLag}

Live(row, now) == row # None /\ row.expires > now

Foreign(row, o, now) == Live(row, now) /\ row.owner # o

Later(a, b) == IF a >= b THEN a ELSE b

\* Metadata hashes are compared, the purpose column is not part of them.
Snapshot(row) ==
    [owner |-> row.owner, acquired |-> row.acquired, updated |-> row.updated,
     expires |-> row.expires, nonce |-> row.nonce, marker |-> row.marker]

\* A snapshot a caller may present.
WellFormed(row) ==
    /\ row # None
    /\ row.acquired <= row.updated
    /\ row.updated < row.expires

\* The row is still what the caller was shown.
Unchanged(k, seen) ==
    /\ lease[k] # None
    /\ Snapshot(lease[k]) = Snapshot(seen[k])

\* Mutant: a request with a scope is refused only for rows inside the scope.
PathScopesFreeBelow(o, ks, now) ==
    LET scope == {k \in ks : <<o, k>> \in Scope}
        others == {e \in PathKey : Foreign(lease[e], o, now)}
    IN  IF scope # {}
        THEN \A e \in others, s \in scope : <<s, e>> \notin Within
        ELSE \A e \in others, k \in ks \cap PathKey :
                <<lease[e].owner, e>> \in Scope => <<e, k>> \notin Within

\* Subtree scopes (lane targets, the user-systemd root) against the paths of
\* other owners.  A request with a scope is checked for its scope paths only.
PathScopesFree(o, ks, now) ==
    LET scope == {k \in ks : <<o, k>> \in Scope}
        others == {e \in PathKey : Foreign(lease[e], o, now)}
        IsScope(e) == <<lease[e].owner, e>> \in Scope
    IN  IF scope # {}
        THEN \A e \in others, s \in scope :
                /\ <<s, e>> \notin Within
                /\ IsScope(e) => <<e, s>> \notin Within
        ELSE \A e \in others, k \in ks \cap PathKey :
                IsScope(e) => <<e, k>> \notin Within

\* Mutant: only paths are checked against repositories.
RepositoriesFreeForPaths(o, ks, now) ==
    \A r \in RepoKey, k \in ks : Foreign(lease[r], o, now) => <<r, k>> \notin Covers

\* Broad repository leases against the paths in the repository.  A request
\* that names a repository key is not checked for its own paths.
RepositoriesFree(o, ks, now) ==
    LET repos == ks \cap RepoKey
    IN  IF repos # {}
        THEN /\ \A r, s \in repos : r = s
             /\ \A r \in repos, e \in PathKey :
                    Foreign(lease[e], o, now) => <<r, e>> \notin Covers
        ELSE \A r \in RepoKey, k \in ks :
                Foreign(lease[r], o, now) => <<r, k>> \notin Covers

\* A fresh row; only a lane's row has a nonce.
NewRow(o, purpose, now, ttl, marker) ==
    [owner |-> o, purpose |-> purpose,
     nonce |-> IF o \in Lane THEN nonces + 1 ELSE None,
     acquired |-> now, updated |-> now, expires |-> now + ttl, marker |-> marker]

\* Mutant: a lane has one generation for all its leases.
DrawNonceOnce(o) == UNCHANGED nonces

DrawNonce(o) ==
    IF o \in Lane THEN nonces < MaxNonce /\ nonces' = nonces + 1 ELSE UNCHANGED nonces

\* Expiry never shrinks; the update time of a row that is not extended stays.
Extended(row, now, expires) ==
    [row EXCEPT !.expires = Later(row.expires, expires),
                !.updated = IF expires > row.expires THEN now ELSE row.updated]

Renewed(row, now, expires) ==
    [row EXCEPT !.expires = Later(row.expires, expires), !.updated = now]

Show(p, ks) ==
    IF p \in Keeper
    THEN receipt' = [receipt EXCEPT ![p] = [k \in Key |-> IF k \in ks THEN lease'[k] ELSE @[k]]]
    ELSE UNCHANGED receipt

-----------------------------------------------------------------------------
\* Mutant: the terminalization record is not asked.
MayAcquireTerminal(o, ks, purpose, now) ==
    /\ PathScopesFree(o, ks, now)
    /\ \A k \in ks : Live(lease[k], now) =>
           /\ lease[k].owner = o
           /\ k \notin Gate
           /\ lease[k].purpose = purpose
           /\ lease[k].marker = None
    /\ RepositoriesFree(o, ks, now)

\* Mutant: a live row only has to have the same purpose.
MayAcquireForeign(o, ks, purpose, now) ==
    /\ o \notin terminal
    /\ PathScopesFree(o, ks, now)
    /\ \A k \in ks : Live(lease[k], now) =>
           k \notin Gate /\ lease[k].purpose = purpose /\ lease[k].marker = None
    /\ RepositoriesFree(o, ks, now)

\* acquire_resources: everything asked for or nothing.  A live row of the
\* same owner must have the same identity and no marker; it is kept and
\* extended, except by a lane that acquires in batches (keep).
MayAcquire(o, ks, purpose, now) ==
    /\ o \notin terminal
    /\ PathScopesFree(o, ks, now)
    /\ \A k \in ks : Live(lease[k], now) =>
           /\ lease[k].owner = o
           /\ k \notin Gate
           /\ lease[k].purpose = purpose
           /\ lease[k].marker = None
    /\ RepositoriesFree(o, ks, now)

Acquire(p, ks, purpose, ttl, keep, now) ==
    LET o == OwnerOf[p]
        fresh == {k \in ks : ~(Live(lease[k], now) /\ lease[k].owner = o)}
    IN  /\ ks \in Asks[o]
        /\ MayAcquire(o, ks, purpose, now)
        /\ keep => o \in Lane
        /\ lease' = [k \in Key |->
                        IF k \in fresh THEN NewRow(o, purpose, now, ttl, None)
                        ELSE IF k \in ks /\ ~keep THEN Extended(lease[k], now, now + ttl)
                        ELSE lease[k]]
        /\ IF fresh # {} THEN DrawNonce(o) ELSE UNCHANGED nonces
        /\ Show(p, ks)
        /\ UNCHANGED <<clock, terminal, before, attempt>>

\* The rows a caller binds its call to (expected_leases).
Presents(p, ks) ==
    \A k \in ks : WellFormed(receipt[p][k]) /\ receipt[p][k].owner = OwnerOf[p]

\* Mutant: the marker of an attempt is not asked.
MayRenewMarked(p, k, now, guarded) ==
    /\ Live(lease[k], now)
    /\ lease[k].owner = OwnerOf[p]
    /\ guarded => Unchanged(k, receipt[p])

\* Mutant: a row that expired is renewed too.
MayRenewExpired(p, k, now, guarded) ==
    /\ lease[k] # None
    /\ lease[k].owner = OwnerOf[p]
    /\ lease[k].marker = None
    /\ guarded => Unchanged(k, receipt[p])

\* renew_resources, with or without expected_leases: only live rows of the
\* owner, without a marker.  Neither scopes nor gates are looked at.
MayRenew(p, k, now, guarded) ==
    /\ Live(lease[k], now)
    /\ lease[k].owner = OwnerOf[p]
    /\ lease[k].marker = None
    /\ guarded => Unchanged(k, receipt[p])

Renew(p, ks, ttl, now, guarded) ==
    /\ guarded => p \in Keeper /\ Presents(p, ks)
    /\ \A k \in ks : MayRenew(p, k, now, guarded)
    /\ lease' = [k \in Key |-> IF k \in ks THEN Renewed(lease[k], now, now + ttl) ELSE lease[k]]
    /\ before' = IF guarded /\ OwnerOf[p] \in Lane
                 THEN [before EXCEPT ![p] = [k \in Key |-> IF k \in ks THEN lease[k] ELSE @[k]]]
                 ELSE before
    /\ Show(p, ks)
    /\ UNCHANGED <<clock, terminal, nonces, attempt>>

\* restore_renewed_work_lane_leases: a lane takes its own renewal back.
Restorable(p, k) ==
    /\ WellFormed(before[p][k])
    /\ before[p][k].owner = OwnerOf[p]
    /\ before[p][k].acquired = receipt[p][k].acquired
    /\ before[p][k].nonce = receipt[p][k].nonce
    /\ before[p][k].updated <= receipt[p][k].updated
    /\ before[p][k].expires <= receipt[p][k].expires
    /\ Unchanged(k, receipt[p])
    /\ lease[k].marker = None

Restore(p, ks) ==
    /\ p \in Keeper
    /\ OwnerOf[p] \in Lane
    /\ Presents(p, ks)
    /\ \A k \in ks : Restorable(p, k)
    /\ lease' = [k \in Key |->
                    IF k \in ks
                    THEN [lease[k] EXCEPT !.updated = before[p][k].updated,
                                          !.expires = before[p][k].expires]
                    ELSE lease[k]]
    /\ Show(p, ks)
    /\ UNCHANGED <<clock, terminal, nonces, before, attempt>>

\* rebind_same_owner_resources: gives a row its journaled identity back and
\* extends it, also when it had expired.  No other row is looked at.
Rebind(p, ks, purpose, ttl, now) ==
    /\ p \in Keeper
    /\ OwnerOf[p] \in Rebinder
    /\ Presents(p, ks)
    /\ \A k \in ks : Unchanged(k, receipt[p]) /\ lease[k].marker = None
    /\ lease' = [k \in Key |->
                    IF k \in ks
                    THEN [Renewed(lease[k], now, now + ttl) EXCEPT !.purpose = purpose]
                    ELSE lease[k]]
    /\ Show(p, ks)
    /\ UNCHANGED <<clock, terminal, nonces, before, attempt>>

\* release_resources: rows that are gone are skipped unless the caller bound
\* the call to them; a row with a marker is refused, even by force.
MayRelease(p, k, force, guarded) ==
    /\ guarded => Unchanged(k, receipt[p])
    /\ lease[k] # None =>
           /\ force \/ lease[k].owner = OwnerOf[p]
           /\ lease[k].marker = None

Release(p, ks, force, guarded) ==
    /\ guarded => /\ p \in Keeper
                  /\ \A k \in ks : WellFormed(receipt[p][k])
                  /\ force \/ Presents(p, ks)
    /\ \A k \in ks : MayRelease(p, k, force, guarded)
    /\ lease' = [k \in Key |-> IF k \in ks THEN None ELSE lease[k]]
    /\ UNCHANGED <<clock, terminal, nonces, memory>>

\* _reconcile_verified_leases: path rows that terminal evidence names are
\* deleted one by one, those that changed are retained.
Reconcile(p, ks) ==
    /\ p \in Keeper
    /\ ks \subseteq PathKey
    /\ Presents(p, ks)
    /\ lease' = [k \in Key |->
                    IF k \in ks /\ Unchanged(k, receipt[p]) THEN None ELSE lease[k]]
    /\ UNCHANGED <<clock, terminal, nonces, memory>>

\* begin_task_terminalization: the record and the end of all the task's rows.
Terminalize(t) ==
    /\ t \notin terminal
    /\ terminal' = terminal \cup {t}
    /\ lease' = [k \in Key |->
                    IF lease[k] # None /\ lease[k].owner = t THEN None ELSE lease[k]]
    /\ UNCHANGED <<clock, nonces, memory>>

-----------------------------------------------------------------------------
\* Mutant: the same attempt, asked for again, is given out again.
OverlayAgain(p, k, binding, ttl, now) ==
    LET row == lease[k]
        until == Later(row.expires, now + ttl)
        marked == [row EXCEPT !.expires = until,
                              !.marker = [binding |-> binding, origin |-> "preexisting",
                                          previousExpires |-> row.expires,
                                          attemptExpires |-> until]]
    IN  /\ attempt[p] = None
        /\ Live(row, now)
        /\ row.owner = OwnerOf[p]
        /\ row.marker # None => row.marker.binding = binding
        /\ lease' = [lease EXCEPT ![k] = marked]
        /\ attempt' = [attempt EXCEPT ![p] = [key |-> k, row |-> marked]]
        /\ UNCHANGED <<clock, terminal, nonces, receipt, before>>

\* _overlay_live_same_owner_branch_attempt: marks the owner's live branch row
\* and extends it for the attempt.
Overlay(p, k, binding, ttl, now) ==
    LET row == lease[k]
        until == Later(row.expires, now + ttl)
        marked == [row EXCEPT !.expires = until,
                              !.marker = [binding |-> binding, origin |-> "preexisting",
                                          previousExpires |-> row.expires,
                                          attemptExpires |-> until]]
    IN  /\ attempt[p] = None
        /\ Live(row, now)
        /\ row.owner = OwnerOf[p]
        /\ row.marker = None
        /\ lease' = [lease EXCEPT ![k] = marked]
        /\ attempt' = [attempt EXCEPT ![p] = [key |-> k, row |-> marked]]
        /\ UNCHANGED <<clock, terminal, nonces, receipt, before>>

\* Without a live row the branch is acquired for the attempt alone.
AttemptOnly(p, k, binding, ttl, now) ==
    LET o == OwnerOf[p]
        marked == NewRow(o, AttemptPurpose, now, ttl,
                         [binding |-> binding, origin |-> "attempt_only",
                          previousExpires |-> 0, attemptExpires |-> 0])
    IN  /\ attempt[p] = None
        /\ ~Live(lease[k], now)
        /\ MayAcquire(o, {k}, AttemptPurpose, now)
        /\ lease' = [lease EXCEPT ![k] = marked]
        /\ DrawNonce(o)
        /\ attempt' = [attempt EXCEPT ![p] = [key |-> k, row |-> marked]]
        /\ UNCHANGED <<clock, terminal, receipt, before>>

\* complete_branch_mutation_attempt: a row taken for the attempt is deleted
\* if nothing in it changed; the marker of a row that was there before is
\* removed and its expiry restored if marker and metadata are the attempt's.
CompleteAttemptOnly(p) ==
    LET k == attempt[p].key
        marked == attempt[p].row
    IN  /\ attempt[p] # None
        /\ marked.marker.origin = "attempt_only"
        /\ lease[k] # None
        /\ Snapshot(lease[k]) = Snapshot(marked)
        /\ lease' = [lease EXCEPT ![k] = None]
        /\ attempt' = [attempt EXCEPT ![p] = None]
        /\ UNCHANGED <<clock, terminal, nonces, receipt, before>>

\* Mutant: any overlay with the attempt's binding is taken for the attempt.
IsOverlaidByBinding(row, marked) ==
    /\ row # None
    /\ row.owner = marked.owner
    /\ row.marker # None
    /\ row.marker.binding = marked.marker.binding
    /\ row.marker.origin = "preexisting"
    /\ row.expires = row.marker.attemptExpires

IsOverlaidBy(row, marked) ==
    /\ row # None
    /\ row.owner = marked.owner
    /\ row.marker # None
    /\ row.marker.binding = marked.marker.binding
    /\ row.marker.origin = "preexisting"
    /\ row.nonce = marked.nonce
    /\ row.marker.previousExpires = marked.marker.previousExpires
    /\ row.expires = row.marker.attemptExpires

CompleteOverlay(p) ==
    LET k == attempt[p].key
        marked == attempt[p].row
    IN  /\ attempt[p] # None
        /\ marked.marker.origin = "preexisting"
        /\ IsOverlaidBy(lease[k], marked)
        /\ lease' = [lease EXCEPT ![k].expires = marked.marker.previousExpires,
                                  ![k].marker = None]
        /\ attempt' = [attempt EXCEPT ![p] = None]
        /\ UNCHANGED <<clock, terminal, nonces, receipt, before>>

-----------------------------------------------------------------------------
\* A caller reads a row, live or not.
Look(p, k) ==
    /\ p \in Keeper
    /\ receipt' = [receipt EXCEPT ![p][k] = lease[k]]
    /\ UNCHANGED <<clock, table, before, attempt>>

\* A caller dies, or gives up after a refused cleanup.
Forget(p) ==
    /\ receipt' = [receipt EXCEPT ![p] = [k \in Key |-> None]]
    /\ before' = [before EXCEPT ![p] = [k \in Key |-> None]]
    /\ attempt' = [attempt EXCEPT ![p] = None]
    /\ UNCHANGED <<clock, table>>

Tick ==
    /\ clock < MaxClock
    /\ clock' = clock + 1
    /\ UNCHANGED <<table, memory>>

LeaseStep(p) ==
    \/ \E ks \in KeySets, purpose \in Purpose, ttl \in Ttl, keep \in BOOLEAN, now \in Nows :
           Acquire(p, ks, purpose, ttl, keep, now)
    \/ \E ks \in KeySets, ttl \in Ttl, guarded \in BOOLEAN, now \in Nows :
           Renew(p, ks, ttl, now, guarded)
    \/ \E ks \in KeySets : Restore(p, ks)
    \/ \E ks \in KeySets, purpose \in Purpose, ttl \in Ttl, now \in Nows :
           Rebind(p, ks, purpose, ttl, now)
    \/ \E ks \in KeySets, force \in BOOLEAN, guarded \in BOOLEAN : Release(p, ks, force, guarded)
    \/ \E ks \in KeySets : Reconcile(p, ks)

AttemptStep(p) ==
    \/ \E k \in BranchKey, b \in Binding, ttl \in Ttl, now \in Nows :
           Overlay(p, k, b, ttl, now) \/ AttemptOnly(p, k, b, ttl, now)
    \/ CompleteAttemptOnly(p)
    \/ CompleteOverlay(p)

Next ==
    \/ \E p \in Proc : LeaseStep(p) \/ AttemptStep(p) \/ Forget(p)
    \/ \E p \in Proc, k \in Key : Look(p, k)
    \/ \E t \in Task : Terminalize(t)
    \/ Tick

Spec == Init /\ [][Next]_vars

-----------------------------------------------------------------------------
\* Two live rows of different owners, a subtree scope of one of them
\* enclosing the path of the other.
ScopesOverlap(outer, inner) ==
    /\ Live(lease[outer], clock)
    /\ Foreign(lease[inner], lease[outer].owner, clock)
    /\ <<lease[outer].owner, outer>> \in Scope
    /\ <<outer, inner>> \in Within

\* A broad repository lease and a path in the repository that is another owner's.
RepositoryOverlap(r, k) ==
    /\ Live(lease[r], clock)
    /\ Foreign(lease[k], lease[r].owner, clock)
    /\ <<r, k>> \in Covers

\* A row that had run out is brought back without being acquired anew: by a
\* transaction that read the clock before it ran out, or by a rebinding.
Revived(k) ==
    /\ lease[k] # None /\ ~Live(lease[k], clock)
    /\ lease[k].expires > clock - MaxLag \/ lease[k].owner \in Rebinder
    /\ lease'[k] # None
    /\ lease'[k].owner = lease[k].owner
    /\ lease'[k].acquired = lease[k].acquired

\* A request of the owner for the keys is granted.
Granted(o, ks) ==
    \E p \in Proc, purpose \in Purpose, ttl \in Ttl, keep \in BOOLEAN, now \in Nows :
        OwnerOf[p] = o /\ Acquire(p, ks, purpose, ttl, keep, now)

\* No step brings a subtree scope and a path in it into the hands of two owners,
\* whatever it renews, restores, reclaims or acquires and however late it read the
\* clock, with two exceptions: a row that had run out and is revived, and a path
\* that is asked for together with a scope it is not (which
\* _check_work_lane_path_scope_conflicts passes over).
NoScopeOverlapArises ==
    [][\A outer, inner \in PathKey :
          ScopesOverlap(outer, inner)' =>
             \/ ScopesOverlap(outer, inner)
             \/ Revived(outer) \/ Revived(inner)
             \/ /\ <<lease'[inner].owner, inner>> \notin Scope
                /\ \E ks \in KeySets :
                      /\ inner \in ks /\ \E s \in ks : <<lease'[inner].owner, s>> \in Scope
                      /\ Granted(lease'[inner].owner, ks)]_vars

\* No step brings a broad repository lease and a path of that repository into the
\* hands of two owners, whichever of the two came first, except by reviving one of
\* them or by a request that names a repository beside the path (for which
\* acquire_resources does not look at the repositories of others).
NoRepositoryOverlapArises ==
    [][\A r \in RepoKey, k \in PathKey :
          RepositoryOverlap(r, k)' =>
             \/ RepositoryOverlap(r, k)
             \/ Revived(r) \/ Revived(k)
             \/ \E ks \in KeySets :
                   /\ k \in ks /\ ks \cap RepoKey # {}
                   /\ Granted(lease'[k].owner, ks)]_vars

\* Once a task is terminalized it holds nothing, and nothing its late calls
\* do brings a row back.
TerminalHoldsNothing == \A k \in Key : lease[k] # None => lease[k].owner \notin terminal

\* An attempt that runs: unexpired, of an owner that was not terminalized.
Running(p) ==
    /\ attempt[p] # None
    /\ attempt[p].row.expires > clock
    /\ attempt[p].row.owner \notin terminal

\* Until its lease expires an attempt finds its marked row as it left it:
\* no acquire, renew, release, restore or cleanup of another attempt, also
\* one with the same binding, touches it.
AttemptIsFrozen == \A p \in Proc : Running(p) => lease[attempt[p].key] = attempt[p].row

\* Two callers, of one owner or of two, never run an attempt of one branch
\* at the same time.
OneAttempt ==
    \A p, q \in Proc : p # q /\ Running(p) /\ Running(q) => attempt[p].key # attempt[q].key

\* The end of an attempt acts on the very row the attempt left, also when its
\* lease ran out long ago and the branch was leased, marked and perhaps
\* marked with the same binding again since.
CompletionIsExact ==
    [][\A p \in Proc : CompleteAttemptOnly(p) \/ CompleteOverlay(p)
          => lease[attempt[p].key] = attempt[p].row]_vars

\* A live lease goes to another owner only after it was given up: no step
\* puts a row of another owner in the place of a live one, however late the
\* transaction behind it read the clock.
NotTakenWhileLive ==
    [][\A k \in Key : Live(lease[k], clock) =>
          lease'[k] = None \/ lease'[k].owner = lease[k].owner]_vars

\* The expiry a live lease was given is not shortened, by a transaction that
\* read the clock before another one either; only a lane taking its own
\* renewal back and the end of an attempt may do that.
NeverShortened ==
    [][(\E p \in Proc : CompleteOverlay(p) \/ \E ks \in KeySets : Restore(p, ks))
       \/ \A k \in Key : Live(lease[k], clock) /\ lease'[k] # None
              => lease'[k].expires >= lease[k].expires]_vars

\* A lane that releases, reconciles or restores under snapshots ends or
\* rewinds the very rows it was shown, not later ones in their place that
\* look the same: what the nonce is for.
GuardedIsExact ==
    [][\A p \in Proc, k \in Key :
          /\ OwnerOf[p] \in Lane
          /\ \E ks \in KeySets : k \in ks /\
                (Release(p, ks, FALSE, TRUE) \/ Reconcile(p, ks) \/ Restore(p, ks))
          /\ lease'[k] # lease[k]
          => lease[k] = receipt[p][k]]_vars
-----------------------------------------------------------------------------
\* The rows that are live and those that ran out, as claims of their owners.
Held == {<<lease[k].owner, k>> : k \in {l \in Key : Live(lease[l], clock)}}
Lapsed == {<<lease[k].owner, k>> : k \in {l \in Key : lease[l] # None /\ ~Live(lease[l], clock)}}

\* The paths of a request that are compared with those of others.
Compared(o, asked) ==
    LET scope == {k \in asked : <<o, k>> \in Scope}
    IN  IF scope # {} THEN scope ELSE asked \cap PathKey

\* A subtree scope and what lies in it exclude each other, and so do a repository
\* and the paths in it.
ScopeExcludes(o, asked, c) ==
    \E k \in Compared(o, asked) :
        \/ <<o, k>> \in Scope /\ <<k, c[2]>> \in Within
        \/ c \in Scope /\ <<c[2], k>> \in Within
RepositoryExcludes(asked, c) ==
    IF asked \cap RepoKey # {} THEN \E r \in asked : <<r, c[2]>> \in Covers
    ELSE \E k \in asked : <<c[2], k>> \in Covers
Excluded ==
    {x \in Owner \X KeySets \X (Owner \X Key) :
        /\ x[3][1] # x[1]
        /\ ScopeExcludes(x[1], x[2], x[3]) \/ RepositoryExcludes(x[2], x[3])}

\* The table implements LeaseClaims: whatever callers do with snapshots, renewals,
\* restores, rebinds and attempts, and however long they wait for the write lock, a
\* key is another owner's only after it was given up or ran out, a request is
\* granted only against claims that do not exclude it, and what is brought back was
\* on record all the time.
Claims == INSTANCE LeaseClaims
              WITH Excludes <- Excluded, held <- Held, lapsed <- Lapsed, over <- terminal
ImplementsClaims == Claims!Spec
=============================================================================
