# A formal model of Grabowski

Grabowski is an operator for a home PC: an MCP server that lets an assistant run
tools, and around it the machinery that keeps two such operators, their tasks,
their checkouts and their deployments from getting into each other's way. This
directory holds TLA+ models of the parts of it that are protocols, the TLC
configurations that check them on small instances, and TLAPS proofs of the
results that matter most. Paths below are relative to the repository.

Contents: 1 inventory, 2 plan, 3 modules, 4 runs and bounds, 5 fairness,
6 proofs, 7 where code and documentation differ, 8 what is left out.

## 1. Inventory

### Parts with a protocol

| Component | State it keeps | Operations | What is hard | What makes it correct |
|---|---|---|---|---|
| Fence coordinator (`src/grabowski_operator_fence.py`) | one row (generation, writer, lease, effect in flight), settled effects, effect events; the generation anchor file; session key | acquire, renew, begin_effect, settle_effect, reconcile_effect, release, status, opening | crash between anchor file and commit, crash during set-up, clock stepped back, lease expiring under a running effect, retried and late requests | one writer, no takeover over an unresolved effect, generations never reused, one settlement per operation and intent, always opens again |
| Fence RPC (`src/grabowski_operator_fence_rpc.py`) | none | one request per SSH process | loss, timeout, execution after the caller gave up | a request means the same whenever it arrives |
| Fence enforcement (`src/grabowski_operator_fence_enforcement.py`) | per peer: highest generation seen, one pending effect with its phase | begin, mark dispatching, finish, abort, recovery | crash between any two of RPC, durable write and effect; recovery from the phase alone; stale status | effects exclude each other, the ledger tells the truth, recovery does not get stuck |
| Dispatch boundary (`src/grabowski_operator.py` 3015-3560, `src/grabowski_effect_interceptor.py`) | the token of the running call | classify, begin, dispatch, finish, abort | cancellation around `asyncio.to_thread` | no domain effect outside the fence |
| Resource leases (`src/grabowski_resources.py`) | lease rows by key, branch attempts, task terminalizations and adoptions | acquire, renew, release, rebind, restore, reconcile, branch attempts, terminalize, adopt | time read before the lock is held, snapshots used after they changed, identity across release and reacquire, borrowed leases | conflicting scopes are never held together, exact release, a terminal task never holds again |
| Durable tasks (`src/grabowski_tasks.py`, with leases and terminalizations in `src/grabowski_resources.py`) | task rows, terminalization records, outcome receipts, leases; the systemd units themselves | start, status, cancel, resume, terminalize | five durable writes in two databases and a file, launches that are not answered or not recorded, observations of units that are not loaded | one unit per task, no verdict over a running unit, leases as long as it runs, verdict, row and receipt agree |
| Reconciliation (`src/grabowski_tasks.py`, `systemd/grabowski-reconcile-tasks.*`) | two cursors with high-water marks and a phase turn | take a batch, refresh its rows, save the cursors | two scans and rows out of turn share a batch; arrivals; rows that can never be done; calls broken off | every end is noticed, every interrupted terminalization carried through |
| Work acquisition and lanes (`src/grabowski_work_acquire.py`, lane modules) | lanes, worktrees, leases, rescue records | acquire, renew, close, rescue | several leases and files as one step, undo | all or nothing, no lane without its lease |
| Checkouts (`src/grabowski_checkouts.py`) | bindings, retention, cleanup receipts | bind, attest, retire, clean | checks before removal that go stale | nothing live is removed |
| Deployment (`src/grabowski_self_deploy.py`, `src/grabowski_release_admission.py`, `tools/deploy_runtime*.py`) | admission record, cutover journal, releases | drain, cut over, resume, roll back | crash in the middle of the cutover | one serving release, no admission while draining |
| Watchdogs (`tools/component_watchdog.py`, `tools/watchdog_runtime.py`) | failure counters, restart history | observe, restart, suppress | state lost between runs, restart loops | at most three restarts in the window |
| Blockades (`src/grabowski_blockade*.py`) | blockade records and authority | raise, clear, evaluate | clearing something newer than what was seen | no clear without authority |
| Privileged broker (`src/grabowski_privileged_broker.py`) | used request ids | verify, consume, execute | replay, crash after consumption | at most one execution per request |
| Alerts (`src/grabowski_alert_outbox.py`, `src/grabowski_ntfy_dispatch.py`, create-only publication of `src/grabowski_private_io.py`) | receipts and acknowledgements as files, the dispatcher's lock | enqueue, schedule, list, push, acknowledge | death between link and unlink, directory read twice, replays, several dispatchers | an acknowledgement is earned and bound to its receipt, nothing acknowledged is pushed again, nothing is forgotten |
| Merge guard and delivery (`src/grabowski_merge_*.py`) | guard evidence, delivery state | prepare, verify, merge, observe | evidence that is stale when used | no merge on stale evidence |

### How they interact

A mutating tool call reaches the dispatch boundary, which classifies it and, for
a peer under enforcement, asks the enforcement module for a token. The
enforcement module first brings an earlier pending effect to an end (recovery),
then acquires the fence from the coordinator over SSH, begins the effect, writes
each phase it reaches to its own durable record, and hands out the token. The
domain tool runs between `dispatching` and `completion_ready`. The coordinator
opens its store anew for every request. Tasks, lanes, workers, checkouts and
deployments take leases from the resource table, which all processes share
through SQLite; leases name owners, and terminalizing a task takes its leases
away. A timer reconciles the task table with what systemd shows. The watchdogs
restart the services, the alert outbox reports.

### Parts without a protocol of their own

Grips and execution plans (catalogue-driven command lists), the agent workspace
(running external agents), routing (scoring over a catalogue), the MCP core
(registration, validation), transport snapshots, the reporting modules
(read-only projections), adapters to devices, browsers, n8n, GitHub and the
Bureau (I/O), and private-file and SQLite helpers (used by the models as atomic
steps, except the create-only publication, which the alerts' model takes apart).
`PROJECT.json` lists every one with the reason.

## 2. Plan

1. **Fence** (done). `OperatorFence`, its abstract specification `FenceLedger`,
   the peers and the RPC in `FenceEnforcement`, which instantiates the store, and
   the set-up of the store's files in `FenceInit`. The safety of all three is
   proved for all constants.
2. **Resource leases** (the table is done): `ResourceLeases` and its abstract
   specification `LeaseClaims`, which it implements. The safety of the table is
   proved. Left: the user-systemd uncertainty fences and the preserve mode of
   attempts inside a task.
3. **Durable tasks** (done but for what section 8 names). `DurableTasks` with the
   leases, the adoption of a task's authority by a merge guard and the units it
   launches; `TaskOutcome`, which it implements; `ReconcileCycle` for the scans
   of the reconciliation. The safety of both is proved.
4. **Alert outbox** (done): `AlertOutbox`. Its safety is proved.
5. **Work acquisition** (`WorkAcquire`): several leases, a worktree and a record
   as one undoable step, with a crash between any two, over one or two keys with
   acquire, release and terminalization only, since the lease table's own runs
   cover the rest.
6. **Deployment admission and cutover**, **watchdogs**, **privileged broker**: one
   small module each, crash between any two durable writes, restart budgets as
   bounds that must be reached. Then **checkouts cleanup**, **blockades** and
   **merge delivery**.

Runs stay few, one per question. What a theorem says for every value of the
constants need not be run again on one instance: the type invariants of
`OperatorFence`, `FenceInit`, `FenceEnforcement`, `ResourceLeases`, `DurableTasks`
and `AlertOutbox`, and `EffectHasWriter`, `SettledOnce`, `UnknownIsTraced`,
`LeaseKept`, `AlwaysOpens`, `WholeOrAbsent`, `NotTakenWhileLive` (which the
refinement of `LeaseClaims` entails) and `NeverShortened` are proved and no longer
part of a run.

## 3. Modules

### OperatorFence: the coordinator's store

| Variable | Code |
|---|---|
| `generation`, `writer`, `inflight`, `updatedAt` | the columns of the single row of `fence_state`; `writer` and `inflight` group columns that are NULL together |
| `anchor` | the generation in `*.generation-anchor.json` |
| `settlements`, `lastSettlement` | the rows of `settlements` and the one inserted last (what status reports) |
| `events` | the unique keys of `effect_events` (INSERT OR IGNORE) |
| `clock` | the coordinator's wall clock |

An operation is a BEGIN IMMEDIATE transaction that opens with the same checks, so
it is one action; acquire writes the anchor before it commits, and
`AcquireInterrupted` is the crash between the two. A call whose outcome depends
on what it finds is split by outcome: `AcquireNew`/`AcquireAgain`,
`BeginNew`/`BeginAgain`, `SettleTerminal`/`SettleUnknown`/`SettleAgain`/
`SettleDisputed`. Denials change nothing and are not steps; those that a caller
tells apart are state predicates (`WriterActive`, `GrantExpired`). Requests come
from any owner and session with any generation and high-water mark up to the
anchor. Recorded timestamps, the acquire reason and fencing-mark digests are left
out: no transition depends on them.

`FenceLedger` is what the store promises: an epoch that only grows, at most one
open effect, which nothing but its own record closes, and a record that is
written once per operation. `OperatorFence` implements it under the mapping given
there (`Ledger`).

### FenceEnforcement: peers, RPC and coordinator

It instantiates the store with `Store == INSTANCE OperatorFence`. Per peer:
`pending` and `minSeen` are the durable record of
`grabowski_operator_fence_enforcement.py`; `mode` is where the holder of the
local locks is, `call` the RPC it waits for. `effect` is the truth about the
domain effect, which no process can read; `late` holds requests whose caller has
given up. Every RPC is asked, served and answered in separate steps, every durable
write is a step, and a crash may come between any two. `Serve` executes a request
with the store's own actions and answers from the state it leaves. Operation,
session and intent are fresh together, so one value stands for the three. The
clock only moves forward here; the store's other clock is in `OperatorFence`.

### FenceInit: setting the store up

The files of the store, the marker and the lock, with one step per file
operation, death between any two, and files lost by accident.

### ResourceLeases: the lease table

| Variable | Code |
|---|---|
| `lease` | table `leases`: one row per `resource_key`. `purpose` stands for the purpose and the identity part of the metadata, `nonce` for the generation in a lane's metadata, `marker` for the branch attempt in the metadata |
| `terminal` | table `task_terminalizations` |
| `nonces` | how many generations were drawn (random in the code, fresh here) |
| `clock` | the host's clock in ticks |
| `receipt`, `before` | what a caller remembers: rows it was shown (`expected_leases`), and, for a lane, rows as they were before it renewed them (only lanes restore) |
| `attempt` | the return value of `acquire_branch_mutation_attempt` in the process that runs the attempt |

| Action | Code (`src/grabowski_resources.py`) |
|---|---|
| `Acquire` | `acquire_resources`, with the conflict checks `PathScopesFree` and `RepositoriesFree` |
| `Renew`, `Restore` | `renew_resources`, `restore_renewed_work_lane_leases` |
| `Rebind` | `rebind_same_owner_resources` |
| `Release`, `Reconcile` | `release_resources`, `_reconcile_verified_leases` |
| `Terminalize` | `begin_task_terminalization` |
| `Overlay`, `AttemptOnly` | the two ways of `acquire_branch_mutation_attempt` |
| `CompleteAttemptOnly`, `CompleteOverlay` | the two ways of `complete_branch_mutation_attempt` |
| `Look`, `Forget` | `list_resources`; a caller that dies, or gives up after a refused cleanup |

Each operation is one BEGIN IMMEDIATE transaction and thus one action. It reads
the clock first and waits for the write lock afterwards, so it works with any
`now` of the last `MaxLag` ticks. A refused operation changes nothing and is not
a step. `AttemptOnly` is two transactions in the code (the overlay finds no live
row, then an acquire); it is one action because the acquire repeats the test
whether the row is live and refuses another one. Which paths overlap is data
(`Within`, `Covers`, `Scope`), as are the key sets that the callers of an owner
ask for together (`Asks`), so an instance says which mixtures of keys occur.

Abstractions: a snapshot compares everything but `purpose`, which is weaker than
the code's metadata hash and so allows more; one nonce is drawn per request
instead of one per row; only lanes have nonces, as in the code; an owner that
rebinds is not a lane. The instances are in `MCResourceLeases`.

`LeaseClaims` is what the table promises, without rows, times, nonces and markers:
an owner claims keys in one step, and only if no claim of another owner that holds
stands in the way of its request (`Excludes`); a held key never changes hands in one
step; a task that is over loses its claims and claims nothing again. A claim that
ran out stays on record until it is dropped or its key is claimed anew; until then
its owner may bring it back (`Revive`), and nothing is promised about other keys
then. The live rows are the claims that hold (`Held`), the others those that ran out
(`Lapsed`), the terminalized tasks what is over. `Excluded` gives the exclusions of
`acquire_resources`: of a subtree scope and what lies in it, of a repository and its
paths, each for the keys of a request that it compares.

### DurableTasks: a task from its start to its receipt

| Variable | Code |
|---|---|
| `row` | table `tasks`: state, current attempt, whether the row is bound to a terminalization, whether to an outcome receipt |
| `term` | table `task_terminalizations`: verdict and phase |
| `file` | the verdict in the outcome receipt file |
| `lease`, `adopted` | table `leases`, with expiry reduced to `live`; table `task_authority_adoptions` |
| `fresh`, `root` | ids not drawn yet; column `execution_backend` (behind the privileged broker or a user unit) |
| `unit` | the truth about each attempt's systemd unit, which the program sees through `Shows` only |
| `unheard` | launches that may take effect without the record knowing, kept for the properties |
| `op` | the operation that holds the mutation lock, with the step it is at |

| Action | Code (`src/grabowski_tasks.py`) |
|---|---|
| `Start`, `Insert`, `InsertFails` | `task_start` up to the launch |
| `Refresh`, `Maintain`, `SetOpen` | `task_status` and each row of a reconciliation: observe, keep the leases up, `_set_state` |
| `Resume`, `Renew` | `task_resume`: attempt N+1 is launched before it is recorded |
| `Cancel`, `StopHeard`, `StopRefused`, `StopLost` | `task_cancel` |
| `LaunchHeard`, `LaunchRefused`, `LaunchLost`, `LaunchVanished` | the launch by the broker or the user's systemd, and its lost answer |
| `BeginTerminalization`, `TerminalizationRefused` | `_set_state` with a terminal state, `begin_task_terminalization` |
| `Project`, `WriteReceipt`, `BindReceipt`, `CompleteTerminalization` | `_apply_terminalization_projection` and `complete_task_terminalization`, one durable write each |
| `Recover` | `_recover_pending_task_terminalization`, which every operation runs before it touches the row |
| `Adopt`, `AdoptionEnds` | merge guards of `src/grabowski_resources.py` |
| `Crash`, `HostRestart`, `Arrives`, `Ends`, `Expires`, `Foreign*` | what happens beside the operations, between any two of their steps |

All operations run under one lock, so one is under way at a time and its steps are
what others can see between. `TaskOutcome` is the promise: the outcome of a task is
decided once, in the step in which it loses all it holds; the record and then the
receipt show what was decided; a decided task never holds anything again. The
mapping (`Abstract` in `DurableTasks`) reads the decision from the terminalization
table, the record from the row, the receipt from the file.

### ReconcileCycle: every task in its turn

`_reconcile_candidate_batch` and the refresh of the batch it yields, under the
mutation lock. `line` and `pending` are the two tables in the order of their
scans, `cycle` and `behind` the saved cursors, represented by the rows behind
them, `turn` the saved phase turn. `Select` takes a batch (with rows looked at out
of turn, and terminalizations carried through while it is put together),
`RefreshOpen`, `RefreshEnded` and `RefreshPoison` work it off row by row, `Save`
saves the cursors, `Aborts` is a call that dies or raises before that. `RefreshOpen`
leaves the row as it is and goes on: because the unit runs, or because its end is
missed, the observation being denied, its host unknown or its answer lost
(`outcome_unknown`). Ids are given out again, so that arrivals never end. `Failing`
rows stay candidates after their end; the receipt of a `Poison` task can never be
written; the observation of a `Retired` task is denied for ever.

### AlertOutbox: receipts, pushes and acknowledgements

`file` is the outbox directory by name, with the number of links of each file;
`at` is the step a producer or a dispatcher is at; `unread` and `rows` are the
dispatcher's listing. `Create`, `Link`, `Unlink`, `Stat` and `Look` are the steps of
`publish_private_create_only_json`, by which receipts and acknowledgements are
published alike; `Report` and `Schedule` the rest of `enqueue_and_schedule`; `Lock`,
`Jobs`, `Scan`, `Read`, `Fails`, `Delivers`, `Acknowledge`, `Acknowledged` and
`Finishes` a pass of the dispatcher. Each alert's transient unit is one dispatcher,
and one more is the operator's. A receipt is told by the call that published it,
which stands for its digest; calls that were over before are part of `Init`. Producers of one
alert say the same here, so the conflict over its material does not arise. That
the first look at the directory fails while another publication is under way is
allowed more often than it happens. Invalid job receipts block the queue of the jobs
only: `Jobs` may go on to the alerts with nothing acknowledged. I/O errors and errors
of the topic's file are left out: each ends the pass, as `Dies` does.

## 4. Runs and bounds

| Run | Question | Bounds |
|---|---|---|
| `coordinator_store` | the store under all requests, crashes in acquire, any clock; refinement of the ledger | 2 peers, 1 session, 2 operations, 2 intents, clock 0..2, 3 generations |
| `store_set_up` | set-up with crashes and lost files | 3 openers, 3 crashes, 2 lost files |
| `two_peers` | exclusion, truth of the ledger, phases against the coordinator | 2 peers, 1 operation each, 2 faults, 1 late request |
| `fence_liveness` | recovery gets on | 2 peers, 1 operation each, 1 fault |
| `unknown_wedge` | a statement of the fence's document that the code does not keep | as `fence_liveness` |
| `lease_scopes` | how subtree scopes, and a repository and a path in it, come to overlap; terminalization; refinement of `LeaseClaims` | a lane, an operator and a task (asking for a path and a branch together, too) with 1 caller each, 2 nested paths, 1 repository, 1 branch, lease length 2, lag 1, clock 0..3, 2 nonces |
| `lease_attempts` | branch mutation attempts | 2 callers of a task and 1 of a lane, 1 branch, 2 bindings, lease lengths 2 and 3, lag 1, clock 0..4 |
| `lease_snapshots` | calls bound to snapshots, late transactions; refinement of `LeaseClaims` | 2 callers of a lane and a rebinding Bureau run, 1 path, 2 purposes, lease length 2, lag 1, clock 0..3, 2 nonces |
| `task_lifecycle` | one task with all operations; its units, leases, adoption, verdict; refinement of `TaskOutcome`; completion | 1 task with 2 keys, 2 attempts, 2 crashes (of the operator or the host) |
| `never_ran` | a statement of the tasks' document that the code does not keep | as `task_lifecycle`, 1 crash |
| `reconcile_cycle` | both scans of the reconciliation under arrivals, failures, denied observations and aborts: what a cursor passes, what is noticed in the end | 3 tasks (one failing, whose host is retired; one whose receipt cannot be written), batch of 3, 1 row out of turn, 1 abort |
| `alert_outbox` | publication, dispatch and acknowledgement with deaths | 2 alerts (one unrenderable and published before), 2 calls about the other, 3 dispatchers, 2 alerts per pass, 3 directory entries, 2 deaths, kill switch once |

Why they are enough: the store compares generations, owners and operations for
equality and order only, so a second and a third generation, a second peer and a
second operation and intent already reach every branch; three generations let a
crashed acquire follow a grant and precede another. A settlement under one intent
with another operation needs two of each. A foreign takeover needs two peers, and
two faults suffice for a fault during the recovery from a fault. What a late
request does to a later operation of the same peer takes two operations per peer,
which with two faults is more than a run can hold: that is what the theorems of
`FenceEnforcementProofs` are for. With three lost files nothing tells an empty
directory from a lost store, so `store_set_up` stops at two. The runs of
`FenceEnforcement` say CHECK_DEADLOCK FALSE because the system really stops when
its operations are used up.

For the leases: an operation compares at most two rows, so two nested paths and a
repository with a path in it reach every conflict check, in both directions; a branch
key makes the request of a task one that names a repository. Three
owners let a third one come between two. With a lag of one, a transaction is late by
a whole tick; lease lengths stay above the lag as in the code (30 s against 10 s), so
a lease length of 2 is the shortest. A second one in `lease_attempts` tells an
extension from a renewal that is shorter than what is left; elsewhere the lag does
that. The clock lets a lease run out, be reclaimed and be renewed late. Two callers of
one lane are what makes a snapshot stale, and with two purposes rows can differ in
what a snapshot leaves out. In `lease_attempts` the same binding comes back after
expiry and reclaim, which is the case its exactness is about. `coordinator_store`,
`lease_attempts` and `lease_snapshots` use symmetry (of sets the specification treats
alike, in runs without liveness). The lease runs say CHECK_DEADLOCK FALSE because the
clock and the nonces are bounded and a bounded clock may end a behaviour.

For the tasks: one task is enough because operations exclude each other and tasks
meet only in leases, where `Foreign` stands for the others; two keys let a task
hold one of its resources and not the other; two attempts let the unit of a retry
meet that of the attempt before; the second crash falls into the recovery from the
first. `task_lifecycle` and `never_ran` say CHECK_DEADLOCK FALSE because ids and
attempts are used up. In `reconcile_cycle` a batch of three is the smallest in
which both scans have a share while a row is looked at out of turn. One task both
fails and is on a retired host, since four tasks are too many: until something else
ends it, it comes up as active in every cycle and is never observed, and from then on
it is a candidate for ever; `ActiveLimit`
is min(20, limit // 5) in the code, scaled to 1. In `alert_outbox`
`MaxScan` stands for MAX_LIST_SCAN (1000): with three entries a second receipt, an
acknowledgement and one temporary name already reach the limit, so that full and
not full both occur; one alert that can never be pushed stands in front of one
that can; two calls about one alert are a replay racing the original; with two
deaths a producer and a dispatcher, or two dispatchers in a row, die.

Every property has a mutant: a changed definition, named beside the original and
marked `Mutant` in its comment, that violates it under the same configuration.

## 5. Fairness

`FairSpec` of `FenceEnforcement`: a started process goes on (`Work`), the
coordinator serves what it is sent (`Serve`, and `RepairAnchor`, which every
request runs first), time passes (`Tick`), and a peer with a pending effect keeps
receiving mutations, each of which runs the recovery first (`Recover`; the code
has no recovery of its own accord, so this is an assumption about use). Crashes,
lost calls and late requests are never fair, and nobody is obliged to start or to
reconcile an effect. `FairSpec` of `FenceInit`: an opener goes on, closes, and
openers keep coming. Both are weak fairness, which is all that process
scheduling gives.

`FairSpec` of `DurableTasks`: an operation under way goes on (WF of `Step`); a
pending terminalization comes up again and again (SF of `Recover`; the
reconciliation sees to it, which is what `ReconcileCycle` checks), and so does an
open task, whose observation is not lost every time (SF of a `Refresh` that is
answered); adoptions and commands end by their time limits (`RuntimeMaxSec`).
Strong fairness because other operations take the lock in between. `FairSpec` of
`ReconcileCycle`: the call is made and goes on (WF). It is made by
`systemd/grabowski-reconcile-tasks.timer.example`, with `--mode refresh
--batch-size 100`. A task that ended and whose turn comes again and again is not
missed every time (SF of `Observed`): the code does not give that, it is an
assumption about the host and the policy, and it is made only of tasks that are not
`Retired`. For those nothing is assumed, and `Noticed` says nothing.
`FairSpec` of `AlertOutbox`: producers run on; some dispatcher that can take a
step does; the server does not refuse for ever (SF of a `Delivers` by any
dispatcher); the kill switch is taken out again; and the operator comes back
to the queue (WF of `Invoke`). The last is an assumption about use: no timer of the
repository runs the dispatcher, `docs/ntfy-alert-outbox-v1.md` leaves the retry to
the operator. Deaths are never fair. `ResourceLeases` has no fairness: the code promises no progress
there, a lease that nobody gives up simply runs out.

## 6. Proofs

`OperatorFenceProofs` proves for all owners, sessions, operations, intents,
evidence and lease lengths and for every bound on the clock and the generations:
the store's type invariant, `AnchorBrackets`, `EffectHasWriter`, `SettledOnce`,
`UnknownIsTraced`, the action properties `TakeoverBarrier`, `FreshGeneration` and
`LeaseKept`, that the store implements the ledger, and, for a clock that never
runs backwards, `AlwaysOpens`. It assumes only that lease lengths are positive
(`_lease_seconds`), that the bounds are natural numbers, and that NULL is not a
row.

The argument: `TypeOK` is inductive. `EffectHasWriter` is inductive with it, and
the two are the base of everything else, since a settlement copies the owner and
session of the row, which exist only because the effect has a writer; `Basic` is
their conjunction. Each table operation is described once by a case lemma
(`TableStep`): a step leaves the three tables alone, adds an event, marks the
effect unknown, or inserts one row while clearing the effect; the properties of
the tables go through these cases instead of through every action. `AlwaysOpens`
is not inductive: an anchor may be ahead for long, and what must not happen
meanwhile is a grant or an effect; the strengthening `Quiet` says that an anchor
ahead of the row finds nothing in flight, no live lease and a clock that is not
behind. It holds because acquire writes the anchor only in such a state and
because every step that could leave it needs the anchor to agree, a live lease or
a clock stepped back.

`FenceInitProofs` proves the type invariant, `WholeOrAbsent` and
`RefusedOnlyForLoss` for any number of openers and crashes. Neither is inductive;
`Inv` adds what the disk looks like at each step of the opener that holds the
lock. `OneStore` is proved for `MaxLost <= 2`, which it needs: with every file lost
nothing tells an empty directory from a lost store. Its invariant `StoreInv` says
what an opener can rely on whatever was lost, and that a store in use is not being
set up, since a file that was never lost is there to show that it exists.

`ResourceLeasesProofs` and `ResourceSafetyProofs` prove, for all owners, keys,
overlaps, callers and lease lengths and every bound on clock and nonces, from one assumption of substance: a lease is longer than the
longest wait for the lock (`MIN_TTL_SECONDS` 30 against sqlite's 10 s timeout).

- `TypeOK`, and from it `NotTakenWhileLive`, `NeverShortened` and
  `TerminalHoldsNothing`. One lemma (`EveryStepIsARowStep`) says what a step may do
  to a row: make it for the owner who may acquire it, move its times, end it, mark
  it or unmark it. Every later property goes through these five cases instead of
  through every action. That lag is harmless for `NotTakenWhileLive` follows from
  `now <= clock`: what is live now was live then.
- `AttemptIsFrozen`, `OneAttempt` and `CompletionIsExact`. `AttemptIsFrozen` is not
  inductive. The invariant `AttemptInv` adds that every nonce in use has been
  drawn, that overlays lengthen, that the marked row of an attempt is in the table
  or has been superseded, and that no two attempts remember the same row. An
  attempt's row can be superseded only after its expiry has passed or its task was
  terminalized, and what then stands in the table has another owner, another nonce
  (lanes) or a later expiry, which is why its completion is refused.
- `NoScopeOverlapArises` and `NoRepositoryOverlapArises`, without any condition on
  lag, rebinders or requests: the exceptions are in the properties, each for a single
  step. `HeldStep` says what a step does to what is held: it lets rows go, it
  terminalizes a task, or one owner gains keys that nobody else held (`Gained`). It
  gains them because it asked for them (`Asked`), and then `acquire_resources` has
  looked at the other rows, with a clock that showed no live row as run out
  (`LiveSinceRead`); or because it had them all along, and those that had run out are
  revived (`Returned`, `KeptIsRevived`).
- `GuardedIsExact`: a snapshot leaves the purpose of a row out (section 3), so that
  two rows could look the same. `ReceiptsTell` is the invariant: the row in the table
  with the nonce a lane was shown has the purpose it was shown, since a nonce is drawn once and a row with a nonce changes
  its purpose only by a rebinding, which lanes do not do.
- `ImplementsClaims`, again without conditions. The same three cases are the steps of
  `LeaseClaims`: what is let go leaves or runs out, a terminalized task ends, and what
  an owner gains it revives or claims. That a revived row was on record all the time,
  so that nobody else holds its key, is where lag, rebinding, restoring and attempts
  come in; that a request is granted only where nothing that is held excludes it
  (`AskedIsClaimed`) is where scopes and repositories do.

`FenceEnforcementProofs` proves `TypeOK`, `EffectsFenced`, `RecordIsTrue`,
`NoOrphanInFlight` and `PhaseIsBacked` of peers, RPC and coordinator together, for
all peers, operations and numbers of faults and late requests. None
of the last four is inductive. `IInv` adds to the types:

- of the store, that an effect in flight is held by the peer that remembers it
  (`Held`, `Owned`) and that the settlements tell the truth (`Rows`);
- of each peer (`PeerInv`), that its operations are numbered in order
  (`Numbered`) and its generation is one that was granted (`Generated`); that the
  phase it has written down is backed by the store (`Backed`); that the mode of its
  process and the request it waits for fit that phase (`ModeOK`, `CallFits`); that
  an answer not read yet is still true (`AnswerHolds`); and that a request on its
  way, late ones included, is either what the peer stands for or harmless
  (`Requests`): a begin then finds its operation settled or its grant gone, a
  settle finds its operation settled.

A step of the coordinator is one of eight kinds of move (quiet, granting,
beginning, settling, doubting, releasing, reconciling, repairing), and a peer's invariant is
shown to survive each kind, its own and another's. Only a request its peer stands
for changes what is in flight, which is why lateness is harmless. The assumptions
are those of the store, that None is not a record (`NoneAssumption`), and natural bounds
(`EnforcementBounds`).

`DurableTasksProofs` proves of the tasks the types, `ReceiptChain`, and that
`DurableTasks` implements `TaskOutcome`; the strengthening `Stages` says what is in the
tables at each step of a terminalization. It also proves `RunningIsOpen`,
`OneUnit`, `RunsUnderLease` and `AdoptionHolds` for all tasks, keys and numbers of
attempts and crashes. Its invariants are `Base` (what an operation under way says of
its task), `Attempts` (the units of attempts before the recorded one are over, and
the next attempt runs only when the recorded one is), `Hearing` (a unit that was
heard of is the recorded one or about to be recorded) and `Holding` (a launch happens
under all leases, and they last as long as the unit). They assume that the task's
keys are keys, that `Foreign` is not a task, that there is an attempt, and that None is none of the
records.

`ReconcileCycleProofs` proves `TypeOK` and `NonePassedOver` for all tasks, failing and
poisoned ones, batch sizes and numbers of broken calls. `TypeOK` relates the tables
to the cursors and is not inductive: `CycleInv` adds that what failed stays in the
line while its terminalization is pending, without which a row could be closed that
is not there, and that the cycle a batch is going to save is about rows that are
still there. `NonePassedOver` needs the order of the line: the rest of a cycle keeps
it (`InOrder`), so a row that is not on the page comes behind the page's last row,
where the cursor is put. What `Among` selects is a recursive function, about which
the lemmas argue by the least index at which they would fail (`LeastNatural`, from
the well-foundedness of the natural numbers), since the library's induction theorems
cannot be instantiated. The assumptions are those on the sizes (`CycleAssumption`),
and that None is not a cycle.

`AlertOutboxProofs` proves `TypeOK`, `UnboundIsWithdrawn`, `AckIsEarned` and
`NotPushedAgain` for all alerts, producers and bounds. `Base` says that one dispatcher
at most holds the lock and what it has listed at each step. On it rest three
invariants about the files: that a receipt is of the alert it is named after
(`Receipts`), that each acknowledgement names a receipt the server took, whose
publisher has withdrawn it if it is gone (`Acks`), and that of what a dispatcher has
listed nothing is acknowledged but the row it is at, by itself (`RowsOK`). They assume
that the operator's dispatcher and the calls have names of their own
(`WriterAssumption`), that no two calls that were over before are about one alert,
and that None is not a file.

Every safety property that a run checks is thereby proved. Model-checked only are the
liveness properties (`SetUpCompletes`, those of `fence_liveness`, `DecidedIsCompleted`,
`Settles`, `Recovered`, `Noticed`, `Delivered`), since fairness is out of the prover's
reach, and the two statements that the code does not keep.

## 7. Where code and documentation differ

Each of these was met while modelling. Two are shown by a run of their own
(`PROJECT.json`, `findings`):

- `unknown_wedge`: a reconciled unknown outcome does not unblock its peer when
  another settlement came after it (`docs/operator-fence-heimberry-v1.md:204`).
  The peer stays closed, which is safe, and stays closed for ever.
- `never_ran`: a task behind the broker whose launch was not answered and never
  took effect is recorded as completed, since systemd shows success of a unit it
  does not have (`docs/root-task-lifetime-v1.md:31` and `:36`; that
  `tests/test_tasks.py:2628` wants this mapping shows that it is intended for units
  that ran). A broker that starts the unit after that observation leads to the same.

The others are noted here for whoever changes that code; the models contain the
behaviour unless it is said otherwise, but no run is spent on it.

Fence:

- A grant that expired before begin is not cleared once it was superseded, or once
  its release was executed and the answer lost (same fence document, line 200;
  `src/grabowski_operator_fence_enforcement.py:653`).
- A peer that did not hear that its report of an unknown outcome was accepted, and
  whose effect was then reconciled, repeats the report for ever (line 204 again;
  `src/grabowski_operator_fence_enforcement.py:696`).
- `reconcile_effect` accepts `effect_applied` only (`src/grabowski_operator_fence.py:1506`):
  an unknown outcome that was in fact not applied can never be resolved truthfully.
- The thread that marks `dispatching` goes on when its request is cancelled
  (`src/grabowski_operator.py:3536`). If it reads the record before the abort that
  follows and writes it afterwards, it overwrites what the abort, or a later
  operation, has written. The model has the mark before the abort only
  (`DispatchCancelled`); the theorems hold as far as the later write does not occur.

Leases:

- A renewal that waited for the lock works with a time read before (`:7928`) and
  extends a row that ran out and was passed over meanwhile, so that a subtree scope and
  a path in it have two live owners, against the docstring of
  `_check_work_lane_path_scope_conflicts` (`:1714`). `lease_scopes` contains it.
- A request that names a repository or branch key is not checked for its paths
  against broad repository leases (`:1868`;
  `docs/nonconflict-lease-exception-v1.md:3`); `lease_scopes` contains such a request.
  One that names a subtree scope is not checked for its plain paths (`:1759`).
- `rebind_same_owner_resources` revives an expired row without looking at other
  rows (`:7874`).

  These are the exceptions of `NoScopeOverlapArises` and `NoRepositoryOverlapArises`:
  a row that is revived, late or by a rebinding, and a mixed request. The last two,
  the plain path beside a scope and the rebinding beside others' scopes, take one
  more key or kept snapshots, which is more than the run can hold; that they are all there
  is rests on the theorems.
- A late renewal can leave a row updated before it was acquired, whose snapshot no
  bound call accepts any more (`docs/resource-lease-contract-v1.md:46`).
- The merge gate, refused by acquire to its own owner, can be extended by renew
  (`:7947`, `tests/test_resources.py:1756`).
- A branch attempt extends the lease it borrows
  (`docs/agent-authority-lanes-v1.md:70` says that it preserves the expiry).

Tasks (`src/grabowski_tasks.py`):

- A launch of a user unit that times out counts as failed (`:5873`): the task is
  terminalized and its leases are gone, and the unit may run all the same. This is
  why `RunningIsOpen` and `RunsUnderLease` speak of launches that were heard of, or
  that started in time.
- A crash between the launch of attempt N+1 and its record (`:10532`) leaves a unit
  that no row names. `OneUnit` still holds, since the next resume finds the name
  taken or the unit over; but a resume that finds it taken closes the task as failed
  while that unit runs.
- The lease of a task is capped at seven days (`:5737`) and a task behind the broker
  may run for thirty; `Covered` assumes the shorter time.
- A batch of one starves the scan whose turn it is not, and a page without rows puts
  the cursor back to the start (`:11264-11330`; `tests/test_tasks.py:9575` and `:9644` cover
  the fair cases). With the timer's batch size of 100 it does not arise; the
  configuration has a batch of three, and `Limit = 1` breaks `Noticed`.
- A row whose refresh raises (`:13187`) ends the call before the cursors of the task
  scan are saved. If it raises every time the rows behind it are not reached by
  the scan; in `ReconcileCycle` calls are broken off finitely often.
- A row whose observation is denied, or whose host the fleet does not know any more,
  stays open for as long as that lasts (`:13191`), also when its unit is long over:
  `Noticed` excepts it, and `reconcile_cycle` shows that it holds nobody up.

Alerts:

- "Existing receipts are never replaced, moved, or deleted"
  (`docs/ntfy-alert-outbox-v1.md`): a publisher whose second look at the directory
  finds it changed withdraws its receipt (`src/grabowski_private_io.py:186-208`). A
  replaying producer may have been told that it is queued, and a dispatcher may
  have pushed and acknowledged it; the acknowledgement is then without its receipt, and
  every later pass is blocked. `UnboundIsWithdrawn` says that there is no other way
  to this.
- A writer that dies between link and unlink leaves a file with two links
  (`src/grabowski_private_io.py:172`), which no reader accepts: every later pass is
  blocked (against the comment at `src/grabowski_alert_outbox.py:512`).
- The directory only grows; beyond MAX_LIST_SCAN entries
  (`src/grabowski_alert_outbox.py:495`), about five hundred acknowledged alerts, every pass is blocked.
- The queues of jobs and alerts are called independent; an acknowledgement of a job
  notification that raises (`src/grabowski_ntfy_dispatch.py:250`), as it does while
  the kill switch is engaged, ends the pass before the alerts.
- FIELD_VALUE_RE admits values that the rendering refuses by SAFE_TOKEN_RE. As many
  such alerts as a pass takes keep it from all later ones; `alert_outbox` has fewer.

`Delivered` holds up to these: it excepts a withdrawn receipt and an outbox that is
blocked for good, and assumes that the kill switch is taken out again.

## 8. What is left out

Of the fence: schema and file-permission validation, canonical framing, SSH
command lines, configuration; damaged contents of files; a cancelled thread whose
mark of `dispatching` overwrites a newer pending record. Of the leases:
the merge guard but for the adoption in `DurableTasks`, uncertainty fences, runtime-refresh binding, Bureau semantic keys, non-conflict
exceptions, the preserve mode of attempts inside a task and the compare-and-swap
reentry of an expired row; limits on the number of keys and the validation of
names. Of the tasks: the state `interrupted` and recovery contexts, the recovery of
rows that were closed before terminalization records existed, retry successors,
deduplication and reuse, the leases of the runtime-refresh executor, output,
attention and convergence reports, and the boot id; of the reconciliation, the
recovery of a terminalization that fails and succeeds later (a `Poison` one never
succeeds, the others always), which only delays it. Of the alerts: the conflict
over differing material, the contents of notifications, `audit_signal`, and of the
job queue all but its place before the alerts. Of the system: every component that
`PROJECT.json` lists as `not_modelled`, for the reason given there.
