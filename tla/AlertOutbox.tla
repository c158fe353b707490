------------------------------ MODULE AlertOutbox ------------------------------
(***************************************************************************)
(* The ntfy alert outbox: src/grabowski_alert_outbox.py, the create-only   *)
(* publication of src/grabowski_private_io.py it rests on, and the         *)
(* dispatcher src/grabowski_ntfy_dispatch.py.                              *)
(*                                                                         *)
(* A producer publishes the receipt of an alert as a file, in steps: a     *)
(* temporary file, a hard link under the final name, the removal of the    *)
(* temporary name, and a last look at the directory, which is read twice   *)
(* and must not change in between; if it did, the receipt is withdrawn.    *)
(* Transient units, one per alert, and the operator run the dispatcher.    *)
(* One at a time, behind a lock, they first push the job notifications,    *)
(* then list the directory, push each alert not acknowledged, and publish  *)
(* an acknowledgement the same way a receipt is published.  An unreadable  *)
(* file stops the pass.  Any process may die between any two steps.        *)
(***************************************************************************)
EXTENDS Integers, FiniteSets

CONSTANTS
    Alert,          \* deterministic alert ids, in the order of their names
    Call,           \* calls of enqueue_and_schedule
    AlertOf,        \* the alert a call is about
    Earlier,        \* the calls that were over before, one per alert at most
    Unrenderable,   \* the alerts of which no notification can be rendered
    Manual,         \* the dispatcher the operator starts
    Limit,          \* alerts per pass
    MaxScan,        \* directory entries a pass looks at, MAX_LIST_SCAN
    MaxDeaths,      \* bound on the processes that die
    MaxSwitches,    \* bound on the times the kill switch is engaged
    None

ASSUME AlertAssumption ==
    /\ Alert \subseteq Nat /\ Unrenderable \subseteq Alert
    /\ AlertOf \in [Call -> Alert] /\ Earlier \subseteq Call
    /\ \A c, d \in Earlier : AlertOf[c] = AlertOf[d] => c = d
    /\ Limit \in Nat /\ MaxScan \in Nat
    /\ MaxDeaths \in Nat /\ MaxSwitches \in Nat

\* Each alert's transient unit is named after it.
Unit == Alert \cup {Manual}

ASSUME WriterAssumption == Manual \notin Alert /\ Call \cap Unit = {}

Writer == Call \cup Unit

Name == Alert \X {"receipt", "ack"}

\* A receipt is told by the call that published it; an acknowledgement names
\* the receipt it is for.  Links: 2 while the temporary name is there too.
Entry == [receipt : Call, links : {1, 2}]

ASSUME NoneAssumption == None \notin Entry

Row == [alert : Alert, receipt : Call]

Publishing == {"publish", "temp", "linked", "named", "statted", "stirred"}
CallStage == Publishing \cup {"winner", "refused", "withdrawn", "reported", "done", "dead"}
Holding == Publishing \cup {"jobs", "list", "reading", "send", "acknowledge", "winner",
                           "refused", "withdrawn"}

VARIABLES
    file,       \* the files of the outbox, by name
    at,         \* where a producer or a dispatcher is
    unread,     \* per dispatcher: the receipts of the listing it has yet to read
    rows,       \* per dispatcher: the alerts it found queued and has yet to push
    job,        \* the job notification: "queued" or "acknowledged"
    engaged,    \* the kill switch
    accepted,   \* the receipts the server has taken
    litter,     \* temporary files whose writers died
    deaths,
    switches

vars == <<file, at, unread, rows, job, engaged, accepted, litter, deaths, switches>>

TypeOK ==
    /\ file \in [Name -> Entry \cup {None}]
    /\ at \in [Writer -> CallStage \cup Holding \cup {"none", "waiting"}]
    /\ unread \in [Unit -> SUBSET Alert]
    /\ rows \in [Unit -> SUBSET Row]
    /\ job \in {"queued", "acknowledged"}
    /\ engaged \in BOOLEAN
    /\ accepted \subseteq Row
    /\ litter \in 0..deaths
    /\ deaths \in 0..MaxDeaths
    /\ switches \in 0..MaxSwitches

Init ==
    /\ file = [n \in Name |->
                 IF \E c \in Earlier : n = <<AlertOf[c], "receipt">>
                 THEN [receipt |-> CHOOSE c \in Earlier : AlertOf[c] = n[1], links |-> 1]
                 ELSE None]
    /\ at = [w \in Writer |-> IF w \in Earlier THEN "done"
                             ELSE IF w \in Call THEN "publish" ELSE "none"]
    /\ unread = [u \in Unit |-> {}]
    /\ rows = [u \in Unit |-> {}]
    /\ job = "queued"
    /\ engaged = FALSE
    /\ accepted = {}
    /\ litter = 0
    /\ deaths = 0
    /\ switches = 0

-----------------------------------------------------------------------------
Present(n) == file[n] # None

\* _read_private_json refuses a file with a second link.
Readable(n) == Present(n) /\ file[n].links = 1

First(r) == CHOOSE row \in r : \A other \in r : row.alert <= other.alert

Target(w) == IF w \in Call THEN <<AlertOf[w], "receipt">> ELSE <<First(rows[w]).alert, "ack">>

\* What w publishes, as it is before the temporary name is removed.
Fresh(w) == [receipt |-> IF w \in Call THEN w ELSE First(rows[w]).receipt, links |-> 2]

Temporary(w) == at[w] \in {"temp", "linked"}

\* Directory entries, those of temporary files included.
Entries == Cardinality({n \in Name : Present(n)})
           + Cardinality({w \in Writer : Temporary(w)}) + litter

\* w moves on and the directory changes, which whoever has read it once in
\* its last look will see.
Stirring(w, stage) ==
    at' = [x \in Writer |-> IF x = w THEN stage
                            ELSE IF at[x] = "statted" THEN "stirred" ELSE at[x]]

Moves(w, stage) == at' = [at EXCEPT ![w] = stage]

\* publish_private_create_only_json.  The first look at the directory, which
\* fails when another publication changes it meanwhile.
Create(w) ==
    /\ at[w] = "publish"
    /\ \/ Stirring(w, "temp")
       \/ (\E x \in Writer \ {w} : at[x] \in Publishing) /\ Moves(w, "refused")
    /\ UNCHANGED <<file, unread, rows, job, engaged, accepted, litter, deaths, switches>>

\* Mutant: os.replace in the place of os.link.
LinkReplacing(w) ==
    /\ at[w] = "temp"
    /\ Stirring(w, "named")
    /\ file' = [file EXCEPT ![Target(w)] = [Fresh(w) EXCEPT !.links = 1]]
    /\ UNCHANGED <<unread, rows, job, engaged, accepted, litter, deaths, switches>>

\* os.link never replaces a file; who finds one there reads the winner.
Link(w) ==
    /\ at[w] = "temp"
    /\ IF Present(Target(w))
       THEN Stirring(w, "winner") /\ UNCHANGED file
       ELSE Stirring(w, "linked") /\ file' = [file EXCEPT ![Target(w)] = Fresh(w)]
    /\ UNCHANGED <<unread, rows, job, engaged, accepted, litter, deaths, switches>>

Unlink(w) ==
    /\ at[w] = "linked"
    /\ Stirring(w, "named")
    /\ file' = [file EXCEPT ![Target(w)].links = 1]
    /\ UNCHANGED <<unread, rows, job, engaged, accepted, litter, deaths, switches>>

Stat(w) ==
    /\ at[w] = "named"
    /\ Moves(w, "statted")
    /\ UNCHANGED <<file, unread, rows, job, engaged, accepted, litter, deaths, switches>>

\* The second look: a directory that changed meanwhile is taken for another,
\* and what was published is removed.
Look(w) ==
    /\ \/ at[w] = "statted" /\ Moves(w, "winner") /\ UNCHANGED file
       \/ /\ at[w] = "stirred"
          /\ Stirring(w, "withdrawn")
          /\ file' = [file EXCEPT ![Target(w)] = None]
    /\ UNCHANGED <<unread, rows, job, engaged, accepted, litter, deaths, switches>>

Publish(w) == Create(w) \/ Link(w) \/ Unlink(w) \/ Stat(w) \/ Look(w)

-----------------------------------------------------------------------------
\* enqueue_alert reads back the winner, whoever that is.
Report(c) ==
    /\ at[c] = "winner"
    /\ Moves(c, IF Readable(Target(c)) THEN "reported" ELSE "refused")
    /\ UNCHANGED <<file, unread, rows, job, engaged, accepted, litter, deaths, switches>>

\* schedule_dispatch: systemd-run fails while the alert's unit is loaded, and
\* may fail at any time.
Schedule(c) ==
    /\ at[c] = "reported"
    /\ \/ /\ at[AlertOf[c]] = "none"
          /\ at' = [at EXCEPT ![c] = "done", ![AlertOf[c]] = "waiting"]
       \/ Moves(c, "done")
    /\ UNCHANGED <<file, unread, rows, job, engaged, accepted, litter, deaths, switches>>

\* The operator invokes the dispatcher.
Invoke ==
    /\ at[Manual] = "none"
    /\ Moves(Manual, "waiting")
    /\ UNCHANGED <<file, unread, rows, job, engaged, accepted, litter, deaths, switches>>

-----------------------------------------------------------------------------
\* Mutant: without the lock.
LockNot(u) ==
    /\ at[u] = "waiting"
    /\ Moves(u, "jobs")
    /\ UNCHANGED <<file, unread, rows, job, engaged, accepted, litter, deaths, switches>>

\* main: flock.
Lock(u) ==
    /\ at[u] = "waiting"
    /\ \A x \in Unit : at[x] \notin Holding
    /\ Moves(u, "jobs")
    /\ UNCHANGED <<file, unread, rows, job, engaged, accepted, litter, deaths, switches>>

Ends(u) ==
    /\ at' = [at EXCEPT ![u] = "none"]
    /\ unread' = [unread EXCEPT ![u] = {}]
    /\ rows' = [rows EXCEPT ![u] = {}]

\* dispatch: the job notifications.  Their acknowledgement is a mutation; the
\* kill switch makes it raise, which ends the process before the alerts.
Jobs(u) ==
    /\ at[u] = "jobs"
    /\ \/ Moves(u, "list") /\ UNCHANGED <<unread, rows, job>>
       \/ /\ job = "queued" /\ ~engaged
          /\ job' = "acknowledged"
          /\ Moves(u, "list") /\ UNCHANGED <<unread, rows>>
       \/ job = "queued" /\ engaged /\ Ends(u) /\ UNCHANGED job
    /\ UNCHANGED <<file, engaged, accepted, litter, deaths, switches>>

\* list_alerts lists the names first.
Orphans == {a \in Alert : Present(<<a, "ack">>) /\ ~Present(<<a, "receipt">>)}

Scan(u) ==
    /\ at[u] = "list"
    /\ IF Entries > MaxScan \/ Orphans # {}
       THEN Ends(u)
       ELSE /\ Moves(u, "reading")
            /\ unread' = [unread EXCEPT ![u] = {a \in Alert : Present(<<a, "receipt">>)}]
            /\ UNCHANGED rows
    /\ UNCHANGED <<file, job, engaged, accepted, litter, deaths, switches>>

\* A receipt with, perhaps, an acknowledgement that is bound to it.
Valid(a) ==
    /\ Readable(<<a, "receipt">>)
    /\ Present(<<a, "ack">>) =>
           /\ Readable(<<a, "ack">>)
           /\ file[<<a, "ack">>].receipt = file[<<a, "receipt">>].receipt

\* ... and reads the receipts one by one; one that is not valid blocks all.
Read(u) ==
    /\ at[u] = "reading"
    /\ \/ unread[u] = {} /\ Moves(u, "send") /\ UNCHANGED <<unread, rows>>
       \/ \E a \in unread[u] :
             /\ \A b \in unread[u] : a <= b
             /\ IF Valid(a)
                THEN /\ unread' = [unread EXCEPT ![u] = @ \ {a}]
                     /\ rows' = IF Present(<<a, "ack">>) \/ Cardinality(rows[u]) >= Limit
                                THEN rows
                                ELSE [rows EXCEPT ![u] = @ \cup
                                        {[alert |-> a, receipt |-> file[<<a, "receipt">>].receipt]}]
                     /\ UNCHANGED at
                ELSE Ends(u)
    /\ UNCHANGED <<file, job, engaged, accepted, litter, deaths, switches>>

\* On to the next row.
Drops(u) ==
    /\ rows' = [rows EXCEPT ![u] = @ \ {First(@)}]
    /\ Moves(u, "send")

\* Mutant: a row that fails ends the pass.
FailsAll(u) ==
    /\ at[u] = "send" /\ rows[u] # {}
    /\ Ends(u)
    /\ UNCHANGED <<file, accepted, job, engaged, litter, deaths, switches>>

\* Mutant: whatever the server answers is acknowledged.
FailsAcknowledged(u) ==
    /\ at[u] = "send" /\ rows[u] # {}
    /\ Moves(u, "acknowledge")
    /\ UNCHANGED <<file, unread, rows, accepted, job, engaged, litter, deaths, switches>>

\* dispatch_alerts, a row: nothing can be rendered, or the server does not
\* answer with 2xx, though it may have taken the notification.
Fails(u) ==
    /\ at[u] = "send" /\ rows[u] # {}
    /\ Drops(u)
    /\ \/ UNCHANGED accepted
       \/ /\ First(rows[u]).alert \notin Unrenderable
          /\ accepted' = accepted \cup {First(rows[u])}
    /\ UNCHANGED <<file, unread, job, engaged, litter, deaths, switches>>

Delivers(u) ==
    /\ at[u] = "send" /\ rows[u] # {}
    /\ First(rows[u]).alert \notin Unrenderable
    /\ accepted' = accepted \cup {First(rows[u])}
    /\ Moves(u, "acknowledge")
    /\ UNCHANGED <<file, unread, rows, job, engaged, litter, deaths, switches>>

Finishes(u) ==
    /\ at[u] = "send" /\ rows[u] = {}
    /\ Ends(u)
    /\ UNCHANGED <<file, job, engaged, accepted, litter, deaths, switches>>

\* acknowledge_alert: the receipt must still be the one that was pushed.
Acknowledge(u) ==
    /\ at[u] = "acknowledge"
    /\ LET n == <<First(rows[u]).alert, "receipt">>
       IN  IF Readable(n) /\ file[n].receipt = First(rows[u]).receipt
           THEN Moves(u, "publish") /\ UNCHANGED rows
           ELSE Drops(u)
    /\ UNCHANGED <<file, unread, job, engaged, accepted, litter, deaths, switches>>

\* Whether the acknowledgement was published or not, the next row follows.
Acknowledged(u) ==
    /\ at[u] \in {"winner", "refused", "withdrawn"}
    /\ Drops(u)
    /\ UNCHANGED <<file, unread, job, engaged, accepted, litter, deaths, switches>>

-----------------------------------------------------------------------------
\* A process dies; a temporary name it leaves behind is never removed.
Dies(w) ==
    /\ deaths < MaxDeaths
    /\ at[w] \in (CallStage \cup Holding) \ {"refused", "withdrawn", "done", "dead"}
    /\ at' = [at EXCEPT ![w] = IF w \in Call THEN "dead" ELSE "none"]
    /\ IF w \in Call
       THEN UNCHANGED <<unread, rows>>
       ELSE unread' = [unread EXCEPT ![w] = {}] /\ rows' = [rows EXCEPT ![w] = {}]
    /\ litter' = IF Temporary(w) THEN litter + 1 ELSE litter
    /\ deaths' = deaths + 1
    /\ UNCHANGED <<file, job, engaged, accepted, switches>>

\* The operator's kill switch.
Engage ==
    /\ ~engaged /\ switches < MaxSwitches
    /\ engaged' = TRUE /\ switches' = switches + 1
    /\ UNCHANGED <<file, at, unread, rows, job, accepted, litter, deaths>>

Disengage ==
    /\ engaged /\ engaged' = FALSE
    /\ UNCHANGED <<file, at, unread, rows, job, accepted, litter, deaths, switches>>

Pass(u) ==
    \/ Lock(u) \/ Jobs(u) \/ Scan(u) \/ Read(u)
    \/ Fails(u) \/ Delivers(u) \/ Finishes(u) \/ Acknowledge(u) \/ Acknowledged(u)

Next ==
    \/ \E w \in Writer : Publish(w) \/ Dies(w)
    \/ \E c \in Call : Report(c) \/ Schedule(c)
    \/ \E u \in Unit : Pass(u)
    \/ Invoke \/ Engage \/ Disengage

\* Producers run on, and so does the dispatcher that has the lock, whichever
\* it is; the server does not refuse for ever; the operator comes back to the
\* queue, and takes the kill switch out again.
Fairness ==
    /\ \A c \in Call : WF_vars(Publish(c) \/ Report(c) \/ Schedule(c))
    /\ WF_vars(\E u \in Unit : Pass(u) \/ Publish(u))
    /\ SF_vars(\E u \in Unit : Delivers(u))
    /\ WF_vars(Invoke)
    /\ WF_vars(Disengage)

Spec == Init /\ [][Next]_vars
FairSpec == Spec /\ Fairness

-----------------------------------------------------------------------------
\* A file whose writer died between the link and the removal of the temporary
\* name: it will be unreadable for ever.
Abandoned(n) ==
    /\ Present(n) /\ file[n].links = 2
    /\ ~\E w \in Writer : at[w] = "linked" /\ Target(w) = n

Unbound(a) ==
    /\ Present(<<a, "ack">>)
    /\ \/ ~Present(<<a, "receipt">>)
       \/ file[<<a, "ack">>].receipt # file[<<a, "receipt">>].receipt

Full == Cardinality({n \in Name : Present(n)}) + litter > MaxScan

\* No pass will get beyond the listing any more.
Blocked == (\E n \in Name : Abandoned(n)) \/ (\E a \in Alert : Unbound(a)) \/ Full

\* The outbox spoils itself in one way only: a receipt is withdrawn by its own
\* publisher after a dispatcher has pushed it.  No interleaving of replays,
\* passes and acknowledgements leaves an acknowledgement without its receipt,
\* or with another one.
UnboundIsWithdrawn ==
    \A a \in Alert : Unbound(a) => \E c \in Call : AlertOf[c] = a /\ at[c] = "withdrawn"

\* An acknowledgement stands for a notification the server took, of that very
\* receipt, whatever was withdrawn or published anew in between.
AckIsEarned ==
    \A a \in Alert : Present(<<a, "ack">>) =>
        [alert |-> a, receipt |-> file[<<a, "ack">>].receipt] \in accepted

\* What is acknowledged is not pushed again, however many units run.
NotPushedAgain ==
    [][\A u \in Unit : Delivers(u) =>
          ~Present(<<First(rows[u]).alert, "ack">>)]_vars

\* A receipt that is there is acknowledged in the end, or was withdrawn, or
\* the outbox is blocked for good: an alert behind one that can never be
\* pushed, found by a pass that died, or published while a pass was under
\* way is not forgotten.
Delivered ==
    \A a \in Alert \ Unrenderable :
        Present(<<a, "receipt">>)
            ~> \/ Readable(<<a, "ack">>)
               \/ ~Present(<<a, "receipt">>)
               \/ Blocked
=============================================================================
