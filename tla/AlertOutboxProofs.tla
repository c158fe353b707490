--------------------------- MODULE AlertOutboxProofs ---------------------------
(***************************************************************************)
(* Proofs about the outbox, for any number of alerts, producers, units and *)
(* deaths and for every limit.                                             *)
(***************************************************************************)
EXTENDS AlertOutbox, WellFoundedInduction, TLAPS

USE AlertAssumption, WriterAssumption, NoneAssumption

\* Steps from the push of a row to its end.
Settling == Publishing \cup {"acknowledge", "winner", "refused", "withdrawn"}

\* A dispatcher has rows while it holds the lock, each of another alert and
\* none of an alert it has yet to read; what it acknowledges was accepted.
UnitOK(u) ==
    /\ at[u] \in Holding \cup {"none", "waiting"}
    /\ at[u] \in {"none", "waiting", "jobs", "list"} => rows[u] = {}
    /\ at[u] # "reading" => unread[u] = {}
    /\ at[u] \in Settling => rows[u] # {} /\ First(rows[u]) \in accepted
    /\ \A r \in rows[u] : r.alert \notin unread[u]
    /\ \A r, s \in rows[u] : r.alert = s.alert => r = s

\* One dispatcher at a time.
Locked == \A u, v \in Unit : at[u] \in Holding /\ at[v] \in Holding => u = v

\* What a writer has published stands, with a second link until the temporary
\* name is removed.
Standing == {"linked", "named", "statted", "stirred"}
Published(w) ==
    at[w] \in Standing =>
        file[Target(w)] = [receipt |-> Fresh(w).receipt,
                           links |-> IF at[w] = "linked" THEN 2 ELSE 1]

Base ==
    /\ TypeOK
    /\ \A c \in Call : at[c] \in CallStage
    /\ \A u \in Unit : UnitOK(u)
    /\ Locked
    /\ \A w \in Writer : Published(w)

\* A set of natural numbers has a least element.
LEMMA LeastNatural ==
    ASSUME NEW S \in SUBSET Nat, S # {}
    PROVE  \E n \in S : \A m \in S : n <= m
<1>1. PICK n \in S : \A m \in S : ~(<<m, n>> \in OpToRel(<, Nat))
  BY NatLessThanWellFounded, WFMin
<1>2. \A m \in S : ~(m < n)
  BY <1>1 DEF OpToRel
<1>. QED  BY <1>2

\* The next row to push is one of the rows.
LEMMA FirstIsRow ==
    ASSUME NEW r \in SUBSET Row, r # {}
    PROVE  First(r) \in r
<1>1. PICK n \in {row.alert : row \in r} : \A m \in {row.alert : row \in r} : n <= m
  <2>1. \A row \in r : row.alert \in Nat
    BY DEF Row
  <2>2. {row.alert : row \in r} \in SUBSET Nat /\ {row.alert : row \in r} # {}
    BY <2>1
  <2>. QED  BY <2>2, LeastNatural
<1>2. PICK row \in r : row.alert = n
  BY <1>1
<1>3. \A other \in r : row.alert <= other.alert
  BY <1>1, <1>2
<1>. QED  BY <1>3 DEF First
-----------------------------------------------------------------------------
LEMMA BaseInit == Init => Base
<1>1. SUFFICES ASSUME Init PROVE Base
  OBVIOUS
<1>2. file \in [Name -> Entry \cup {None}]
  <2>1. ASSUME NEW n \in Name, \E c \in Earlier : n = <<AlertOf[c], "receipt">>
        PROVE  (CHOOSE c \in Earlier : AlertOf[c] = n[1]) \in Call
    BY <2>1
  <2>. QED  BY <1>1, <2>1 DEF Init, Entry
<1>3. TypeOK
  <2>1. at \in [Writer -> CallStage \cup Holding \cup {"none", "waiting"}]
    BY <1>1 DEF Init, CallStage, Publishing
  <2>2. unread \in [Unit -> SUBSET Alert] /\ rows \in [Unit -> SUBSET Row]
    BY <1>1 DEF Init
  <2>3. engaged \in BOOLEAN
    BY <1>1 DEF Init
  <2>. QED  BY <1>1, <1>2, <2>1, <2>2, <2>3 DEF Init, TypeOK
<1>4. \A c \in Call : at[c] \in CallStage
  BY <1>1 DEF Init, Writer, CallStage, Publishing
<1>5. \A u \in Unit : UnitOK(u) /\ at[u] \notin Holding
  BY <1>1 DEF Init, Writer, UnitOK, Holding, Publishing, Settling
<1>6. \A w \in Writer : Published(w)
  BY <1>1 DEF Init, Published, Standing
<1>. QED  BY <1>3, <1>4, <1>5, <1>6 DEF Base, Locked

\* Where a writer publishes, and what, depends on the rows of a unit only.
LEMMA TargetStays ==
    ASSUME NEW w \in Writer, w \in Unit => rows'[w] = rows[w]
    PROVE  Target(w)' = Target(w) /\ Fresh(w)' = Fresh(w)
BY DEF Target, Fresh, Writer

\* A step of a dispatcher: what it takes for the others to be as they were.
LEMMA UnitStep ==
    ASSUME Base, TypeOK', NEW u \in Unit, accepted \subseteq accepted',
           \A w \in Writer : w # u => at'[w] = at[w],
           \A v \in Unit : v # u => unread'[v] = unread[v] /\ rows'[v] = rows[v],
           UnitOK(u)', file' = file, Published(u)',
           at'[u] \in Holding =>
               at[u] \in Holding \/ \A v \in Unit : at[v] \notin Holding
    PROVE  Base'
<1>1. \A c \in Call : at'[c] \in CallStage
  BY DEF Base, Writer
<1>2. \A v \in Unit : v # u => UnitOK(v)'
  BY DEF Base, UnitOK, Writer
<1>3. Locked'
  BY DEF Base, Locked, Writer
<1>4. \A w \in Writer : Published(w)'
  <2>1. SUFFICES ASSUME NEW w \in Writer, w # u PROVE Published(w)'
    OBVIOUS
  <2>2. Target(w)' = Target(w) /\ Fresh(w)' = Fresh(w)
    BY <2>1, TargetStays
  <2>. QED  BY <2>1, <2>2 DEF Base, Published
<1>. QED  BY <1>1, <1>2, <1>3, <1>4 DEF Base

\* A publication goes on within its steps, or ends; others may notice.
LEMMA PublishMoves ==
    ASSUME Base, NEW w \in Writer, Publish(w)
    PROVE  /\ at' \in [Writer -> CallStage \cup Holding \cup {"none", "waiting"}]
           /\ at[w] \in Publishing
           /\ at'[w] \in Publishing \cup {"winner", "refused", "withdrawn"}
           /\ \A x \in Writer : x # w =>
                 at'[x] = at[x] \/ (at[x] = "statted" /\ at'[x] = "stirred")
           /\ UNCHANGED <<unread, rows, job, engaged, accepted, litter, deaths, switches>>
<1>. DEFINE Stages == CallStage \cup Holding \cup {"none", "waiting"}
            Onward == Publishing \cup {"winner", "refused", "withdrawn"}
            Turned(x) == at'[x] = at[x] \/ (at[x] = "statted" /\ at'[x] = "stirred")
<1>1. at \in [Writer -> Stages] /\ Onward \subseteq Stages /\ "stirred" \in Stages
  BY DEF Base, TypeOK, CallStage, Holding, Publishing
<1>2. ASSUME NEW stage \in Onward, Stirring(w, stage)
      PROVE  /\ at' \in [Writer -> Stages] /\ at'[w] \in Onward
             /\ \A x \in Writer : x # w => Turned(x)
  BY <1>1, <1>2 DEF Stirring, Publishing
<1>3. ASSUME NEW stage \in Onward, Moves(w, stage)
      PROVE  /\ at' \in [Writer -> Stages] /\ at'[w] \in Onward
             /\ \A x \in Writer : x # w => Turned(x)
  BY <1>1, <1>3 DEF Moves
<1>4. \E stage \in Onward : Stirring(w, stage) \/ Moves(w, stage)
  BY DEF Publish, Create, Link, Unlink, Stat, Look, Publishing
<1>5. /\ at[w] \in Publishing
      /\ UNCHANGED <<unread, rows, job, engaged, accepted, litter, deaths, switches>>
  BY DEF Publish, Create, Link, Unlink, Stat, Look, Publishing
<1>. QED  BY <1>2, <1>3, <1>4, <1>5

\* What a writer publishes is an entry.
LEMMA FreshIsEntry ==
    ASSUME Base, NEW w \in Writer, at[w] \in Publishing
    PROVE  /\ Fresh(w) \in Entry
           /\ Target(w) \in Name
           /\ w \notin Call => w \in Unit /\ First(rows[w]) \in rows[w]
<1>1. CASE w \in Call
  BY <1>1 DEF Fresh, Target, Entry, Name
<1>2. CASE w \notin Call
  <2>1. w \in Unit /\ rows[w] \in SUBSET Row /\ rows[w] # {}
    BY <1>2 DEF Base, TypeOK, UnitOK, Writer, Settling
  <2>2. First(rows[w]) \in rows[w] /\ First(rows[w]) \in Row
    BY <2>1, FirstIsRow
  <2>. QED  BY <1>2, <2>1, <2>2 DEF Fresh, Target, Entry, Name, Row
<1>. QED  BY <1>1, <1>2

\* No two publications stand under one name.
LEMMA TargetsDiffer ==
    ASSUME Base, NEW w \in Writer, NEW x \in Writer, x # w,
           at[w] \in Standing, at[x] \in Standing
    PROVE  Target(w) # Target(x)
<1>1. file[Target(w)].receipt = Fresh(w).receipt /\ file[Target(x)].receipt = Fresh(x).receipt
  <2>1. Published(w) /\ Published(x)
    BY DEF Base
  <2>. QED  BY <2>1 DEF Published
<1>2. CASE w \in Call /\ x \in Call
  BY <1>1, <1>2 DEF Fresh
<1>3. CASE w \in Unit /\ x \in Unit
  BY <1>3 DEF Base, Locked, Holding, Publishing, Standing
<1>4. CASE (w \in Call) # (x \in Call)
  BY <1>4 DEF Target
<1>. QED  BY <1>2, <1>3, <1>4 DEF Writer

\* What a step of a publication does to the files.
LEMMA PublishFiles ==
    ASSUME Base, NEW w \in Writer, Publish(w)
    PROVE  \/ file' = file /\ (at'[w] \in Standing => at[w] \in Standing \ {"linked"}) /\ at'[w] # "linked"
           \/ /\ at[w] = "temp" /\ at'[w] = "linked" /\ ~Present(Target(w))
              /\ file' = [file EXCEPT ![Target(w)] = Fresh(w)]
           \/ /\ at[w] = "linked" /\ at'[w] = "named"
              /\ file' = [file EXCEPT ![Target(w)].links = 1]
           \/ /\ at[w] = "stirred" /\ at'[w] = "withdrawn"
              /\ file' = [file EXCEPT ![Target(w)] = None]
BY DEF Publish, Create, Link, Unlink, Stat, Look, Stirring, Moves, Base, TypeOK, Standing

LEMMA PublishKeepsPublished ==
    ASSUME Base, NEW w \in Writer, Publish(w)
    PROVE  /\ file' \in [Name -> Entry \cup {None}]
           /\ \A x \in Writer : Published(x)'
<1>1. file \in [Name -> Entry \cup {None}]
  BY DEF Base, TypeOK
<1>2. Fresh(w) \in Entry /\ Target(w) \in Name /\ Fresh(w).links = 2
  BY PublishMoves, FreshIsEntry DEF Fresh
<1>3. \A x \in Writer : Target(x)' = Target(x) /\ Fresh(x)' = Fresh(x)
  BY PublishMoves, TargetStays
<1>4. \A x \in Writer : x # w =>
          /\ at'[x] \in Standing <=> at[x] \in Standing
          /\ at'[x] = "linked" <=> at[x] = "linked"
  BY PublishMoves DEF Standing
<1>5. CASE /\ file' = file /\ at'[w] # "linked"
           /\ at'[w] \in Standing => at[w] \in Standing \ {"linked"}
  BY <1>1, <1>3, <1>4, <1>5 DEF Published, Base
<1>6. CASE /\ at[w] = "temp" /\ at'[w] = "linked" /\ ~Present(Target(w))
           /\ file' = [file EXCEPT ![Target(w)] = Fresh(w)]
  <2>1. \A x \in Writer : x # w /\ at[x] \in Standing => Present(Target(x))
    <3>1. SUFFICES ASSUME NEW x \in Writer, at[x] \in Standing PROVE Present(Target(x))
      OBVIOUS
    <3>2. Fresh(x) \in Entry
      BY <3>1, FreshIsEntry DEF Standing, Publishing
    <3>3. file[Target(x)] = [receipt |-> Fresh(x).receipt,
                             links |-> IF at[x] = "linked" THEN 2 ELSE 1]
      BY <3>1 DEF Base, Published
    <3>4. file[Target(x)] \in Entry
      BY <3>2, <3>3 DEF Entry
    <3>. QED  BY <3>4 DEF Present
  <2>2. Published(w)'
    BY <1>1, <1>2, <1>3, <1>6 DEF Published, Entry
  <2>3. \A x \in Writer : x # w => Published(x)'
    BY <1>1, <1>3, <1>4, <1>6, <2>1 DEF Published, Base
  <2>. QED  BY <1>1, <1>2, <1>6, <2>2, <2>3
<1>7. CASE /\ at[w] = "linked" /\ at'[w] = "named"
           /\ file' = [file EXCEPT ![Target(w)].links = 1]
  <2>1. file[Target(w)] = [receipt |-> Fresh(w).receipt, links |-> 2]
    BY <1>7 DEF Base, Published, Standing
  <2>2. file' = [file EXCEPT ![Target(w)] = [receipt |-> Fresh(w).receipt, links |-> 1]]
    <3>1. [file[Target(w)] EXCEPT !.links = 1] = [receipt |-> Fresh(w).receipt, links |-> 1]
      BY <2>1
    <3>. QED  BY <1>7, <3>1, Zenon
  <2>3. Published(w)'
    BY <1>1, <1>2, <1>3, <1>7, <2>2 DEF Published
  <2>4. ASSUME NEW x \in Writer, x # w PROVE Published(x)'
    <3>1. at[x] \in Standing => Target(x) # Target(w)
      BY <1>7, <2>4, TargetsDiffer DEF Standing
    <3>. QED  BY <1>1, <1>3, <1>4, <2>2, <2>4, <3>1 DEF Published, Base
  <2>. QED  BY <1>1, <1>2, <2>2, <2>3, <2>4 DEF Entry
<1>8. CASE /\ at[w] = "stirred" /\ at'[w] = "withdrawn"
           /\ file' = [file EXCEPT ![Target(w)] = None]
  <2>1. Published(w)'
    BY <1>8 DEF Published, Standing
  <2>2. ASSUME NEW x \in Writer, x # w PROVE Published(x)'
    <3>1. at[x] \in Standing => Target(x) # Target(w)
      BY <1>8, <2>2, TargetsDiffer DEF Standing
    <3>. QED  BY <1>1, <1>3, <1>4, <1>8, <2>2, <3>1 DEF Published, Base
  <2>. QED  BY <1>1, <1>8, <2>1, <2>2
<1>. QED  BY <1>5, <1>6, <1>7, <1>8, PublishFiles

LEMMA PublishBase ==
    ASSUME Base, NEW w \in Writer, Publish(w)
    PROVE  Base'
<1>1. TypeOK'
  BY PublishMoves, PublishKeepsPublished DEF Base, TypeOK
<1>2. \A x \in Writer : at'[x] = at[x] \/ (at[x] \in Publishing /\ at'[x] \in Settling)
  BY PublishMoves DEF Publishing, Settling
<1>3. \A c \in Call : at'[c] \in CallStage
  BY PublishMoves DEF Base, Writer, CallStage, Publishing
<1>4. \A u \in Unit : UnitOK(u)'
  <2>1. SUFFICES ASSUME NEW u \in Unit PROVE UnitOK(u)'
    OBVIOUS
  <2>2. unread'[u] = unread[u] /\ rows'[u] = rows[u] /\ accepted' = accepted
    BY PublishMoves
  <2>3. at'[u] = at[u] \/ (at[u] \in Publishing /\ at'[u] \in Settling /\ at'[u] # "reading")
    BY <1>2 DEF Writer, Settling, Publishing
  <2>4. UnitOK(u)
    BY DEF Base
  <2>. QED  BY <2>2, <2>3, <2>4 DEF UnitOK, Settling, Holding, Publishing
<1>5. Locked'
  BY <1>2 DEF Base, Locked, Writer, Holding, Settling, Publishing
<1>. QED  BY <1>1, <1>3, <1>4, <1>5, PublishKeepsPublished DEF Base

-----------------------------------------------------------------------------
\* Drops: a row less, and nothing to acknowledge.
LEMMA DropsOK ==
    ASSUME Base, NEW u \in Unit, at[u] \in Holding \ {"jobs", "list", "reading"}, Drops(u)
    PROVE  /\ UnitOK(u)' \/ unread' # unread
           /\ at' \in [Writer -> CallStage \cup Holding \cup {"none", "waiting"}]
           /\ rows' \in [Unit -> SUBSET Row]
           /\ at'[u] = "send" /\ rows'[u] \subseteq rows[u]
           /\ \A w \in Writer : w # u => at'[w] = at[w]
           /\ \A v \in Unit : v # u => rows'[v] = rows[v]
<1>1. at \in [Writer -> CallStage \cup Holding \cup {"none", "waiting"}] /\ u \in Writer
      /\ rows \in [Unit -> SUBSET Row]
  BY DEF Base, TypeOK, Writer
<1>2. /\ at' \in [Writer -> CallStage \cup Holding \cup {"none", "waiting"}]
      /\ rows' \in [Unit -> SUBSET Row]
      /\ at'[u] = "send" /\ rows'[u] \subseteq rows[u]
      /\ \A w \in Writer : w # u => at'[w] = at[w]
      /\ \A v \in Unit : v # u => rows'[v] = rows[v]
  BY <1>1 DEF Drops, Moves, Holding
<1>3. ASSUME unread' = unread PROVE UnitOK(u)'
  BY <1>2, <1>3 DEF Base, UnitOK, Settling, Holding, Publishing
<1>. QED  BY <1>2, <1>3

\* A dispatcher that ends, or dies, leaves nothing of its pass.
LEMMA OverOK ==
    ASSUME Base, NEW u \in Unit, Ends(u)
    PROVE  /\ UnitOK(u)'
           /\ at' \in [Writer -> CallStage \cup Holding \cup {"none", "waiting"}]
           /\ rows' \in [Unit -> SUBSET Row] /\ unread' \in [Unit -> SUBSET Alert]
           /\ at'[u] = "none" /\ rows'[u] = {}
           /\ \A w \in Writer : w # u => at'[w] = at[w]
           /\ \A v \in Unit : v # u => rows'[v] = rows[v] /\ unread'[v] = unread[v]
<1>1. /\ at \in [Writer -> CallStage \cup Holding \cup {"none", "waiting"}] /\ u \in Writer
      /\ rows \in [Unit -> SUBSET Row] /\ unread \in [Unit -> SUBSET Alert]
  BY DEF Base, TypeOK, Writer
<1>. QED  BY <1>1 DEF Ends, UnitOK, Settling, Holding, Publishing

\* A unit that moves on without a row more or less.
LEMMA MovesOK ==
    ASSUME Base, NEW u \in Unit, NEW stage \in Holding \cup {"none", "waiting"}, Moves(u, stage)
    PROVE  /\ at' \in [Writer -> CallStage \cup Holding \cup {"none", "waiting"}]
           /\ at'[u] = stage
           /\ \A w \in Writer : w # u => at'[w] = at[w]
<1>1. at \in [Writer -> CallStage \cup Holding \cup {"none", "waiting"}] /\ u \in Writer
  BY DEF Base, TypeOK, Writer
<1>. QED  BY <1>1 DEF Moves

LEMMA LockBase ==
    ASSUME Base, NEW u \in Unit, Lock(u)
    PROVE  Base'
<1>1. Moves(u, "jobs")
  BY DEF Lock
<1>2. /\ at' \in [Writer -> CallStage \cup Holding \cup {"none", "waiting"}]
      /\ at'[u] = "jobs" /\ \A w \in Writer : w # u => at'[w] = at[w]
  BY <1>1, MovesOK DEF Holding
<1>3. TypeOK'
  BY <1>2 DEF Base, TypeOK, Lock
<1>4. UnitOK(u)' /\ Published(u)'
  BY <1>2 DEF Lock, Base, UnitOK, Published, Settling, Standing, Holding, Publishing
<1>. QED  BY <1>2, <1>3, <1>4, UnitStep DEF Lock

LEMMA InvokeBase ==
    ASSUME Base, Invoke
    PROVE  Base'
<1>1. Moves(Manual, "waiting") /\ Manual \in Unit
  BY DEF Invoke, Unit
<1>2. /\ at' \in [Writer -> CallStage \cup Holding \cup {"none", "waiting"}]
      /\ at'[Manual] = "waiting" /\ \A w \in Writer : w # Manual => at'[w] = at[w]
  BY <1>1, MovesOK
<1>3. TypeOK'
  BY <1>2 DEF Base, TypeOK, Invoke
<1>4. UnitOK(Manual)' /\ Published(Manual)'
  BY <1>1, <1>2 DEF Invoke, Base, UnitOK, Published, Settling, Standing, Holding, Publishing
<1>. QED  BY <1>1, <1>2, <1>3, <1>4, UnitStep DEF Invoke, Holding, Publishing

LEMMA JobsBase ==
    ASSUME Base, NEW u \in Unit, Jobs(u)
    PROVE  Base'
<1>1. CASE Ends(u) /\ job' = job
  <2>1. TypeOK' /\ Published(u)'
    BY <1>1, OverOK DEF Base, TypeOK, Jobs, Published, Standing
  <2>. QED  BY <1>1, <2>1, OverOK, UnitStep DEF Jobs, Holding, Publishing
<1>2. CASE Moves(u, "list") /\ unread' = unread /\ rows' = rows /\ job' \in {job, "acknowledged"}
  <2>1. /\ at' \in [Writer -> CallStage \cup Holding \cup {"none", "waiting"}]
        /\ at'[u] = "list" /\ \A w \in Writer : w # u => at'[w] = at[w]
    BY <1>2, MovesOK DEF Holding
  <2>2. TypeOK'
    BY <1>2, <2>1 DEF Base, TypeOK, Jobs
  <2>3. UnitOK(u)' /\ Published(u)'
    BY <1>2, <2>1 DEF Jobs, Base, UnitOK, Published, Settling, Standing, Holding, Publishing
  <2>. QED  BY <1>2, <2>1, <2>2, <2>3, UnitStep DEF Jobs, Holding
<1>. QED  BY <1>1, <1>2 DEF Jobs

LEMMA ScanBase ==
    ASSUME Base, NEW u \in Unit, Scan(u)
    PROVE  Base'
<1>1. CASE Ends(u)
  <2>1. TypeOK' /\ Published(u)'
    BY <1>1, OverOK DEF Base, TypeOK, Scan, Published, Standing
  <2>. QED  BY <1>1, <2>1, OverOK, UnitStep DEF Scan, Holding, Publishing
<1>2. CASE /\ Moves(u, "reading") /\ rows' = rows
           /\ unread' = [unread EXCEPT ![u] = {a \in Alert : Present(<<a, "receipt">>)}]
  <2>1. /\ at' \in [Writer -> CallStage \cup Holding \cup {"none", "waiting"}]
        /\ at'[u] = "reading" /\ \A w \in Writer : w # u => at'[w] = at[w]
    BY <1>2, MovesOK DEF Holding
  <2>2. unread \in [Unit -> SUBSET Alert]
    BY DEF Base, TypeOK
  <2>3. unread' \in [Unit -> SUBSET Alert] /\ \A v \in Unit : v # u => unread'[v] = unread[v]
    BY <1>2, <2>2
  <2>4. TypeOK'
    BY <1>2, <2>1, <2>3 DEF Base, TypeOK, Scan
  <2>5. rows'[u] = {}
    BY <1>2 DEF Base, UnitOK, Scan
  <2>6. UnitOK(u)' /\ Published(u)'
    BY <2>1, <2>5 DEF UnitOK, Published, Settling, Standing, Holding, Publishing
  <2>. QED  BY <1>2, <2>1, <2>3, <2>4, <2>6, UnitStep DEF Scan, Holding
<1>. QED  BY <1>1, <1>2 DEF Scan

LEMMA ReadBase ==
    ASSUME Base, NEW u \in Unit, Read(u)
    PROVE  Base'
<1>1. /\ unread \in [Unit -> SUBSET Alert] /\ rows \in [Unit -> SUBSET Row]
      /\ file \in [Name -> Entry \cup {None}] /\ UnitOK(u) /\ u \in Writer
      /\ at \in [Writer -> CallStage \cup Holding \cup {"none", "waiting"}]
  BY DEF Base, TypeOK, Writer
<1>2. CASE Ends(u)
  <2>1. TypeOK' /\ Published(u)'
    BY <1>2, OverOK DEF Base, TypeOK, Read, Published, Standing
  <2>. QED  BY <1>2, <2>1, OverOK, UnitStep DEF Read, Holding, Publishing
<1>3. CASE unread[u] = {} /\ Moves(u, "send") /\ UNCHANGED <<unread, rows>>
  <2>1. /\ at' \in [Writer -> CallStage \cup Holding \cup {"none", "waiting"}]
        /\ at'[u] = "send" /\ \A w \in Writer : w # u => at'[w] = at[w]
    BY <1>3, MovesOK DEF Holding
  <2>2. TypeOK'
    BY <1>3, <2>1 DEF Base, TypeOK, Read
  <2>3. UnitOK(u)' /\ Published(u)'
    BY <1>1, <1>3, <2>1 DEF UnitOK, Published, Settling, Standing, Holding, Publishing
  <2>. QED  BY <1>3, <2>1, <2>2, <2>3, UnitStep DEF Read, Holding
<1>4. ASSUME NEW a \in unread[u], Valid(a), at' = at,
             unread' = [unread EXCEPT ![u] = @ \ {a}],
             rows' = IF Present(<<a, "ack">>) \/ Cardinality(rows[u]) >= Limit
                     THEN rows
                     ELSE [rows EXCEPT ![u] = @ \cup
                              {[alert |-> a, receipt |-> file[<<a, "receipt">>].receipt]}]
      PROVE  Base'
  <2>1. [alert |-> a, receipt |-> file[<<a, "receipt">>].receipt] \in Row
    <3>1. a \in Alert /\ <<a, "receipt">> \in Name
      BY <1>1 DEF Name
    <3>2. file[<<a, "receipt">>] \in Entry
      BY <1>1, <1>4, <3>1 DEF Valid, Readable, Present
    <3>. QED  BY <3>1, <3>2 DEF Entry, Row
  <2>2. /\ unread' \in [Unit -> SUBSET Alert] /\ rows' \in [Unit -> SUBSET Row]
        /\ \A v \in Unit : v # u => unread'[v] = unread[v] /\ rows'[v] = rows[v]
        /\ unread'[u] = unread[u] \ {a}
    BY <1>1, <1>4, <2>1
  <2>3. \/ rows'[u] = rows[u]
        \/ rows'[u] = rows[u] \cup {[alert |-> a, receipt |-> file[<<a, "receipt">>].receipt]}
    BY <1>1, <1>4
  <2>4. TypeOK'
    BY <1>4, <2>2 DEF Base, TypeOK, Read
  <2>5. UnitOK(u)' /\ Published(u)'
    <3>1. at'[u] = "reading" /\ at[u] = "reading"
      BY <1>4 DEF Read
    <3>2. \A r \in rows'[u] : r \in rows[u] \/ r.alert = a
      BY <2>3
    <3>3. \A r \in rows[u] : r.alert # a
      BY <1>1, <1>4 DEF UnitOK
    <3>4. \A r \in rows'[u] : r.alert \notin unread'[u]
      BY <1>1, <2>2, <3>2 DEF UnitOK
    <3>5. \A r, s \in rows'[u] : r.alert = s.alert => r = s
      BY <1>1, <2>3, <3>3 DEF UnitOK
    <3>. QED  BY <3>1, <3>4, <3>5 DEF UnitOK, Published, Settling, Standing, Holding, Publishing
  <2>. QED  BY <1>4, <2>2, <2>4, <2>5, UnitStep DEF Read
<1>. QED  BY <1>2, <1>3, <1>4 DEF Read

\* The row a pass is at.
LEMMA CurrentRow ==
    ASSUME Base, NEW u \in Unit, rows[u] # {}
    PROVE  First(rows[u]) \in rows[u] /\ First(rows[u]) \in Row
BY FirstIsRow DEF Base, TypeOK

LEMMA FailsBase ==
    ASSUME Base, NEW u \in Unit, Fails(u)
    PROVE  Base'
<1>1. accepted \subseteq accepted' /\ accepted' \subseteq Row
  BY CurrentRow DEF Fails, Base, TypeOK
<1>2. /\ at[u] = "send" /\ Drops(u) /\ unread' = unread /\ file' = file
      /\ UNCHANGED <<job, engaged, litter, deaths, switches>>
  BY DEF Fails
<1>3. TypeOK' /\ Published(u)'
  BY <1>1, <1>2, DropsOK DEF Base, TypeOK, Published, Standing, Holding, Publishing
<1>. QED  BY <1>1, <1>2, <1>3, DropsOK, UnitStep DEF Holding, Publishing

LEMMA DeliversBase ==
    ASSUME Base, NEW u \in Unit, Delivers(u)
    PROVE  Base'
<1>1. First(rows[u]) \in Row
  BY CurrentRow DEF Delivers
<1>2. /\ at' \in [Writer -> CallStage \cup Holding \cup {"none", "waiting"}]
      /\ at'[u] = "acknowledge" /\ \A w \in Writer : w # u => at'[w] = at[w]
  BY MovesOK DEF Holding, Delivers
<1>3. accepted' = accepted \cup {First(rows[u])} /\ rows' = rows /\ rows[u] # {}
  BY DEF Delivers
<1>4. TypeOK'
  BY <1>1, <1>2, <1>3 DEF Base, TypeOK, Delivers
<1>5. UnitOK(u)' /\ Published(u)'
  BY <1>2, <1>3 DEF Delivers, Base, UnitOK, Published, Settling, Standing, Holding, Publishing
<1>. QED  BY <1>2, <1>3, <1>4, <1>5, UnitStep DEF Delivers, Holding

LEMMA FinishesBase ==
    ASSUME Base, NEW u \in Unit, Finishes(u)
    PROVE  Base'
<1>1. TypeOK' /\ Published(u)'
  BY OverOK DEF Base, TypeOK, Finishes, Published, Standing
<1>. QED  BY <1>1, OverOK, UnitStep DEF Finishes, Holding, Publishing

LEMMA AcknowledgeBase ==
    ASSUME Base, NEW u \in Unit, Acknowledge(u)
    PROVE  Base'
<1>1. CASE Moves(u, "publish") /\ rows' = rows
  <2>1. /\ at' \in [Writer -> CallStage \cup Holding \cup {"none", "waiting"}]
        /\ at'[u] = "publish" /\ \A w \in Writer : w # u => at'[w] = at[w]
    BY <1>1, MovesOK DEF Holding, Publishing
  <2>2. TypeOK'
    BY <1>1, <2>1 DEF Base, TypeOK, Acknowledge
  <2>3. UnitOK(u)' /\ Published(u)'
    BY <1>1, <2>1 DEF Acknowledge, Base, UnitOK, Published, Settling, Standing, Holding, Publishing
  <2>. QED  BY <1>1, <2>1, <2>2, <2>3, UnitStep DEF Acknowledge, Holding
<1>2. CASE Drops(u)
  <2>1. TypeOK' /\ Published(u)'
    BY <1>2, DropsOK DEF Acknowledge, Base, TypeOK, Published, Standing, Holding, Publishing
  <2>. QED  BY <1>2, <2>1, DropsOK, UnitStep DEF Acknowledge, Holding, Publishing
<1>. QED  BY <1>1, <1>2 DEF Acknowledge

LEMMA AcknowledgedBase ==
    ASSUME Base, NEW u \in Unit, Acknowledged(u)
    PROVE  Base'
<1>1. TypeOK' /\ Published(u)'
  BY DropsOK DEF Acknowledged, Base, TypeOK, Published, Standing, Holding, Publishing
<1>. QED  BY <1>1, DropsOK, UnitStep DEF Acknowledged, Holding, Publishing

\* A step of a producer: what it takes for the others to be as they were.
LEMMA CallStep ==
    ASSUME Base, TypeOK', NEW c \in Call, UNCHANGED <<file, unread, rows, accepted>>,
           \A w \in Writer : w # c => at'[w] = at[w],
           at'[c] \in CallStage \ Standing
    PROVE  Base'
<1>1. \A d \in Call : at'[d] \in CallStage
  BY DEF Base, Writer
<1>2. \A u \in Unit : at'[u] = at[u]
  BY DEF Writer
<1>3. (\A u \in Unit : UnitOK(u)') /\ Locked'
  BY <1>2 DEF Base, UnitOK, Locked
<1>4. ASSUME NEW w \in Writer PROVE Published(w)'
  <2>1. Target(w)' = Target(w) /\ Fresh(w)' = Fresh(w)
    BY TargetStays
  <2>. QED  BY <2>1 DEF Base, Published
<1>. QED  BY <1>1, <1>3, <1>4 DEF Base

LEMMA ReportBase ==
    ASSUME Base, NEW c \in Call, Report(c)
    PROVE  Base'
<1>1. PICK stage \in {"reported", "refused"} : Moves(c, stage)
  BY DEF Report
<1>2. at \in [Writer -> CallStage \cup Holding \cup {"none", "waiting"}] /\ c \in Writer
  BY DEF Base, TypeOK, Writer
<1>3. /\ at' \in [Writer -> CallStage \cup Holding \cup {"none", "waiting"}]
      /\ at'[c] = stage /\ \A w \in Writer : w # c => at'[w] = at[w]
  BY <1>1, <1>2 DEF Moves, CallStage
<1>4. TypeOK'
  BY <1>3 DEF Base, TypeOK, Report
<1>. QED  BY <1>3, <1>4, CallStep DEF Report, CallStage, Standing

LEMMA ScheduleBase ==
    ASSUME Base, NEW c \in Call, Schedule(c)
    PROVE  Base'
<1>1. /\ at \in [Writer -> CallStage \cup Holding \cup {"none", "waiting"}]
      /\ c \in Writer /\ AlertOf[c] \in Unit /\ AlertOf[c] \in Writer
  BY DEF Base, TypeOK, Writer, Unit
<1>2. CASE Moves(c, "done")
  <2>1. /\ at' \in [Writer -> CallStage \cup Holding \cup {"none", "waiting"}]
        /\ at'[c] = "done" /\ \A w \in Writer : w # c => at'[w] = at[w]
    BY <1>1, <1>2 DEF Moves, CallStage
  <2>2. TypeOK'
    BY <2>1 DEF Base, TypeOK, Schedule
  <2>. QED  BY <2>1, <2>2, CallStep DEF Schedule, CallStage, Standing
<1>3. CASE /\ at[AlertOf[c]] = "none"
           /\ at' = [at EXCEPT ![c] = "done", ![AlertOf[c]] = "waiting"]
  <2>1. /\ at' \in [Writer -> CallStage \cup Holding \cup {"none", "waiting"}]
        /\ at'[c] = "done" /\ at'[AlertOf[c]] = "waiting"
        /\ \A w \in Writer : w # c /\ w # AlertOf[c] => at'[w] = at[w]
    <3>1. c # AlertOf[c]
      BY <1>1
    <3>. QED  BY <1>1, <1>3, <3>1 DEF CallStage
  <2>2. TypeOK'
    BY <2>1 DEF Base, TypeOK, Schedule
  <2>3. UNCHANGED <<file, unread, rows, accepted>>
    BY DEF Schedule
  <2>4. \A d \in Call : at'[d] \in CallStage
    BY <1>1, <2>1 DEF Base, Writer, CallStage
  <2>5. \A u \in Unit : at'[u] = at[u] \/ (at[u] = "none" /\ at'[u] = "waiting")
    BY <1>1, <1>3, <2>1 DEF Writer
  <2>6. (\A u \in Unit : UnitOK(u)') /\ Locked'
    BY <2>3, <2>5 DEF Base, UnitOK, Locked, Settling, Holding, Publishing
  <2>7. ASSUME NEW w \in Writer PROVE Published(w)'
    <3>1. Target(w)' = Target(w) /\ Fresh(w)' = Fresh(w)
      BY <2>3, TargetStays
    <3>. QED  BY <2>1, <2>3, <3>1 DEF Base, Published, Standing
  <2>. QED  BY <2>2, <2>4, <2>6, <2>7 DEF Base
<1>. QED  BY <1>2, <1>3 DEF Schedule

LEMMA DiesBase ==
    ASSUME Base, NEW w \in Writer, Dies(w)
    PROVE  Base'
<1>1. /\ at \in [Writer -> CallStage \cup Holding \cup {"none", "waiting"}]
      /\ rows \in [Unit -> SUBSET Row] /\ unread \in [Unit -> SUBSET Alert]
  BY DEF Base, TypeOK
<1>2. litter' \in 0..deaths' /\ deaths' \in 0..MaxDeaths
  BY DEF Base, TypeOK, Dies
<1>3. CASE w \in Call
  <2>1. /\ at' \in [Writer -> CallStage \cup Holding \cup {"none", "waiting"}]
        /\ at'[w] = "dead" /\ \A x \in Writer : x # w => at'[x] = at[x]
    BY <1>1, <1>3 DEF Dies, CallStage
  <2>2. TypeOK'
    BY <1>2, <1>3, <2>1 DEF Base, TypeOK, Dies
  <2>. QED  BY <1>3, <2>1, <2>2, CallStep DEF Dies, CallStage, Standing
<1>4. CASE w \notin Call
  <2>1. w \in Unit /\ Ends(w)
    BY <1>4 DEF Dies, Ends, Writer
  <2>2. TypeOK' /\ Published(w)'
    BY <1>2, <2>1, OverOK DEF Base, TypeOK, Dies, Published, Standing
  <2>. QED  BY <2>1, <2>2, OverOK, UnitStep DEF Dies, Holding, Publishing
<1>. QED  BY <1>3, <1>4

\* A step that touches none of it.
LEMMA AsideBase ==
    ASSUME Base, UNCHANGED <<file, at, unread, rows, job, accepted, litter, deaths>>,
           engaged' \in BOOLEAN, switches' \in 0..MaxSwitches
    PROVE  Base'
<1>1. TypeOK'
  BY DEF Base, TypeOK
<1>2. (\A u \in Unit : UnitOK(u)') /\ Locked'
  BY DEF Base, UnitOK, Locked
<1>3. ASSUME NEW w \in Writer PROVE Published(w)'
  BY TargetStays DEF Base, Published
<1>. QED  BY <1>1, <1>2, <1>3 DEF Base

LEMMA BaseStep == Base /\ [Next]_vars => Base'
<1>1. SUFFICES ASSUME Base, [Next]_vars PROVE Base'
  OBVIOUS
<1>2. ASSUME NEW w \in Writer, Publish(w) \/ Dies(w) PROVE Base'
  BY <1>1, <1>2, PublishBase, DiesBase
<1>3. ASSUME NEW c \in Call, Report(c) \/ Schedule(c) PROVE Base'
  BY <1>1, <1>3, ReportBase, ScheduleBase
<1>4. ASSUME NEW u \in Unit, Pass(u) PROVE Base'
  BY <1>1, <1>4, LockBase, JobsBase, ScanBase, ReadBase, FailsBase, DeliversBase,
     FinishesBase, AcknowledgeBase, AcknowledgedBase DEF Pass
<1>5. CASE Invoke
  BY <1>1, <1>5, InvokeBase
<1>6. CASE Engage \/ Disengage \/ UNCHANGED vars
  <2>1. engaged' \in BOOLEAN
    BY <1>1, <1>6 DEF Engage, Disengage, vars, Base, TypeOK
  <2>2. switches' \in 0..MaxSwitches
    BY <1>1, <1>6 DEF Engage, Disengage, vars, Base, TypeOK
  <2>. QED  BY <1>1, <1>6, <2>1, <2>2, AsideBase DEF Engage, Disengage, vars
<1>. QED  BY <1>1, <1>2, <1>3, <1>4, <1>5, <1>6 DEF Next

LEMMA BaseInvariant == Spec => []Base
BY BaseInit, BaseStep, PTL DEF Spec

\* The types of the outbox: in particular, no writer publishes anything but an
\* entry, and what dies leaves at most one temporary file.
THEOREM TypesHold == Spec => []TypeOK
<1>1. Base => TypeOK
  BY DEF Base
<1>. QED  BY <1>1, BaseInvariant, PTL

-----------------------------------------------------------------------------
\* The receipt of call c is the one of its alert, or c has withdrawn it.
Witnessed(a, c) ==
    /\ AlertOf[c] = a
    /\ \/ Present(<<a, "receipt">>) /\ file[<<a, "receipt">>].receipt = c
       \/ at[c] = "withdrawn"

Receipts ==
    \A a \in Alert :
        Present(<<a, "receipt">>) => AlertOf[file[<<a, "receipt">>].receipt] = a

\* An acknowledgement is earned and for a receipt that was there.
Acks ==
    \A a \in Alert : Present(<<a, "ack">>) =>
        /\ [alert |-> a, receipt |-> file[<<a, "ack">>].receipt] \in accepted
        /\ Witnessed(a, file[<<a, "ack">>].receipt)

\* A row is of a receipt that was there; none is acknowledged but the one that
\* has just been.
RowsOK ==
    \A u \in Unit : \A r \in rows[u] :
        /\ Witnessed(r.alert, r.receipt)
        /\ Present(<<r.alert, "ack">>) =>
              r = First(rows[u]) /\ at[u] \in Standing \cup {"winner"}

Inv == Base /\ Receipts /\ Acks /\ RowsOK

LEMMA InvInit == Init => Inv
<1>1. SUFFICES ASSUME Init PROVE Inv
  OBVIOUS
<1>2. Base
  BY <1>1, BaseInit
<1>3. ASSUME NEW a \in Alert
      PROVE  /\ ~Present(<<a, "ack">>)
             /\ Present(<<a, "receipt">>) => AlertOf[file[<<a, "receipt">>].receipt] = a
  <2>1. <<a, "ack">> \in Name /\ <<a, "receipt">> \in Name
    BY DEF Name
  <2>2. ~Present(<<a, "ack">>)
    BY <1>1, <2>1 DEF Init, Present
  <2>3. ASSUME Present(<<a, "receipt">>) PROVE AlertOf[file[<<a, "receipt">>].receipt] = a
    <3>1. file[<<a, "receipt">>] =
            IF \E c \in Earlier : <<a, "receipt">> = <<AlertOf[c], "receipt">>
            THEN [receipt |-> CHOOSE c \in Earlier : AlertOf[c] = a, links |-> 1]
            ELSE None
      BY <1>1, <2>1 DEF Init
    <3>2. PICK c \in Earlier : AlertOf[c] = a
      BY <2>3, <3>1 DEF Present
    <3>3. AlertOf[CHOOSE d \in Earlier : AlertOf[d] = a] = a
      BY <3>2
    <3>. QED  BY <3>1, <3>2, <3>3
  <2>. QED  BY <2>2, <2>3
<1>4. \A u \in Unit : rows[u] = {}
  BY <1>1 DEF Init
<1>. QED  BY <1>2, <1>3, <1>4 DEF Inv, Receipts, Acks, RowsOK

\* A step of a pass moves its own unit.
LEMMA PassMoves ==
    ASSUME Base, NEW u \in Unit, Pass(u)
    PROVE  /\ file' = file /\ accepted \subseteq accepted'
           /\ \A w \in Writer : w # u => at'[w] = at[w]
           /\ \A v \in Unit : v # u => rows'[v] = rows[v]
<1>1. file' = file /\ accepted \subseteq accepted'
  BY DEF Pass, Lock, Jobs, Scan, Read, Fails, Delivers, Finishes, Acknowledge, Acknowledged
<1>2. /\ at \in [Writer -> CallStage \cup Holding \cup {"none", "waiting"}]
      /\ rows \in [Unit -> SUBSET Row]
  BY DEF Base, TypeOK
<1>3. \/ at' = at \/ Drops(u) \/ Ends(u) \/ \E stage \in Holding : Moves(u, stage)
  BY DEF Pass, Lock, Jobs, Scan, Read, Fails, Delivers, Finishes, Acknowledge, Acknowledged,
         Holding, Publishing
<1>4. \A w \in Writer : w # u => at'[w] = at[w]
  BY <1>2, <1>3 DEF Drops, Ends, Moves
<1>5. \A v \in Unit : v # u => rows'[v] = rows[v]
  BY <1>2 DEF Pass, Lock, Jobs, Scan, Read, Fails, Delivers, Finishes, Acknowledge, Acknowledged,
              Drops, Ends
<1>. QED  BY <1>1, <1>4, <1>5

\* What is withdrawn is so for good.
LEMMA WithdrawnForGood ==
    ASSUME Base, [Next]_vars, NEW c \in Call, at[c] = "withdrawn"
    PROVE  at'[c] = "withdrawn"
<1>1. c \in Writer /\ c \notin Unit
  BY DEF Writer
<1>2. at \in [Writer -> CallStage \cup Holding \cup {"none", "waiting"}]
  BY DEF Base, TypeOK
<1>3. ASSUME NEW w \in Writer, Publish(w) PROVE at'[c] = "withdrawn"
  BY <1>1, <1>3, PublishMoves DEF Publishing
<1>4. ASSUME NEW w \in Writer, Dies(w) PROVE at'[c] = "withdrawn"
  BY <1>1, <1>2, <1>4 DEF Dies
<1>5. ASSUME NEW d \in Call, Report(d) \/ Schedule(d) PROVE at'[c] = "withdrawn"
  <2>1. AlertOf[d] # c
    BY <1>1 DEF Unit
  <2>. QED  BY <1>1, <1>2, <1>5, <2>1 DEF Report, Schedule, Moves
<1>6. ASSUME NEW u \in Unit, Pass(u) PROVE at'[c] = "withdrawn"
  BY <1>1, <1>6, PassMoves
<1>7. CASE Invoke \/ Engage \/ Disengage \/ UNCHANGED vars
  BY <1>1, <1>2, <1>7 DEF Invoke, Engage, Disengage, vars, Moves, Unit
<1>. QED  BY <1>3, <1>4, <1>5, <1>6, <1>7 DEF Next

\* Only publications touch the files.
LEMMA OnlyPublishWrites ==
    ASSUME Base, [Next]_vars, file' # file
    PROVE  \E w \in Writer : Publish(w)
<1>1. \A w \in Writer : ~Dies(w)
  BY DEF Dies
<1>2. \A u \in Unit : ~Pass(u)
  BY PassMoves
<1>3. (\A c \in Call : ~Report(c) /\ ~Schedule(c)) /\ ~Invoke /\ ~Engage /\ ~Disengage
  BY DEF Report, Schedule, Invoke, Engage, Disengage
<1>. QED  BY <1>1, <1>2, <1>3 DEF Next, vars

\* What may become of a file: it appears, loses its second link, or is withdrawn
\* by the writer it is the work of.
LEMMA FileSteps ==
    ASSUME Base, [Next]_vars, NEW n \in Name
    PROVE  \/ file'[n] = file[n]
           \/ /\ ~Present(n)
              /\ \E w \in Writer : /\ at[w] = "temp" /\ at'[w] = "linked" /\ Publish(w)
                                   /\ n = Target(w) /\ file'[n] = Fresh(w)
           \/ Present(n) /\ Present(n)' /\ file'[n].receipt = file[n].receipt
           \/ /\ Present(n) /\ ~Present(n)'
              /\ \E w \in Writer : /\ at[w] = "stirred" /\ at'[w] = "withdrawn"
                                   /\ n = Target(w) /\ file[n].receipt = Fresh(w).receipt
<1>1. SUFFICES ASSUME file' # file
               PROVE  \/ file'[n] = file[n]
                      \/ /\ ~Present(n)
                         /\ \E w \in Writer : /\ at[w] = "temp" /\ at'[w] = "linked" /\ Publish(w)
                                              /\ n = Target(w) /\ file'[n] = Fresh(w)
                      \/ Present(n) /\ Present(n)' /\ file'[n].receipt = file[n].receipt
                      \/ /\ Present(n) /\ ~Present(n)'
                         /\ \E w \in Writer : /\ at[w] = "stirred" /\ at'[w] = "withdrawn"
                                              /\ n = Target(w) /\ file[n].receipt = Fresh(w).receipt
  OBVIOUS
<1>2. PICK w \in Writer : Publish(w)
  BY <1>1, OnlyPublishWrites
<1>3. file \in [Name -> Entry \cup {None}] /\ Fresh(w) \in Entry /\ Target(w) \in Name
  BY <1>2, PublishMoves, FreshIsEntry DEF Base, TypeOK
<1>4. Published(w)
  BY DEF Base
<1>5. CASE n # Target(w)
  BY <1>2, <1>3, <1>5, PublishFiles
<1>6. CASE n = Target(w)
  <2>1. CASE /\ at[w] = "temp" /\ at'[w] = "linked" /\ ~Present(Target(w))
             /\ file' = [file EXCEPT ![Target(w)] = Fresh(w)]
    BY <1>2, <1>3, <1>6, <2>1
  <2>2. CASE at[w] = "linked" /\ file' = [file EXCEPT ![Target(w)].links = 1]
    <3>1. file[n] = [receipt |-> Fresh(w).receipt, links |-> 2]
      BY <1>4, <1>6, <2>2 DEF Published, Standing
    <3>2. file'[n] = [file[n] EXCEPT !.links = 1]
      BY <1>3, <1>6, <2>2
    <3>3. file'[n] = [receipt |-> Fresh(w).receipt, links |-> 1]
      BY <3>1, <3>2
    <3>4. file[n] \in Entry /\ file'[n] \in Entry
      BY <1>3, <3>1, <3>3 DEF Entry
    <3>. QED  BY <3>1, <3>3, <3>4 DEF Present
  <2>3. CASE /\ at[w] = "stirred" /\ at'[w] = "withdrawn"
             /\ file' = [file EXCEPT ![Target(w)] = None]
    <3>1. file[n] = [receipt |-> Fresh(w).receipt, links |-> 1]
      BY <1>4, <1>6, <2>3 DEF Published, Standing
    <3>2. file[n] \in Entry
      BY <1>3, <3>1 DEF Entry
    <3>. QED  BY <1>3, <1>6, <2>3, <3>1, <3>2 DEF Present
  <2>. QED  BY <1>1, <1>2, <2>1, <2>2, <2>3, PublishFiles
<1>. QED  BY <1>5, <1>6

\* A receipt that was there is there, or was withdrawn by the call that
\* published it.
LEMMA WitnessStays ==
    ASSUME Base, [Next]_vars, NEW a \in Alert, NEW c \in Call, Witnessed(a, c)
    PROVE  Witnessed(a, c)'
<1>1. CASE at[c] = "withdrawn"
  BY <1>1, WithdrawnForGood DEF Witnessed
<1>2. CASE Present(<<a, "receipt">>) /\ file[<<a, "receipt">>].receipt = c
  <2>. DEFINE n == <<a, "receipt">>
  <2>1. n \in Name
    BY DEF Name
  <2>2. CASE file'[n] = file[n]
    BY <1>2, <2>2 DEF Witnessed, Present
  <2>3. CASE Present(n) /\ Present(n)' /\ file'[n].receipt = file[n].receipt
    BY <1>2, <2>3 DEF Witnessed
  <2>4. ASSUME NEW w \in Writer, at'[w] = "withdrawn", n = Target(w),
               file[n].receipt = Fresh(w).receipt
        PROVE  Witnessed(a, c)'
    <3>1. w \in Call
      BY <2>4 DEF Target, Writer
    <3>2. w = c
      BY <1>2, <2>4, <3>1 DEF Fresh
    <3>. QED  BY <2>4, <3>2 DEF Witnessed
  <2>. QED  BY <1>2, <2>1, <2>2, <2>3, <2>4, FileSteps
<1>. QED  BY <1>1, <1>2 DEF Witnessed

LEMMA ReceiptsStep ==
    ASSUME Base, Receipts, [Next]_vars
    PROVE  Receipts'
<1>1. SUFFICES ASSUME NEW a \in Alert, Present(<<a, "receipt">>)'
               PROVE  AlertOf[file'[<<a, "receipt">>].receipt] = a
  BY DEF Receipts
<1>. DEFINE n == <<a, "receipt">>
<1>2. n \in Name
  BY DEF Name
<1>3. CASE Present(n) /\ file'[n].receipt = file[n].receipt
  BY <1>3 DEF Receipts
<1>4. ASSUME NEW w \in Writer, n = Target(w), file'[n] = Fresh(w)
      PROVE  AlertOf[file'[n].receipt] = a
  BY <1>4 DEF Target, Fresh, Writer
<1>. QED  BY <1>1, <1>2, <1>3, <1>4, FileSteps DEF Present

\* What a unit publishes is an acknowledgement of the row it is at.
LEMMA UnitTarget ==
    ASSUME Base, NEW w \in Writer, NEW a \in Alert, Target(w) = <<a, "ack">>, at[w] \in Publishing
    PROVE  /\ w \in Unit /\ First(rows[w]) \in rows[w] /\ First(rows[w]) \in accepted
           /\ First(rows[w]) = [alert |-> a, receipt |-> Fresh(w).receipt]
           /\ Fresh(w).receipt \in Call
<1>1. w \notin Call /\ w \in Unit
  BY DEF Target, Writer
<1>2. rows[w] # {} /\ First(rows[w]) \in accepted
  BY <1>1 DEF Base, UnitOK, Settling
<1>3. First(rows[w]) \in rows[w] /\ First(rows[w]) \in Row
  BY <1>1, <1>2, CurrentRow
<1>4. First(rows[w]).alert = a /\ First(rows[w]).receipt = Fresh(w).receipt
  BY <1>1 DEF Target, Fresh
<1>. QED  BY <1>1, <1>2, <1>3, <1>4 DEF Row

LEMMA AcceptedGrows ==
    ASSUME Base, [Next]_vars
    PROVE  accepted \subseteq accepted'
<1>1. ASSUME NEW w \in Writer, Publish(w) \/ Dies(w) PROVE accepted' = accepted
  BY <1>1, PublishMoves DEF Dies
<1>2. ASSUME NEW c \in Call, Report(c) \/ Schedule(c) PROVE accepted' = accepted
  BY <1>2 DEF Report, Schedule
<1>3. CASE Invoke \/ Engage \/ Disengage \/ UNCHANGED vars
  BY <1>3 DEF Invoke, Engage, Disengage, vars
<1>. QED  BY <1>1, <1>2, <1>3, PassMoves DEF Next

LEMMA AcksStep ==
    ASSUME Base, Acks, RowsOK, [Next]_vars
    PROVE  Acks'
<1>1. SUFFICES ASSUME NEW a \in Alert, Present(<<a, "ack">>)'
               PROVE  /\ [alert |-> a, receipt |-> file'[<<a, "ack">>].receipt] \in accepted'
                      /\ Witnessed(a, file[<<a, "ack">>].receipt)'
  BY DEF Acks
<1>. DEFINE n == <<a, "ack">>
<1>2. n \in Name /\ accepted \subseteq accepted'
  BY AcceptedGrows DEF Name
<1>3. PICK c : c = file'[n].receipt
  OBVIOUS
<1>4. SUFFICES c \in Call /\ Witnessed(a, c) /\ [alert |-> a, receipt |-> c] \in accepted
  <2>1. ASSUME c \in Call, Witnessed(a, c) PROVE Witnessed(a, file[n].receipt)'
    <3>1. Witnessed(a, c)'
      BY <2>1, WitnessStays
    <3>. QED  BY <1>3, <3>1 DEF Witnessed
  <2>. QED  BY <1>2, <1>3, <2>1
<1>5. CASE Present(n) /\ file'[n].receipt = file[n].receipt
  <2>1. file[n] \in Entry
    BY <1>2, <1>5 DEF Base, TypeOK, Present
  <2>. QED  BY <1>3, <1>5, <2>1 DEF Acks, Entry
<1>6. ASSUME NEW w \in Writer, at[w] = "temp", n = Target(w), file'[n] = Fresh(w)
      PROVE  c \in Call /\ Witnessed(a, c) /\ [alert |-> a, receipt |-> c] \in accepted
  <2>1. /\ w \in Unit /\ First(rows[w]) \in rows[w] /\ First(rows[w]) \in accepted
        /\ First(rows[w]) = [alert |-> a, receipt |-> c] /\ c \in Call
    BY <1>3, <1>6, UnitTarget DEF Publishing
  <2>2. Witnessed(First(rows[w]).alert, First(rows[w]).receipt)
    BY <2>1 DEF RowsOK
  <2>. QED  BY <2>1, <2>2
<1>. QED  BY <1>1, <1>2, <1>5, <1>6, FileSteps DEF Present

\* While a pass is not at the end of a publication, no row of it is acknowledged.
LEMMA NoneAcknowledged ==
    ASSUME RowsOK, NEW u \in Unit, at[u] \notin Standing \cup {"winner"}, NEW r \in rows[u]
    PROVE  ~Present(<<r.alert, "ack">>)
BY DEF RowsOK

\* Rows after a step of a pass: what was read is new, of a receipt that is
\* there and has no acknowledgement.
LEMMA PassRows ==
    ASSUME Inv, NEW u \in Unit, Pass(u), NEW r \in rows'[u]
    PROVE  /\ r \in Row
           /\ Witnessed(r.alert, r.receipt)
           /\ ~Present(<<r.alert, "ack">>)
<1>1. rows \in [Unit -> SUBSET Row] /\ unread \in [Unit -> SUBSET Alert] /\ UnitOK(u)
  BY DEF Inv, Base, TypeOK
<1>2. CASE at[u] \notin Standing \cup {"winner"} /\ r \in rows[u]
  BY <1>1, <1>2, NoneAcknowledged DEF Inv, RowsOK
<1>3. CASE Ends(u)
  BY <1>1, <1>3 DEF Ends
<1>4. CASE Acknowledged(u)
  <2>1. r \in rows[u] /\ r # First(rows[u])
    BY <1>1, <1>4 DEF Acknowledged, Drops
  <2>. QED  BY <1>1, <2>1 DEF Inv, RowsOK
<1>5. CASE Read(u)
  <2>1. at[u] = "reading"
    BY <1>5 DEF Read
  <2>2. CASE r \in rows[u]
    BY <1>2, <2>1, <2>2 DEF Standing
  <2>3. CASE r \notin rows[u]
    <3>1. PICK a \in unread[u] :
              /\ Valid(a) /\ ~Present(<<a, "ack">>)
              /\ r = [alert |-> a, receipt |-> file[<<a, "receipt">>].receipt]
      BY <1>1, <1>5, <2>3 DEF Read, Ends
    <3>2. a \in Alert /\ <<a, "receipt">> \in Name /\ Present(<<a, "receipt">>)
      BY <1>1, <3>1 DEF Name, Valid, Readable
    <3>3. file[<<a, "receipt">>] \in Entry
      BY <3>2 DEF Present, Inv, Base, TypeOK
    <3>. QED  BY <3>1, <3>2, <3>3 DEF Inv, Receipts, Witnessed, Row, Entry
  <2>. QED  BY <2>2, <2>3
<1>6. CASE Lock(u) \/ Jobs(u) \/ Scan(u) \/ Fails(u) \/ Delivers(u) \/ Finishes(u) \/ Acknowledge(u)
  <2>1. at[u] \notin Standing \cup {"winner"}
    BY <1>6 DEF Lock, Jobs, Scan, Fails, Delivers, Finishes, Acknowledge, Standing
  <2>2. r \in rows[u] \/ Ends(u)
    BY <1>1, <1>6 DEF Lock, Jobs, Scan, Fails, Delivers, Finishes, Acknowledge, Drops
  <2>. QED  BY <1>2, <1>3, <2>1, <2>2
<1>. QED  BY <1>4, <1>5, <1>6 DEF Pass

\* Rows of a unit that takes no step of its pass.
LEMMA OtherRows ==
    ASSUME Base, [Next]_vars, NEW u \in Unit, ~Pass(u)
    PROVE  rows'[u] \subseteq rows[u] /\ (rows'[u] = rows[u] \/ rows'[u] = {})
<1>1. rows \in [Unit -> SUBSET Row]
  BY DEF Base, TypeOK
<1>2. ASSUME NEW w \in Writer, Publish(w) \/ Dies(w) PROVE rows'[u] = rows[u] \/ rows'[u] = {}
  BY <1>1, <1>2, PublishMoves DEF Dies
<1>3. ASSUME NEW c \in Call, Report(c) \/ Schedule(c) PROVE rows'[u] = rows[u]
  BY <1>3 DEF Report, Schedule
<1>4. ASSUME NEW v \in Unit, Pass(v) PROVE rows'[u] = rows[u]
  BY <1>4, PassMoves
<1>5. CASE Invoke \/ Engage \/ Disengage \/ UNCHANGED vars
  BY <1>5 DEF Invoke, Engage, Disengage, vars
<1>. QED  BY <1>2, <1>3, <1>4, <1>5 DEF Next

\* While a row of u is acknowledged, u is at the end of that publication.
LEMMA StandingGoesOn ==
    ASSUME Inv, [Next]_vars, NEW u \in Unit, ~Pass(u), ~Dies(u), NEW a \in Alert,
           Target(u) = <<a, "ack">>, at[u] \in Standing \cup {"winner"}, Present(<<a, "ack">>)'
    PROVE  at'[u] \in Standing \cup {"winner"}
<1>1. u \in Writer /\ u \notin Call /\ <<a, "ack">> \in Name
      /\ at \in [Writer -> CallStage \cup Holding \cup {"none", "waiting"}]
      /\ file \in [Name -> Entry \cup {None}]
  BY DEF Writer, Name, Inv, Base, TypeOK
<1>2. CASE Publish(u)
  <2>1. CASE at[u] = "stirred" /\ file' = [file EXCEPT ![Target(u)] = None]
    BY <1>1, <2>1 DEF Present
  <2>2. CASE at[u] # "stirred"
    BY <1>1, <1>2, <2>2 DEF Publish, Create, Link, Unlink, Stat, Look, Stirring, Moves, Standing
  <2>. QED  BY <1>2, <2>1, <2>2 DEF Publish, Create, Link, Unlink, Stat, Look
<1>3. ASSUME NEW w \in Writer, w # u, Publish(w) PROVE at'[u] \in Standing \cup {"winner"}
  BY <1>1, <1>3, PublishMoves DEF Inv, Standing
<1>4. ASSUME NEW w \in Writer, w # u, Dies(w) PROVE at'[u] = at[u]
  BY <1>1, <1>4 DEF Dies
<1>5. ASSUME NEW c \in Call, Report(c) \/ Schedule(c) PROVE at'[u] = at[u]
  BY <1>1, <1>5 DEF Report, Schedule, Moves, Standing
<1>6. ASSUME NEW v \in Unit, v # u, Pass(v) PROVE at'[u] = at[u]
  BY <1>1, <1>6, PassMoves DEF Inv
<1>7. CASE Invoke \/ Engage \/ Disengage \/ UNCHANGED vars
  BY <1>1, <1>7 DEF Invoke, Engage, Disengage, vars, Moves, Standing
<1>. QED  BY <1>2, <1>3, <1>4, <1>5, <1>6, <1>7 DEF Next

LEMMA RowsStep ==
    ASSUME Inv, [Next]_vars
    PROVE  RowsOK'
<1>1. SUFFICES ASSUME NEW u \in Unit, NEW r \in rows'[u]
               PROVE  /\ Witnessed(r.alert, r.receipt)'
                      /\ Present(<<r.alert, "ack">>)' =>
                            r = First(rows'[u]) /\ at'[u] \in Standing \cup {"winner"}
  BY DEF RowsOK
<1>2. CASE Pass(u)
  <2>1. r \in Row /\ Witnessed(r.alert, r.receipt) /\ ~Present(<<r.alert, "ack">>) /\ file' = file
    BY <1>1, <1>2, PassRows, PassMoves DEF Inv
  <2>2. Witnessed(r.alert, r.receipt)'
    BY <2>1, WitnessStays DEF Inv, Row
  <2>. QED  BY <2>1, <2>2 DEF Present
<1>3. CASE ~Pass(u)
  <2>1. rows'[u] = rows[u] /\ r \in rows[u] /\ r \in Row /\ ~Dies(u)
    <3>1. rows \in [Unit -> SUBSET Row]
      BY DEF Inv, Base, TypeOK
    <3>2. ~Dies(u)
      BY <1>1, <3>1 DEF Dies, Unit
    <3>. QED  BY <1>1, <1>3, <3>1, <3>2, OtherRows DEF Inv
  <2>2. Witnessed(r.alert, r.receipt)'
    BY <2>1, WitnessStays DEF Inv, Row, RowsOK
  <2>. DEFINE n == <<r.alert, "ack">>
  <2>3. n \in Name /\ r.alert \in Alert /\ u \in Writer /\ u \notin Call
    BY <2>1 DEF Row, Name, Writer
  <2>4. CASE Present(n) /\ Present(n)'
    <3>1. r = First(rows[u]) /\ at[u] \in Standing \cup {"winner"}
      BY <2>1, <2>4 DEF Inv, RowsOK
    <3>2. Target(u) = n
      BY <2>3, <3>1 DEF Target
    <3>3. at'[u] \in Standing \cup {"winner"}
      BY <1>3, <2>1, <2>3, <2>4, <3>1, <3>2, StandingGoesOn
    <3>. QED  BY <2>1, <2>2, <3>1, <3>3
  <2>5. ASSUME NEW w \in Writer, at[w] = "temp", at'[w] = "linked", n = Target(w)
        PROVE  r = First(rows'[u]) /\ at'[u] \in Standing \cup {"winner"}
    <3>0. Target(w) = <<r.alert, "ack">> /\ at[w] \in Publishing /\ Base
      BY <2>5 DEF Inv, Publishing
    <3>1. w \in Unit /\ First(rows[w]) \in rows[w] /\ First(rows[w]).alert = r.alert
      <4>1. /\ w \in Unit /\ First(rows[w]) \in rows[w]
            /\ First(rows[w]) = [alert |-> r.alert, receipt |-> Fresh(w).receipt]
        BY <2>3, <3>0, UnitTarget
      <4>. QED  BY <4>1
    <3>2. UnitOK(u) /\ Locked
      BY DEF Inv, Base
    <3>3. at[u] \in Holding /\ at[w] \in Holding
      BY <2>1, <2>5, <3>2 DEF UnitOK, Holding, Publishing
    <3>4. u = w
      BY <3>1, <3>2, <3>3 DEF Locked
    <3>. QED  BY <2>1, <2>5, <3>1, <3>2, <3>4 DEF UnitOK, Standing
  <2>6. ASSUME Present(n)' PROVE r = First(rows'[u]) /\ at'[u] \in Standing \cup {"winner"}
    <3>1. CASE file'[n] = file[n]
      BY <2>4, <2>6, <3>1 DEF Present
    <3>. QED  BY <2>3, <2>4, <2>5, <2>6, <3>1, FileSteps DEF Inv
  <2>. QED  BY <2>2, <2>6
<1>. QED  BY <1>2, <1>3

LEMMA InvInvariant == Spec => []Inv
<1>1. Inv /\ [Next]_vars => Inv'
  BY BaseStep, ReceiptsStep, AcksStep, RowsStep DEF Inv
<1>. QED  BY <1>1, InvInit, PTL DEF Spec

\* The outbox spoils itself in one way only: an acknowledgement without its
\* receipt means that the call that published that receipt has withdrawn it,
\* whatever replays, passes, acknowledgements and deaths came in between.
THEOREM SpoiledOnlyByWithdrawal == Spec => []UnboundIsWithdrawn
<1>1. Inv => UnboundIsWithdrawn
  <2>1. SUFFICES ASSUME Inv, NEW a \in Alert, Unbound(a)
                 PROVE  \E c \in Call : AlertOf[c] = a /\ at[c] = "withdrawn"
    BY DEF UnboundIsWithdrawn
  <2>2. <<a, "ack">> \in Name /\ Present(<<a, "ack">>)
    BY <2>1 DEF Name, Unbound
  <2>3. file[<<a, "ack">>] \in Entry
    BY <2>1, <2>2 DEF Present, Inv, Base, TypeOK
  <2>. QED  BY <2>1, <2>2, <2>3 DEF Inv, Acks, Witnessed, Unbound, Entry
<1>. QED  BY <1>1, InvInvariant, PTL

\* An acknowledgement stands for a notification the server took, of the very
\* receipt it names.
THEOREM AcknowledgementsAreEarned == Spec => []AckIsEarned
<1>1. Inv => AckIsEarned
  BY DEF Inv, Acks, AckIsEarned
<1>. QED  BY <1>1, InvInvariant, PTL

\* What is acknowledged is not pushed again, however many units run: a row that
\* is about to be pushed has no acknowledgement, since only the unit that holds
\* the lock writes one, and only of the row it is at.
THEOREM NeverPushedAgain == Spec => NotPushedAgain
<1>1. Inv /\ [Next]_vars => [\A u \in Unit : Delivers(u) => ~Present(<<First(rows[u]).alert, "ack">>)]_vars
  <2>1. SUFFICES ASSUME Inv, NEW u \in Unit, Delivers(u)
                 PROVE  ~Present(<<First(rows[u]).alert, "ack">>)
    OBVIOUS
  <2>2. at[u] = "send" /\ First(rows[u]) \in rows[u]
    BY <2>1, CurrentRow DEF Delivers, Inv
  <2>. QED  BY <2>1, <2>2, NoneAcknowledged DEF Inv, Standing
<1>. QED  BY <1>1, InvInvariant, PTL DEF Spec, NotPushedAgain

=============================================================================
