----------------------------- MODULE Migrations -----------------------------
(* storage/migrations.py: migrate(), run by every process that opens the      *)
(* database (storage/database.py: connect).  sqlite3 opens a transaction      *)
(* before INSERT only, so each DDL statement of a script commits by itself    *)
(* until the script's first INSERT; from there to the commit that ends the    *)
(* script the process holds the write lock.  One object stands for the        *)
(* tables and indexes that a CREATE ... IF NOT EXISTS script makes.  Rows of  *)
(* pool_states and swap_observations refer to their run by a foreign key that *)
(* a connection enforces unless it has suspended foreign keys.                *)
EXTENDS Naturals, Sequences

CONSTANTS Process,         \* processes that open the database
          Row,             \* run ids that collectors store in collection_runs
          MaxOpens,        \* bound: how often a process opens the database
          NoTx

ASSUME MigrationsAssumption == MaxOpens \in Nat

VARIABLES db,     \* what is committed: [objects, rows (runs), kids (runs that
                  \* other tables refer to), copied, versions]
          work,   \* process -> its view inside its transaction, or NoTx
          pc,     \* process -> closed, applying, ready or failed
          seen,   \* process -> versions it takes for applied
          at,     \* process -> index of the next statement of its script
          fk,     \* process -> does its connection enforce foreign keys?
          opens,  \* process -> how often it opened the database
          calm    \* no process dies, and nobody waits for the lock in vain

vars == <<db, work, pc, seen, at, fk, opens, calm>>

Versions == 1..7

CreateIf(o) == [op |-> "create_if", object |-> o]
Create(o)   == [op |-> "create", object |-> o]
AddColumn(o) == [op |-> "add_column", object |-> o]

\* ALL_MIGRATIONS.  Copy, drop and rename rebuild collection_runs.
Statements ==
  << <<CreateIf("collection_runs"), CreateIf("idx_runs_started"), CreateIf("pools")>>,
     <<CreateIf("pool_states")>>,
     <<CreateIf("liquidity_events")>>,
     <<CreateIf("provider_health")>>,
     <<Create("collection_runs_new"), [op |-> "copy"], [op |-> "drop"],
       [op |-> "rename"], CreateIf("idx_runs_started")>>,
     <<AddColumn("pool_states.provenance_json")>>,
     <<AddColumn("pools.fee_tier_raw")>> >>

\* A script ends with its row in schema_migrations.
Script(v) == Append(Statements[v], [op |-> "record", version |-> v])

\* The objects a version leaves behind.
Objects(v) ==
  IF v = 5 THEN {"collection_runs", "idx_runs_started"}
  ELSE {Statements[v][i].object : i \in DOMAIN Statements[v]}

AllLeft == UNION {Objects(v) : v \in Versions}

Database ==
  [objects : SUBSET (AllLeft \cup {"collection_runs_new"}),
   rows : SUBSET Row, kids : SUBSET Row, copied : SUBSET Row, versions : SUBSET Versions]

ASSUME NoTxAssumption == NoTx \notin Database

\* An existing database is at some version, with runs if it has the table.
Init ==
  /\ \E k \in 0..7, rows, kids \in SUBSET Row :
       /\ k = 0 => rows = {}
       /\ k < 2 => kids = {}
       /\ kids \subseteq rows
       /\ db = [objects |-> UNION {Objects(v) : v \in 1..k}, rows |-> rows,
                kids |-> kids, copied |-> {}, versions |-> 1..k]
  /\ work = [p \in Process |-> NoTx]
  /\ pc = [p \in Process |-> "closed"]
  /\ seen = [p \in Process |-> {}]
  /\ at = [p \in Process |-> 1]
  /\ fk = [p \in Process |-> TRUE]
  /\ opens = [p \in Process |-> 0]
  /\ calm \in BOOLEAN
-----------------------------------------------------------------------------
\* Why a statement is refused: the table, column or primary key exists, or
\* rows refer to a table that is to be dropped and foreign keys are enforced.
Fails(s, d, enforced) ==
  \/ s.op \in {"create", "add_column"} /\ s.object \in d.objects
  \/ s.op = "copy" /\ d.rows \cap d.copied # {}
  \/ s.op = "drop" /\ enforced /\ d.rows \cap d.kids # {}
  \/ s.op = "record" /\ s.version \in d.versions

\* What it does to the database otherwise.
Effect(s, d) ==
  CASE s.op = "copy"   -> [d EXCEPT !.copied = @ \cup d.rows]
    [] s.op = "drop"   -> [d EXCEPT !.objects = @ \ Objects(5), !.rows = {}]
    [] s.op = "rename" -> [d EXCEPT !.objects = (@ \ {"collection_runs_new"}) \cup {"collection_runs"},
                                    !.rows = d.copied, !.copied = {}]
    [] s.op = "record" -> [d EXCEPT !.versions = @ \cup {s.version}]
    [] OTHER           -> [d EXCEPT !.objects = @ \cup {s.object}]

\* Mutants, each a slip that one of the properties catches.
CopyCommitsAlone(s) == s.op = "record"
HighestFirst(p) == CHOOSE v \in Versions \ seen[p] : \A w \in Versions \ seen[p] : w <= v
EnforcedThroughout(p) == fk[p]
FailQuietly(p) ==
  /\ work' = [work EXCEPT ![p] = NoTx]
  /\ seen' = [seen EXCEPT ![p] = @ \cup {CHOOSE v \in Versions \ @ : \A w \in Versions \ @ : v <= w}]
  /\ at' = [at EXCEPT ![p] = 1]
  /\ fk' = [fk EXCEPT ![p] = TRUE]
  /\ UNCHANGED pc
CommitKeepingIndex(p) ==
  /\ db' = work[p]
  /\ work' = [work EXCEPT ![p] = NoTx]
  /\ seen' = [seen EXCEPT ![p] = @ \cup {CHOOSE v \in Versions \ @ : \A w \in Versions \ @ : v <= w}]
  /\ fk' = [fk EXCEPT ![p] = TRUE]
  /\ UNCHANGED at

\* Statements before which sqlite3 opens a transaction.
OpensTransaction(s) == s.op \in {"copy", "record"}

\* A statement whose object exists is a no-op, or refused, without the lock.
NeedsLock(s, d) == ~(s.op \in {"create_if", "create", "add_column"} /\ s.object \in d.objects)

\* Does p have to wait for the transaction of another process?
Blocked(p, s) == NeedsLock(s, db) /\ \E q \in Process \ {p} : work[q] # NoTx

\* migrate applies the versions it has not seen in ascending order.
NextVersion(p) == CHOOSE v \in Versions \ seen[p] : \A w \in Versions \ seen[p] : v <= w

Applying(p) == pc[p] = "applying" /\ seen[p] # Versions

\* Does p enforce foreign keys in its next statement?  It suspends them before
\* the first statement of a script, outside of any transaction (inside of one
\* the pragma would do nothing), and enforces them again after the script.
Enforced(p) == fk[p] /\ at[p] # 1

\* A process opens the database and reads schema_migrations once.
Open(p) ==
  /\ pc[p] \in {"closed", "failed"} /\ opens[p] < MaxOpens
  /\ pc' = [pc EXCEPT ![p] = "applying"]
  /\ seen' = [seen EXCEPT ![p] = db.versions]
  /\ at' = [at EXCEPT ![p] = 1]
  /\ fk' = [fk EXCEPT ![p] = TRUE]
  /\ opens' = [opens EXCEPT ![p] = @ + 1]
  /\ UNCHANGED <<db, work, calm>>

\* sqlite3.Error: the with block rolls back and MigrationError is raised.
Fail(p) ==
  /\ pc' = [pc EXCEPT ![p] = "failed"]
  /\ work' = [work EXCEPT ![p] = NoTx]
  /\ fk' = [fk EXCEPT ![p] = TRUE]
  /\ UNCHANGED <<seen, at>>

\* The next statement of the script: it times out on the lock, is refused, or
\* takes effect, in the open transaction or committing alone.
Execute(p) ==
  /\ Applying(p) /\ at[p] <= Len(Script(NextVersion(p)))
  /\ LET s == Script(NextVersion(p))[at[p]]
         view == IF work[p] = NoTx THEN db ELSE work[p]
     IN \/ Blocked(p, s) /\ ~calm /\ Fail(p) /\ UNCHANGED db
        \/ ~Blocked(p, s) /\ Fails(s, view, Enforced(p)) /\ Fail(p) /\ UNCHANGED db
        \/ /\ ~Blocked(p, s) /\ ~Fails(s, view, Enforced(p))
           /\ IF work[p] # NoTx \/ OpensTransaction(s)
              THEN work' = [work EXCEPT ![p] = Effect(s, view)] /\ UNCHANGED db
              ELSE db' = Effect(s, db) /\ UNCHANGED work
           /\ at' = [at EXCEPT ![p] = @ + 1]
           /\ fk' = [fk EXCEPT ![p] = Enforced(p)]
           /\ UNCHANGED <<pc, seen>>
  /\ UNCHANGED <<opens, calm>>

\* The with block ends.
Commit(p) ==
  /\ db' = work[p]
  /\ work' = [work EXCEPT ![p] = NoTx]
  /\ seen' = [seen EXCEPT ![p] = @ \cup {NextVersion(p)}]
  /\ at' = [at EXCEPT ![p] = 1]
  /\ fk' = [fk EXCEPT ![p] = TRUE]

Applied(p) ==
  /\ Applying(p) /\ at[p] > Len(Script(NextVersion(p)))
  /\ Commit(p)
  /\ UNCHANGED <<pc, opens, calm>>

Ready(p) ==
  /\ pc[p] = "applying" /\ seen[p] = Versions
  /\ pc' = [pc EXCEPT ![p] = "ready"]
  /\ UNCHANGED <<db, work, seen, at, fk, opens, calm>>

Crash(p) ==
  /\ ~calm /\ pc[p] = "applying"
  /\ pc' = [pc EXCEPT ![p] = "closed"]
  /\ work' = [work EXCEPT ![p] = NoTx]
  /\ fk' = [fk EXCEPT ![p] = TRUE]
  /\ UNCHANGED <<db, seen, at, opens, calm>>

\* A collector that has the database open registers a run (start_run).
Collect(r) ==
  /\ "collection_runs" \in db.objects
  /\ \A p \in Process : work[p] = NoTx
  /\ db' = [db EXCEPT !.rows = @ \cup {r}]
  /\ UNCHANGED <<work, pc, seen, at, fk, opens, calm>>

\* It stores a row that refers to its run (insert_pool_state, for one).
Refer(r) ==
  /\ r \in db.rows /\ "pool_states" \in db.objects
  /\ \A p \in Process : work[p] = NoTx
  /\ db' = [db EXCEPT !.kids = @ \cup {r}]
  /\ UNCHANGED <<work, pc, seen, at, fk, opens, calm>>

Migrate(p) == Execute(p) \/ Applied(p) \/ Ready(p)

Next ==
  \/ \E p \in Process : Open(p) \/ Migrate(p) \/ Crash(p)
  \/ \E r \in Row : Collect(r) \/ Refer(r)

Spec == Init /\ [][Next]_vars

\* Processes do open the database, and a process inside migrate keeps running.
FairSpec == Spec /\ \A p \in Process : WF_vars(Open(p)) /\ WF_vars(Migrate(p))
-----------------------------------------------------------------------------
TypeOK ==
  /\ db \in Database
  /\ work \in [Process -> Database \cup {NoTx}]
  /\ pc \in [Process -> {"closed", "applying", "ready", "failed"}]
  /\ seen \in [Process -> SUBSET Versions]
  /\ \A p \in Process : at[p] \in 1..(1 + IF Applying(p) THEN Len(Script(NextVersion(p))) ELSE 6)
  /\ fk \in [Process -> BOOLEAN]
  /\ opens \in [Process -> 0..MaxOpens]

\* Whatever processes race or die, schema_migrations tells the truth in one
\* direction: the recorded versions are an initial segment of the scripts, and
\* everything they create is there, committed.
SchemaFollowsVersions ==
  \A v \in db.versions : 1..v \subseteq db.versions /\ Objects(v) \subseteq db.objects

\* connect() hands out a connection only to a database at the last version,
\* also when other processes applied some of the versions meanwhile, and one
\* that enforces the foreign keys which the scripts suspended.
ReadyMeansCurrent == \A p \in Process : pc[p] = "ready" => db.versions = Versions /\ fk[p]

\* The rebuild of collection_runs loses no run: not one that a collector
\* commits between two statements, not when a process repeats a rebuild that
\* another has finished, not when it dies half-way.
RunsSurvive == [][db.rows \subseteq db'.rows]_vars

\* Processes that open a database together may fail each other, but not all of
\* them (while nobody dies and nobody gives up waiting for the lock).
SomeProcessGetsReady == calm => <>(\E p \in Process : pc[p] = "ready")

\* storage/migrations.py:3 "every change is an ordered, idempotent script", and
\* :442-443 "each migration runs inside a transaction so a failure cannot leave
\* a half-applied schema": a process alone with the database can migrate it.
LoneProcessSucceeds ==
  \A p \in Process : pc[p] = "failed" => \E q \in Process \ {p} : opens[q] > 0
=============================================================================
