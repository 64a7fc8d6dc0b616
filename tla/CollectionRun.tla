--------------------------- MODULE CollectionRun ---------------------------
(* pipeline.py: AnalyticsPipeline.run_collection with the collectors it calls *)
(* (collectors/market_state.py, collectors/swaps.py) and the repositories it  *)
(* writes through (storage/repositories.py).  Every run is a process of its   *)
(* own with its own connection; any number run at once, beside a discovery    *)
(* process that holds the write lock now and then.                            *)
(*                                                                            *)
(* A pool, an execution case (direction and trade size) and an event are      *)
(* members of small sets; what an RPC call or a statement answers is a choice *)
(* of the environment.  A read that fails raises ConfluxAnalyticsError.  Of   *)
(* error_count only whether it is zero matters (one skipped direction adds    *)
(* one error for all its cases).                                              *)
EXTENDS Connections, FiniteSets

CONSTANTS Run,             \* run ids, one collection process each
          Discovery,       \* the process that runs discover
          Pool, Event,
          Case,            \* never empty: load_settings insists on a trade size
          Adapters,        \* number of enabled adapters
          PoolsOf,         \* adapter -> its active pools in the catalog
          EventsOf,        \* pool -> kind -> its events in the block range
          WithExecution,   \* run_collection's with_execution
          CollectEvents,   \* run_collection's collect_events
          Misconfigured,   \* may the command line name a bad DEX or range?
          StatementFaults, \* may a statement fail though the lock is free?
          NoRun, NoPool

Kind == {"swap", "liquidity"}

ASSUME RunAssumption ==
  /\ Process = Run \cup {Discovery}
  /\ Discovery \notin Run /\ NoRun \notin Run /\ NoPool \notin Pool
  /\ IsFiniteSet(Pool) /\ IsFiniteSet(Case) /\ Case # {}
  /\ Adapters \in Nat
  /\ PoolsOf \in [1..Adapters -> SUBSET Pool]
  /\ \A a, b \in 1..Adapters : a # b => PoolsOf[a] \cap PoolsOf[b] = {}
  /\ EventsOf \in [Pool -> [Kind -> SUBSET Event]]
  /\ WithExecution \in BOOLEAN /\ CollectEvents \in BOOLEAN
  /\ Misconfigured \in BOOLEAN /\ StatementFaults \in BOOLEAN

VARIABLES
  row,        \* collection_runs: run -> [status, observations, errors (any?)]
  stateRows,  \* pool_states: <<run, pool>>
  obsRows,    \* swap_observations: <<run, pool, case, success>>
  owner,      \* swap_events, liquidity_events: event -> run_id of its row
  unsaved,    \* run -> events inserted in its open transaction
  pc,         \* run -> where run_collection is
  adapter,    \* run -> index of the adapter at work
  left,       \* run -> pools the current loop still has to visit
  read,       \* run -> pools in the states dict of the current adapter
  pool,       \* run -> pool at work inside a loop
  todo,       \* run -> cases or events of that pool still to insert
  result,     \* run -> PipelineResult: [states, executions, errors, failed]
  gap         \* run -> did a log scan lose an event? (nothing stores it)

db    == <<row, stateRows, obsRows, owner>>
local == <<adapter, left, read, pool, todo>>
vars  == <<conn, db, unsaved, pc, local, result, gap>>

Status  == {"none", "running", "completed", "completed_with_errors", "failed"}
Ended   == {"completed", "completed_with_errors", "failed"}
Success == {"completed", "completed_with_errors"}

Phase == {"check", "start", "configure", "adapter", "states", "execution",
          "observe", "events", "fetch_swap", "insert_swap", "fetch_liquidity",
          "insert_liquidity", "complete", "returned", "refused", "raised", "crashed"}
Over  == {"returned", "refused", "raised", "crashed"}

Init ==
  /\ conn = [c \in Process |-> "auto"]
  /\ row = [r \in Run |-> [status |-> "none", observations |-> 0, errors |-> FALSE]]
  /\ stateRows = {} /\ obsRows = {}
  /\ owner = [e \in Event |-> NoRun]
  /\ unsaved = [r \in Run |-> {}]
  /\ pc = [r \in Run |-> "check"]
  /\ adapter = [r \in Run |-> 1]
  /\ left = [r \in Run |-> {}] /\ read = [r \in Run |-> {}]
  /\ pool = [r \in Run |-> NoPool] /\ todo = [r \in Run |-> {}]
  /\ result = [r \in Run |-> [states |-> 0, executions |-> 0, errors |-> FALSE, failed |-> FALSE]]
  /\ gap = [r \in Run |-> FALSE]
-----------------------------------------------------------------------------
Goto(r, phase) == pc' = [pc EXCEPT ![r] = phase]

\* The counters of PipelineResult, and whether its error count is above zero.
Count(r, states, executions, error) ==
  result' = [result EXCEPT ![r] =
               [states     |-> @.states + states,
                executions |-> @.executions + executions,
                errors     |-> @.errors \/ error,
                failed     |-> @.failed]]

AddError(r) == Count(r, 0, 0, TRUE)

\* A definition marked "Mutant" is a slip in the one after it that a property
\* catches; no specification uses it.  Mutant: the exception keeps the connection.
RaiseKeepingConnection(r) == Goto(r, "raised") /\ UNCHANGED <<conn, unsaved>>

\* The event rows once the transaction of r is committed.
Saved(r) == [e \in Event |-> IF e \in unsaved[r] THEN r ELSE owner[e]]

\* A write statement of r followed by commit(), which also commits whatever
\* an earlier failure left in the transaction.
Store(r) ==
  /\ WriteCommit(r)
  /\ owner' = Saved(r)
  /\ unsaved' = [unsaved EXCEPT ![r] = {}]

\* A write statement of r that raises StorageError.  The code never rolls
\* back; SQLite itself may (disk full, I/O error).
StorageError(r) ==
  /\ \/ LockedOut(r) /\ UNCHANGED unsaved
     \/ StatementFaults /\ Write(r) /\ UNCHANGED unsaved
     \/ StatementFaults /\ CanWrite(r) /\ Close(r) /\ unsaved' = [unsaved EXCEPT ![r] = {}]
  /\ UNCHANGED db

WriteFails(r) == ~CanWrite(r) \/ StatementFaults

\* An exception run_collection does not catch ends the process.
Raise(r) == Goto(r, "raised") /\ Close(r) /\ unsaved' = [unsaved EXCEPT ![r] = {}]

\* An exception run_collection does catch: the run has failed.
Abort(r) == result' = [result EXCEPT ![r].failed = TRUE] /\ Goto(r, "complete")
-----------------------------------------------------------------------------
(* run_collection, up to the loop over the adapters *)

\* What health() makes of the chain id, the block height and a trial eth_call, as
\* run_collection judges it; an RpcError of any of them is part of the answer.
Judged == {"start", "refused"}

\* check_network: the health row is committed, then judged.
CheckNetwork(r) ==
  /\ pc[r] = "check"
  /\ \/ Store(r) /\ \E next \in Judged : Goto(r, next)
     \/ WriteFails(r) /\ Raise(r) /\ UNCHANGED owner
  /\ UNCHANGED <<row, stateRows, obsRows, local, result, gap>>

\* Mutant: the commit is missing.
StartRunUncommitted(r) ==
  /\ pc[r] = "start"
  /\ \/ Write(r) /\ Goto(r, "configure") /\ UNCHANGED <<row, owner, unsaved>>
     \/ WriteFails(r) /\ Raise(r) /\ UNCHANGED <<row, owner>>
  /\ UNCHANGED <<stateRows, obsRows, local, result, gap>>

StartRun(r) ==
  /\ pc[r] = "start"
  /\ \/ /\ Store(r)
        /\ row' = [row EXCEPT ![r].status = "running"]
        /\ Goto(r, "configure")
     \/ WriteFails(r) /\ Raise(r) /\ UNCHANGED <<row, owner>>
  /\ UNCHANGED <<stateRows, obsRows, local, result, gap>>

\* build_enabled_adapters and resolve_block_range, outside the try block.
Configure(r) ==
  /\ pc[r] = "configure"
  /\ \/ Goto(r, "adapter") /\ UNCHANGED <<conn, unsaved>>
     \/ Misconfigured /\ Raise(r)
  /\ UNCHANGED <<db, local, result, gap>>

-----------------------------------------------------------------------------
(* _run_adapter *)

\* Mutant: an adapter without pools is tried again.
LoadPoolsAgain(r) ==
  /\ pc[r] = "adapter" /\ adapter[r] <= Adapters
  /\ IF PoolsOf[adapter[r]] = {}
     THEN UNCHANGED <<conn, pc, left, read>>
     ELSE /\ Read(r)
          /\ Goto(r, "states")
          /\ left' = [left EXCEPT ![r] = PoolsOf[adapter[r]]]
          /\ read' = [read EXCEPT ![r] = {}]
  /\ UNCHANGED <<db, unsaved, adapter, pool, todo, result, gap>>

\* list_pools for the next adapter; one without pools is passed over.
LoadPools(r) ==
  /\ pc[r] = "adapter" /\ adapter[r] <= Adapters
  /\ \/ /\ Read(r)
        /\ IF PoolsOf[adapter[r]] = {}
           THEN /\ adapter' = [adapter EXCEPT ![r] = @ + 1]
                /\ UNCHANGED <<pc, left, read>>
           ELSE /\ Goto(r, "states")
                /\ left' = [left EXCEPT ![r] = PoolsOf[adapter[r]]]
                /\ read' = [read EXCEPT ![r] = {}]
                /\ UNCHANGED adapter
        /\ UNCHANGED result
     \/ /\ StatementFaults
        /\ Abort(r)
        /\ UNCHANGED <<conn, adapter, left, read>>
  /\ UNCHANGED <<db, unsaved, pool, todo, gap>>

AdaptersDone(r) ==
  /\ pc[r] = "adapter" /\ adapter[r] > Adapters
  /\ Goto(r, "complete")
  /\ UNCHANGED <<conn, db, unsaved, local, result, gap>>

\* insert_pool_state; the numbers it stores are those of MarketRead.
StateRow(r, p) == <<r, p>>

\* collect_states_for_adapter, one pool.  A failed read is recorded and the
\* loop goes on; a failed insert leaves the function with its counts.
CollectState(r, p) ==
  /\ pc[r] = "states" /\ p \in left[r]
  /\ \/ /\ left' = [left EXCEPT ![r] = @ \ {p}]
        /\ UNCHANGED <<conn, db, unsaved, pc, read, result>>
     \/ /\ Store(r)
        /\ stateRows' = stateRows \cup {StateRow(r, p)}
        /\ left' = [left EXCEPT ![r] = @ \ {p}]
        /\ read' = [read EXCEPT ![r] = @ \cup {p}]
        /\ UNCHANGED <<row, obsRows, pc, result>>
     \/ /\ StorageError(r)
        /\ Abort(r)
        /\ UNCHANGED <<left, read>>
  /\ UNCHANGED <<adapter, pool, todo, gap>>

\* The pools whose events the adapter is asked for next, if any.
ToEvents(r) ==
  IF CollectEvents
  THEN /\ Goto(r, "events")
       /\ left' = [left EXCEPT ![r] = PoolsOf[adapter[r]]]
       /\ UNCHANGED adapter
  ELSE /\ Goto(r, "adapter")
       /\ adapter' = [adapter EXCEPT ![r] = @ + 1]
       /\ UNCHANGED left

\* The counts and errors of the state pass join the result.
StatesDone(r) ==
  /\ pc[r] = "states" /\ left[r] = {}
  /\ Count(r, Cardinality(read[r]), 0, read[r] # PoolsOf[adapter[r]])
  /\ IF WithExecution /\ read[r] # {}
     THEN /\ Goto(r, "execution")
          /\ left' = [left EXCEPT ![r] = read[r]]
          /\ UNCHANGED adapter
     ELSE ToEvents(r)
  /\ UNCHANGED <<conn, db, unsaved, read, pool, todo, gap>>

-----------------------------------------------------------------------------
(* _run_execution *)

\* analyze_pool for one pool that has a state.
Analyze(r, p) ==
  /\ pc[r] = "execution" /\ p \in left[r]
  /\ left' = [left EXCEPT ![r] = @ \ {p}]
  /\ \/ /\ Goto(r, "observe")
        /\ pool' = [pool EXCEPT ![r] = p]
        /\ todo' = [todo EXCEPT ![r] = Case]
        /\ UNCHANGED result
     \/ /\ AddError(r)
        /\ UNCHANGED <<pc, pool, todo>>
  /\ UNCHANGED <<conn, db, unsaved, adapter, read, gap>>

\* Mutant: counted before it is stored.
ObserveCountedFirst(r, c) ==
  /\ pc[r] = "observe" /\ c \in todo[r]
  /\ todo' = [todo EXCEPT ![r] = @ \ {c}]
  /\ Count(r, 0, 1, FALSE)
  /\ \/ Store(r) /\ obsRows' = obsRows \cup {<<r, pool[r], c, TRUE>>} /\ UNCHANGED <<row, stateRows>>
     \/ StorageError(r)
  /\ UNCHANGED <<pc, adapter, left, read, pool, gap>>

\* insert_execution_observation; the impact and the rest are ObservedImpact's.
ExecutionRow(r, c, success) == <<r, pool[r], c, success>>

\* One case: skipped, or observed and inserted, or observed and not inserted.
Observe(r, c) ==
  /\ pc[r] = "observe" /\ c \in todo[r]
  /\ todo' = [todo EXCEPT ![r] = @ \ {c}]
  /\ \/ AddError(r) /\ UNCHANGED <<conn, db, unsaved>>
     \/ \E success \in BOOLEAN :
          /\ Store(r)
          /\ obsRows' = obsRows \cup {ExecutionRow(r, c, success)}
          /\ Count(r, 0, 1, ~success)
          /\ UNCHANGED <<row, stateRows>>
     \/ StorageError(r) /\ AddError(r)
  /\ UNCHANGED <<pc, adapter, left, read, pool, gap>>

PoolObserved(r) ==
  /\ pc[r] = "observe" /\ todo[r] = {}
  /\ Goto(r, "execution")
  /\ pool' = [pool EXCEPT ![r] = NoPool]
  /\ UNCHANGED <<conn, db, unsaved, adapter, left, read, todo, result, gap>>

ExecutionDone(r) ==
  /\ pc[r] = "execution" /\ left[r] = {}
  /\ ToEvents(r)
  /\ UNCHANGED <<conn, db, unsaved, read, pool, todo, result, gap>>

-----------------------------------------------------------------------------
(* collect_events_for_adapter *)

NextPool(r, p) ==
  /\ pc[r] = "events" /\ p \in left[r]
  /\ left' = [left EXCEPT ![r] = @ \ {p}]
  /\ pool' = [pool EXCEPT ![r] = p]
  /\ Goto(r, "fetch_swap")
  /\ UNCHANGED <<conn, db, unsaved, adapter, read, todo, result, gap>>

\* Mutant: the adapter is advanced twice.
EventsDoneTwice(r) ==
  /\ pc[r] = "events" /\ left[r] = {}
  /\ adapter' = [adapter EXCEPT ![r] = @ + 2]
  /\ Goto(r, "adapter")
  /\ UNCHANGED <<conn, db, unsaved, left, read, pool, todo, result, gap>>

EventsDone(r) ==
  /\ pc[r] = "events" /\ left[r] = {}
  /\ adapter' = [adapter EXCEPT ![r] = @ + 1]
  /\ Goto(r, "adapter")
  /\ UNCHANGED <<conn, db, unsaved, left, read, pool, todo, result, gap>>

FetchPhase(kind)  == IF kind = "swap" THEN "fetch_swap" ELSE "fetch_liquidity"
InsertPhase(kind) == IF kind = "swap" THEN "insert_swap" ELSE "insert_liquidity"
AfterKind(kind)   == IF kind = "swap" THEN "fetch_liquidity" ELSE "events"

\* What get_swap_events or get_liquidity_events may return: the events of the
\* chunks that could be fetched (LogFetcher drops the others, the adapter does
\* not look) and whose logs can be decoded (the others are skipped).
Found(p, kind) == SUBSET EventsOf[p][kind]

\* One pool's events of one kind, or an RpcError from the rest of the call.
FetchEvents(r, kind) ==
  /\ pc[r] = FetchPhase(kind)
  /\ \/ \E found \in Found(pool[r], kind) :
          /\ todo' = [todo EXCEPT ![r] = found]
          /\ gap' = [gap EXCEPT ![r] = @ \/ found # EventsOf[pool[r]][kind]]
          /\ Goto(r, InsertPhase(kind))
          /\ UNCHANGED result
     \/ /\ AddError(r)
        /\ Goto(r, AfterKind(kind))
        /\ UNCHANGED <<todo, gap>>
  /\ UNCHANGED <<conn, db, unsaved, adapter, left, read, pool>>

\* Mutant: INSERT OR REPLACE.
InsertOrReplaceEvent(r, kind, e) ==
  /\ pc[r] = InsertPhase(kind) /\ e \in todo[r]
  /\ Write(r)
  /\ unsaved' = [unsaved EXCEPT ![r] = @ \cup {e}]
  /\ todo' = [todo EXCEPT ![r] = @ \ {e}]
  /\ UNCHANGED <<db, pc, adapter, left, read, pool, result, gap>>

\* INSERT OR IGNORE of one event.  A failure gives up on the batch, with the
\* events already inserted still in the open transaction.
InsertEvent(r, kind, e) ==
  /\ pc[r] = InsertPhase(kind) /\ e \in todo[r]
  /\ \/ /\ Write(r)
        /\ unsaved' = [unsaved EXCEPT ![r] = IF owner[e] = NoRun THEN @ \cup {e} ELSE @]
        /\ todo' = [todo EXCEPT ![r] = @ \ {e}]
        /\ UNCHANGED <<db, pc, result>>
     \/ /\ StorageError(r)
        /\ AddError(r)
        /\ todo' = [todo EXCEPT ![r] = {}]
        /\ Goto(r, AfterKind(kind))
  /\ UNCHANGED <<adapter, left, read, pool, gap>>

\* The commit at the end of insert_swap_events or insert_liquidity_events.
CommitEvents(r, kind) ==
  /\ pc[r] = InsertPhase(kind) /\ todo[r] = {}
  /\ Commit(r)
  /\ owner' = Saved(r)
  /\ unsaved' = [unsaved EXCEPT ![r] = {}]
  /\ Goto(r, AfterKind(kind))
  /\ UNCHANGED <<row, stateRows, obsRows, local, result, gap>>

-----------------------------------------------------------------------------
\* Mutant: errors do not matter.
FinalStatusLenient(r) == IF result[r].failed THEN "failed" ELSE "completed"

FinalStatus(r) ==
  IF result[r].failed THEN "failed"
  ELSE IF result[r].errors THEN "completed_with_errors" ELSE "completed"

CompleteRun(r) ==
  /\ pc[r] = "complete"
  /\ \/ /\ Store(r)
        /\ row' = [row EXCEPT ![r] =
                     [status       |-> FinalStatus(r),
                      observations |-> result[r].states + result[r].executions,
                      errors       |-> result[r].errors]]
        /\ Goto(r, "returned")
     \/ WriteFails(r) /\ Raise(r) /\ UNCHANGED <<row, owner>>
  /\ UNCHANGED <<stateRows, obsRows, local, result, gap>>

\* The process is killed, or dies of an exception that is no
\* ConfluxAnalyticsError (a raw sqlite3.Error of commit(), for one).
Crash(r) ==
  /\ pc[r] \notin Over
  /\ Goto(r, "crashed") /\ Close(r) /\ unsaved' = [unsaved EXCEPT ![r] = {}]
  /\ UNCHANGED <<db, local, result, gap>>

\* discover: upsert_token writes and does not commit, so the lock stays held
\* across the RPC calls up to the next upsert_pool.
DiscoveryWrites ==
  /\ Write(Discovery)
  /\ UNCHANGED <<db, unsaved, pc, local, result, gap>>

DiscoveryCommits ==
  /\ conn[Discovery] = "writer"
  /\ Commit(Discovery)
  /\ UNCHANGED <<db, unsaved, pc, local, result, gap>>

\* It ends with tokens uncommitted: SQLite rolls them back.
DiscoveryEnds ==
  /\ conn[Discovery] # "auto"
  /\ Close(Discovery)
  /\ UNCHANGED <<db, unsaved, pc, local, result, gap>>

Step(r) ==
  \/ CheckNetwork(r) \/ StartRun(r) \/ Configure(r)
  \/ LoadPools(r) \/ AdaptersDone(r)
  \/ \E p \in Pool : CollectState(r, p) \/ Analyze(r, p) \/ NextPool(r, p)
  \/ StatesDone(r)
  \/ \E c \in Case : Observe(r, c)
  \/ PoolObserved(r) \/ ExecutionDone(r) \/ EventsDone(r)
  \/ \E kind \in Kind :
       FetchEvents(r, kind) \/ CommitEvents(r, kind) \/ \E e \in Event : InsertEvent(r, kind, e)
  \/ CompleteRun(r)

Next ==
  \/ \E r \in Run : Step(r) \/ Crash(r)
  \/ DiscoveryWrites \/ DiscoveryCommits \/ DiscoveryEnds

Spec == Init /\ [][Next]_vars

\* Every call a run makes returns, by an answer, an error or a timeout; nothing
\* is assumed of the discovery process.
FairSpec == Spec /\ \A r \in Run : WF_vars(Step(r))
-----------------------------------------------------------------------------
ObservationRows(r) == {x \in stateRows : x[1] = r} \cup {x \in obsRows : x[1] = r}
EventRows(r) == {e \in Event : owner[e] = r}

TypeOK ==
  /\ conn \in [Process -> ConnState]
  /\ row \in [Run -> [status : Status, observations : Nat, errors : BOOLEAN]]
  /\ stateRows \subseteq Run \X Pool
  /\ obsRows \subseteq Run \X Pool \X Case \X BOOLEAN
  /\ owner \in [Event -> Run \cup {NoRun}]
  /\ unsaved \in [Run -> SUBSET Event]
  /\ pc \in [Run -> Phase]
  /\ adapter \in [Run -> 1..Adapters + 1]
  /\ left \in [Run -> SUBSET Pool] /\ read \in [Run -> SUBSET Pool]
  /\ pool \in [Run -> Pool \cup {NoPool}]
  /\ todo \in [Run -> SUBSET (Case \cup Event)]
  /\ result \in [Run -> [states : Nat, executions : Nat, errors : BOOLEAN, failed : BOOLEAN]]
  /\ gap \in [Run -> BOOLEAN]

\* Two processes never hold the write lock at once, and a process that is over
\* holds nothing: the event rows of an open transaction are its writer's only.
LockDiscipline ==
  /\ \A c, d \in Process : conn[c] = "writer" /\ conn[d] = "writer" => c = d
  /\ \A r \in Run :
       /\ unsaved[r] # {} => conn[r] = "writer"
       /\ pc[r] \in Over => unsaved[r] = {} /\ conn[r] = "auto"

\* complete_run writes observations_created from counters kept in memory while
\* the rows went to the database one commit at a time: for a run that completed
\* they agree, for a failed one the counters may lag (a state insert that
\* raises drops the counts of its whole adapter) but never lead.
ObservationsAccounted ==
  \A r \in Run :
    LET rows == Cardinality(ObservationRows(r)) IN
    /\ row[r].status \in Success => row[r].observations = rows
    /\ row[r].status \in Ended   => row[r].observations <= rows

\* A run stored as "completed" hides nothing about market state and execution:
\* every active pool of every adapter has its state row, and a successful row
\* for every case when execution analytics were asked for.
CompletedIsClean ==
  \A r \in Run, a \in 1..Adapters :
    row[r].status = "completed" =>
      \A p \in PoolsOf[a] :
        /\ <<r, p>> \in stateRows
        /\ WithExecution => \A c \in Case : <<r, p, c, TRUE>> \in obsRows

\* Whatever fails or blocks, every collection process comes to an end.
RunsEnd == \A r \in Run : <>(pc[r] \in Over)

\* pipeline.py:4-6 "Every run is recorded in ``collection_runs`` and every
\* market failure is attributed": no process that ended by itself leaves its
\* run behind as "running".
NoRunLeftRunning == \A r \in Run : pc[r] = "raised" => row[r].status # "running"

\* The same sentence, for events: a run stored as "completed", without an
\* error, has stored every event of the block range it was given.
CompletedHasAllEvents ==
  \A r \in Run, a \in 1..Adapters :
    row[r].status = "completed" /\ CollectEvents =>
      \A p \in PoolsOf[a], k \in Kind : \A e \in EventsOf[p][k] : owner[e] # NoRun

\* pipeline.py:376-377 (_run_execution) "failures are recorded per pool and
\* never abort the run": a run aborts only while it is locked out by another
\* process, not for the failure of an earlier insert that was recorded.
AbortsOnlyWhenLockedOut ==
  [][\A r \in Run : result'[r].failed /\ ~result[r].failed => Busy(r)]_vars

Records == INSTANCE RunRecords WITH
  Observation <- (Run \X Pool) \cup (Run \X Pool \X Case \X BOOLEAN),
  observed <- [r \in Run |-> ObservationRows(r)],
  recorded <- [r \in Run |-> EventRows(r)]

\* The processes together implement RunRecords, whatever fails in them.
ImplementsRecords == Records!Spec
=============================================================================
