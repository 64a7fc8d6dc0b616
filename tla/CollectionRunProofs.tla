------------------------ MODULE CollectionRunProofs ------------------------
(* Theorems about CollectionRun, for any number of runs, pools, cases and     *)
(* events, any catalog and any faults.                                        *)
EXTENDS CollectionRun, FiniteSetTheorems, TLAPS

\* What the connections and open transactions keep at every step.
ConnInv ==
  /\ conn \in [Process -> ConnState]
  /\ unsaved \in [Run -> SUBSET Event]
  /\ \A c, d \in Process : conn[c] = "writer" /\ conn[d] = "writer" => c = d
  /\ \A r \in Run : unsaved[r] # {} => conn[r] = "writer"

\* A run that is over has let go of its connection.
OverReleased == \A r \in Run : pc[r] \in Over => unsaved[r] = {} /\ conn[r] = "auto"

\* The inductive invariant behind LockDiscipline.
LockInv == ConnInv /\ OverReleased

\* No step of r touches the transaction of a run that has none.
LeavesOthers(r) ==
  \A s \in Run \ {r} : (conn[s] = "auto" => conn'[s] = "auto") /\ unsaved'[s] = unsaved[s]

\* A run is a process.
LEMMA RunIsProcess == ASSUME NEW r \in Run PROVE r \in Process
BY RunAssumption

\* A commit ends the transaction of r and makes snapshots stale, no more.
LEMMA StoreKeeps ==
  ASSUME ConnInv, NEW r \in Run, Store(r)
  PROVE  ConnInv' /\ LeavesOthers(r) /\ conn'[r] = "auto" /\ unsaved'[r] = {}
BY RunIsProcess DEF ConnInv, Store, WriteCommit, AfterCommit, LeavesOthers, ConnState

\* The end of a batch: the same when there was something to commit.
LEMMA CommitKeeps ==
  ASSUME ConnInv, NEW r \in Run, Commit(r), unsaved' = [unsaved EXCEPT ![r] = {}]
  PROVE  ConnInv' /\ LeavesOthers(r)
<1>1. CASE conn[r] = "writer"
  BY <1>1, RunIsProcess DEF ConnInv, Commit, AfterCommit, LeavesOthers, ConnState
<1>2. CASE conn[r] # "writer"
  BY <1>2, RunIsProcess DEF ConnInv, Commit, LeavesOthers, ConnState
<1> QED BY <1>1, <1>2

\* An inserted row is in a transaction that holds the lock.
LEMMA WriteKeeps ==
  ASSUME ConnInv, NEW c \in Process, Write(c),
         \A r \in Run \ {c} : unsaved'[r] = unsaved[r],
         unsaved' \in [Run -> SUBSET Event]
  PROVE  ConnInv' /\ \A r \in Run \ {c} : conn'[r] = conn[r]
BY RunAssumption DEF ConnInv, Write, CanWrite, Busy, ConnState

\* A process that ends, or whose transaction SQLite rolls back.
LEMMA CloseKeeps ==
  ASSUME ConnInv, NEW r \in Run, Close(r), unsaved' = [unsaved EXCEPT ![r] = {}]
  PROVE  ConnInv' /\ LeavesOthers(r) /\ conn'[r] = "auto" /\ unsaved'[r] = {}
BY RunIsProcess DEF ConnInv, Close, LeavesOthers, ConnState

\* A run locked out holds nothing: what it inserted before would be its lock.
LEMMA LockedOutKeeps ==
  ASSUME ConnInv, NEW r \in Run, LockedOut(r), UNCHANGED unsaved
  PROVE  ConnInv' /\ LeavesOthers(r)
BY RunIsProcess DEF ConnInv, LockedOut, CanWrite, Busy, LeavesOthers, ConnState

\* A failed statement, whichever way it fails.
LEMMA StorageErrorKeeps ==
  ASSUME ConnInv, NEW r \in Run, StorageError(r)
  PROVE  ConnInv' /\ LeavesOthers(r)
<1>1. CASE LockedOut(r) /\ UNCHANGED unsaved
  BY <1>1, LockedOutKeeps
<1>2. CASE Write(r) /\ UNCHANGED unsaved
  BY <1>2, WriteKeeps, RunIsProcess DEF LeavesOthers, ConnInv
<1>3. CASE Close(r) /\ unsaved' = [unsaved EXCEPT ![r] = {}]
  BY <1>3, CloseKeeps
<1> QED BY <1>1, <1>2, <1>3 DEF StorageError

\* A read pins a snapshot in a transaction that has none.
LEMMA ReadKeeps ==
  ASSUME ConnInv, NEW r \in Run, Read(r), UNCHANGED unsaved
  PROVE  ConnInv' /\ LeavesOthers(r)
BY RunIsProcess DEF ConnInv, Read, LeavesOthers, ConnState

\* What a step of run r does to the transactions, if nothing else happens.
Disciplined(r) ==
  /\ ConnInv'
  /\ LeavesOthers(r)
  /\ \A s \in Run \ {r} : pc'[s] = pc[s]
  /\ pc'[r] \in Over => unsaved'[r] = {} /\ conn'[r] = "auto"

\* Such a step keeps the inductive invariant.
LEMMA DisciplinedKeepsLockInv ==
  ASSUME LockInv, NEW r \in Run, Disciplined(r)
  PROVE  LockInv'
BY DEF LockInv, OverReleased, Disciplined, LeavesOthers, ConnInv

\* A step of r that leaves connections alone and does not end the run.
LEMMA QuietDisciplined ==
  ASSUME LockInv, NEW r \in Run, UNCHANGED <<conn, unsaved>>,
         \A s \in Run \ {r} : pc'[s] = pc[s], pc'[r] \notin Over
  PROVE  Disciplined(r)
BY DEF LockInv, ConnInv, Disciplined, LeavesOthers

\* A phase is assigned for r alone.
LEMMA GotoPhase ==
  ASSUME pc \in [Run -> Phase], NEW r \in Run, NEW phase, Goto(r, phase)
  PROVE  pc'[r] = phase /\ \A s \in Run \ {r} : pc'[s] = pc[s]
BY DEF Goto

\* Raising ends the run with its connection closed.
LEMMA RaiseDisciplined ==
  ASSUME LockInv, pc \in [Run -> Phase], NEW r \in Run, Raise(r)
  PROVE  Disciplined(r)
BY CloseKeeps, GotoPhase DEF LockInv, Raise, Disciplined

\* Every step of a run is disciplined.
LEMMA StepDisciplined ==
  ASSUME LockInv, pc \in [Run -> Phase], NEW r \in Run, Step(r)
  PROVE  Disciplined(r)
<1> USE DEF Over
<1>0. ConnInv
  BY DEF LockInv
<1>1. CASE CheckNetwork(r)
  <2>1. CASE Store(r) /\ (Goto(r, "start") \/ Goto(r, "refused"))
    BY <2>1, <1>0, StoreKeeps, GotoPhase DEF Disciplined
  <2>2. CASE Raise(r)
    BY <2>2, RaiseDisciplined
  <2> QED BY <1>1, <2>1, <2>2 DEF CheckNetwork, Judged
<1>2. CASE StartRun(r)
  <2>1. CASE Store(r) /\ Goto(r, "configure")
    BY <2>1, <1>0, StoreKeeps, GotoPhase DEF Disciplined
  <2>2. CASE Raise(r)
    BY <2>2, RaiseDisciplined
  <2> QED BY <1>2, <2>1, <2>2 DEF StartRun
<1>3. CASE Configure(r)
  <2>1. CASE Goto(r, "adapter") /\ UNCHANGED <<conn, unsaved>>
    BY <2>1, GotoPhase, QuietDisciplined
  <2>2. CASE Raise(r)
    BY <2>2, RaiseDisciplined
  <2> QED BY <1>3, <2>1, <2>2 DEF Configure
<1>4. CASE LoadPools(r)
  <2>1. UNCHANGED unsaved
    BY <1>4 DEF LoadPools
  <2>2. CASE Read(r) /\ (UNCHANGED pc \/ Goto(r, "states"))
    <3>1. \A s \in Run \ {r} : pc'[s] = pc[s]
      BY <2>2, GotoPhase
    <3>2. pc'[r] \notin Over
      BY <1>4, <2>2, GotoPhase DEF LoadPools
    <3> QED BY <1>0, <2>1, <2>2, <3>1, <3>2, ReadKeeps DEF Disciplined
  <2>3. CASE Goto(r, "complete") /\ UNCHANGED conn
    BY <2>1, <2>3, GotoPhase, QuietDisciplined
  <2> QED BY <1>4, <2>2, <2>3 DEF LoadPools, Abort
<1>5. CASE AdaptersDone(r)
  BY <1>5, GotoPhase, QuietDisciplined DEF AdaptersDone
<1>6. ASSUME NEW p \in Pool, CollectState(r, p)
      PROVE  Disciplined(r)
  <2>1. CASE UNCHANGED <<conn, unsaved, pc>>
    BY <1>6, <2>1, QuietDisciplined DEF CollectState
  <2>2. CASE Store(r) /\ UNCHANGED pc
    BY <1>0, <1>6, <2>2, StoreKeeps DEF CollectState, Disciplined
  <2>3. CASE StorageError(r) /\ Abort(r)
    BY <1>0, <2>3, StorageErrorKeeps, GotoPhase DEF Disciplined, Abort
  <2> QED BY <1>6, <2>1, <2>2, <2>3 DEF CollectState
<1>7. CASE StatesDone(r)
  BY <1>7, GotoPhase, QuietDisciplined DEF StatesDone, ToEvents
<1>8. ASSUME NEW p \in Pool, Analyze(r, p)
      PROVE  Disciplined(r)
  <2>1. UNCHANGED <<conn, unsaved>>
    BY <1>8 DEF Analyze
  <2>2. CASE Goto(r, "observe")
    BY <2>1, <2>2, GotoPhase, QuietDisciplined
  <2>3. CASE UNCHANGED pc
    BY <1>8, <2>1, <2>3, QuietDisciplined DEF Analyze
  <2> QED BY <1>8, <2>2, <2>3 DEF Analyze
<1>9. ASSUME NEW c \in Case, Observe(r, c)
      PROVE  Disciplined(r)
  <2>1. UNCHANGED pc /\ pc[r] = "observe"
    BY <1>9 DEF Observe
  <2>2. CASE UNCHANGED <<conn, unsaved>>
    BY <2>1, <2>2, QuietDisciplined
  <2>3. CASE Store(r)
    BY <1>0, <2>1, <2>3, StoreKeeps DEF Disciplined
  <2>4. CASE StorageError(r)
    BY <1>0, <2>1, <2>4, StorageErrorKeeps DEF Disciplined
  <2> QED BY <1>9, <2>2, <2>3, <2>4 DEF Observe
<1>10. CASE PoolObserved(r)
  BY <1>10, GotoPhase, QuietDisciplined DEF PoolObserved
<1>11. CASE ExecutionDone(r)
  BY <1>11, GotoPhase, QuietDisciplined DEF ExecutionDone, ToEvents
<1>12. ASSUME NEW p \in Pool, NextPool(r, p)
       PROVE  Disciplined(r)
  BY <1>12, GotoPhase, QuietDisciplined DEF NextPool
<1>13. CASE EventsDone(r)
  BY <1>13, GotoPhase, QuietDisciplined DEF EventsDone
<1>14. ASSUME NEW kind \in Kind, FetchEvents(r, kind)
       PROVE  Disciplined(r)
  BY <1>14, GotoPhase, QuietDisciplined DEF FetchEvents, InsertPhase, AfterKind, Kind
<1>15. ASSUME NEW kind \in Kind, NEW e \in Event, InsertEvent(r, kind, e)
       PROVE  Disciplined(r)
  <2>1. CASE /\ Write(r) /\ UNCHANGED pc
             /\ unsaved' = [unsaved EXCEPT ![r] = IF owner[e] = NoRun THEN @ \cup {e} ELSE @]
    <3>1. unsaved' \in [Run -> SUBSET Event] /\ \A s \in Run \ {r} : unsaved'[s] = unsaved[s]
      BY <1>0, <2>1 DEF ConnInv
    <3>2. ConnInv' /\ LeavesOthers(r)
      BY <1>0, <2>1, <3>1, WriteKeeps, RunIsProcess DEF LeavesOthers
    <3> QED BY <1>15, <2>1, <3>2 DEF Disciplined, InsertEvent, InsertPhase, Kind
  <2>2. CASE StorageError(r) /\ Goto(r, AfterKind(kind))
    BY <1>0, <2>2, StorageErrorKeeps, GotoPhase DEF Disciplined, AfterKind, Kind
  <2> QED BY <1>15, <2>1, <2>2 DEF InsertEvent
<1>16. ASSUME NEW kind \in Kind, CommitEvents(r, kind)
       PROVE  Disciplined(r)
  <2>1. ConnInv' /\ LeavesOthers(r)
    BY <1>0, <1>16, CommitKeeps DEF CommitEvents
  <2>2. Goto(r, AfterKind(kind))
    BY <1>16 DEF CommitEvents
  <2> QED BY <2>1, <2>2, GotoPhase DEF Disciplined, AfterKind, Kind
<1>17. CASE CompleteRun(r)
  <2>1. CASE Store(r) /\ Goto(r, "returned")
    BY <2>1, <1>0, StoreKeeps, GotoPhase DEF Disciplined
  <2>2. CASE Raise(r)
    BY <2>2, RaiseDisciplined
  <2> QED BY <1>17, <2>1, <2>2 DEF CompleteRun
<1> QED
  BY <1>1, <1>2, <1>3, <1>4, <1>5, <1>6, <1>7, <1>8, <1>9, <1>10, <1>11, <1>12,
     <1>13, <1>14, <1>15, <1>16, <1>17 DEF Step

-----------------------------------------------------------------------------
(* Types *)

\* The tables.
DbTyped ==
  /\ row \in [Run -> [status : Status, observations : Nat, errors : BOOLEAN]]
  /\ stateRows \subseteq Run \X Pool
  /\ obsRows \subseteq Run \X Pool \X Case \X BOOLEAN
  /\ owner \in [Event -> Run \cup {NoRun}]

\* The variables of run_collection and of what it calls: where it is, what its
\* loops have left, and what it is going to return.
PlaceTyped ==
  /\ pc \in [Run -> Phase]
  /\ adapter \in [Run -> 1..Adapters + 1]
  /\ pool \in [Run -> Pool \cup {NoPool}]
LoopTyped ==
  /\ left \in [Run -> SUBSET Pool] /\ read \in [Run -> SUBSET Pool]
  /\ todo \in [Run -> SUBSET (Case \cup Event)]
ResultTyped ==
  /\ result \in [Run -> [states : Nat, executions : Nat, errors : BOOLEAN, failed : BOOLEAN]]
  /\ gap \in [Run -> BOOLEAN]

\* Inside the loops there is an adapter to work for, and a pool to work on.
AtPool == {"observe", "fetch_swap", "insert_swap", "fetch_liquidity", "insert_liquidity"}
AtAdapter == AtPool \cup {"states", "execution", "events"}
Placed ==
  \A r \in Run :
    /\ pc[r] \in AtAdapter => adapter[r] <= Adapters
    /\ pc[r] \in AtPool => pool[r] \in Pool

\* The inductive invariant: types hold only where the loops are, and the
\* discipline of the lock only for well-typed connections.
Typed == DbTyped /\ PlaceTyped /\ LoopTyped /\ ResultTyped /\ Placed
IInv == Typed /\ LockInv

\* The state pass counts a finite number of pools.
LEMMA ReadCounted ==
  ASSUME LoopTyped, NEW r \in Run
  PROVE  Cardinality(read[r]) \in Nat
BY RunAssumption, FS_Subset, FS_CardinalityType DEF LoopTyped

\* A commit leaves every event with a run, or with none.
LEMMA SavedTyped ==
  ASSUME DbTyped, NEW r \in Run
  PROVE  Saved(r) \in [Event -> Run \cup {NoRun}]
BY DEF DbTyped, Saved

\* The pools and events of an adapter at work are pools and events.
LEMMA PoolsTyped ==
  ASSUME PlaceTyped, Placed, NEW r \in Run, pc[r] \in AtAdapter
  PROVE  PoolsOf[adapter[r]] \in SUBSET Pool
BY RunAssumption DEF PlaceTyped, Placed

\* Counting, and recording the failure, leaves a result.
LEMMA CountTyped ==
  ASSUME ResultTyped, NEW r \in Run, NEW states \in Nat, NEW executions \in Nat,
         NEW error \in BOOLEAN, Count(r, states, executions, error), UNCHANGED gap
  PROVE  ResultTyped'
BY DEF ResultTyped, Count

LEMMA ErrorTyped ==
  ASSUME ResultTyped, NEW r \in Run, AddError(r) \/ Abort(r), UNCHANGED gap
  PROVE  ResultTyped'
<1>1. CASE AddError(r)
  BY <1>1, CountTyped DEF AddError
<1>2. CASE Abort(r)
  BY <1>2 DEF Abort, ResultTyped
<1> QED BY <1>1, <1>2

\* Every step of a run keeps the types and the place.
LEMMA StepTyped ==
  ASSUME IInv, NEW r \in Run, Step(r)
  PROVE  Typed'
<1> USE DEF AtPool, AtAdapter
<1>0. DbTyped /\ PlaceTyped /\ LoopTyped /\ ResultTyped /\ Placed /\ Adapters \in Nat
  BY RunAssumption DEF IInv, Typed
<1>1. CASE CheckNetwork(r)
  <2>1. DbTyped'
    BY <1>0, <1>1, SavedTyped DEF CheckNetwork, Store, DbTyped, db
  <2>2. PlaceTyped' /\ Placed'
    BY <1>0, <1>1 DEF CheckNetwork, Judged, Raise, Goto, local, PlaceTyped, Placed, Phase
  <2>3. LoopTyped'
    BY <1>0, <1>1 DEF CheckNetwork, local, LoopTyped
  <2>4. ResultTyped'
    BY <1>0, <1>1 DEF CheckNetwork, ResultTyped
  <2> QED BY <2>1, <2>2, <2>3, <2>4 DEF Typed
<1>2. CASE StartRun(r)
  <2>1. DbTyped'
    <3>1. owner' \in [Event -> Run \cup {NoRun}] /\ UNCHANGED <<stateRows, obsRows>>
      BY <1>0, <1>2, SavedTyped DEF StartRun, Store, DbTyped
    <3>2. row' = row \/ row' = [row EXCEPT ![r].status = "running"]
      BY <1>2 DEF StartRun
    <3>3. row' \in [Run -> [status : Status, observations : Nat, errors : BOOLEAN]]
      BY <1>0, <3>2 DEF DbTyped, Status
    <3> QED BY <1>0, <3>1, <3>3 DEF DbTyped
  <2>2. PlaceTyped' /\ Placed'
    BY <1>0, <1>2 DEF StartRun, Raise, Goto, local, PlaceTyped, Placed, Phase
  <2>3. LoopTyped'
    BY <1>0, <1>2 DEF StartRun, local, LoopTyped
  <2>4. ResultTyped'
    BY <1>0, <1>2 DEF StartRun, ResultTyped
  <2> QED BY <2>1, <2>2, <2>3, <2>4 DEF Typed
<1>3. CASE Configure(r)
  <2>1. DbTyped'
    BY <1>0, <1>3 DEF Configure, DbTyped, db
  <2>2. PlaceTyped' /\ Placed'
    BY <1>0, <1>3 DEF Configure, Raise, Goto, local, PlaceTyped, Placed, Phase
  <2>3. LoopTyped'
    BY <1>0, <1>3 DEF Configure, local, LoopTyped
  <2>4. ResultTyped'
    BY <1>0, <1>3 DEF Configure, ResultTyped
  <2> QED BY <2>1, <2>2, <2>3, <2>4 DEF Typed
<1>4. CASE LoadPools(r)
  <2>1. DbTyped'
    BY <1>0, <1>4 DEF LoadPools, DbTyped, db
  <2>2. PlaceTyped' /\ Placed'
    <3>1. adapter' \in [Run -> 1..Adapters + 1] /\ UNCHANGED pool
      BY <1>0, <1>4 DEF LoadPools, PlaceTyped
    <3>2. \E phase \in {"adapter", "states", "complete"} : Goto(r, phase)
      BY <1>0, <1>4 DEF LoadPools, Abort, Goto, PlaceTyped
    <3>3. Goto(r, "states") => adapter' = adapter
      BY <1>0, <1>4 DEF LoadPools, Abort, Goto, PlaceTyped
    <3>4. PlaceTyped'
      BY <1>0, <3>1, <3>2 DEF Goto, PlaceTyped, Phase
    <3> QED BY <1>0, <1>4, <3>1, <3>2, <3>3, <3>4 DEF LoadPools, Goto, PlaceTyped, Placed
  <2>3. LoopTyped'
    <3>1. PoolsOf[adapter[r]] \in SUBSET Pool
      BY <1>0, <1>4, RunAssumption DEF LoadPools, PlaceTyped
    <3> QED BY <1>0, <1>4, <3>1 DEF LoadPools, LoopTyped
  <2>4. ResultTyped'
    BY <1>0, <1>4, ErrorTyped DEF LoadPools, ResultTyped
  <2> QED BY <2>1, <2>2, <2>3, <2>4 DEF Typed
<1>5. CASE AdaptersDone(r)
  <2>1. DbTyped'
    BY <1>0, <1>5 DEF AdaptersDone, DbTyped, db
  <2>2. PlaceTyped' /\ Placed'
    BY <1>0, <1>5 DEF AdaptersDone, Goto, local, PlaceTyped, Placed, Phase
  <2>3. LoopTyped'
    BY <1>0, <1>5 DEF AdaptersDone, local, LoopTyped
  <2>4. ResultTyped'
    BY <1>0, <1>5 DEF AdaptersDone, ResultTyped
  <2> QED BY <2>1, <2>2, <2>3, <2>4 DEF Typed
<1>6. ASSUME NEW p \in Pool, CollectState(r, p)
      PROVE  Typed'
  <2>1. DbTyped'
    BY <1>0, <1>6, SavedTyped DEF CollectState, StateRow, Store, StorageError, DbTyped, db
  <2>2. PlaceTyped' /\ Placed'
    BY <1>0, <1>6 DEF CollectState, Abort, Goto, PlaceTyped, Placed, Phase
  <2>3. LoopTyped'
    BY <1>0, <1>6 DEF CollectState, LoopTyped
  <2>4. ResultTyped'
    BY <1>0, <1>6, ErrorTyped DEF CollectState, ResultTyped
  <2> QED BY <2>1, <2>2, <2>3, <2>4 DEF Typed
<1>7. CASE StatesDone(r)
  <2>1. DbTyped'
    BY <1>0, <1>7 DEF StatesDone, DbTyped, db
  <2>2. PlaceTyped' /\ Placed'
    BY <1>0, <1>7 DEF StatesDone, ToEvents, Goto, PlaceTyped, Placed, Phase
  <2>3. LoopTyped'
    BY <1>0, <1>7, PoolsTyped DEF StatesDone, ToEvents, LoopTyped
  <2>4. ResultTyped'
    BY <1>0, <1>7, CountTyped, ReadCounted DEF StatesDone
  <2> QED BY <2>1, <2>2, <2>3, <2>4 DEF Typed
<1>8. ASSUME NEW p \in Pool, Analyze(r, p)
      PROVE  Typed'
  <2>1. DbTyped'
    BY <1>0, <1>8 DEF Analyze, DbTyped, db
  <2>2. PlaceTyped' /\ Placed'
    BY <1>0, <1>8 DEF Analyze, Goto, PlaceTyped, Placed, Phase
  <2>3. LoopTyped'
    BY <1>0, <1>8 DEF Analyze, LoopTyped
  <2>4. ResultTyped'
    BY <1>0, <1>8, ErrorTyped DEF Analyze, ResultTyped
  <2> QED BY <2>1, <2>2, <2>3, <2>4 DEF Typed
<1>9. ASSUME NEW c \in Case, Observe(r, c)
      PROVE  Typed'
  <2>1. DbTyped'
    <3>1. \/ UNCHANGED db
          \/ /\ owner' = Saved(r) /\ UNCHANGED <<row, stateRows>>
             /\ \E success \in BOOLEAN : obsRows' = obsRows \cup {<<r, pool[r], c, success>>}
      BY <1>9 DEF Observe, ExecutionRow, Store, StorageError, db
    <3>2. pool[r] \in Pool
      BY <1>0, <1>9 DEF Observe, Placed
    <3> QED BY <1>0, <3>1, <3>2, SavedTyped DEF DbTyped, db
  <2>2. PlaceTyped' /\ Placed'
    BY <1>0, <1>9 DEF Observe, Goto, PlaceTyped, Placed, Phase
  <2>3. LoopTyped'
    BY <1>0, <1>9 DEF Observe, LoopTyped
  <2>4. ResultTyped'
    <3>1. AddError(r) \/ \E failure \in BOOLEAN : Count(r, 0, 1, failure)
      BY <1>9 DEF Observe
    <3>2. UNCHANGED gap
      BY <1>9 DEF Observe
    <3> QED BY <1>0, <3>1, <3>2, CountTyped, ErrorTyped
  <2> QED BY <2>1, <2>2, <2>3, <2>4 DEF Typed
<1>10. CASE PoolObserved(r)
  <2>1. DbTyped'
    BY <1>0, <1>10 DEF PoolObserved, DbTyped, db
  <2>2. PlaceTyped' /\ Placed'
    BY <1>0, <1>10 DEF PoolObserved, Goto, PlaceTyped, Placed, Phase
  <2>3. LoopTyped'
    BY <1>0, <1>10 DEF PoolObserved, LoopTyped
  <2>4. ResultTyped'
    BY <1>0, <1>10 DEF PoolObserved, ResultTyped
  <2> QED BY <2>1, <2>2, <2>3, <2>4 DEF Typed
<1>11. CASE ExecutionDone(r)
  <2>1. DbTyped'
    BY <1>0, <1>11 DEF ExecutionDone, DbTyped, db
  <2>2. PlaceTyped' /\ Placed'
    BY <1>0, <1>11 DEF ExecutionDone, ToEvents, Goto, PlaceTyped, Placed, Phase
  <2>3. LoopTyped'
    BY <1>0, <1>11, PoolsTyped DEF ExecutionDone, ToEvents, LoopTyped
  <2>4. ResultTyped'
    BY <1>0, <1>11 DEF ExecutionDone, ResultTyped
  <2> QED BY <2>1, <2>2, <2>3, <2>4 DEF Typed
<1>12. ASSUME NEW p \in Pool, NextPool(r, p)
       PROVE  Typed'
  <2>1. DbTyped'
    BY <1>0, <1>12 DEF NextPool, DbTyped, db
  <2>2. PlaceTyped' /\ Placed'
    BY <1>0, <1>12 DEF NextPool, Goto, PlaceTyped, Placed, Phase
  <2>3. LoopTyped'
    BY <1>0, <1>12 DEF NextPool, LoopTyped
  <2>4. ResultTyped'
    BY <1>0, <1>12 DEF NextPool, ResultTyped
  <2> QED BY <2>1, <2>2, <2>3, <2>4 DEF Typed
<1>13. CASE EventsDone(r)
  <2>1. DbTyped'
    BY <1>0, <1>13 DEF EventsDone, DbTyped, db
  <2>2. PlaceTyped' /\ Placed'
    BY <1>0, <1>13 DEF EventsDone, Goto, PlaceTyped, Placed, Phase
  <2>3. LoopTyped'
    BY <1>0, <1>13 DEF EventsDone, LoopTyped
  <2>4. ResultTyped'
    BY <1>0, <1>13 DEF EventsDone, ResultTyped
  <2> QED BY <2>1, <2>2, <2>3, <2>4 DEF Typed
<1>14. ASSUME NEW kind \in Kind, FetchEvents(r, kind)
       PROVE  Typed'
  <2>1. DbTyped'
    BY <1>0, <1>14 DEF FetchEvents, DbTyped, db
  <2>2. PlaceTyped' /\ Placed'
    BY <1>0, <1>14, RunAssumption DEF FetchEvents, FetchPhase, InsertPhase, AfterKind, Kind, Goto, PlaceTyped, Placed, Phase
  <2>3. LoopTyped'
    <3>1. pool[r] \in Pool
      BY <1>0, <1>14 DEF FetchEvents, FetchPhase, Kind, Placed
    <3>2. EventsOf[pool[r]][kind] \in SUBSET Event
      BY <3>1, RunAssumption
    <3> QED BY <1>0, <1>14, <3>2 DEF FetchEvents, Found, LoopTyped
  <2>4. ResultTyped'
    BY <1>0, <1>14, ErrorTyped DEF FetchEvents, ResultTyped
  <2> QED BY <2>1, <2>2, <2>3, <2>4 DEF Typed
<1>15. ASSUME NEW kind \in Kind, NEW e \in Event, InsertEvent(r, kind, e)
       PROVE  Typed'
  <2>1. DbTyped'
    BY <1>0, <1>15 DEF InsertEvent, StorageError, DbTyped, db
  <2>2. PlaceTyped' /\ Placed'
    BY <1>0, <1>15 DEF InsertEvent, InsertPhase, AfterKind, Kind, Goto, PlaceTyped, Placed, Phase
  <2>3. LoopTyped'
    BY <1>0, <1>15 DEF InsertEvent, LoopTyped
  <2>4. ResultTyped'
    BY <1>0, <1>15, ErrorTyped DEF InsertEvent, ResultTyped
  <2> QED BY <2>1, <2>2, <2>3, <2>4 DEF Typed
<1>16. ASSUME NEW kind \in Kind, CommitEvents(r, kind)
       PROVE  Typed'
  <2>1. DbTyped'
    BY <1>0, <1>16, SavedTyped DEF CommitEvents, DbTyped, db
  <2>2. PlaceTyped' /\ Placed'
    BY <1>0, <1>16 DEF CommitEvents, InsertPhase, AfterKind, Kind, Goto, local, PlaceTyped, Placed, Phase
  <2>3. LoopTyped'
    BY <1>0, <1>16 DEF CommitEvents, local, LoopTyped
  <2>4. ResultTyped'
    BY <1>0, <1>16 DEF CommitEvents, ResultTyped
  <2> QED BY <2>1, <2>2, <2>3, <2>4 DEF Typed
<1>17. CASE CompleteRun(r)
  <2>1. DbTyped'
    <3>1. owner' \in [Event -> Run \cup {NoRun}] /\ UNCHANGED <<stateRows, obsRows>>
      BY <1>0, <1>17, SavedTyped DEF CompleteRun, Store, DbTyped
    <3>2. /\ FinalStatus(r) \in Status
          /\ result[r].states + result[r].executions \in Nat
          /\ result[r].errors \in BOOLEAN
      BY <1>0 DEF FinalStatus, Status, ResultTyped
    <3>3. row' \in [Run -> [status : Status, observations : Nat, errors : BOOLEAN]]
      BY <1>0, <1>17, <3>2 DEF CompleteRun, DbTyped
    <3> QED BY <1>0, <3>1, <3>3 DEF DbTyped
  <2>2. PlaceTyped' /\ Placed'
    BY <1>0, <1>17 DEF CompleteRun, Raise, Goto, local, PlaceTyped, Placed, Phase
  <2>3. LoopTyped'
    BY <1>0, <1>17 DEF CompleteRun, local, LoopTyped
  <2>4. ResultTyped'
    BY <1>0, <1>17 DEF CompleteRun, ResultTyped
  <2> QED BY <2>1, <2>2, <2>3, <2>4 DEF Typed
<1> QED
  BY <1>1, <1>2, <1>3, <1>4, <1>5, <1>6, <1>7, <1>8, <1>9, <1>10, <1>11, <1>12,
     <1>13, <1>14, <1>15, <1>16, <1>17 DEF Step

-----------------------------------------------------------------------------
(* The rest of Next *)

\* A run that steps, or dies, keeps the inductive invariant.
LEMMA StepInv ==
  ASSUME IInv, NEW r \in Run, Step(r) \/ Crash(r)
  PROVE  IInv'
<1>0. LockInv /\ ConnInv /\ pc \in [Run -> Phase]
  BY DEF IInv, LockInv, Typed, PlaceTyped
<1>1. CASE Step(r)
  <2>1. Typed'
    BY <1>1, StepTyped
  <2>2. LockInv'
    BY <1>0, <1>1, StepDisciplined, DisciplinedKeepsLockInv
  <2> QED BY <2>1, <2>2 DEF IInv
<1>2. CASE Crash(r)
  <2>1. Typed'
    BY <1>2 DEF Crash, Goto, db, local, Phase, AtPool, AtAdapter,
       IInv, Typed, DbTyped, PlaceTyped, LoopTyped, ResultTyped, Placed
  <2>2. Disciplined(r)
    BY <1>0, <1>2, CloseKeeps, GotoPhase DEF Crash, Disciplined
  <2> QED BY <1>0, <2>1, <2>2, DisciplinedKeepsLockInv DEF IInv
<1> QED BY <1>1, <1>2

\* The discovery process touches no transaction but its own.
LEMMA DiscoveryInv ==
  ASSUME IInv, DiscoveryWrites \/ DiscoveryCommits \/ DiscoveryEnds
  PROVE  IInv'
<1>0. ConnInv /\ OverReleased /\ Discovery \in Process /\ Run \subseteq Process \ {Discovery}
  BY RunAssumption DEF IInv, LockInv
<1>1. UNCHANGED <<db, unsaved, pc, local, result, gap>>
  BY DEF DiscoveryWrites, DiscoveryCommits, DiscoveryEnds
<1>2. Typed'
  BY <1>1 DEF db, local, IInv, Typed, DbTyped, PlaceTyped, LoopTyped, ResultTyped, Placed
<1>3. LockInv'
  <2>1. CASE DiscoveryWrites
    BY <1>0, <1>1, <2>1, WriteKeeps DEF DiscoveryWrites, ConnInv, LockInv, OverReleased
  <2>2. CASE DiscoveryCommits
    BY <1>0, <1>1, <2>2
    DEF DiscoveryCommits, Commit, AfterCommit, ConnInv, LockInv, OverReleased, ConnState
  <2>3. CASE DiscoveryEnds
    BY <1>0, <1>1, <2>3 DEF DiscoveryEnds, Close, ConnInv, LockInv, OverReleased, ConnState
  <2> QED BY <2>1, <2>2, <2>3
<1> QED BY <1>2, <1>3 DEF IInv

\* Every step of the processes keeps it.
LEMMA NextInv ==
  ASSUME IInv, [Next]_vars
  PROVE  IInv'
<1>1. CASE UNCHANGED vars
  BY <1>1 DEF vars, db, local, IInv, Typed, DbTyped, PlaceTyped, LoopTyped, ResultTyped,
     Placed, LockInv, ConnInv, OverReleased
<1>2. CASE Next
  BY <1>2, StepInv, DiscoveryInv DEF Next
<1> QED BY <1>1, <1>2

\* It holds at the start.
LEMMA InitInv == Init => IInv
<1> SUFFICES ASSUME Init PROVE IInv
  OBVIOUS
<1>1. Typed
  BY RunAssumption DEF Init, Typed, DbTyped, PlaceTyped, LoopTyped, ResultTyped, Placed,
     Status, Phase, AtPool, AtAdapter
<1>2. LockInv
  BY RunAssumption DEF Init, LockInv, ConnInv, OverReleased, ConnState, Over
<1> QED BY <1>1, <1>2 DEF IInv

\* The inductive invariant holds of every behaviour of the processes together:
\* the steps of pipeline.py, their failures, the crashes, and discovery.
THEOREM Invariance == Spec => []IInv
<1>1. Init => IInv
  BY InitInv
<1>2. IInv /\ [Next]_vars => IInv'
  BY NextInv
<1> QED BY <1>1, <1>2, PTL DEF Spec

\* run_collection, its collectors and the repositories keep every table and
\* every counter well typed, whatever fails and whoever else writes.
THEOREM TypeCorrect == Spec => []TypeOK
<1>1. IInv => TypeOK
  BY DEF IInv, Typed, DbTyped, PlaceTyped, LoopTyped, ResultTyped, LockInv, ConnInv, TypeOK
<1> QED BY <1>1, Invariance, PTL

\* Two processes never hold the write lock at once; rows inserted and not yet
\* committed are in the transaction of the run that holds it; and a run that
\* returned, raised or died has let go of both.
THEOREM OneWriter == Spec => []LockDiscipline
<1>1. IInv => LockDiscipline
  BY DEF IInv, LockInv, ConnInv, OverReleased, LockDiscipline
<1> QED BY <1>1, Invariance, PTL
-----------------------------------------------------------------------------
(* What a run has stored, and what it counts of it *)

StatesOf(r) == {x \in stateRows : x[1] = r}
ObsOf(r)    == {x \in obsRows : x[1] = r}

Early      == {"check", "start", "configure", "adapter"}
EventPhase == {"events", "fetch_swap", "insert_swap", "fetch_liquidity", "insert_liquidity"}

\* The loop over the adapters is not over, and has adapter a before it.
InLoop(r)    == pc[r] \in Early \cup AtAdapter
ToCome(r, a) == a > adapter[r] \/ (a = adapter[r] /\ pc[r] \in Early)

\* The counters of the result, next to the rows: those of the states wait for
\* the end of the adapter's pass, and are lost with it.
Counts(r) ==
  /\ IsFiniteSet(StatesOf(r)) /\ IsFiniteSet(ObsOf(r))
  /\ result[r].executions = Cardinality(ObsOf(r))
  /\ result[r].states <= Cardinality(StatesOf(r))
  /\ pc[r] = "states" => result[r].states + Cardinality(read[r]) = Cardinality(StatesOf(r))
  /\ pc[r] \notin Over \cup {"states"} /\ ~result[r].failed
       => result[r].states = Cardinality(StatesOf(r))

\* Every insert is of a row that was not there.
Fresh(r) ==
  LET NoObs(p) == \A c \in Case, b \in BOOLEAN : <<r, p, c, b>> \notin ObsOf(r) IN
  /\ InLoop(r) => \A a \in 1..Adapters : ToCome(r, a) =>
       \A p \in PoolsOf[a] : <<r, p>> \notin StatesOf(r) /\ NoObs(p)
  /\ pc[r] = "states" =>
       /\ \A p \in left[r] : <<r, p>> \notin StatesOf(r)
       /\ \A p \in PoolsOf[adapter[r]] : NoObs(p)
  /\ pc[r] \in {"execution", "observe"} => \A p \in left[r] : NoObs(p)
  /\ pc[r] = "observe" => \A c \in todo[r], b \in BOOLEAN : <<r, pool[r], c, b>> \notin ObsOf(r)

\* The loops are over pools of the adapter at work.
Loops(r) ==
  /\ pc[r] \in {"states", "execution", "observe"} => left[r] \subseteq PoolsOf[adapter[r]]
  /\ pc[r] = "states" =>
       read[r] \subseteq PoolsOf[adapter[r]] /\ \A p \in read[r] : <<r, p>> \in StatesOf(r)
  /\ pc[r] = "observe" => pool[r] \in PoolsOf[adapter[r]] \ left[r]

AllCases(r, p) == \A c \in Case : <<r, p, c, TRUE>> \in ObsOf(r)
Clean(r, p)    == <<r, p>> \in StatesOf(r) /\ (WithExecution => AllCases(r, p))

\* Without an error so far, nothing is missing of the pools visited so far.
CleanSoFar(r) ==
  ~result[r].errors /\ ~result[r].failed =>
    /\ InLoop(r) => \A a \in 1..Adapters : a < adapter[r] => \A p \in PoolsOf[a] : Clean(r, p)
    /\ pc[r] \in {"execution", "observe"} =>
         \A p \in PoolsOf[adapter[r]] :
           /\ <<r, p>> \in StatesOf(r)
           /\ p \notin left[r] => (pc[r] = "observe" /\ p = pool[r]) \/ AllCases(r, p)
    /\ pc[r] = "observe" => \A c \in Case \ todo[r] : <<r, pool[r], c, TRUE>> \in ObsOf(r)
    /\ pc[r] \in EventPhase => \A p \in PoolsOf[adapter[r]] : Clean(r, p)
    /\ pc[r] = "complete" => \A a \in 1..Adapters : \A p \in PoolsOf[a] : Clean(r, p)

\* The record of the run.
Recorded(r) ==
  LET rows == Cardinality(StatesOf(r)) + Cardinality(ObsOf(r)) IN
  /\ pc[r] \in {"check", "start"} => row[r].status = "none"
  /\ pc[r] \notin {"check", "start"} \cup Over => row[r].status = "running"
  /\ row[r].status = "none" => StatesOf(r) = {} /\ ObsOf(r) = {}
  /\ result[r].failed => pc[r] \in {"complete"} \cup Over
  /\ row[r].status \in Ended =>
       /\ row[r].observations = result[r].states + result[r].executions
       /\ row[r].observations <= rows
  /\ row[r].status \in Success => row[r].observations = rows
  /\ row[r].status = "completed" => \A a \in 1..Adapters : \A p \in PoolsOf[a] : Clean(r, p)

Account(r) == Counts(r) /\ Fresh(r) /\ Loops(r) /\ CleanSoFar(r) /\ Recorded(r)

AInv == \A r \in Run : Account(r)

\* Nothing that the account of s speaks of changes.
Stays(s) ==
  /\ row'[s] = row[s] /\ StatesOf(s)' = StatesOf(s) /\ ObsOf(s)' = ObsOf(s)
  /\ pc'[s] = pc[s] /\ adapter'[s] = adapter[s] /\ left'[s] = left[s] /\ read'[s] = read[s]
  /\ pool'[s] = pool[s] /\ todo'[s] = todo[s] /\ result'[s] = result[s]

LEMMA StaysAccount ==
  ASSUME NEW s \in Run, Account(s), Stays(s)
  PROVE  Account(s)'
<1>1. Counts(s)'
  BY DEF Account, Stays, Counts
<1>2. Fresh(s)'
  BY DEF Account, Stays, Fresh, InLoop, ToCome
<1>3. Loops(s)'
  BY DEF Account, Stays, Loops
<1>4. CleanSoFar(s)'
  BY DEF Account, Stays, CleanSoFar, InLoop, Clean, AllCases
<1>5. Recorded(s)'
  BY DEF Account, Stays, Recorded, Clean, AllCases
<1> QED BY <1>1, <1>2, <1>3, <1>4, <1>5 DEF Account

\* A step of r leaves the others alone.
LEMMA OthersStay ==
  ASSUME IInv, NEW r \in Run, Step(r) \/ Crash(r), NEW s \in Run \ {r}
  PROVE  Stays(s)
<1>0. /\ row \in [Run -> [status : Status, observations : Nat, errors : BOOLEAN]]
      /\ pc \in [Run -> Phase] /\ adapter \in [Run -> 1..Adapters + 1]
      /\ pool \in [Run -> Pool \cup {NoPool}]
      /\ left \in [Run -> SUBSET Pool] /\ read \in [Run -> SUBSET Pool]
      /\ todo \in [Run -> SUBSET (Case \cup Event)]
      /\ result \in [Run -> [states : Nat, executions : Nat, errors : BOOLEAN, failed : BOOLEAN]]
  BY DEF IInv, Typed, DbTyped, PlaceTyped, LoopTyped, ResultTyped
<1> USE <1>0
<1> USE DEF Stays, StatesOf, ObsOf, db, local
<1>1. CASE CheckNetwork(r) \/ Crash(r)
  BY <1>1 DEF CheckNetwork, Crash, Raise, Goto
<1>2. CASE StartRun(r)
  BY <1>2 DEF StartRun, Raise, Goto
<1>3. CASE Configure(r) \/ AdaptersDone(r)
  BY <1>3 DEF Configure, AdaptersDone, Raise, Goto
<1>4. CASE LoadPools(r)
  BY <1>4 DEF LoadPools, Abort, Goto
<1>5. ASSUME NEW p \in Pool, CollectState(r, p)
      PROVE  Stays(s)
  BY <1>5 DEF CollectState, StateRow, StorageError, Abort, Goto
<1>6. CASE StatesDone(r)
  BY <1>6 DEF StatesDone, ToEvents, Count, Goto
<1>7. ASSUME NEW p \in Pool, Analyze(r, p)
      PROVE  Stays(s)
  BY <1>7 DEF Analyze, AddError, Count, Goto
<1>8. ASSUME NEW c \in Case, Observe(r, c)
      PROVE  Stays(s)
  BY <1>8 DEF Observe, ExecutionRow, StorageError, AddError, Count
<1>9. CASE PoolObserved(r) \/ ExecutionDone(r) \/ EventsDone(r) \/ \E p \in Pool : NextPool(r, p)
  BY <1>9 DEF PoolObserved, ExecutionDone, EventsDone, NextPool, ToEvents, Goto
<1>10. ASSUME NEW kind \in Kind, FetchEvents(r, kind)
       PROVE  Stays(s)
  BY <1>10 DEF FetchEvents, AddError, Count, Goto
<1>11. ASSUME NEW kind \in Kind, NEW e \in Event, InsertEvent(r, kind, e)
       PROVE  Stays(s)
  BY <1>11 DEF InsertEvent, StorageError, AddError, Count, Goto
<1>12. ASSUME NEW kind \in Kind, CommitEvents(r, kind)
       PROVE  Stays(s)
  BY <1>12 DEF CommitEvents, Goto
<1>13. CASE CompleteRun(r)
  BY <1>13 DEF CompleteRun, Raise, Goto
<1> QED BY <1>1, <1>2, <1>3, <1>4, <1>5, <1>6, <1>7, <1>8, <1>9, <1>10, <1>11, <1>12, <1>13 DEF Step

\* A run that ends without its last commit keeps its account.
LEMMA EndedAccount ==
  ASSUME NEW r \in Run, Account(r), pc'[r] \in Over, row'[r] = row[r],
         StatesOf(r)' = StatesOf(r), ObsOf(r)' = ObsOf(r), result'[r] = result[r]
  PROVE  Account(r)'
<1> USE DEF Over, AtPool, AtAdapter, Early, EventPhase
<1>1. Counts(r)'
  BY DEF Account, Counts
<1>2. Fresh(r)' /\ Loops(r)'
  BY DEF Fresh, Loops, InLoop
<1>3. CleanSoFar(r)'
  BY DEF CleanSoFar, InLoop
<1>4. Recorded(r)'
  BY DEF Account, Recorded, Clean, AllCases
<1> QED BY <1>1, <1>2, <1>3, <1>4 DEF Account

\* A step inside the loops that stores no row, and forgets no pool.
Quiet(r) ==
  /\ row'[r] = row[r] /\ StatesOf(r)' = StatesOf(r) /\ ObsOf(r)' = ObsOf(r)
  /\ pc'[r] \notin Over
  /\ pc[r] \notin {"check", "start"} \cup Over /\ pc'[r] \notin {"check", "start"}
  /\ result'[r].states = result[r].states /\ result'[r].executions = result[r].executions
  /\ result'[r].failed = result[r].failed
  /\ result[r].errors => result'[r].errors

\* Its record stays, and its counts unless the pass over the states is left.
LEMMA QuietKeeps ==
  ASSUME NEW r \in Run, Account(r), Quiet(r)
  PROVE  /\ ~result[r].failed \/ pc'[r] = "complete" => Recorded(r)'
         /\ pc[r] # "states" /\ pc'[r] # "states" => Counts(r)'
<1>1. ~result[r].failed \/ pc'[r] = "complete" => Recorded(r)'
  BY DEF Account, Quiet, Recorded, Clean, AllCases
<1>2. pc[r] # "states" /\ pc'[r] # "states" => Counts(r)'
  BY DEF Account, Quiet, Counts, Over
<1> QED BY <1>1, <1>2

\* What the account of r needs of the types of its variables.
TypedAt(r) ==
  /\ row[r] \in [status : Status, observations : Nat, errors : BOOLEAN]
  /\ adapter[r] \in 1..Adapters + 1 /\ Adapters \in Nat
  /\ IsFiniteSet(read[r]) /\ Cardinality(read[r]) \in Nat
  /\ result[r] \in [states : Nat, executions : Nat, errors : BOOLEAN, failed : BOOLEAN]
  /\ IsFiniteSet(StatesOf(r)) /\ IsFiniteSet(ObsOf(r))
  /\ Cardinality(StatesOf(r)) \in Nat /\ Cardinality(ObsOf(r)) \in Nat

LEMMA TypesAt ==
  ASSUME IInv, NEW r \in Run, Account(r)
  PROVE  TypedAt(r)
<1>1. /\ row \in [Run -> [status : Status, observations : Nat, errors : BOOLEAN]]
      /\ adapter \in [Run -> 1..Adapters + 1] /\ read \in [Run -> SUBSET Pool]
      /\ result \in [Run -> [states : Nat, executions : Nat, errors : BOOLEAN, failed : BOOLEAN]]
  BY DEF IInv, Typed, DbTyped, PlaceTyped, LoopTyped, ResultTyped
<1>2. IsFiniteSet(read[r])
  BY <1>1, RunAssumption, FS_Subset
<1>3. IsFiniteSet(StatesOf(r)) /\ IsFiniteSet(ObsOf(r))
  BY DEF Account, Counts
<1> QED BY <1>1, <1>2, <1>3, RunAssumption, FS_CardinalityType DEF TypedAt

\* An assignment to r alone, in every variable of the account.
LEMMA Assigned ==
  ASSUME IInv, NEW r \in Run
  PROVE  /\ \A x : pc' = [pc EXCEPT ![r] = x] => pc'[r] = x
         /\ \A x : adapter' = [adapter EXCEPT ![r] = x] => adapter'[r] = x
         /\ \A x : left' = [left EXCEPT ![r] = x] => left'[r] = x
         /\ \A x : read' = [read EXCEPT ![r] = x] => read'[r] = x
         /\ \A x : pool' = [pool EXCEPT ![r] = x] => pool'[r] = x
         /\ \A x : todo' = [todo EXCEPT ![r] = x] => todo'[r] = x
         /\ \A x : row' = [row EXCEPT ![r] = x] => row'[r] = x
BY DEF IInv, Typed, DbTyped, PlaceTyped, LoopTyped

\* Counting adds to the result of r.
LEMMA CountedAt ==
  ASSUME IInv, NEW r \in Run, NEW states, NEW executions, NEW error,
         Count(r, states, executions, error)
  PROVE  /\ result'[r].states = result[r].states + states
         /\ result'[r].executions = result[r].executions + executions
         /\ result'[r].failed = result[r].failed
         /\ result'[r].errors = (result[r].errors \/ error)
BY DEF IInv, Typed, ResultTyped, Count

LEMMA ErrorAt ==
  ASSUME IInv, NEW r \in Run, AddError(r)
  PROVE  /\ result'[r].states = result[r].states /\ result'[r].executions = result[r].executions
         /\ result'[r].failed = result[r].failed /\ result'[r].errors
<1>1. result[r].states \in Nat /\ result[r].executions \in Nat
  BY DEF IInv, Typed, ResultTyped
<1>2. Count(r, 0, 0, TRUE)
  BY DEF AddError
<1>3. /\ result'[r].states = result[r].states + 0 /\ result'[r].executions = result[r].executions + 0
      /\ result'[r].failed = result[r].failed
      /\ result'[r].errors = (result[r].errors \/ TRUE)
  BY <1>2, CountedAt
<1>4. result'[r].errors
  BY <1>3, Zenon
<1> QED BY <1>1, <1>3, <1>4

\* The run is aborted: its counters may lag from now on.
LEMMA AbortAccount ==
  ASSUME IInv, NEW r \in Run, Account(r), Abort(r), pc[r] \notin {"check", "start"} \cup Over,
         row'[r] = row[r], StatesOf(r)' = StatesOf(r), ObsOf(r)' = ObsOf(r)
  PROVE  Account(r)'
<1>1. pc'[r] = "complete"
  BY Assigned DEF Abort, Goto
<1>2. /\ result'[r].states = result[r].states /\ result'[r].executions = result[r].executions
      /\ result'[r].failed
  BY DEF Abort, IInv, Typed, ResultTyped
<1>3. Counts(r)'
  BY <1>1, <1>2 DEF Account, Counts
<1>4. Fresh(r)' /\ Loops(r)'
  BY <1>1 DEF Fresh, Loops, InLoop, Early, AtAdapter, AtPool
<1>5. CleanSoFar(r)'
  BY <1>2 DEF CleanSoFar
<1>6. Recorded(r)'
  BY <1>1 DEF Account, Recorded, Over, Ended, Success
<1> QED BY <1>3, <1>4, <1>5, <1>6 DEF Account

\* The run has not come to its first or next adapter yet.
LEMMA EarlyAccount ==
  ASSUME IInv, NEW r \in Run, Account(r), Recorded(r)', pc[r] \in Early, pc'[r] \in Early,
         StatesOf(r)' = StatesOf(r), ObsOf(r)' = ObsOf(r), result'[r] = result[r],
         \/ adapter'[r] = adapter[r]
         \/ adapter'[r] = adapter[r] + 1 /\ PoolsOf[adapter[r]] = {}
  PROVE  Account(r)'
<1> USE DEF Early, AtPool, AtAdapter, EventPhase
<1>0. TypedAt(r)
  BY TypesAt
<1>1. Counts(r)'
  BY DEF Account, Counts, Over
<1>2. Fresh(r)'
  BY <1>0 DEF Account, Fresh, InLoop, ToCome, TypedAt
<1>3. Loops(r)'
  BY DEF Loops
<1>4. CleanSoFar(r)'
  <2>1. \A a \in 1..Adapters : a < adapter'[r] => a < adapter[r] \/ PoolsOf[a] = {}
    BY <1>0 DEF TypedAt
  <2> QED BY <2>1 DEF Account, CleanSoFar, InLoop, Clean, AllCases
<1> QED BY <1>1, <1>2, <1>3, <1>4 DEF Account

\* The run goes over to the events of the adapter, or goes on with them.
LEMMA EventsAccount ==
  ASSUME IInv, NEW r \in Run, Account(r), Quiet(r), Counts(r)', ~result[r].failed,
         pc[r] \in AtAdapter, pc'[r] \in EventPhase, adapter'[r] = adapter[r],
         ~result'[r].errors => \A p \in PoolsOf[adapter[r]] : Clean(r, p)
  PROVE  Account(r)'
<1> USE DEF Early, AtPool, AtAdapter, EventPhase
<1>1. Fresh(r)'
  BY DEF Account, Fresh, InLoop, ToCome, Quiet
<1>2. Loops(r)'
  BY DEF Loops
<1>3. CleanSoFar(r)'
  BY DEF Account, CleanSoFar, InLoop, Clean, AllCases, Quiet
<1>4. Recorded(r)'
  BY QuietKeeps
<1> QED BY <1>1, <1>2, <1>3, <1>4 DEF Account

\* The run is done with the adapter.
LEMMA NextAdapterAccount ==
  ASSUME IInv, NEW r \in Run, Account(r), Quiet(r), Counts(r)', ~result[r].failed,
         pc[r] \in AtAdapter, pc'[r] = "adapter", adapter'[r] = adapter[r] + 1,
         ~result'[r].errors => \A p \in PoolsOf[adapter[r]] : Clean(r, p)
  PROVE  Account(r)'
<1> USE DEF Early, AtPool, AtAdapter, EventPhase
<1>0. TypedAt(r)
  BY TypesAt
<1>1. Fresh(r)'
  <2>1. \A a \in 1..Adapters : ToCome(r, a)' => ToCome(r, a)
    BY <1>0 DEF ToCome, TypedAt
  <2> QED BY <2>1 DEF Account, Fresh, InLoop, Quiet
<1>2. Loops(r)'
  BY DEF Loops
<1>3. CleanSoFar(r)'
  <2>1. \A a \in 1..Adapters : a < adapter'[r] => a < adapter[r] \/ a = adapter[r]
    BY <1>0 DEF TypedAt
  <2> QED BY <2>1 DEF Account, CleanSoFar, InLoop, Clean, AllCases, Quiet
<1>4. Recorded(r)'
  BY QuietKeeps
<1> QED BY <1>1, <1>2, <1>3, <1>4 DEF Account

-----------------------------------------------------------------------------
\* list_pools: the first rows of an adapter are still to come.
LEMMA LoadPoolsAccount ==
  ASSUME IInv, NEW r \in Run, Account(r), LoadPools(r)
  PROVE  Account(r)'
<1>0. /\ TypedAt(r) /\ pc[r] = "adapter" /\ adapter[r] \in 1..Adapters /\ ~result[r].failed
      /\ row'[r] = row[r] /\ StatesOf(r)' = StatesOf(r) /\ ObsOf(r)' = ObsOf(r)
  <2>1. TypedAt(r) /\ pc[r] = "adapter" /\ adapter[r] <= Adapters
    BY TypesAt DEF LoadPools
  <2>2. adapter[r] \in 1..Adapters
    BY <2>1 DEF TypedAt
  <2>3. UNCHANGED <<row, stateRows, obsRows>>
    BY DEF LoadPools, db
  <2>4. ~result[r].failed
    BY <2>1 DEF Account, Recorded, Over
  <2> QED BY <2>1, <2>2, <2>3, <2>4 DEF StatesOf, ObsOf
<1>1. CASE /\ PoolsOf[adapter[r]] = {} /\ adapter' = [adapter EXCEPT ![r] = @ + 1]
           /\ UNCHANGED <<pc, left, read, result>>
  <2>1. adapter'[r] = adapter[r] + 1 /\ pc'[r] = pc[r] /\ result'[r] = result[r]
    BY <1>1, Assigned
  <2>2. Recorded(r)'
    BY <1>0, <2>1, QuietKeeps DEF Quiet, Over
  <2> QED BY <1>0, <1>1, <2>1, <2>2, EarlyAccount DEF Early
<1>2. CASE /\ Goto(r, "states") /\ left' = [left EXCEPT ![r] = PoolsOf[adapter[r]]]
           /\ read' = [read EXCEPT ![r] = {}] /\ UNCHANGED <<adapter, result>>
  <2>1. pc'[r] = "states" /\ left'[r] = PoolsOf[adapter[r]] /\ read'[r] = {}
        /\ adapter'[r] = adapter[r] /\ result'[r] = result[r]
    BY <1>2, Assigned DEF Goto
  <2>2. Counts(r)'
    <3>1. Cardinality(read'[r]) = 0
      BY <2>1, FS_EmptySet
    <3>2. result[r].states = Cardinality(StatesOf(r)) /\ result[r].executions = Cardinality(ObsOf(r))
      BY <1>0 DEF Account, Counts, Over
    <3> QED BY <1>0, <2>1, <3>1, <3>2 DEF Counts, TypedAt, Over
  <2>3. Fresh(r)'
    <3>1. \A a \in 1..Adapters : ToCome(r, a)' => ToCome(r, a)
      BY <1>0, <2>1 DEF ToCome, Early
    <3>2. InLoop(r) /\ ToCome(r, adapter[r])
      BY <1>0 DEF InLoop, ToCome, Early
    <3> QED BY <1>0, <2>1, <3>1, <3>2 DEF Account, Fresh
  <2>4. Loops(r)'
    BY <2>1 DEF Loops
  <2>5. CleanSoFar(r)'
    BY <1>0, <2>1 DEF Account, CleanSoFar, InLoop, Clean, AllCases, Early, EventPhase
  <2>6. Recorded(r)'
    BY <1>0, <2>1, QuietKeeps DEF Quiet, Over
  <2> QED BY <2>2, <2>3, <2>4, <2>5, <2>6 DEF Account
<1>3. CASE Abort(r)
  BY <1>0, <1>3, AbortAccount DEF Over
<1> QED BY <1>1, <1>2, <1>3 DEF LoadPools

\* Pools of two adapters are never the same.
LEMMA OtherPools ==
  ASSUME NEW a \in 1..Adapters, NEW b \in 1..Adapters, a # b,
         NEW p \in PoolsOf[a], NEW q \in PoolsOf[b]
  PROVE  p # q
BY RunAssumption

\* collect_states_for_adapter: one row more, or one pool less to come.
LEMMA CollectStateAccount ==
  ASSUME IInv, NEW r \in Run, Account(r), NEW p \in Pool, CollectState(r, p)
  PROVE  Account(r)'
<1> USE DEF Early, AtPool, AtAdapter, EventPhase, Over
<1>0. /\ TypedAt(r) /\ pc[r] = "states" /\ p \in left[r] /\ adapter'[r] = adapter[r]
      /\ ~result[r].failed /\ row'[r] = row[r] /\ ObsOf(r)' = ObsOf(r)
      /\ row[r].status = "running" /\ adapter[r] \in 1..Adapters
  <2>1. row' = row /\ obsRows' = obsRows
    BY DEF CollectState, StorageError, db
  <2>2. adapter[r] \in 1..Adapters
    BY TypesAt DEF CollectState, IInv, Typed, Placed, TypedAt
  <2> QED BY <2>1, <2>2, TypesAt DEF CollectState, ObsOf, Account, Recorded
<1>1. CASE left' = [left EXCEPT ![r] = @ \ {p}] /\ UNCHANGED <<db, pc, read, result>>
  <2>1. /\ left'[r] = left[r] \ {p} /\ pc'[r] = pc[r] /\ read'[r] = read[r]
        /\ result'[r] = result[r] /\ StatesOf(r)' = StatesOf(r)
    BY <1>1, Assigned DEF StatesOf, db
  <2>2. Counts(r)'
    BY <1>0, <2>1 DEF Account, Counts
  <2>3. Fresh(r)'
    BY <1>0, <2>1 DEF Account, Fresh, InLoop, ToCome
  <2>4. Loops(r)'
    BY <1>0, <2>1 DEF Account, Loops
  <2>5. CleanSoFar(r)'
    BY <1>0, <2>1 DEF Account, CleanSoFar, InLoop, Clean, AllCases
  <2>6. Recorded(r)'
    BY <1>0, <2>1, QuietKeeps DEF Quiet
  <2> QED BY <2>2, <2>3, <2>4, <2>5, <2>6 DEF Account
<1>2. CASE /\ stateRows' = stateRows \cup {<<r, p>>} /\ left' = [left EXCEPT ![r] = @ \ {p}]
           /\ read' = [read EXCEPT ![r] = @ \cup {p}] /\ UNCHANGED <<pc, result>>
  <2>1. /\ left'[r] = left[r] \ {p} /\ pc'[r] = pc[r] /\ read'[r] = read[r] \cup {p}
        /\ result'[r] = result[r] /\ StatesOf(r)' = StatesOf(r) \cup {<<r, p>>}
    <3>1. StatesOf(r)' = StatesOf(r) \cup {<<r, p>>}
      BY <1>2 DEF StatesOf
    <3>2. left'[r] = left[r] \ {p} /\ read'[r] = read[r] \cup {p}
      BY <1>2, Assigned
    <3> QED BY <1>2, <3>1, <3>2
  <2>2. <<r, p>> \notin StatesOf(r) /\ p \in PoolsOf[adapter[r]]
    BY <1>0 DEF Account, Fresh, Loops
  <2>3. p \notin read[r]
    BY <1>0, <2>2 DEF Account, Loops
  <2>4. Counts(r)'
    <3>1. IsFiniteSet(StatesOf(r)') /\ Cardinality(StatesOf(r)') = Cardinality(StatesOf(r)) + 1
      <4>1. IsFiniteSet(StatesOf(r))
        BY <1>0 DEF TypedAt
      <4>2. /\ IsFiniteSet(StatesOf(r) \cup {<<r, p>>})
            /\ Cardinality(StatesOf(r) \cup {<<r, p>>}) = Cardinality(StatesOf(r)) + 1
        BY <2>2, <4>1, FS_AddElement
      <4> QED BY <2>1, <4>2
    <3>2. Cardinality(read'[r]) = Cardinality(read[r]) + 1
      BY <1>0, <2>1, <2>3, FS_AddElement DEF TypedAt
    <3>3. /\ result[r].states + Cardinality(read[r]) = Cardinality(StatesOf(r))
          /\ result[r].executions = Cardinality(ObsOf(r))
      BY <1>0 DEF Account, Counts
    <3>4. /\ result[r].states \in Nat /\ Cardinality(read[r]) \in Nat /\ IsFiniteSet(ObsOf(r))
          /\ Cardinality(StatesOf(r)) \in Nat
      BY <1>0 DEF TypedAt
    <3>5. /\ result[r].states + Cardinality(read'[r]) = Cardinality(StatesOf(r)')
          /\ result[r].states <= Cardinality(StatesOf(r)')
      BY <3>1, <3>2, <3>3, <3>4
    <3> QED BY <1>0, <2>1, <3>1, <3>3, <3>4, <3>5 DEF Counts
  <2>5. Fresh(r)'
    <3>1. \A a \in 1..Adapters : \A q \in PoolsOf[a] : ToCome(r, a) => <<r, q>> # <<r, p>>
      BY <1>0, <2>2, OtherPools DEF ToCome
    <3>2. \A a \in 1..Adapters : ToCome(r, a)' <=> ToCome(r, a)
      BY <1>0, <2>1 DEF ToCome
    <3> QED BY <1>0, <2>1, <3>1, <3>2 DEF Account, Fresh, InLoop
  <2>6. Loops(r)'
    BY <1>0, <2>1, <2>2 DEF Account, Loops
  <2>7. CleanSoFar(r)'
    BY <1>0, <2>1 DEF Account, CleanSoFar, InLoop, Clean, AllCases
  <2>8. Recorded(r)'
    BY <1>0, <2>1 DEF Account, Recorded, Ended, Success
  <2> QED BY <2>4, <2>5, <2>6, <2>7, <2>8 DEF Account
<1>3. CASE StorageError(r) /\ Abort(r)
  <2>1. StatesOf(r)' = StatesOf(r)
    BY <1>3 DEF StorageError, StatesOf, db
  <2> QED BY <1>0, <1>3, <2>1, AbortAccount
<1> QED BY <1>1, <1>2, <1>3 DEF CollectState, StateRow

\* The pass over the states is over, and is counted.
LEMMA StatesDoneAccount ==
  ASSUME IInv, NEW r \in Run, Account(r), StatesDone(r)
  PROVE  Account(r)'
<1> USE DEF Early, AtPool, AtAdapter, EventPhase, Over
<1>0. /\ TypedAt(r) /\ pc[r] = "states" /\ left[r] = {} /\ ~result[r].failed
      /\ row'[r] = row[r] /\ StatesOf(r)' = StatesOf(r) /\ ObsOf(r)' = ObsOf(r)
      /\ row[r].status = "running" /\ read'[r] = read[r]
  BY TypesAt DEF StatesDone, db, StatesOf, ObsOf, Account, Recorded
<1>1. /\ result'[r].states = result[r].states + Cardinality(read[r])
      /\ result'[r].executions = result[r].executions
      /\ result'[r].failed = result[r].failed
      /\ result'[r].errors = (result[r].errors \/ read[r] # PoolsOf[adapter[r]])
  <2>1. Count(r, Cardinality(read[r]), 0, read[r] # PoolsOf[adapter[r]])
    BY DEF StatesDone
  <2>2. result[r].executions + 0 = result[r].executions
    BY <1>0 DEF TypedAt
  <2> QED BY <2>1, <2>2, CountedAt
<1>2. ASSUME pc'[r] \in {"execution", "events", "adapter"} PROVE Counts(r)' /\ Recorded(r)'
  <2>1. result'[r].states = Cardinality(StatesOf(r))
    BY <1>0, <1>1 DEF Account, Counts
  <2>2. Counts(r)'
    BY <1>0, <1>1, <1>2, <2>1 DEF Account, Counts, TypedAt
  <2>3. Recorded(r)'
    BY <1>0, <1>1, <1>2 DEF Account, Recorded, Ended, Success
  <2> QED BY <2>2, <2>3
<1>3. CASE Goto(r, "execution") /\ left' = [left EXCEPT ![r] = read[r]] /\ UNCHANGED adapter
  <2>1. pc'[r] = "execution" /\ left'[r] = read[r] /\ adapter'[r] = adapter[r]
    BY <1>3, Assigned DEF Goto
  <2>2. Fresh(r)'
    BY <1>0, <2>1 DEF Account, Fresh, Loops, InLoop, ToCome
  <2>3. Loops(r)'
    BY <1>0, <2>1 DEF Account, Loops
  <2>4. CleanSoFar(r)'
    <3>1. ~result'[r].errors => read[r] = PoolsOf[adapter[r]] /\ ~result[r].errors
      BY <1>1
    <3>2. \A p \in read[r] : <<r, p>> \in StatesOf(r)
      BY <1>0 DEF Account, Loops
    <3> QED BY <1>0, <1>1, <2>1, <3>1, <3>2 DEF Account, CleanSoFar, InLoop, Clean, AllCases
  <2> QED BY <1>2, <2>1, <2>2, <2>3, <2>4 DEF Account
<1>4. ASSUME ToEvents(r), ~(WithExecution /\ read[r] # {}) PROVE Account(r)'
  <2>1. ~result'[r].errors => \A p \in PoolsOf[adapter[r]] : Clean(r, p)
    BY <1>0, <1>1, <1>4 DEF Account, Loops, Clean
  <2>2. CASE Goto(r, "events") /\ UNCHANGED adapter
    <3>1. pc'[r] = "events" /\ adapter'[r] = adapter[r]
      BY <2>2, Assigned DEF Goto
    <3>2. Fresh(r)' /\ Loops(r)'
      BY <1>0, <3>1 DEF Account, Fresh, Loops, InLoop, ToCome
    <3>3. CleanSoFar(r)'
      BY <1>0, <1>1, <2>1, <3>1 DEF Account, CleanSoFar, InLoop, Clean, AllCases
    <3> QED BY <1>2, <3>1, <3>2, <3>3 DEF Account
  <2>3. CASE Goto(r, "adapter") /\ adapter' = [adapter EXCEPT ![r] = @ + 1]
    <3>1. pc'[r] = "adapter" /\ adapter'[r] = adapter[r] + 1
      BY <2>3, Assigned DEF Goto
    <3>2. Fresh(r)' /\ Loops(r)'
      BY <1>0, <3>1 DEF Account, Fresh, Loops, InLoop, ToCome, TypedAt
    <3>3. \A a \in 1..Adapters : a < adapter'[r] => a < adapter[r] \/ a = adapter[r]
      BY <1>0, <3>1 DEF TypedAt
    <3>4. CleanSoFar(r)'
      BY <1>0, <1>1, <2>1, <3>1, <3>3 DEF Account, CleanSoFar, InLoop, Clean, AllCases
    <3> QED BY <1>2, <3>1, <3>2, <3>4 DEF Account
  <2> QED BY <1>4, <2>2, <2>3 DEF ToEvents
<1> QED BY <1>3, <1>4 DEF StatesDone

\* analyze_pool: the cases of the pool are to come, or its analysis failed.
LEMMA AnalyzeAccount ==
  ASSUME IInv, NEW r \in Run, Account(r), NEW p \in Pool, Analyze(r, p)
  PROVE  Account(r)'
<1> USE DEF Early, AtPool, AtAdapter, EventPhase, Over
<1>0. /\ TypedAt(r) /\ pc[r] = "execution" /\ p \in left[r] /\ left'[r] = left[r] \ {p}
      /\ adapter'[r] = adapter[r] /\ ~result[r].failed
      /\ row'[r] = row[r] /\ StatesOf(r)' = StatesOf(r) /\ ObsOf(r)' = ObsOf(r)
  BY TypesAt, Assigned DEF Analyze, db, StatesOf, ObsOf, Account, Recorded
<1>1. CASE Goto(r, "observe") /\ pool' = [pool EXCEPT ![r] = p] /\ todo' = [todo EXCEPT ![r] = Case]
           /\ UNCHANGED result
  <2>1. pc'[r] = "observe" /\ pool'[r] = p /\ todo'[r] = Case /\ result'[r] = result[r]
    BY <1>1, Assigned DEF Goto
  <2>2. Counts(r)' /\ Recorded(r)'
    BY <1>0, <2>1, QuietKeeps DEF Quiet
  <2>3. Fresh(r)'
    BY <1>0, <2>1 DEF Account, Fresh, InLoop, ToCome
  <2>4. Loops(r)'
    BY <1>0, <2>1 DEF Account, Loops
  <2>5. CleanSoFar(r)'
    <3> SUFFICES ASSUME ~result[r].errors PROVE CleanSoFar(r)'
      BY <2>1 DEF CleanSoFar
    <3>1. \A q : (AllCases(r, q)' <=> AllCases(r, q)) /\ (Clean(r, q)' <=> Clean(r, q))
      BY <1>0 DEF AllCases, Clean
    <3>2. \A q \in PoolsOf[adapter[r]] :
            <<r, q>> \in StatesOf(r) /\ (q \notin left[r] => AllCases(r, q))
      BY <1>0 DEF Account, CleanSoFar
    <3>3. \A b \in 1..Adapters : b < adapter[r] => \A q \in PoolsOf[b] : Clean(r, q)
      BY <1>0 DEF Account, CleanSoFar, InLoop
    <3> QED BY <1>0, <2>1, <3>1, <3>2, <3>3 DEF CleanSoFar
  <2> QED BY <2>2, <2>3, <2>4, <2>5 DEF Account
<1>2. CASE AddError(r) /\ UNCHANGED <<pc, pool, todo>>
  <2>1. /\ result'[r].states = result[r].states /\ result'[r].executions = result[r].executions
        /\ result'[r].failed = result[r].failed /\ result'[r].errors /\ pc'[r] = pc[r]
    BY <1>2, ErrorAt
  <2>2. Counts(r)' /\ Recorded(r)'
    BY <1>0, <2>1, QuietKeeps DEF Quiet
  <2>3. Fresh(r)'
    BY <1>0, <2>1 DEF Account, Fresh, InLoop, ToCome
  <2>4. Loops(r)' /\ CleanSoFar(r)'
    BY <1>0, <2>1 DEF Account, Loops, CleanSoFar
  <2> QED BY <2>2, <2>3, <2>4 DEF Account
<1> QED BY <1>1, <1>2 DEF Analyze

\* insert_execution_observation: one row more, or one error.
LEMMA ObserveAccount ==
  ASSUME IInv, NEW r \in Run, Account(r), NEW c \in Case, Observe(r, c)
  PROVE  Account(r)'
<1> USE DEF Early, AtPool, AtAdapter, EventPhase, Over
<1>0. /\ TypedAt(r) /\ pc[r] = "observe" /\ pc'[r] = pc[r] /\ c \in todo[r]
      /\ todo'[r] = todo[r] \ {c} /\ left'[r] = left[r] /\ pool'[r] = pool[r]
      /\ adapter'[r] = adapter[r] /\ ~result[r].failed
      /\ row'[r] = row[r] /\ StatesOf(r)' = StatesOf(r)
      /\ row[r].status = "running" /\ adapter[r] \in 1..Adapters
  <2>1. row' = row /\ stateRows' = stateRows
    BY DEF Observe, StorageError, db
  <2>2. adapter[r] \in 1..Adapters
    BY TypesAt DEF Observe, IInv, Typed, Placed, TypedAt
  <2> QED BY <2>1, <2>2, TypesAt, Assigned DEF Observe, StatesOf, Account, Recorded
<1>1. CASE AddError(r) /\ UNCHANGED db
  <2>1. /\ result'[r].states = result[r].states /\ result'[r].executions = result[r].executions
        /\ result'[r].failed = result[r].failed /\ result'[r].errors /\ ObsOf(r)' = ObsOf(r)
    BY <1>1, ErrorAt DEF db, ObsOf
  <2>2. Counts(r)' /\ Recorded(r)'
    BY <1>0, <2>1, QuietKeeps DEF Quiet
  <2>3. Fresh(r)'
    BY <1>0, <2>1 DEF Account, Fresh, InLoop, ToCome
  <2>4. Loops(r)' /\ CleanSoFar(r)'
    BY <1>0, <2>1 DEF Account, Loops, CleanSoFar
  <2> QED BY <2>2, <2>3, <2>4 DEF Account
<1>2. ASSUME NEW success \in BOOLEAN, obsRows' = obsRows \cup {<<r, pool[r], c, success>>},
             Count(r, 0, 1, ~success)
      PROVE  Account(r)'
  <2>1. /\ result'[r].states = result[r].states /\ result'[r].executions = result[r].executions + 1
        /\ result'[r].failed = result[r].failed
        /\ result'[r].errors = (result[r].errors \/ ~success)
        /\ ObsOf(r)' = ObsOf(r) \cup {<<r, pool[r], c, success>>}
    <3>1. result[r].states + 0 = result[r].states
      BY <1>0 DEF TypedAt
    <3>2. ObsOf(r)' = ObsOf(r) \cup {<<r, pool[r], c, success>>}
      BY <1>2 DEF ObsOf
    <3>3. /\ result'[r].states = result[r].states + 0
          /\ result'[r].executions = result[r].executions + 1
          /\ result'[r].failed = result[r].failed
          /\ result'[r].errors = (result[r].errors \/ ~success)
      BY <1>2, CountedAt
    <3> QED BY <3>1, <3>2, <3>3
  <2>2. <<r, pool[r], c, success>> \notin ObsOf(r)
    BY <1>0 DEF Account, Fresh
  <2>3. Counts(r)'
    <3>1. IsFiniteSet(ObsOf(r)') /\ Cardinality(ObsOf(r)') = Cardinality(ObsOf(r)) + 1
      <4>1. IsFiniteSet(ObsOf(r))
        BY <1>0 DEF TypedAt
      <4>2. /\ IsFiniteSet(ObsOf(r) \cup {<<r, pool[r], c, success>>})
            /\ Cardinality(ObsOf(r) \cup {<<r, pool[r], c, success>>}) = Cardinality(ObsOf(r)) + 1
        BY <2>2, <4>1, FS_AddElement
      <4> QED BY <2>1, <4>2
    <3> QED BY <1>0, <2>1, <3>1 DEF Account, Counts, TypedAt
  <2>4. pool[r] \in PoolsOf[adapter[r]] \ left[r]
    BY <1>0 DEF Account, Loops
  <2>5. \A q, d, b : <<r, q, d, b>> \in ObsOf(r)' <=>
          <<r, q, d, b>> \in ObsOf(r) \/ (q = pool[r] /\ d = c /\ b = success)
    BY <2>1
  <2>6. Fresh(r)'
    <3>1. \A a \in 1..Adapters : \A q \in PoolsOf[a] : ToCome(r, a) => q # pool[r]
      BY <1>0, <2>4, OtherPools DEF ToCome
    <3>2. \A a \in 1..Adapters : ToCome(r, a)' <=> ToCome(r, a)
      BY <1>0 DEF ToCome
    <3>3. InLoop(r)' => \A a \in 1..Adapters : ToCome(r, a)' => \A q \in PoolsOf[a] :
            /\ <<r, q>> \notin StatesOf(r)
            /\ \A d \in Case, b \in BOOLEAN : <<r, q, d, b>> \notin ObsOf(r)'
      BY <1>0, <2>5, <3>1, <3>2 DEF Account, Fresh, InLoop
    <3>4. \A q \in left[r], d \in Case, b \in BOOLEAN : <<r, q, d, b>> \notin ObsOf(r)'
      BY <1>0, <2>4, <2>5 DEF Account, Fresh
    <3>5. \A d \in todo[r] \ {c}, b \in BOOLEAN : <<r, pool[r], d, b>> \notin ObsOf(r)'
      BY <1>0, <2>5 DEF Account, Fresh
    <3> QED BY <1>0, <3>3, <3>4, <3>5 DEF Fresh
  <2>7. Loops(r)'
    BY <1>0 DEF Account, Loops
  <2>8. CleanSoFar(r)'
    <3> SUFFICES ASSUME ~result'[r].errors PROVE CleanSoFar(r)'
      BY DEF CleanSoFar
    <3>1. success = TRUE /\ ~result[r].errors
      BY <2>1
    <3>2. \A d \in Case \ todo'[r] : <<r, pool[r], d, TRUE>> \in ObsOf(r)'
      BY <1>0, <2>5, <3>1 DEF Account, CleanSoFar
    <3>3. \A q : (AllCases(r, q) => AllCases(r, q)') /\ (Clean(r, q) => Clean(r, q)')
      BY <1>0, <2>5 DEF AllCases, Clean
    <3> QED BY <1>0, <2>1, <3>1, <3>2, <3>3 DEF Account, CleanSoFar, InLoop
  <2>9. Recorded(r)'
    BY <1>0, <2>1 DEF Account, Recorded, Ended, Success
  <2> QED BY <2>3, <2>6, <2>7, <2>8, <2>9 DEF Account
<1> QED BY <1>1, <1>2 DEF Observe, ExecutionRow, StorageError

\* The pool is observed, or the execution pass is over.
LEMMA ObservedAccount ==
  ASSUME IInv, NEW r \in Run, Account(r), PoolObserved(r) \/ ExecutionDone(r)
  PROVE  Account(r)'
<1> USE DEF Early, AtPool, AtAdapter, EventPhase, Over
<1>0. /\ TypedAt(r) /\ pc[r] \in {"execution", "observe"} /\ ~result[r].failed
      /\ result'[r] = result[r]
      /\ row'[r] = row[r] /\ StatesOf(r)' = StatesOf(r) /\ ObsOf(r)' = ObsOf(r)
  BY TypesAt DEF PoolObserved, ExecutionDone, db, StatesOf, ObsOf, Account, Recorded
<1>1. CASE PoolObserved(r)
  <2>1. /\ pc[r] = "observe" /\ pc'[r] = "execution" /\ todo[r] = {} /\ left'[r] = left[r]
        /\ adapter'[r] = adapter[r]
    BY <1>1, Assigned DEF PoolObserved, Goto
  <2>2. Counts(r)' /\ Recorded(r)'
    BY <1>0, <2>1, QuietKeeps DEF Quiet
  <2>3. Fresh(r)' /\ Loops(r)'
    BY <1>0, <2>1 DEF Account, Fresh, Loops, InLoop, ToCome
  <2>4. CleanSoFar(r)'
    BY <1>0, <2>1 DEF Account, CleanSoFar, InLoop, Clean, AllCases
  <2> QED BY <2>2, <2>3, <2>4 DEF Account
<1>2. CASE ExecutionDone(r)
  <2>1. pc[r] = "execution" /\ left[r] = {} /\ ToEvents(r)
    BY <1>2 DEF ExecutionDone
  <2>2. ~result'[r].errors => \A p \in PoolsOf[adapter[r]] : Clean(r, p)
    BY <1>0, <2>1 DEF Account, CleanSoFar, Clean
  <2>3. CASE Goto(r, "events") /\ UNCHANGED adapter
    <3>1. pc'[r] = "events" /\ adapter'[r] = adapter[r]
      BY <2>3, Assigned DEF Goto
    <3>2. Quiet(r) /\ Counts(r)'
      BY <1>0, <2>1, <3>1, QuietKeeps DEF Quiet
    <3> QED BY <1>0, <2>1, <2>2, <3>1, <3>2, EventsAccount
  <2>4. CASE Goto(r, "adapter") /\ adapter' = [adapter EXCEPT ![r] = @ + 1]
    <3>1. pc'[r] = "adapter" /\ adapter'[r] = adapter[r] + 1
      BY <2>4, Assigned DEF Goto
    <3>2. Quiet(r) /\ Counts(r)'
      BY <1>0, <2>1, <3>1, QuietKeeps DEF Quiet
    <3> QED BY <1>0, <2>1, <2>2, <3>1, <3>2, NextAdapterAccount
  <2> QED BY <2>1, <2>3, <2>4 DEF ToEvents
<1> QED BY <1>1, <1>2

\* Collecting events moves no observation.
LEMMA CollectEventsAccount ==
  ASSUME IInv, NEW r \in Run, Account(r),
         \/ EventsDone(r) \/ \E p \in Pool : NextPool(r, p)
         \/ \E kind \in Kind : \/ FetchEvents(r, kind) \/ CommitEvents(r, kind)
                               \/ \E e \in Event : InsertEvent(r, kind, e)
  PROVE  Account(r)'
<1> USE DEF Early, AtPool, AtAdapter, EventPhase, Over
<1>0. /\ pc[r] \in EventPhase /\ ~result[r].failed
      /\ row'[r] = row[r] /\ StatesOf(r)' = StatesOf(r) /\ ObsOf(r)' = ObsOf(r)
  <2>1. UNCHANGED <<row, stateRows, obsRows>>
    BY DEF EventsDone, NextPool, FetchEvents, CommitEvents, InsertEvent, StorageError, db
  <2>2. pc[r] \in EventPhase
    BY DEF EventsDone, NextPool, FetchEvents, CommitEvents, InsertEvent, FetchPhase, InsertPhase
  <2> QED BY <2>1, <2>2 DEF StatesOf, ObsOf, Account, Recorded
<1>1. ~result[r].errors => \A p \in PoolsOf[adapter[r]] : Clean(r, p)
  BY <1>0 DEF Account, CleanSoFar
<1>2. ASSUME pc'[r] \in EventPhase \cup {"adapter"},
             UNCHANGED result \/ AddError(r),
             IF pc'[r] = "adapter" THEN adapter'[r] = adapter[r] + 1 ELSE adapter'[r] = adapter[r]
      PROVE  Account(r)'
  <2>1. Quiet(r) /\ Counts(r)' /\ (~result'[r].errors => ~result[r].errors)
    <3>1. Quiet(r) /\ (~result'[r].errors => ~result[r].errors)
      BY <1>0, <1>2, ErrorAt DEF Quiet
    <3> QED BY <1>0, <1>2, <3>1, QuietKeeps
  <2>2. CASE pc'[r] \in EventPhase
    BY <1>0, <1>1, <1>2, <2>1, <2>2, EventsAccount
  <2>3. CASE pc'[r] = "adapter"
    BY <1>0, <1>1, <1>2, <2>1, <2>3, NextAdapterAccount
  <2> QED BY <1>2, <2>2, <2>3
<1>3. CASE EventsDone(r)
  BY <1>2, <1>3, Assigned DEF EventsDone, Goto
<1>4. CASE \E p \in Pool : NextPool(r, p)
  BY <1>2, <1>4, Assigned DEF NextPool, Goto
<1>5. ASSUME NEW kind \in Kind, FetchEvents(r, kind)
      PROVE  Account(r)'
  <2>1. pc'[r] \in EventPhase
    BY <1>5, Assigned DEF FetchEvents, Goto, InsertPhase, AfterKind
  <2> QED BY <1>2, <1>5, <2>1 DEF FetchEvents
<1>6. ASSUME NEW kind \in Kind, CommitEvents(r, kind)
      PROVE  Account(r)'
  <2>1. pc'[r] \in EventPhase
    BY <1>6, Assigned DEF CommitEvents, Goto, AfterKind
  <2> QED BY <1>2, <1>6, <2>1 DEF CommitEvents, local
<1>7. ASSUME NEW kind \in Kind, NEW e \in Event, InsertEvent(r, kind, e)
      PROVE  Account(r)'
  <2>1. pc'[r] \in EventPhase
    BY <1>0, <1>7, Assigned DEF InsertEvent, Goto, AfterKind
  <2> QED BY <1>2, <1>7, <2>1 DEF InsertEvent
<1> QED BY <1>3, <1>4, <1>5, <1>6, <1>7

\* Before the loop: the network is checked, the run registered and configured.
LEMMA BeginningAccount ==
  ASSUME IInv, NEW r \in Run, Account(r), CheckNetwork(r) \/ StartRun(r) \/ Configure(r)
  PROVE  Account(r)'
<1> USE DEF Early, AtPool, AtAdapter, EventPhase, Over
<1>0. /\ StatesOf(r)' = StatesOf(r) /\ ObsOf(r)' = ObsOf(r) /\ result'[r] = result[r]
      /\ adapter'[r] = adapter[r]
  BY DEF CheckNetwork, StartRun, Configure, StatesOf, ObsOf, db, local
<1>1. CASE Raise(r) /\ UNCHANGED row
  BY <1>0, <1>1, EndedAccount, Assigned DEF Raise, Goto
<1>2. CASE CheckNetwork(r) /\ Goto(r, "refused")
  <2>1. row'[r] = row[r] /\ pc'[r] = "refused"
    BY <1>2, Assigned DEF CheckNetwork, Goto
  <2> QED BY <1>0, <2>1, EndedAccount
<1>3. CASE CheckNetwork(r) /\ Goto(r, "start")
  <2>1. row'[r] = row[r] /\ pc'[r] = "start" /\ pc[r] = "check"
    BY <1>3, Assigned DEF CheckNetwork, Goto
  <2>2. Recorded(r)'
    BY <1>0, <2>1 DEF Account, Recorded, Ended, Success
  <2> QED BY <1>0, <2>1, <2>2, EarlyAccount
<1>4. CASE StartRun(r) /\ row' = [row EXCEPT ![r].status = "running"] /\ Goto(r, "configure")
  <2>1. row'[r].status = "running" /\ pc'[r] = "configure" /\ pc[r] = "start"
    <3>1. row \in [Run -> [status : Status, observations : Nat, errors : BOOLEAN]]
      BY DEF IInv, Typed, DbTyped
    <3>2. row'[r].status = "running"
      BY <1>4, <3>1
    <3> QED BY <1>4, <3>2, Assigned DEF StartRun, Goto
  <2>2. Recorded(r)'
    BY <1>0, <2>1 DEF Account, Recorded, Ended, Success
  <2> QED BY <1>0, <2>1, <2>2, EarlyAccount
<1>5. CASE Configure(r) /\ Goto(r, "adapter")
  <2>1. row'[r] = row[r] /\ pc'[r] = "adapter" /\ pc[r] = "configure"
    BY <1>5, Assigned DEF Configure, Goto, db
  <2>2. Recorded(r)'
    BY <1>0, <2>1 DEF Account, Recorded, Clean, AllCases
  <2> QED BY <1>0, <2>1, <2>2, EarlyAccount
<1>6. CASE Configure(r) /\ Raise(r)
  BY <1>1, <1>6 DEF Configure, db
<1> QED BY <1>1, <1>2, <1>3, <1>4, <1>5, <1>6 DEF CheckNetwork, Judged, StartRun, Configure

\* complete_run writes what was counted.
LEMMA EndingAccount ==
  ASSUME IInv, NEW r \in Run, Account(r), AdaptersDone(r) \/ CompleteRun(r) \/ Crash(r)
  PROVE  Account(r)'
<1> USE DEF Early, AtPool, AtAdapter, EventPhase, Over
<1>0. /\ TypedAt(r) /\ StatesOf(r)' = StatesOf(r) /\ ObsOf(r)' = ObsOf(r)
      /\ result'[r] = result[r] /\ adapter'[r] = adapter[r]
  BY TypesAt DEF AdaptersDone, CompleteRun, Crash, StatesOf, ObsOf, db, local
<1>1. CASE AdaptersDone(r)
  <2>1. /\ pc[r] = "adapter" /\ pc'[r] = "complete" /\ row'[r] = row[r]
        /\ \A a \in 1..Adapters : a < adapter[r] /\ ~result[r].failed
    <3>1. pc[r] = "adapter" /\ pc'[r] = "complete" /\ row' = row /\ adapter[r] > Adapters
      BY <1>1, Assigned DEF AdaptersDone, Goto, db
    <3>2. \A a \in 1..Adapters : a < adapter[r]
      BY <1>0, <3>1 DEF TypedAt
    <3>3. ~result[r].failed
      BY <3>1 DEF Account, Recorded
    <3> QED BY <3>1, <3>2, <3>3
  <2>2. Counts(r)' /\ Recorded(r)'
    BY <1>0, <2>1, QuietKeeps DEF Quiet, Account, Recorded
  <2>3. Fresh(r)' /\ Loops(r)'
    BY <2>1 DEF Fresh, Loops, InLoop
  <2>4. CleanSoFar(r)'
    BY <1>0, <2>1 DEF Account, CleanSoFar, InLoop, Clean, AllCases
  <2> QED BY <2>2, <2>3, <2>4 DEF Account
<1>2. CASE Crash(r) \/ (CompleteRun(r) /\ Raise(r) /\ UNCHANGED row)
  <2>1. row'[r] = row[r] /\ pc'[r] \in Over
    BY <1>2, Assigned DEF Crash, Raise, Goto, db
  <2> QED BY <1>0, <2>1, EndedAccount
<1>3. CASE /\ CompleteRun(r) /\ Goto(r, "returned")
           /\ row' = [row EXCEPT ![r] = [status       |-> FinalStatus(r),
                                         observations |-> result[r].states + result[r].executions,
                                         errors       |-> result[r].errors]]
  <2>1. /\ pc[r] = "complete" /\ pc'[r] = "returned" /\ row'[r].status = FinalStatus(r)
        /\ row'[r].observations = result[r].states + result[r].executions
    <3>1. pc[r] = "complete" /\ pc'[r] = "returned"
      BY <1>3, Assigned DEF CompleteRun, Goto
    <3>2. row'[r] = [status       |-> FinalStatus(r),
                     observations |-> result[r].states + result[r].executions,
                     errors       |-> result[r].errors]
      BY <1>3, Assigned
    <3> QED BY <3>1, <3>2
  <2>2. Counts(r)'
    BY <1>0, <2>1 DEF Account, Counts
  <2>3. Fresh(r)' /\ Loops(r)' /\ CleanSoFar(r)'
    BY <2>1 DEF Fresh, Loops, CleanSoFar, InLoop
  <2>4. Recorded(r)'
    <3>1. /\ result[r].executions = Cardinality(ObsOf(r))
          /\ result[r].states <= Cardinality(StatesOf(r))
          /\ ~result[r].failed => result[r].states = Cardinality(StatesOf(r))
      BY <2>1 DEF Account, Counts
    <3>2. row'[r].observations <= Cardinality(StatesOf(r)) + Cardinality(ObsOf(r))
      BY <1>0, <2>1, <3>1 DEF TypedAt
    <3>3. row'[r].status \in Success => ~result[r].failed
      BY <2>1 DEF FinalStatus, Success
    <3>4. row'[r].status = "completed" => ~result[r].failed /\ ~result[r].errors
      BY <2>1 DEF FinalStatus
    <3>5. row'[r].status = "completed" => \A a \in 1..Adapters : \A p \in PoolsOf[a] : Clean(r, p)
      BY <2>1, <3>4 DEF Account, CleanSoFar
    <3>6. row'[r].status # "none"
      BY <2>1 DEF FinalStatus
    <3> QED BY <1>0, <2>1, <3>1, <3>2, <3>3, <3>5, <3>6 DEF Recorded, Clean, AllCases
  <2> QED BY <2>2, <2>3, <2>4 DEF Account
<1> QED BY <1>1, <1>2, <1>3 DEF CompleteRun

\* Every step of a run keeps its account.
LEMMA StepAccount ==
  ASSUME IInv, NEW r \in Run, Account(r), Step(r) \/ Crash(r)
  PROVE  Account(r)'
BY BeginningAccount, LoadPoolsAccount, CollectStateAccount, StatesDoneAccount, AnalyzeAccount,
   ObserveAccount, ObservedAccount, CollectEventsAccount, EndingAccount DEF Step

\* Every step of the processes keeps the accounts.
LEMMA NextAccounts ==
  ASSUME IInv, AInv, [Next]_vars
  PROVE  AInv'
<1> SUFFICES ASSUME NEW s \in Run PROVE Account(s)'
  BY DEF AInv
<1>1. Account(s)
  BY DEF AInv
<1>2. CASE \E r \in Run : Step(r) \/ Crash(r)
  BY <1>1, <1>2, StepAccount, OthersStay, StaysAccount
<1>3. CASE DiscoveryWrites \/ DiscoveryCommits \/ DiscoveryEnds \/ UNCHANGED vars
  BY <1>1, <1>3, StaysAccount
  DEF DiscoveryWrites, DiscoveryCommits, DiscoveryEnds, vars, db, local, Stays, StatesOf, ObsOf
<1> QED BY <1>2, <1>3 DEF Next

\* Nothing is counted at the start.
LEMMA InitAccounts == Init => AInv
<1> SUFFICES ASSUME Init, NEW r \in Run PROVE Account(r)
  BY DEF AInv
<1>1. StatesOf(r) = {} /\ ObsOf(r) = {} /\ pc[r] = "check" /\ adapter[r] = 1
      /\ row[r] = [status |-> "none", observations |-> 0, errors |-> FALSE]
      /\ result[r] = [states |-> 0, executions |-> 0, errors |-> FALSE, failed |-> FALSE]
  BY DEF Init, StatesOf, ObsOf
<1>2. Counts(r)
  BY <1>1, FS_EmptySet DEF Counts
<1>3. Fresh(r) /\ Loops(r)
  BY <1>1 DEF Fresh, Loops
<1>4. CleanSoFar(r)
  BY <1>1, RunAssumption DEF CleanSoFar, EventPhase
<1>5. Recorded(r)
  BY <1>1 DEF Recorded, Ended, Success
<1> QED BY <1>2, <1>3, <1>4, <1>5 DEF Account

\* The accounts are kept by all processes together.
THEOREM Accounting == Spec => []AInv
<1>1. Init => AInv
  BY InitAccounts
<1>2. IInv /\ AInv /\ [Next]_vars => AInv'
  BY NextAccounts
<1> QED BY <1>1, <1>2, Invariance, PTL DEF Spec

-----------------------------------------------------------------------------
\* The rows of a run are its states and its executions, none of them both.
LEMMA RowsCounted ==
  ASSUME IInv, AInv, NEW r \in Run
  PROVE  Cardinality(ObservationRows(r)) = Cardinality(StatesOf(r)) + Cardinality(ObsOf(r))
<1>1. IsFiniteSet(StatesOf(r)) /\ IsFiniteSet(ObsOf(r))
  BY DEF AInv, Account, Counts
<1>2. StatesOf(r) \cap ObsOf(r) = {}
  BY DEF IInv, Typed, DbTyped, StatesOf, ObsOf
<1>3. ObservationRows(r) = StatesOf(r) \cup ObsOf(r)
  BY DEF ObservationRows, StatesOf, ObsOf
<1>4. Cardinality(StatesOf(r) \cup ObsOf(r))
        = Cardinality(StatesOf(r)) + Cardinality(ObsOf(r)) - Cardinality(StatesOf(r) \cap ObsOf(r))
  BY <1>1, FS_Union
<1>5. Cardinality(StatesOf(r) \cap ObsOf(r)) = 0
  BY <1>2, FS_EmptySet
<1>6. Cardinality(StatesOf(r)) \in Nat /\ Cardinality(ObsOf(r)) \in Nat
  BY <1>1, FS_CardinalityType
<1> QED BY <1>3, <1>4, <1>5, <1>6

\* observations_created of a completed run is the number of rows stored under
\* its id, and of a failed run it is never more than that.
THEOREM ObservationsAreAccounted == Spec => []ObservationsAccounted
<1>1. IInv /\ AInv => ObservationsAccounted
  <2> SUFFICES ASSUME IInv, AInv, NEW r \in Run
      PROVE  /\ row[r].status \in Success => row[r].observations = Cardinality(ObservationRows(r))
             /\ row[r].status \in Ended   => row[r].observations <= Cardinality(ObservationRows(r))
    BY DEF ObservationsAccounted
  <2> QED BY RowsCounted DEF AInv, Account, Recorded
<1> QED BY <1>1, Invariance, Accounting, PTL

\* A run stored as "completed" has the state row of every active pool of every
\* adapter, and the successful row of every case when it was asked for them.
THEOREM CompletedRunIsClean == Spec => []CompletedIsClean
<1>1. AInv => CompletedIsClean
  <2> SUFFICES ASSUME AInv, NEW r \in Run, NEW a \in 1..Adapters, row[r].status = "completed",
                      NEW p \in PoolsOf[a]
      PROVE  /\ <<r, p>> \in stateRows
             /\ WithExecution => \A c \in Case : <<r, p, c, TRUE>> \in obsRows
    BY DEF CompletedIsClean
  <2>1. Clean(r, p)
    BY DEF AInv, Account, Recorded
  <2> QED BY <2>1 DEF Clean, AllCases, StatesOf, ObsOf
<1> QED BY <1>1, Accounting, PTL

-----------------------------------------------------------------------------
(* The processes implement RunRecords *)

\* A transaction inserts events nobody has recorded, and only once its run is
\* registered.
OpenInv ==
  \A r \in Run :
    /\ \A e \in unsaved[r] : owner[e] = NoRun
    /\ pc[r] \in {"check", "start"} => unsaved[r] = {}

\* The commit of r gives events to r alone, and takes none away.
LEMMA CommitRecords ==
  ASSUME IInv, OpenInv, NEW r \in Run, owner' = Saved(r)
  PROVE  Records!RecordEvents(r)
<1> DEFINE more == unsaved[r]
<1>1. owner \in [Event -> Run \cup {NoRun}] /\ more \in SUBSET Event /\ NoRun \notin Run
  BY RunAssumption DEF IInv, Typed, DbTyped, LockInv, ConnInv
<1>2. \A e \in Event : owner'[e] = IF e \in more THEN r ELSE owner[e]
  BY DEF Saved
<1>3. \A e \in more : owner[e] = NoRun
  BY DEF OpenInv
<1>4. more \in SUBSET (Event \ UNION {[s \in Run |-> EventRows(s)][t] : t \in Run})
  BY <1>1, <1>3 DEF EventRows
<1> HIDE DEF more
<1>5. \A s \in Run : EventRows(s)' = IF s = r THEN EventRows(s) \cup more ELSE EventRows(s)
  BY <1>1, <1>2, <1>3 DEF EventRows
<1>6. [s \in Run |-> EventRows(s)]'
        = [[s \in Run |-> EventRows(s)] EXCEPT ![r] = @ \cup more]
  BY <1>5
<1> QED BY <1>4, <1>6 DEF Records!RecordEvents

\* Nothing is recorded of events.
LEMMA NothingRecorded ==
  ASSUME NEW r \in Run, [s \in Run |-> EventRows(s)]' = [s \in Run |-> EventRows(s)]
  PROVE  Records!RecordEvents(r)
<1>1. {} \in SUBSET (Event \ UNION {[s \in Run |-> EventRows(s)][t] : t \in Run})
  OBVIOUS
<1>2. [s \in Run |-> EventRows(s)]'
        = [[s \in Run |-> EventRows(s)] EXCEPT ![r] = @ \cup {}]
  BY Zenon
<1> QED BY <1>1, <1>2 DEF Records!RecordEvents

LEMMA EventsStay ==
  ASSUME IInv, NEW r \in Run, owner' = owner \/ (owner' = Saved(r) /\ unsaved[r] = {})
  PROVE  [s \in Run |-> EventRows(s)]' = [s \in Run |-> EventRows(s)]
<1>1. \A e \in Event : owner'[e] = owner[e]
  BY DEF Saved
<1>2. \A s \in Run : EventRows(s)' = EventRows(s)
  BY <1>1 DEF EventRows
<1> QED BY <1>2, Zenon

LEMMA ObservationsStay ==
  ASSUME UNCHANGED <<stateRows, obsRows>>
  PROVE  [s \in Run |-> ObservationRows(s)]' = [s \in Run |-> ObservationRows(s)]
BY DEF ObservationRows

\* One observation more, of r alone.
LEMMA ObservationAdded ==
  ASSUME NEW r \in Run, NEW o, o[1] = r,
         \/ stateRows' = stateRows \cup {o} /\ obsRows' = obsRows
         \/ obsRows' = obsRows \cup {o} /\ stateRows' = stateRows
  PROVE  [s \in Run |-> ObservationRows(s)]'
           = [[s \in Run |-> ObservationRows(s)] EXCEPT ![r] = @ \cup {o}]
<1>1. \A s \in Run : ObservationRows(s)' =
        IF s = r THEN ObservationRows(s) \cup {o} ELSE ObservationRows(s)
  BY DEF ObservationRows
<1> QED BY <1>1

\* A commit of a running run.
LEMMA RecordsOne ==
  ASSUME IInv, OpenInv, NEW r \in Run, row[r].status = "running", row' = row,
         owner' = owner \/ owner' = Saved(r),
         \/ UNCHANGED <<stateRows, obsRows>>
         \/ \E o \in (Run \X Pool) \cup (Run \X Pool \X Case \X BOOLEAN) :
              /\ o[1] = r /\ o \notin ObservationRows(r)
              /\ \/ stateRows' = stateRows \cup {o} /\ obsRows' = obsRows
                 \/ obsRows' = obsRows \cup {o} /\ stateRows' = stateRows
  PROVE  Records!Record(r)
<1>1. Records!RecordEvents(r)
  BY CommitRecords, NothingRecorded, EventsStay
<1>2. \/ \E o \in ((Run \X Pool) \cup (Run \X Pool \X Case \X BOOLEAN))
                    \ [s \in Run |-> ObservationRows(s)][r] :
           [s \in Run |-> ObservationRows(s)]'
             = [[s \in Run |-> ObservationRows(s)] EXCEPT ![r] = @ \cup {o}]
      \/ [s \in Run |-> ObservationRows(s)]' = [s \in Run |-> ObservationRows(s)]
  <2>1. CASE UNCHANGED <<stateRows, obsRows>>
    BY <2>1, ObservationsStay
  <2>2. ASSUME NEW o \in (Run \X Pool) \cup (Run \X Pool \X Case \X BOOLEAN),
               o[1] = r, o \notin ObservationRows(r),
               \/ stateRows' = stateRows \cup {o} /\ obsRows' = obsRows
               \/ obsRows' = obsRows \cup {o} /\ stateRows' = stateRows
        PROVE  \E x \in ((Run \X Pool) \cup (Run \X Pool \X Case \X BOOLEAN))
                          \ [s \in Run |-> ObservationRows(s)][r] :
                 [s \in Run |-> ObservationRows(s)]'
                   = [[s \in Run |-> ObservationRows(s)] EXCEPT ![r] = @ \cup {x}]
    <3>1. [s \in Run |-> ObservationRows(s)]'
            = [[s \in Run |-> ObservationRows(s)] EXCEPT ![r] = @ \cup {o}]
      BY <2>2, ObservationAdded
    <3>2. [s \in Run |-> ObservationRows(s)][r] = ObservationRows(r)
      OBVIOUS
    <3> QED BY <2>2, <3>1, <3>2
  <2> QED BY <2>1, <2>2
<1> QED BY <1>1, <1>2, Zenon DEF Records!Record

\* No table changes.
LEMMA TablesStay ==
  ASSUME IInv, NEW r \in Run, UNCHANGED <<row, stateRows, obsRows>>,
         owner' = owner \/ (owner' = Saved(r) /\ unsaved[r] = {})
  PROVE  UNCHANGED Records!vars
BY EventsStay, ObservationsStay, Zenon DEF Records!vars

\* The module counts as this one does.
LEMMA SameCardinality == ASSUME NEW S PROVE Records!Cardinality(S) = Cardinality(S)
BY DEF Records!Cardinality, Cardinality

\* complete_run: the counters are those of the rows, whatever has failed.
LEMMA FinishRecords ==
  ASSUME IInv, AInv, OpenInv, NEW r \in Run, CompleteRun(r)
  PROVE  Records!Finish(r) \/ UNCHANGED Records!vars
<1>0. /\ Account(r) /\ TypedAt(r) /\ row \in [Run -> [status : Status, observations : Nat, errors : BOOLEAN]]
      /\ pc[r] = "complete" /\ UNCHANGED <<stateRows, obsRows>>
  BY TypesAt DEF AInv, CompleteRun, IInv, Typed, DbTyped
<1>1. CASE UNCHANGED <<row, owner>>
  BY <1>0, <1>1, TablesStay
<1>2. ASSUME owner' = Saved(r),
             row' = [row EXCEPT ![r] = [status       |-> FinalStatus(r),
                                        observations |-> result[r].states + result[r].executions,
                                        errors       |-> result[r].errors]]
      PROVE  Records!Finish(r)
  <2> DEFINE n == result[r].states + result[r].executions
             errors == result[r].errors
             status == FinalStatus(r)
             rows == Cardinality(ObservationRows(r))
  <2>1. /\ n \in 0..rows /\ rows \in Nat
        /\ status \in Records!Success => n = rows
    <3>1. rows = Cardinality(StatesOf(r)) + Cardinality(ObsOf(r))
      BY RowsCounted
    <3>2. /\ result[r].executions = Cardinality(ObsOf(r))
          /\ result[r].states <= Cardinality(StatesOf(r))
          /\ ~result[r].failed => result[r].states = Cardinality(StatesOf(r))
      BY <1>0 DEF Account, Counts, Over
    <3>3. status \in Records!Success => ~result[r].failed
      BY DEF FinalStatus, Records!Success
    <3> QED BY <1>0, <3>1, <3>2, <3>3 DEF TypedAt
  <2>2. status \in Records!Success \cup {"failed"}
    BY DEF FinalStatus, Records!Success
  <2>3. errors \in BOOLEAN
    BY <1>0 DEF TypedAt
  <2>4. status # "failed" => (errors <=> status = "completed_with_errors")
    BY DEF FinalStatus
  <2>5. row[r].status = "running"
    BY <1>0 DEF Account, Recorded, Over
  <2>6. [s \in Run |-> ObservationRows(s)][r] = ObservationRows(r)
    OBVIOUS
  <2>7. row' = [row EXCEPT ![r] = [status |-> status, observations |-> n, errors |-> errors]]
    BY <1>2
  <2>8. Records!RecordEvents(r)
    BY <1>2, CommitRecords
  <2>9. [s \in Run |-> ObservationRows(s)]' = [s \in Run |-> ObservationRows(s)]
    BY <1>0, ObservationsStay
  <2> HIDE DEF n, errors, status, rows
  <2>10. \E st \in Records!Success \cup {"failed"},
            k \in 0..Records!Cardinality([s \in Run |-> ObservationRows(s)][r]), er \in BOOLEAN :
           /\ st \in Records!Success => k = Records!Cardinality([s \in Run |-> ObservationRows(s)][r])
           /\ st # "failed" => (er <=> st = "completed_with_errors")
           /\ row' = [row EXCEPT ![r] = [status |-> st, observations |-> k, errors |-> er]]
    <3>1. n \in 0..Records!Cardinality(ObservationRows(r))
      BY <2>1, SameCardinality DEF rows
    <3>2. status \in Records!Success => n = Records!Cardinality(ObservationRows(r))
      BY <2>1, SameCardinality DEF rows
    <3> QED BY <2>2, <2>3, <2>4, <2>6, <2>7, <3>1, <3>2, Zenon
  <2> QED BY <2>5, <2>8, <2>9, <2>10, Zenon DEF Records!Finish
<1> QED BY <1>1, <1>2 DEF CompleteRun, Store

\* Every step of a run is a step of its record, or none.
LEMMA StepRecords ==
  ASSUME IInv, AInv, OpenInv, NEW r \in Run, Step(r)
  PROVE  Records!Begin(r) \/ Records!Record(r) \/ Records!Finish(r) \/ UNCHANGED Records!vars
<1>0. /\ Account(r) /\ (pc[r] \in {"check", "start"} => unsaved[r] = {})
      /\ adapter[r] \in 1..Adapters + 1
  BY TypesAt DEF AInv, OpenInv, TypedAt
<1>1. CASE CheckNetwork(r)
  BY <1>0, <1>1, TablesStay DEF CheckNetwork, Store
<1>2. CASE StartRun(r)
  <2>1. CASE UNCHANGED <<row, owner>>
    BY <1>2, <2>1, TablesStay DEF StartRun
  <2>2. CASE owner' = Saved(r) /\ row' = [row EXCEPT ![r].status = "running"]
    <3>1. row[r].status = "none" /\ unsaved[r] = {} /\ UNCHANGED <<stateRows, obsRows>>
      BY <1>0, <1>2 DEF StartRun, Account, Recorded
    <3>2. [s \in Run |-> EventRows(s)]' = [s \in Run |-> EventRows(s)]
      BY <2>2, <3>1, EventsStay
    <3>3. [s \in Run |-> ObservationRows(s)]' = [s \in Run |-> ObservationRows(s)]
      BY <3>1, ObservationsStay
    <3> QED BY <2>2, <3>1, <3>2, <3>3, Zenon DEF Records!Begin
  <2> QED BY <1>2, <2>1, <2>2 DEF StartRun, Store
<1>3. CASE UNCHANGED db
  BY <1>3, TablesStay DEF db
<1>4. ASSUME NEW p \in Pool, CollectState(r, p)
      PROVE  Records!Record(r) \/ UNCHANGED Records!vars
  <2>1. CASE UNCHANGED db
    BY <1>3, <2>1, TablesStay DEF db
  <2>2. CASE owner' = Saved(r) /\ stateRows' = stateRows \cup {<<r, p>>} /\ UNCHANGED <<row, obsRows>>
    <3>1. row[r].status = "running" /\ <<r, p>> \notin StatesOf(r)
      BY <1>0, <1>4 DEF CollectState, Account, Recorded, Fresh, Over
    <3>2. <<r, p>> \notin ObservationRows(r)
      <4>1. obsRows \subseteq Run \X Pool \X Case \X BOOLEAN
        BY DEF IInv, Typed, DbTyped
      <4>2. <<r, p>> \notin obsRows
        BY <4>1
      <4> QED BY <3>1, <4>2 DEF ObservationRows, StatesOf
    <3>3. <<r, p>> \in (Run \X Pool) \cup (Run \X Pool \X Case \X BOOLEAN) /\ <<r, p>>[1] = r
      OBVIOUS
    <3> QED BY <2>2, <3>1, <3>2, <3>3, RecordsOne
  <2> QED BY <1>4, <2>1, <2>2 DEF CollectState, Store, StorageError, StateRow
<1>5. ASSUME NEW c \in Case, Observe(r, c)
      PROVE  Records!Record(r) \/ UNCHANGED Records!vars
  <2>1. CASE UNCHANGED db
    BY <1>3, <2>1, TablesStay DEF db
  <2>2. ASSUME NEW b \in BOOLEAN, owner' = Saved(r),
               obsRows' = obsRows \cup {<<r, pool[r], c, b>>}, UNCHANGED <<row, stateRows>>
        PROVE  Records!Record(r)
    <3>1. row[r].status = "running" /\ <<r, pool[r], c, b>> \notin ObsOf(r)
      BY <1>0, <1>5 DEF Observe, Account, Recorded, Fresh, Over
    <3>2. <<r, pool[r], c, b>> \notin ObservationRows(r)
      BY <3>1 DEF ObservationRows, ObsOf, IInv, Typed, DbTyped
    <3>3. pool[r] \in Pool
      BY <1>5 DEF Observe, IInv, Typed, Placed, AtPool
    <3>4. /\ <<r, pool[r], c, b>> \in (Run \X Pool) \cup (Run \X Pool \X Case \X BOOLEAN)
          /\ <<r, pool[r], c, b>>[1] = r
      BY <3>3
    <3> QED BY <2>2, <3>1, <3>2, <3>4, RecordsOne
  <2> QED BY <1>5, <2>1, <2>2 DEF Observe, Store, StorageError, ExecutionRow
<1>6. ASSUME NEW kind \in Kind, CommitEvents(r, kind)
      PROVE  Records!Record(r)
  <2>1. row[r].status = "running"
    BY <1>0, <1>6 DEF CommitEvents, InsertPhase, Account, Recorded, Over
  <2> QED BY <1>6, <2>1, RecordsOne DEF CommitEvents
<1>7. CASE CompleteRun(r)
  BY <1>7, FinishRecords
<1> QED
  BY <1>1, <1>2, <1>3, <1>4, <1>5, <1>6, <1>7
  DEF Step, Configure, LoadPools, AdaptersDone, Analyze, NextPool, StatesDone, PoolObserved,
      ExecutionDone, EventsDone, FetchEvents, InsertEvent, StorageError

\* A transaction of another run has no part in a step of r.
LEMMA StepOpen ==
  ASSUME IInv, OpenInv, NEW r \in Run, Step(r) \/ Crash(r)
  PROVE  OpenInv'
<1>0. /\ ConnInv /\ pc \in [Run -> Phase] /\ owner \in [Event -> Run \cup {NoRun}]
      /\ unsaved \in [Run -> SUBSET Event]
  BY DEF IInv, LockInv, ConnInv, Typed, DbTyped, PlaceTyped
<1>1. ASSUME unsaved' = [unsaved EXCEPT ![r] = {}], owner' = owner \/ owner' = Saved(r),
             \A s \in Run \ {r} : pc'[s] = pc[s]
      PROVE  OpenInv'
  <2>1. \A s \in Run \ {r} : unsaved[s] # {} => unsaved[r] = {}
    BY <1>0, RunIsProcess DEF ConnInv
  <2>2. \A s \in Run \ {r} : \A e \in unsaved[s] : owner'[e] = NoRun
    BY <1>0, <1>1, <2>1 DEF OpenInv, Saved
  <2> QED BY <1>0, <1>1, <2>2 DEF OpenInv
<1>2. ASSUME unsaved' = unsaved, owner' = owner, \A s \in Run \ {r} : pc'[s] = pc[s],
             pc'[r] = pc[r] \/ pc'[r] \notin {"check", "start"}
      PROVE  OpenInv'
  BY <1>2 DEF OpenInv
<1>3. CASE CheckNetwork(r) \/ StartRun(r) \/ CompleteRun(r) \/ Crash(r)
  BY <1>0, <1>1, <1>3 DEF CheckNetwork, StartRun, CompleteRun, Crash, Store, Raise, Goto, db
<1>4. CASE Configure(r)
  <2>1. CASE Raise(r)
    BY <1>0, <1>1, <1>4, <2>1 DEF Configure, Raise, Goto, db
  <2>2. CASE Goto(r, "adapter") /\ UNCHANGED <<conn, unsaved>>
    BY <1>0, <1>2, <1>4, <2>2 DEF Configure, Goto, db
  <2> QED BY <1>4, <2>1, <2>2 DEF Configure
<1>5. CASE \/ LoadPools(r) \/ AdaptersDone(r) \/ StatesDone(r) \/ PoolObserved(r) \/ ExecutionDone(r)
           \/ EventsDone(r) \/ \E p \in Pool : Analyze(r, p) \/ NextPool(r, p)
           \/ \E kind \in Kind : FetchEvents(r, kind)
  <2>1. UNCHANGED <<unsaved, owner>>
    BY <1>5 DEF LoadPools, AdaptersDone, StatesDone, PoolObserved, ExecutionDone, EventsDone,
       Analyze, NextPool, FetchEvents, db
  <2>2. \E phase : (pc' = [pc EXCEPT ![r] = phase] /\ phase \notin {"check", "start"}) \/ pc' = pc
    BY <1>5 DEF LoadPools, AdaptersDone, StatesDone, PoolObserved, ExecutionDone, EventsDone,
       Analyze, NextPool, FetchEvents, ToEvents, Goto, Abort, AfterKind, InsertPhase
  <2> QED BY <1>0, <1>2, <2>1, <2>2
<1>6. ASSUME NEW p \in Pool, CollectState(r, p)
      PROVE  OpenInv'
  <2>1. pc' = pc \/ pc' = [pc EXCEPT ![r] = "complete"]
    BY <1>6 DEF CollectState, Abort, Goto
  <2>2. \/ unsaved' = unsaved /\ owner' = owner
        \/ unsaved' = [unsaved EXCEPT ![r] = {}] /\ (owner' = owner \/ owner' = Saved(r))
    BY <1>6 DEF CollectState, Store, StorageError, db
  <2> QED BY <1>0, <1>1, <1>2, <2>1, <2>2
<1>7. ASSUME NEW c \in Case, Observe(r, c)
      PROVE  OpenInv'
  <2>1. pc' = pc
    BY <1>7 DEF Observe
  <2>2. \/ unsaved' = unsaved /\ owner' = owner
        \/ unsaved' = [unsaved EXCEPT ![r] = {}] /\ (owner' = owner \/ owner' = Saved(r))
    BY <1>7 DEF Observe, Store, StorageError, db
  <2> QED BY <1>1, <1>2, <2>1, <2>2
<1>8. ASSUME NEW kind \in Kind, CommitEvents(r, kind)
      PROVE  OpenInv'
  BY <1>0, <1>1, <1>8 DEF CommitEvents, Goto
<1>9. ASSUME NEW kind \in Kind, NEW e \in Event, InsertEvent(r, kind, e)
      PROVE  OpenInv'
  <2>0. pc[r] \notin {"check", "start"} /\ pc'[r] \notin {"check", "start"}
        /\ owner' = owner /\ \A s \in Run \ {r} : pc'[s] = pc[s]
    BY <1>0, <1>9 DEF InsertEvent, InsertPhase, AfterKind, Goto, StorageError, db
  <2>1. CASE unsaved' = unsaved
    BY <1>2, <2>0, <2>1
  <2>2. CASE unsaved' = [unsaved EXCEPT ![r] = {}]
    BY <1>1, <2>0, <2>2
  <2>3. CASE unsaved' = [unsaved EXCEPT ![r] = IF owner[e] = NoRun THEN @ \cup {e} ELSE @]
    BY <1>0, <2>0, <2>3 DEF OpenInv
  <2> QED BY <1>9, <2>1, <2>2, <2>3 DEF InsertEvent, StorageError
<1> QED BY <1>3, <1>4, <1>5, <1>6, <1>7, <1>8, <1>9 DEF Step

\* No step takes an event from an open transaction.
LEMMA NextOpen ==
  ASSUME IInv, OpenInv, [Next]_vars
  PROVE  OpenInv'
<1>1. CASE \E r \in Run : Step(r) \/ Crash(r)
  BY <1>1, StepOpen
<1>2. CASE DiscoveryWrites \/ DiscoveryCommits \/ DiscoveryEnds \/ UNCHANGED vars
  BY <1>2 DEF DiscoveryWrites, DiscoveryCommits, DiscoveryEnds, vars, db, OpenInv
<1> QED BY <1>1, <1>2 DEF Next

\* What insert_swap_events has inserted and not committed is nobody's yet.
THEOREM OpenInvariance == Spec => []OpenInv
<1>1. Init => OpenInv
  BY DEF Init, OpenInv
<1>2. IInv /\ OpenInv /\ [Next]_vars => OpenInv'
  BY NextOpen
<1> QED BY <1>1, <1>2, Invariance, PTL DEF Spec

\* Every step of the processes is one of the records, or none.
LEMMA NextRecords ==
  ASSUME IInv, AInv, OpenInv, [Next]_vars
  PROVE  [Records!Next]_Records!vars
<1>1. ASSUME NEW r \in Run, Step(r) PROVE [Records!Next]_Records!vars
  BY <1>1, StepRecords DEF Records!Next
<1>2. CASE UNCHANGED db
  <2>1. [s \in Run |-> EventRows(s)]' = [s \in Run |-> EventRows(s)]
    BY <1>2 DEF db, EventRows
  <2>2. [s \in Run |-> ObservationRows(s)]' = [s \in Run |-> ObservationRows(s)]
    BY <1>2, ObservationsStay DEF db
  <2> QED BY <1>2, <2>1, <2>2, Zenon DEF db, Records!vars
<1> QED
  BY <1>1, <1>2 DEF Next, Crash, DiscoveryWrites, DiscoveryCommits, DiscoveryEnds, vars

\* The collection processes together, with their failures, crashes and lock
\* waits, implement the abstract account of collection runs.
THEOREM RecordsImplemented == Spec => ImplementsRecords
<1>1. Init => Records!Init
  <2> SUFFICES ASSUME Init PROVE Records!Init
    OBVIOUS
  <2>1. [s \in Run |-> ObservationRows(s)] = [s \in Run |-> {}]
    BY DEF Init, ObservationRows
  <2>2. [s \in Run |-> EventRows(s)] = [s \in Run |-> {}]
    BY RunAssumption DEF Init, EventRows
  <2> QED BY <2>1, <2>2, Zenon DEF Init, Records!Init
<1>2. IInv /\ AInv /\ OpenInv /\ [Next]_vars => [Records!Next]_Records!vars
  BY NextRecords
<1> QED BY <1>1, <1>2, Invariance, Accounting, OpenInvariance, PTL DEF Spec, Records!Spec, ImplementsRecords

-----------------------------------------------------------------------------
(* What is stored stays stored *)

\* A step of r leaves the event rows as they are, or commits its transaction.
LEMMA StepOwner ==
  ASSUME NEW r \in Run, Step(r) \/ Crash(r)
  PROVE  owner' = owner \/ owner' = Saved(r)
<1> USE DEF db, Store, StorageError
<1>1. CASE CheckNetwork(r) \/ StartRun(r) \/ Configure(r) \/ CompleteRun(r) \/ Crash(r)
  BY <1>1 DEF CheckNetwork, StartRun, Configure, CompleteRun, Crash
<1>2. CASE \/ LoadPools(r) \/ AdaptersDone(r) \/ StatesDone(r) \/ PoolObserved(r)
           \/ ExecutionDone(r) \/ EventsDone(r)
  BY <1>2 DEF LoadPools, AdaptersDone, StatesDone, PoolObserved, ExecutionDone, EventsDone
<1>3. CASE \E p \in Pool : CollectState(r, p) \/ Analyze(r, p) \/ NextPool(r, p)
  BY <1>3 DEF CollectState, Analyze, NextPool
<1>4. CASE \E c \in Case : Observe(r, c)
  BY <1>4 DEF Observe
<1>5. CASE \E kind \in Kind : \/ FetchEvents(r, kind) \/ CommitEvents(r, kind)
                              \/ \E e \in Event : InsertEvent(r, kind, e)
  BY <1>5 DEF FetchEvents, CommitEvents, InsertEvent
<1> QED BY <1>1, <1>2, <1>3, <1>4, <1>5 DEF Step

\* Such a step gives events to r alone, and takes none from anybody.
LEMMA StepKeepsOwners ==
  ASSUME IInv, OpenInv, NEW r \in Run, Step(r) \/ Crash(r)
  PROVE  /\ \A e \in Event : owner[e] # NoRun => owner'[e] = owner[e]
         /\ \A e \in Event : owner'[e] = owner[e] \/ owner'[e] = r
<1>1. \A e \in Event : owner'[e] = owner[e] \/ (owner'[e] = r /\ e \in unsaved[r])
  BY StepOwner DEF Saved
<1> QED BY <1>1 DEF OpenInv

\* A process of discovery touches no table.
LEMMA DiscoveryKeeps ==
  ASSUME DiscoveryWrites \/ DiscoveryCommits \/ DiscoveryEnds \/ UNCHANGED vars
  PROVE  UNCHANGED <<db, unsaved, pc, local, result, gap>>
BY DEF DiscoveryWrites, DiscoveryCommits, DiscoveryEnds, vars

\* No statement of any process deletes or reassigns what a run has committed:
\* an event keeps the run that stored it first, whoever reads it again, and
\* once complete_run has closed a run its row, its observations and its events
\* are what they will always be.
RecordsOnlyGrow ==
  [][/\ stateRows \subseteq stateRows' /\ obsRows \subseteq obsRows'
     /\ \A e \in Event : owner[e] # NoRun => owner'[e] = owner[e]
     /\ \A r \in Run : row[r].status \in Ended =>
          row'[r] = row[r] /\ ObservationRows(r)' = ObservationRows(r) /\ EventRows(r)' = EventRows(r)]_vars

LEMMA StepStores ==
  ASSUME NEW r \in Run, Step(r) \/ Crash(r)
  PROVE  stateRows \subseteq stateRows' /\ obsRows \subseteq obsRows'
<1> USE DEF db, Store, StorageError
<1>1. CASE CheckNetwork(r) \/ StartRun(r) \/ Configure(r) \/ CompleteRun(r) \/ Crash(r)
  BY <1>1 DEF CheckNetwork, StartRun, Configure, CompleteRun, Crash
<1>2. CASE \/ LoadPools(r) \/ AdaptersDone(r) \/ StatesDone(r) \/ PoolObserved(r)
           \/ ExecutionDone(r) \/ EventsDone(r)
  BY <1>2 DEF LoadPools, AdaptersDone, StatesDone, PoolObserved, ExecutionDone, EventsDone
<1>3. CASE \E p \in Pool : CollectState(r, p) \/ Analyze(r, p) \/ NextPool(r, p)
  BY <1>3 DEF CollectState, Analyze, NextPool
<1>4. CASE \E c \in Case : Observe(r, c)
  BY <1>4 DEF Observe
<1>5. CASE \E kind \in Kind : \/ FetchEvents(r, kind) \/ CommitEvents(r, kind)
                              \/ \E e \in Event : InsertEvent(r, kind, e)
  BY <1>5 DEF FetchEvents, CommitEvents, InsertEvent
<1> QED BY <1>1, <1>2, <1>3, <1>4, <1>5 DEF Step

\* A process that is over does nothing.
LEMMA OverIsOver ==
  ASSUME NEW r \in Run, pc[r] \in Over
  PROVE  ~(Step(r) \/ Crash(r))
BY DEF Over, Step, Crash, CheckNetwork, StartRun, Configure, LoadPools, AdaptersDone,
   CollectState, Analyze, NextPool, StatesDone, Observe, PoolObserved, ExecutionDone, EventsDone,
   FetchEvents, CommitEvents, InsertEvent, CompleteRun, FetchPhase, InsertPhase

\* A step of another run, or of r when it is still at work, changes nothing of
\* the closed run s.
LEMMA ClosedStays ==
  ASSUME IInv, AInv, OpenInv, NEW r \in Run, Step(r) \/ Crash(r),
         NEW s \in Run, row[s].status \in Ended
  PROVE  /\ row'[s] = row[s]
         /\ ObservationRows(s)' = ObservationRows(s) /\ EventRows(s)' = EventRows(s)
<1>1. pc[s] \in Over
  BY DEF AInv, Account, Recorded, Ended
<1>2. r # s
  BY <1>1, OverIsOver
<1>3. Stays(s)
  BY <1>2, OthersStay
<1>4. ObservationRows(s)' = ObservationRows(s)
  BY <1>3 DEF Stays, ObservationRows, StatesOf, ObsOf
<1>5. \A e \in Event : owner'[e] = s <=> owner[e] = s
  BY <1>2, StepKeepsOwners, RunAssumption
<1> QED BY <1>3, <1>4, <1>5 DEF Stays, EventRows

\* The promise of the tables to their readers, across every failure and crash.
THEOREM NothingIsTakenBack == Spec => RecordsOnlyGrow
<1> DEFINE Grow ==
     /\ stateRows \subseteq stateRows' /\ obsRows \subseteq obsRows'
     /\ \A e \in Event : owner[e] # NoRun => owner'[e] = owner[e]
     /\ \A r \in Run : row[r].status \in Ended =>
          row'[r] = row[r] /\ ObservationRows(r)' = ObservationRows(r) /\ EventRows(r)' = EventRows(r)
<1>1. IInv /\ AInv /\ OpenInv /\ [Next]_vars => [Grow]_vars
  <2> SUFFICES ASSUME IInv, AInv, OpenInv, [Next]_vars PROVE Grow
    OBVIOUS
  <2>1. ASSUME NEW r \in Run, Step(r) \/ Crash(r) PROVE Grow
    <3>1. stateRows \subseteq stateRows' /\ obsRows \subseteq obsRows'
      BY <2>1, StepStores
    <3>2. \A e \in Event : owner[e] # NoRun => owner'[e] = owner[e]
      BY <2>1, StepKeepsOwners
    <3>3. \A s \in Run : row[s].status \in Ended =>
            row'[s] = row[s] /\ ObservationRows(s)' = ObservationRows(s) /\ EventRows(s)' = EventRows(s)
      BY <2>1, ClosedStays
    <3> QED BY <3>1, <3>2, <3>3
  <2>2. CASE DiscoveryWrites \/ DiscoveryCommits \/ DiscoveryEnds \/ UNCHANGED vars
    BY <2>2, DiscoveryKeeps DEF db, ObservationRows, EventRows
  <2> QED BY <2>1, <2>2 DEF Next
<1> QED BY <1>1, Invariance, Accounting, OpenInvariance, PTL DEF Spec, RecordsOnlyGrow

-----------------------------------------------------------------------------
(* No run goes back *)

\* The passes of run_collection over one adapter, in their order.
Pass(phase) ==
  CASE phase = "check" -> 0
    [] phase = "start" -> 1
    [] phase = "configure" -> 2
    [] phase = "adapter" -> 3
    [] phase = "states" -> 4
    [] phase \in {"execution", "observe"} -> 5
    [] phase \in EventPhase -> 6
    [] phase = "complete" -> 7
    [] OTHER -> 8

\* Within a pass, what is done of the pool at hand.
Turn(phase) ==
  CASE phase \in {"observe", "fetch_swap"} -> 0
    [] phase = "insert_swap" -> 1
    [] phase = "fetch_liquidity" -> 2
    [] phase = "insert_liquidity" -> 3
    [] OTHER -> 4

Fewer(S, T) == S \subseteq T /\ S # T

\* One of these comes closer to its end, and nothing that counts more moves
\* back: the adapters, the passes over one, the pools of a pass, what is done
\* for a pool, and its cases or events.
Forward(r) ==
  \/ adapter'[r] = adapter[r] + 1
  \/ adapter'[r] = adapter[r] /\ Pass(pc[r]) < Pass(pc'[r])
  \/ /\ adapter'[r] = adapter[r] /\ Pass(pc'[r]) = Pass(pc[r])
     /\ \/ Fewer(left'[r], left[r])
        \/ left'[r] = left[r] /\ Turn(pc[r]) < Turn(pc'[r])
        \/ left'[r] = left[r] /\ pc'[r] = pc[r] /\ Fewer(todo'[r], todo[r])

\* Every step of a run is forward: of finitely many adapters, pools, cases and
\* events it takes finitely many, however often reads, inserts and commits fail.
\* This is what fairness needs to bring every run to its end.
LEMMA StepForward ==
  ASSUME IInv, NEW r \in Run, Step(r) \/ Crash(r)
  PROVE  Forward(r)
<1> USE DEF Pass, Turn, Fewer, EventPhase
<1>1. CASE CheckNetwork(r) \/ StartRun(r) \/ Configure(r) \/ CompleteRun(r)
  <2>1. adapter'[r] = adapter[r]
    BY <1>1 DEF CheckNetwork, StartRun, Configure, CompleteRun, local
  <2>2. Pass(pc[r]) < Pass(pc'[r])
    BY <1>1, Assigned DEF CheckNetwork, Judged, StartRun, Configure, CompleteRun, Goto, Raise
  <2> QED BY <2>1, <2>2 DEF Forward
<1>2. CASE AdaptersDone(r) \/ Crash(r)
  <2>1. adapter'[r] = adapter[r]
    BY <1>2 DEF AdaptersDone, Crash, local
  <2>2. pc[r] \in Phase
    BY DEF IInv, Typed, PlaceTyped
  <2>3. Pass(pc[r]) < Pass(pc'[r])
    BY <1>2, <2>2, Assigned DEF AdaptersDone, Crash, Goto, Over, Phase
  <2> QED BY <2>1, <2>3 DEF Forward
<1>3. CASE LoadPools(r)
  <2>1. pc[r] = "adapter" /\ (adapter'[r] = adapter[r] + 1 \/ (adapter'[r] = adapter[r] /\ pc'[r] \in {"states", "complete"}))
    BY <1>3, Assigned DEF LoadPools, Goto, Abort
  <2> QED BY <2>1 DEF Forward
<1>4. ASSUME ToEvents(r), pc[r] \in {"states", "execution"} PROVE Forward(r)
  <2>1. adapter'[r] = adapter[r] + 1 \/ (adapter'[r] = adapter[r] /\ pc'[r] = "events")
    BY <1>4, Assigned DEF ToEvents, Goto
  <2> QED BY <1>4, <2>1 DEF Forward
<1>5. CASE StatesDone(r)
  <2>1. CASE Goto(r, "execution") /\ UNCHANGED adapter
    <3>1. pc[r] = "states" /\ pc'[r] = "execution" /\ adapter'[r] = adapter[r]
      BY <1>5, <2>1, Assigned DEF StatesDone, Goto
    <3> QED BY <3>1 DEF Forward
  <2> QED BY <1>4, <1>5, <2>1 DEF StatesDone
<1>6. CASE ExecutionDone(r)
  BY <1>4, <1>6 DEF ExecutionDone
<1>7. ASSUME NEW p \in Pool, CollectState(r, p) \/ Analyze(r, p) \/ NextPool(r, p)
      PROVE  Forward(r)
  <2>1. adapter'[r] = adapter[r]
    BY <1>7 DEF CollectState, Analyze, NextPool
  <2>2. CASE left' = [left EXCEPT ![r] = @ \ {p}] /\ ~(pc[r] = "states" /\ Abort(r))
    <3>1. Fewer(left'[r], left[r])
      BY <1>7, <2>2, Assigned DEF CollectState, Analyze, NextPool
    <3>2. Pass(pc'[r]) = Pass(pc[r])
      <4>1. CASE CollectState(r, p)
        BY <4>1, <2>2 DEF CollectState
      <4>2. CASE Analyze(r, p)
        <5>1. pc[r] = "execution" /\ (pc'[r] = "observe" \/ pc'[r] = pc[r])
          BY <4>2, Assigned DEF Analyze, Goto
        <5> QED BY <5>1
      <4>3. CASE NextPool(r, p)
        <5>1. pc[r] = "events" /\ pc'[r] = "fetch_swap"
          BY <4>3, Assigned DEF NextPool, Goto
        <5> QED BY <5>1
      <4> QED BY <1>7, <4>1, <4>2, <4>3
    <3> QED BY <2>1, <3>1, <3>2 DEF Forward
  <2>3. CASE pc[r] = "states" /\ Abort(r)
    <3>1. pc'[r] = "complete"
      BY <2>3, Assigned DEF Abort, Goto
    <3> QED BY <2>1, <2>3, <3>1 DEF Forward
  <2> QED BY <1>7, <2>2, <2>3 DEF CollectState, Analyze, NextPool
<1>8. ASSUME NEW c \in Case, Observe(r, c)
      PROVE  Forward(r)
  <2>1. pc'[r] = pc[r] /\ adapter'[r] = adapter[r] /\ left'[r] = left[r]
    BY <1>8 DEF Observe
  <2>2. todo'[r] = todo[r] \ {c} /\ c \in todo[r]
    BY <1>8, Assigned DEF Observe
  <2> QED BY <2>1, <2>2 DEF Forward
<1>9. CASE PoolObserved(r)
  <2>1. pc[r] = "observe" /\ pc'[r] = "execution" /\ adapter'[r] = adapter[r] /\ left'[r] = left[r]
    BY <1>9, Assigned DEF PoolObserved, Goto
  <2> QED BY <2>1 DEF Forward
<1>10. CASE EventsDone(r)
  BY <1>10, Assigned DEF EventsDone, Forward
<1>11. ASSUME NEW kind \in Kind, FetchEvents(r, kind) \/ CommitEvents(r, kind)
       PROVE  Forward(r)
  <2>1. adapter'[r] = adapter[r] /\ left'[r] = left[r]
    BY <1>11 DEF FetchEvents, CommitEvents, local
  <2>2. pc[r] \in EventPhase /\ pc'[r] \in EventPhase /\ Turn(pc[r]) < Turn(pc'[r])
    BY <1>11, Assigned DEF FetchEvents, CommitEvents, Goto, FetchPhase, InsertPhase, AfterKind, Kind
  <2> QED BY <2>1, <2>2 DEF Forward
<1>12. ASSUME NEW kind \in Kind, NEW e \in Event, InsertEvent(r, kind, e)
       PROVE  Forward(r)
  <2>1. adapter'[r] = adapter[r] /\ left'[r] = left[r] /\ e \in todo[r] /\ pc[r] = InsertPhase(kind)
    BY <1>12 DEF InsertEvent
  <2>2. CASE pc' = pc /\ todo' = [todo EXCEPT ![r] = @ \ {e}]
    BY <2>1, <2>2, Assigned DEF Forward
  <2>3. CASE Goto(r, AfterKind(kind))
    <3>1. pc[r] \in EventPhase /\ pc'[r] \in EventPhase /\ Turn(pc[r]) < Turn(pc'[r])
      <4>1. pc'[r] = AfterKind(kind)
        BY <2>3, Assigned DEF Goto
      <4> QED BY <2>1, <4>1 DEF InsertPhase, AfterKind, Kind
    <3> QED BY <2>1, <3>1 DEF Forward
  <2> QED BY <1>12, <2>2, <2>3 DEF InsertEvent
<1> QED
  BY <1>1, <1>2, <1>3, <1>5, <1>6, <1>7, <1>8, <1>9, <1>10, <1>11, <1>12 DEF Step

\* Where a run is, what it has left, and what it will say of itself.
Still(r) ==
  /\ row'[r] = row[r] /\ pc'[r] = pc[r] /\ adapter'[r] = adapter[r] /\ left'[r] = left[r]
  /\ read'[r] = read[r] /\ pool'[r] = pool[r] /\ todo'[r] = todo[r] /\ result'[r] = result[r]

\* No collection run goes back, repeats a pass or spins in one: whoever takes a
\* step, each run moves forward or stands still.
NoWayBack == [][\A r \in Run : Forward(r) \/ Still(r)]_vars

\* run_collection and its collectors loop over what is finite, whatever fails:
\* with fairness, which makes a run at work take steps, this ends every run.
THEOREM RunsGoForward == Spec => NoWayBack
<1>1. IInv /\ [Next]_vars => [\A r \in Run : Forward(r) \/ Still(r)]_vars
  <2> SUFFICES ASSUME IInv, [Next]_vars, NEW s \in Run PROVE Forward(s) \/ Still(s)
    OBVIOUS
  <2>1. ASSUME NEW r \in Run, Step(r) \/ Crash(r) PROVE Forward(s) \/ Still(s)
    BY <2>1, StepForward, OthersStay DEF Stays, Still
  <2>2. CASE DiscoveryWrites \/ DiscoveryCommits \/ DiscoveryEnds \/ UNCHANGED vars
    BY <2>2, DiscoveryKeeps DEF db, local, Still
  <2> QED BY <2>1, <2>2 DEF Next
<1> QED BY <1>1, Invariance, PTL DEF Spec, NoWayBack

-----------------------------------------------------------------------------
(* What a completed run has of the events *)

Owned(p, kind) == \A e \in EventsOf[p][kind] : owner[e] # NoRun
OwnedAll(p)    == \A kind \in Kind : Owned(p, kind)

\* The adapters done; the pools done of the adapter at work; the swaps of the
\* pool at work, once its liquidity events are asked for; the batch at work;
\* and all adapters, once their loop is over.
PastOwned(r)  == InLoop(r) => \A a \in 1..Adapters : a < adapter[r] => \A p \in PoolsOf[a] : OwnedAll(p)
PoolsOwned(r) ==
  pc[r] \in EventPhase =>
    \A p \in PoolsOf[adapter[r]] \ left[r] : OwnedAll(p) \/ (pc[r] # "events" /\ p = pool[r])
SwapsOwned(r) == pc[r] \in {"fetch_liquidity", "insert_liquidity"} => Owned(pool[r], "swap")
BatchOwned(r) ==
  \A kind \in Kind : pc[r] = InsertPhase(kind) =>
    \A e \in EventsOf[pool[r]][kind] \ todo[r] : e \in unsaved[r] \/ owner[e] # NoRun
AllOwned == \A a \in 1..Adapters : \A p \in PoolsOf[a] : OwnedAll(p)

\* As long as the run has nothing to report and its scans lost nothing.
Spotless(r) == CollectEvents /\ ~gap[r] /\ ~result[r].errors /\ ~result[r].failed
EventsSoFar(r) ==
  /\ Spotless(r) =>
       PastOwned(r) /\ PoolsOwned(r) /\ SwapsOwned(r) /\ BatchOwned(r) /\ (pc[r] = "complete" => AllOwned)
  /\ row[r].status = "completed" /\ CollectEvents /\ ~gap[r] => AllOwned

EventsInv == \A r \in Run : EventsSoFar(r)

\* No step takes an event back, so what is owned stays owned.
Growing == \A e \in Event : owner[e] # NoRun => owner'[e] # NoRun

LEMMA NextGrows ==
  ASSUME IInv, OpenInv, [Next]_vars
  PROVE  Growing
<1>1. ASSUME NEW r \in Run, Step(r) \/ Crash(r) PROVE Growing
  BY <1>1, StepKeepsOwners DEF Growing
<1>2. CASE DiscoveryWrites \/ DiscoveryCommits \/ DiscoveryEnds \/ UNCHANGED vars
  BY <1>2, DiscoveryKeeps DEF db, Growing
<1> QED BY <1>1, <1>2 DEF Next

LEMMA OwnedStays ==
  ASSUME Growing
  PROVE  /\ \A p \in Pool : \A kind \in Kind : Owned(p, kind) => Owned(p, kind)'
         /\ \A p \in Pool : OwnedAll(p) => OwnedAll(p)'
         /\ AllOwned => AllOwned'
<1>1. \A p \in Pool : \A kind \in Kind : EventsOf[p][kind] \subseteq Event
  BY RunAssumption
<1>2. \A p \in Pool : \A kind \in Kind : Owned(p, kind) => Owned(p, kind)'
  BY <1>1 DEF Growing, Owned
<1>3. \A p \in Pool : OwnedAll(p) => OwnedAll(p)'
  BY <1>2 DEF OwnedAll
<1>4. \A a \in 1..Adapters : PoolsOf[a] \subseteq Pool
  BY RunAssumption
<1> QED BY <1>2, <1>3, <1>4 DEF AllOwned

\* A run that stands still while others commit.
LEMMA StillOwned ==
  ASSUME IInv, Growing, NEW s \in Run, EventsSoFar(s), Stays(s),
         gap'[s] = gap[s], unsaved'[s] = unsaved[s]
  PROVE  EventsSoFar(s)'
<1>0. /\ pool[s] \in Pool \cup {NoPool} /\ adapter[s] \in 1..Adapters + 1 /\ Adapters \in Nat
      /\ (pc[s] \in AtAdapter => adapter[s] \in 1..Adapters) /\ (pc[s] \in AtPool => pool[s] \in Pool)
  BY RunAssumption DEF IInv, Typed, PlaceTyped, Placed
<1>1. \A a \in 1..Adapters : PoolsOf[a] \subseteq Pool
  BY RunAssumption
<1>2. ASSUME Spotless(s)' PROVE (PastOwned(s) /\ PoolsOwned(s) /\ SwapsOwned(s) /\ BatchOwned(s))'
  <2>0. PastOwned(s) /\ PoolsOwned(s) /\ SwapsOwned(s) /\ BatchOwned(s)
    BY <1>2 DEF Spotless, Stays, EventsSoFar
  <2>1. PastOwned(s)'
    BY <1>1, <2>0, OwnedStays DEF PastOwned, Stays, InLoop
  <2>2. PoolsOwned(s)'
    BY <1>0, <1>1, <2>0, OwnedStays DEF PoolsOwned, Stays, EventPhase, AtAdapter, AtPool
  <2>3. SwapsOwned(s)'
    BY <1>0, <2>0, OwnedStays DEF SwapsOwned, Stays, AtPool, Kind
  <2>4. BatchOwned(s)'
    <3> SUFFICES ASSUME NEW kind \in Kind, pc[s] = InsertPhase(kind),
                        NEW e \in EventsOf[pool[s]][kind] \ todo[s]
        PROVE  e \in unsaved[s] \/ owner'[e] # NoRun
      BY DEF BatchOwned, Stays
    <3>1. e \in Event
      BY <1>0, RunAssumption DEF AtPool, InsertPhase
    <3> QED BY <2>0, <3>1 DEF BatchOwned, Growing
  <2> QED BY <2>1, <2>2, <2>3, <2>4
<1>3. Spotless(s)' => (pc[s] = "complete" => AllOwned)'
  BY OwnedStays DEF Spotless, Stays, EventsSoFar
<1>4. (row[s].status = "completed" /\ CollectEvents /\ ~gap[s] => AllOwned)'
  BY OwnedStays DEF Stays, EventsSoFar
<1> QED BY <1>2, <1>3, <1>4 DEF EventsSoFar

\* What the run would have to say of its events in the state a step leaves.
SpeaksTrue(r) ==
  PastOwned(r) /\ PoolsOwned(r) /\ SwapsOwned(r) /\ BatchOwned(r) /\ (pc[r] = "complete" => AllOwned)

\* Before the events of an adapter, only the adapters done matter.
LEMMA SameAdapterOwned ==
  ASSUME IInv, Growing, NEW r \in Run, PastOwned(r), InLoop(r), adapter'[r] = adapter[r],
         pc'[r] \in Early \cup {"states", "execution", "observe"}
  PROVE  SpeaksTrue(r)'
<1> USE DEF Early, EventPhase
<1>1. PastOwned(r)'
  BY OwnedStays, RunAssumption DEF PastOwned
<1>2. (PoolsOwned(r) /\ SwapsOwned(r) /\ BatchOwned(r))'
  BY DEF PoolsOwned, SwapsOwned, BatchOwned, InsertPhase
<1> QED BY <1>1, <1>2 DEF SpeaksTrue

\* The adapter is done, and so is each of its pools.
LEMMA NextAdapterOwned ==
  ASSUME IInv, Growing, NEW r \in Run, PastOwned(r), InLoop(r), adapter'[r] = adapter[r] + 1,
         pc'[r] = "adapter", \A p \in PoolsOf[adapter[r]] : OwnedAll(p)
  PROVE  SpeaksTrue(r)'
<1> USE DEF Early, EventPhase
<1>0. adapter[r] \in 1..Adapters + 1 /\ Adapters \in Nat
  BY RunAssumption DEF IInv, Typed, PlaceTyped
<1>1. \A a \in 1..Adapters : a < adapter'[r] => a < adapter[r] \/ a = adapter[r]
  BY <1>0
<1>2. PastOwned(r)'
  <2>1. \A a \in 1..Adapters : a < adapter'[r] => \A p \in PoolsOf[a] : OwnedAll(p)
    BY <1>1 DEF PastOwned
  <2> QED BY <2>1, OwnedStays, RunAssumption DEF PastOwned
<1>3. (PoolsOwned(r) /\ SwapsOwned(r) /\ BatchOwned(r))'
  BY DEF PoolsOwned, SwapsOwned, BatchOwned, InsertPhase
<1> QED BY <1>2, <1>3 DEF SpeaksTrue

\* The events of an adapter begin, with every pool still to come.
LEMMA ToEventsOwned ==
  ASSUME IInv, Growing, NEW r \in Run, PastOwned(r), InLoop(r), CollectEvents, ToEvents(r)
  PROVE  SpeaksTrue(r)'
<1>1. pc'[r] = "events" /\ left'[r] = PoolsOf[adapter[r]] /\ adapter'[r] = adapter[r]
  BY Assigned DEF ToEvents, Goto
<1>2. PastOwned(r)'
  BY <1>1, OwnedStays, RunAssumption DEF PastOwned
<1>3. (PoolsOwned(r) /\ SwapsOwned(r) /\ BatchOwned(r))'
  BY <1>1 DEF PoolsOwned, SwapsOwned, BatchOwned, InsertPhase
<1> QED BY <1>1, <1>2, <1>3 DEF SpeaksTrue

\* Inside the events of a pool: what moves is the batch.
LEMMA EventStepOwned ==
  ASSUME IInv, Growing, NEW r \in Run, Spotless(r), EventsSoFar(r), Spotless(r)',
         \/ \E p \in Pool : NextPool(r, p)
         \/ \E kind \in Kind : \/ FetchEvents(r, kind) \/ CommitEvents(r, kind)
                               \/ \E e \in Event : InsertEvent(r, kind, e)
  PROVE  SpeaksTrue(r)'
<1> USE DEF EventPhase
<1>0. /\ PastOwned(r) /\ PoolsOwned(r) /\ SwapsOwned(r) /\ BatchOwned(r)
      /\ adapter[r] \in 1..Adapters + 1 /\ Adapters \in Nat
      /\ (pc[r] \in AtAdapter => adapter[r] \in 1..Adapters) /\ (pc[r] \in AtPool => pool[r] \in Pool)
  BY RunAssumption DEF IInv, Typed, PlaceTyped, Placed, EventsSoFar
<1>0a. \A a \in 1..Adapters : PoolsOf[a] \subseteq Pool
  BY RunAssumption
<1>1. /\ pc[r] \in EventPhase /\ pc'[r] \in EventPhase /\ adapter'[r] = adapter[r]
      /\ adapter[r] \in 1..Adapters
  <2>1. pc[r] \in EventPhase /\ adapter'[r] = adapter[r]
    BY DEF NextPool, FetchEvents, CommitEvents, InsertEvent, FetchPhase, InsertPhase, Kind, local
  <2>2. pc'[r] \in EventPhase
    BY <2>1, Assigned DEF NextPool, FetchEvents, CommitEvents, InsertEvent, Goto, InsertPhase, AfterKind, Kind
  <2> QED BY <1>0, <2>1, <2>2 DEF AtAdapter, AtPool
<1>2. PastOwned(r)'
  BY <1>0, <1>0a, <1>1, OwnedStays DEF PastOwned, InLoop, AtAdapter, AtPool
<1>3. ASSUME NEW p \in Pool, NextPool(r, p) PROVE SpeaksTrue(r)'
  <2>1. /\ pc[r] = "events" /\ pc'[r] = "fetch_swap" /\ pool'[r] = p /\ left'[r] = left[r] \ {p}
    BY <1>3, Assigned DEF NextPool, Goto
  <2>2. PoolsOwned(r)'
    BY <1>0, <1>0a, <1>1, <2>1, OwnedStays DEF PoolsOwned
  <2>3. SwapsOwned(r)' /\ BatchOwned(r)'
    BY <2>1 DEF SwapsOwned, BatchOwned, InsertPhase
  <2> QED BY <1>2, <2>1, <2>2, <2>3 DEF SpeaksTrue
<1>4. ASSUME left'[r] = left[r], pool'[r] = pool[r], pc[r] # "events", pc'[r] # "events"
      PROVE  PoolsOwned(r)'
  BY <1>0, <1>0a, <1>1, <1>4, OwnedStays DEF PoolsOwned
<1>5. ASSUME NEW kind \in Kind, FetchEvents(r, kind) PROVE SpeaksTrue(r)'
  <2>1. PICK found \in Found(pool[r], kind) :
          /\ todo' = [todo EXCEPT ![r] = found]
          /\ gap' = [gap EXCEPT ![r] = @ \/ found # EventsOf[pool[r]][kind]]
          /\ Goto(r, InsertPhase(kind))
    BY <1>5, ErrorAt DEF FetchEvents, Spotless
  <2>2. todo'[r] = EventsOf[pool[r]][kind]
    <3>1. gap \in [Run -> BOOLEAN] /\ todo'[r] = found
      BY <2>1, Assigned DEF IInv, Typed, ResultTyped
    <3>2. gap'[r] = (gap[r] \/ found # EventsOf[pool[r]][kind])
      BY <2>1, <3>1
    <3> QED BY <3>1, <3>2 DEF Spotless
  <2>3. /\ pc[r] = FetchPhase(kind) /\ pc'[r] = InsertPhase(kind)
        /\ left'[r] = left[r] /\ pool'[r] = pool[r]
    BY <1>5, <2>1, Assigned DEF FetchEvents, Goto
  <2>4. PoolsOwned(r)'
    BY <1>4, <2>3 DEF FetchPhase, InsertPhase
  <2>5. SwapsOwned(r)'
    <3>1. pc'[r] = "insert_liquidity" => pc[r] = "fetch_liquidity"
      BY <2>3 DEF FetchPhase, InsertPhase, Kind
    <3>2. pc'[r] # "fetch_liquidity"
      BY <2>3 DEF InsertPhase
    <3> QED BY <1>0, <2>3, <3>1, <3>2, OwnedStays DEF SwapsOwned, AtPool, Kind
  <2>6. BatchOwned(r)'
    BY <2>2, <2>3 DEF BatchOwned, InsertPhase, Kind
  <2>7. pc'[r] # "complete"
    BY <1>1
  <2> QED BY <1>2, <2>4, <2>5, <2>6, <2>7 DEF SpeaksTrue
<1>6. ASSUME NEW kind \in Kind, CommitEvents(r, kind) PROVE SpeaksTrue(r)'
  <2>1. /\ pc[r] = InsertPhase(kind) /\ pc'[r] = AfterKind(kind) /\ todo[r] = {} /\ owner' = Saved(r)
        /\ left'[r] = left[r] /\ pool'[r] = pool[r] /\ pool[r] \in Pool
    BY <1>0, <1>6, Assigned DEF CommitEvents, Goto, local, AtPool, InsertPhase
  <2>2. Owned(pool[r], kind)'
    <3> SUFFICES ASSUME NEW e \in EventsOf[pool[r]][kind] PROVE owner'[e] # NoRun
      BY <2>1 DEF Owned
    <3>1. e \in Event /\ (e \in unsaved[r] \/ owner[e] # NoRun)
      BY <1>0, <2>1, RunAssumption DEF BatchOwned
    <3> QED BY <2>1, <3>1, RunAssumption DEF Saved
  <2>3. CASE kind = "swap"
    <3>1. pc'[r] = "fetch_liquidity" /\ pc[r] = "insert_swap"
      BY <2>1, <2>3 DEF AfterKind, InsertPhase
    <3>2. SwapsOwned(r)'
      BY <2>1, <2>2, <2>3 DEF SwapsOwned, Owned
    <3>3. PoolsOwned(r)'
      BY <1>4, <2>1, <3>1
    <3> QED BY <1>2, <3>1, <3>2, <3>3 DEF SpeaksTrue, BatchOwned, InsertPhase
  <2>4. CASE kind = "liquidity"
    <3>1. pc'[r] = "events" /\ pc[r] = "insert_liquidity"
      BY <2>1, <2>4 DEF AfterKind, InsertPhase
    <3>2. OwnedAll(pool[r])'
      <4>1. Owned(pool[r], "swap")'
        BY <1>0, <2>1, <3>1, OwnedStays DEF SwapsOwned, Kind
      <4> QED BY <2>2, <2>4, <4>1 DEF OwnedAll, Kind
    <3>3. PoolsOwned(r)'
      BY <1>0, <1>0a, <1>1, <2>1, <3>1, <3>2, OwnedStays DEF PoolsOwned
    <3> QED BY <1>2, <3>1, <3>3 DEF SpeaksTrue, SwapsOwned, BatchOwned, InsertPhase
  <2> QED BY <2>3, <2>4 DEF Kind
<1>7. ASSUME NEW kind \in Kind, NEW e \in Event, InsertEvent(r, kind, e) PROVE SpeaksTrue(r)'
  <2>1. /\ unsaved' = [unsaved EXCEPT ![r] = IF owner[e] = NoRun THEN @ \cup {e} ELSE @]
        /\ todo' = [todo EXCEPT ![r] = @ \ {e}] /\ UNCHANGED <<db, pc>>
    BY <1>7, ErrorAt DEF InsertEvent, Spotless
  <2>2. /\ pc[r] = InsertPhase(kind) /\ pc'[r] = pc[r] /\ left'[r] = left[r] /\ pool'[r] = pool[r]
        /\ todo'[r] = todo[r] \ {e} /\ owner' = owner
    BY <1>7, <2>1, Assigned DEF InsertEvent, db
  <2>3. unsaved'[r] = IF owner[e] = NoRun THEN unsaved[r] \cup {e} ELSE unsaved[r]
    BY <2>1 DEF IInv, LockInv, ConnInv
  <2>4. PoolsOwned(r)'
    BY <1>4, <2>2 DEF InsertPhase
  <2>5. SwapsOwned(r)'
    BY <1>0, <2>2, OwnedStays DEF SwapsOwned, AtPool, Kind
  <2>6. BatchOwned(r)'
    BY <1>0, <2>2, <2>3 DEF BatchOwned
  <2> QED BY <1>1, <1>2, <2>4, <2>5, <2>6 DEF SpeaksTrue
<1> QED BY <1>3, <1>5, <1>6, <1>7

\* A step forgets neither an error nor a gap.
LEMMA StepAdmits ==
  ASSUME IInv, NEW r \in Run, Step(r) \/ Crash(r), Spotless(r)'
  PROVE  Spotless(r)
<1>1. /\ gap \in [Run -> BOOLEAN]
      /\ result \in [Run -> [states : Nat, executions : Nat, errors : BOOLEAN, failed : BOOLEAN]]
  BY DEF IInv, Typed, ResultTyped
<1>2. gap[r] => gap'[r]
  <2>1. CASE UNCHANGED gap
    BY <2>1
  <2>2. CASE \E kind \in Kind : FetchEvents(r, kind)
    BY <1>1, <2>2 DEF FetchEvents
  <2> QED
    BY <2>1, <2>2
    DEF Step, Crash, CheckNetwork, StartRun, Configure, LoadPools, AdaptersDone, CollectState,
        Analyze, NextPool, StatesDone, Observe, PoolObserved, ExecutionDone, EventsDone,
        CommitEvents, InsertEvent, CompleteRun
<1>3. \/ UNCHANGED result
      \/ Abort(r)
      \/ \E i, j, error : Count(r, i, j, error)
  BY DEF Step, Crash, CheckNetwork, StartRun, Configure, LoadPools, AdaptersDone, CollectState,
         Analyze, NextPool, StatesDone, Observe, PoolObserved, ExecutionDone, EventsDone,
         FetchEvents, CommitEvents, InsertEvent, CompleteRun, AddError
<1>4. (result[r].errors => result'[r].errors) /\ (result[r].failed => result'[r].failed)
  <2>1. CASE Abort(r)
    BY <1>1, <2>1 DEF Abort
  <2>2. CASE \E i, j, error : Count(r, i, j, error)
    BY <1>1, <2>2 DEF Count
  <2> QED BY <1>3, <2>1, <2>2
<1> QED BY <1>2, <1>4 DEF Spotless

\* A spotless run speaks true after each of its steps.
LEMMA StepSpeaksTrue ==
  ASSUME IInv, Growing, NEW r \in Run, EventsSoFar(r), Step(r) \/ Crash(r), Spotless(r)'
  PROVE  SpeaksTrue(r)'
<1> USE DEF Early, EventPhase, AtAdapter, AtPool, InLoop
<1>0. Spotless(r) /\ CollectEvents
  BY StepAdmits DEF Spotless
<1>1. SpeaksTrue(r) /\ PastOwned(r)
  BY <1>0 DEF EventsSoFar, SpeaksTrue
<1>2. CASE pc'[r] \in Over
  BY <1>2 DEF Over, SpeaksTrue, PastOwned, PoolsOwned, SwapsOwned, BatchOwned, InsertPhase
<1>3. CASE CheckNetwork(r) \/ StartRun(r) \/ Configure(r)
  <2>1. pc'[r] \in Early \cup Over /\ pc[r] \in Early /\ adapter'[r] = adapter[r]
    BY <1>3, Assigned DEF CheckNetwork, Judged, StartRun, Configure, Goto, Raise, Over, local
  <2> QED BY <1>1, <1>2, <2>1, SameAdapterOwned
<1>4. CASE LoadPools(r)
  <2>1. CASE PoolsOf[adapter[r]] = {} /\ adapter' = [adapter EXCEPT ![r] = @ + 1] /\ UNCHANGED pc
    BY <1>1, <1>4, <2>1, Assigned, NextAdapterOwned DEF LoadPools
  <2>2. CASE Goto(r, "states") /\ UNCHANGED adapter
    BY <1>1, <1>4, <2>2, Assigned, SameAdapterOwned DEF LoadPools, Goto
  <2>3. CASE Abort(r)
    <3>1. result'[r].failed
      BY <2>3 DEF Abort, IInv, Typed, ResultTyped
    <3> QED BY <3>1 DEF Spotless
  <2> QED BY <1>4, <2>1, <2>2, <2>3 DEF LoadPools
<1>5. CASE AdaptersDone(r)
  <2>1. pc[r] = "adapter" /\ pc'[r] = "complete" /\ owner' = owner /\ adapter[r] > Adapters
    BY <1>5, Assigned DEF AdaptersDone, Goto, db
  <2>2. \A a \in 1..Adapters : a < adapter[r]
    BY <2>1, RunAssumption DEF IInv, Typed, PlaceTyped
  <2>3. AllOwned
    BY <1>1, <2>1, <2>2 DEF PastOwned, AllOwned
  <2> QED
    BY <2>1, <2>3, OwnedStays DEF SpeaksTrue, PastOwned, PoolsOwned, SwapsOwned, BatchOwned, InsertPhase
<1>6. ASSUME NEW p \in Pool, CollectState(r, p) \/ Analyze(r, p) PROVE SpeaksTrue(r)'
  <2>1. CASE pc[r] = "states" /\ Abort(r)
    <3>1. result'[r].failed
      BY <2>1 DEF Abort, IInv, Typed, ResultTyped
    <3> QED BY <3>1 DEF Spotless
  <2>2. CASE ~(pc[r] = "states" /\ Abort(r))
    <3>1. /\ pc[r] \in {"states", "execution"} /\ pc'[r] \in {"states", "execution", "observe"}
          /\ adapter'[r] = adapter[r]
      BY <1>6, <2>2, Assigned DEF CollectState, Analyze, Goto
    <3> QED BY <1>1, <3>1, SameAdapterOwned
  <2> QED BY <2>1, <2>2
<1>7. CASE StatesDone(r) \/ ExecutionDone(r)
  <2>1. CASE ToEvents(r)
    BY <1>0, <1>1, <1>7, <2>1, ToEventsOwned DEF StatesDone, ExecutionDone
  <2>2. CASE StatesDone(r) /\ Goto(r, "execution") /\ UNCHANGED adapter
    BY <1>1, <2>2, Assigned, SameAdapterOwned DEF StatesDone, Goto
  <2> QED BY <1>7, <2>1, <2>2 DEF StatesDone, ExecutionDone
<1>8. CASE PoolObserved(r) \/ \E c \in Case : Observe(r, c)
  <2>1. pc[r] = "observe" /\ pc'[r] \in {"execution", "observe"} /\ adapter'[r] = adapter[r]
    BY <1>8, Assigned DEF PoolObserved, Observe, Goto
  <2> QED BY <1>1, <2>1, SameAdapterOwned
<1>9. CASE EventsDone(r)
  <2>1. pc[r] = "events" /\ left[r] = {} /\ pc'[r] = "adapter" /\ adapter'[r] = adapter[r] + 1
    BY <1>9, Assigned DEF EventsDone, Goto
  <2>2. \A p \in PoolsOf[adapter[r]] : OwnedAll(p)
    BY <1>1, <2>1 DEF SpeaksTrue, PoolsOwned
  <2> QED BY <1>1, <2>1, <2>2, NextAdapterOwned
<1>10. CASE \/ \E p \in Pool : NextPool(r, p)
            \/ \E kind \in Kind : \/ FetchEvents(r, kind) \/ CommitEvents(r, kind)
                                  \/ \E e \in Event : InsertEvent(r, kind, e)
  BY <1>0, <1>10, EventStepOwned
<1>11. CASE CompleteRun(r) \/ Crash(r)
  BY <1>2, <1>11, Assigned DEF CompleteRun, Crash, Goto, Raise, Over
<1> QED BY <1>3, <1>4, <1>5, <1>6, <1>7, <1>8, <1>9, <1>10, <1>11 DEF Step

\* What the run closes as completed it has completed.
LEMMA StepClosesTrue ==
  ASSUME IInv, AInv, Growing, NEW r \in Run, EventsSoFar(r), Step(r) \/ Crash(r),
         row'[r].status = "completed", CollectEvents, ~gap'[r]
  PROVE  AllOwned'
<1>1. row[r].status # "completed"
  BY OverIsOver DEF AInv, Account, Recorded, Ended
<1>2. CASE CompleteRun(r) /\ row' # row
  <2>1. /\ pc[r] = "complete" /\ row'[r].status = FinalStatus(r) /\ gap'[r] = gap[r]
    BY <1>2, Assigned DEF CompleteRun
  <2>2. Spotless(r)
    BY <2>1 DEF FinalStatus, Spotless
  <2> QED BY <2>1, <2>2, OwnedStays DEF EventsSoFar
<1>3. CASE StartRun(r) /\ row' # row
  <2>1. row' = [row EXCEPT ![r].status = "running"]
    BY <1>3 DEF StartRun
  <2>2. row'[r].status = "running"
    BY <2>1 DEF IInv, Typed, DbTyped
  <2> QED BY <2>2
<1>4. CASE row' = row
  BY <1>1, <1>4
<1> QED
  BY <1>2, <1>3, <1>4
  DEF Step, Crash, CheckNetwork, Configure, LoadPools, AdaptersDone, CollectState, StorageError, db,
      Analyze, NextPool, StatesDone, Observe, PoolObserved, ExecutionDone, EventsDone,
      FetchEvents, CommitEvents, InsertEvent

\* Nobody else reports a gap of s, or inserts into its transaction.
LEMMA OthersLeaveEvents ==
  ASSUME IInv, NEW r \in Run, Step(r) \/ Crash(r), NEW s \in Run \ {r}
  PROVE  gap'[s] = gap[s] /\ unsaved'[s] = unsaved[s]
<1>1. gap'[s] = gap[s]
  <2>1. CASE UNCHANGED gap
    BY <2>1
  <2>2. CASE \E kind \in Kind : FetchEvents(r, kind)
    BY <2>2 DEF FetchEvents, IInv, Typed, ResultTyped
  <2> QED
    BY <2>1, <2>2
    DEF Step, Crash, CheckNetwork, StartRun, Configure, LoadPools, AdaptersDone, CollectState,
        Analyze, NextPool, StatesDone, Observe, PoolObserved, ExecutionDone, EventsDone,
        CommitEvents, InsertEvent, CompleteRun
<1>2. unsaved'[s] = unsaved[s]
  <2>1. CASE Step(r)
    <3>1. LockInv /\ pc \in [Run -> Phase]
      BY DEF IInv, Typed, PlaceTyped
    <3>2. LeavesOthers(r)
      BY <2>1, <3>1, StepDisciplined DEF Disciplined
    <3> QED BY <3>2 DEF LeavesOthers
  <2>2. CASE Crash(r)
    BY <2>2 DEF Crash, IInv, LockInv, ConnInv
  <2> QED BY <2>1, <2>2
<1> QED BY <1>1, <1>2

LEMMA NextEvents ==
  ASSUME IInv, AInv, OpenInv, EventsInv, [Next]_vars
  PROVE  EventsInv'
<1> SUFFICES ASSUME NEW s \in Run PROVE EventsSoFar(s)'
  BY DEF EventsInv
<1>0. Growing /\ EventsSoFar(s)
  BY NextGrows DEF EventsInv
<1>1. ASSUME NEW r \in Run, Step(r) \/ Crash(r), r # s PROVE EventsSoFar(s)'
  BY <1>0, <1>1, OthersStay, OthersLeaveEvents, StillOwned
<1>2. CASE Step(s) \/ Crash(s)
  <2>1. Spotless(s)' => SpeaksTrue(s)'
    BY <1>0, <1>2, StepSpeaksTrue
  <2>2. (row'[s].status = "completed" /\ CollectEvents /\ ~gap'[s]) => AllOwned'
    BY <1>0, <1>2, StepClosesTrue
  <2> QED BY <2>1, <2>2 DEF EventsSoFar, SpeaksTrue
<1>3. CASE DiscoveryWrites \/ DiscoveryCommits \/ DiscoveryEnds \/ UNCHANGED vars
  <2>1. UNCHANGED <<db, unsaved, pc, local, result, gap>>
    BY <1>3, DiscoveryKeeps
  <2>2. Stays(s)
    BY <2>1 DEF Stays, db, local, StatesOf, ObsOf
  <2> QED BY <1>0, <2>1, <2>2, StillOwned
<1> QED BY <1>1, <1>2, <1>3 DEF Next

\* The account of the events, kept whatever fails and whoever else collects.
THEOREM EventsInvariance == Spec => []EventsInv
<1>1. Init => EventsInv
  <2> SUFFICES ASSUME Init, NEW r \in Run PROVE EventsSoFar(r)
    BY DEF EventsInv
  <2>1. pc[r] = "check" /\ adapter[r] = 1 /\ row[r].status = "none"
    BY DEF Init
  <2>2. \A a \in 1..Adapters : ~(a < 1)
    BY RunAssumption
  <2> QED
    BY <2>1, <2>2
    DEF EventsSoFar, PastOwned, PoolsOwned, SwapsOwned, BatchOwned, EventPhase, InsertPhase
<1>2. IInv /\ AInv /\ OpenInv /\ EventsInv /\ [Next]_vars => EventsInv'
  BY NextEvents
<1> QED BY <1>1, <1>2, Invariance, Accounting, OpenInvariance, PTL DEF Spec

\* A run stored as "completed" that was asked for events has stored each event
\* of the block range, or a run before it has, unless its own log scans lost
\* some: the insert loops, their one commit per batch, and the runs that insert
\* the same events next to it lose none.
THEOREM CompletedButForGaps ==
  Spec => []((\A r \in Run : row[r].status = "completed" => ~gap[r]) => CompletedHasAllEvents)
<1>1. EventsInv => ((\A r \in Run : row[r].status = "completed" => ~gap[r]) => CompletedHasAllEvents)
  BY DEF EventsInv, EventsSoFar, AllOwned, OwnedAll, Owned, CompletedHasAllEvents
<1> QED BY <1>1, EventsInvariance, PTL

-----------------------------------------------------------------------------
(* Why runs fail *)

\* What the statements of a process do to the connections.
ConnStep(c) ==
  \/ UNCHANGED conn
  \/ Write(c) \/ LockedOut(c) \/ Read(c) \/ Commit(c) \/ WriteCommit(c) \/ Close(c)

\* They leave the others' as they are, but for snapshots that go stale.
LEMMA ConnOthers ==
  ASSUME IInv, NEW c \in Process, ConnStep(c), NEW d \in Process \ {c}
  PROVE  conn'[d] = conn[d] \/ (conn[d] = "snapshot" /\ conn'[d] = "stale")
<1>1. conn \in [Process -> ConnState]
  BY DEF IInv, LockInv, ConnInv
<1> QED BY <1>1 DEF ConnStep, Write, LockedOut, Read, Commit, WriteCommit, AfterCommit, Close

LEMMA StepConn ==
  ASSUME NEW r \in Run, Step(r) \/ Crash(r)
  PROVE  ConnStep(r)
<1> USE DEF ConnStep, Store, StorageError, Raise
<1>1. CASE CheckNetwork(r) \/ StartRun(r) \/ Configure(r) \/ CompleteRun(r) \/ Crash(r)
  BY <1>1 DEF CheckNetwork, StartRun, Configure, CompleteRun, Crash
<1>2. CASE \/ LoadPools(r) \/ AdaptersDone(r) \/ StatesDone(r) \/ PoolObserved(r)
           \/ ExecutionDone(r) \/ EventsDone(r)
  BY <1>2 DEF LoadPools, AdaptersDone, StatesDone, PoolObserved, ExecutionDone, EventsDone
<1>3. CASE \E p \in Pool : CollectState(r, p) \/ Analyze(r, p) \/ NextPool(r, p)
  BY <1>3 DEF CollectState, Analyze, NextPool
<1>4. CASE \E c \in Case : Observe(r, c)
  BY <1>4 DEF Observe
<1>5. CASE \E kind \in Kind : \/ FetchEvents(r, kind) \/ CommitEvents(r, kind)
                              \/ \E e \in Event : InsertEvent(r, kind, e)
  BY <1>5 DEF FetchEvents, CommitEvents, InsertEvent
<1> QED BY <1>1, <1>2, <1>3, <1>4, <1>5 DEF Step

LEMMA DiscoveryConn ==
  ASSUME DiscoveryWrites \/ DiscoveryCommits \/ DiscoveryEnds \/ UNCHANGED vars
  PROVE  Discovery \in Process /\ ConnStep(Discovery)
BY RunAssumption DEF DiscoveryWrites, DiscoveryCommits, DiscoveryEnds, vars, ConnStep

\* A transaction is left behind by a recorded failure only; one that goes on to
\* read, and so may go stale, by a run past its first adapter.
Unspoiled(r) ==
  /\ ~result[r].errors /\ ~result[r].failed => conn[r] \in {"auto", "writer"}
  /\ pc[r] \in {"check", "start", "configure"} => conn[r] = "auto"
  /\ adapter[r] = 1 /\ pc[r] \in Early \cup {"states"} => conn[r] = "auto"
  /\ conn[r] \in {"snapshot", "stale"} => 1 < adapter[r] /\ 1 < Adapters

SpoilInv == ~StatementFaults => \A r \in Run : Unspoiled(r)

\* What a step does to the connection of its run, when statements fail on the
\* lock only.
LEMMA StepUnspoiled ==
  ASSUME IInv, ~StatementFaults, NEW r \in Run, Unspoiled(r), Step(r) \/ Crash(r)
  PROVE  Unspoiled(r)'
<1> USE DEF Early, Over
<1>0. /\ conn \in [Process -> ConnState] /\ r \in Process
      /\ pc \in [Run -> Phase] /\ adapter \in [Run -> 1..Adapters + 1] /\ Adapters \in Nat
      /\ result \in [Run -> [states : Nat, executions : Nat, errors : BOOLEAN, failed : BOOLEAN]]
      /\ \A d \in Process : conn[r] = "writer" /\ conn[d] = "writer" => d = r
      /\ adapter[r] \in 1..Adapters + 1
  BY RunAssumption DEF IInv, LockInv, ConnInv, Typed, PlaceTyped, ResultTyped
<1>1. ASSUME conn'[r] = "auto" PROVE Unspoiled(r)'
  BY <1>1 DEF Unspoiled
<1>2. Store(r) \/ Raise(r) \/ Close(r) \/ Commit(r) => conn'[r] = "auto"
  BY <1>0 DEF Store, WriteCommit, AfterCommit, Raise, Close, Commit
<1>3. CASE CheckNetwork(r) \/ StartRun(r) \/ CompleteRun(r) \/ Crash(r)
  BY <1>1, <1>2, <1>3 DEF CheckNetwork, StartRun, CompleteRun, Crash
<1>4. CASE Configure(r)
  <2>1. CASE Raise(r)
    BY <1>1, <1>2, <2>1
  <2>2. CASE Goto(r, "adapter") /\ UNCHANGED conn
    BY <1>4, <2>2, Assigned DEF Configure, Goto, local, Unspoiled
  <2> QED BY <1>4, <2>1, <2>2 DEF Configure
<1>5. CASE LoadPools(r)
  <2>1. /\ pc[r] = "adapter" /\ adapter[r] <= Adapters /\ result'[r] = result[r]
        /\ conn'[r] = IF conn[r] = "open" THEN "snapshot" ELSE conn[r]
    BY <1>0, <1>5 DEF LoadPools, Read
  <2>2. \/ adapter'[r] = adapter[r] /\ pc'[r] = "states"
        \/ adapter'[r] = adapter[r] + 1 /\ pc'[r] = "adapter"
    BY <1>5, Assigned DEF LoadPools, Goto
  <2>3. adapter[r] = 1 \/ 1 < adapter[r]
    BY <1>0
  <2> QED BY <1>0, <2>1, <2>2, <2>3 DEF Unspoiled
<1>6. ASSUME conn'[r] = conn[r], adapter[r] <= adapter'[r], adapter'[r] \in Nat,
             result[r].errors => result'[r].errors, result[r].failed => result'[r].failed,
             \/ pc'[r] \notin Early \cup {"states"}
             \/ pc'[r] = "adapter" /\ adapter'[r] = adapter[r] + 1
             \/ pc'[r] = pc[r] /\ adapter'[r] = adapter[r]
      PROVE  Unspoiled(r)'
  BY <1>0, <1>6 DEF Unspoiled
<1>7. ASSUME LockedOut(r), result'[r].errors \/ result'[r].failed, adapter'[r] = adapter[r],
             pc'[r] \notin Early \cup {"states"}
      PROVE  Unspoiled(r)'
  <2>1. conn'[r] = IF conn[r] = "auto" THEN "open" ELSE conn[r]
    BY <1>0, <1>7 DEF LockedOut
  <2> QED BY <1>7, <2>1 DEF Unspoiled
<1>8. CASE AdaptersDone(r)
  BY <1>0, <1>6, <1>8, Assigned DEF AdaptersDone, Goto, local
<1>9. ASSUME NEW p \in Pool, CollectState(r, p) PROVE Unspoiled(r)'
  <2>1. CASE StorageError(r) /\ Abort(r)
    <3>1. pc'[r] = "complete" /\ adapter'[r] = adapter[r] /\ result'[r].failed /\ LockedOut(r)
      BY <1>0, <1>9, <2>1, Assigned DEF StorageError, Abort, Goto, CollectState
    <3> QED BY <1>7, <3>1
  <2>2. CASE Store(r)
    BY <1>1, <1>2, <2>2
  <2>3. CASE UNCHANGED <<conn, pc, result>>
    BY <1>0, <1>6, <1>9, <2>3 DEF CollectState
  <2> QED BY <1>9, <2>1, <2>2, <2>3 DEF CollectState
<1>10. ASSUME NEW c \in Case, Observe(r, c) PROVE Unspoiled(r)'
  <2>0. pc[r] = "observe" /\ pc'[r] = pc[r] /\ adapter'[r] = adapter[r]
    BY <1>10 DEF Observe
  <2>1. CASE StorageError(r) /\ AddError(r)
    BY <1>7, <2>0, <2>1, ErrorAt DEF StorageError
  <2>2. CASE Store(r)
    BY <1>1, <1>2, <2>2
  <2>3. CASE AddError(r) /\ UNCHANGED conn
    BY <1>0, <1>6, <2>0, <2>3, ErrorAt
  <2> QED BY <1>10, <2>1, <2>2, <2>3 DEF Observe
<1>11. ASSUME NEW kind \in Kind, NEW e \in Event, InsertEvent(r, kind, e) PROVE Unspoiled(r)'
  <2>0. /\ pc[r] \notin Early \cup {"states"} /\ pc'[r] \notin Early \cup {"states"}
        /\ adapter'[r] = adapter[r]
    BY <1>11, Assigned DEF InsertEvent, InsertPhase, AfterKind, Goto
  <2>1. CASE StorageError(r) /\ AddError(r)
    BY <1>7, <2>0, <2>1, ErrorAt DEF StorageError
  <2>2. CASE Write(r)
    <3>1. conn'[r] = "writer"
      BY <1>0, <2>2 DEF Write
    <3> QED BY <2>0, <3>1 DEF Unspoiled
  <2> QED BY <1>11, <2>1, <2>2 DEF InsertEvent
<1>12. CASE \E kind \in Kind : CommitEvents(r, kind)
  BY <1>1, <1>2, <1>12 DEF CommitEvents
<1>13. ASSUME ToEvents(r), UNCHANGED conn,
              result[r].errors => result'[r].errors, result[r].failed => result'[r].failed
       PROVE  Unspoiled(r)'
  <2>1. \/ pc'[r] = "events" /\ adapter'[r] = adapter[r]
        \/ pc'[r] = "adapter" /\ adapter'[r] = adapter[r] + 1
    BY <1>13, Assigned DEF ToEvents, Goto
  <2> QED BY <1>0, <1>6, <1>13, <2>1
<1>14. CASE StatesDone(r)
  <2>1. (result[r].errors => result'[r].errors) /\ (result[r].failed => result'[r].failed)
    BY <1>0, <1>14 DEF StatesDone, Count
  <2>2. CASE Goto(r, "execution") /\ UNCHANGED adapter
    <3>1. pc'[r] = "execution"
      BY <2>2, Assigned DEF Goto
    <3> QED BY <1>0, <1>6, <1>14, <2>1, <2>2, <3>1 DEF StatesDone
  <2> QED BY <1>13, <1>14, <2>1, <2>2 DEF StatesDone
<1>15. CASE ExecutionDone(r)
  BY <1>13, <1>15 DEF ExecutionDone
<1>16. CASE EventsDone(r)
  BY <1>0, <1>6, <1>16, Assigned DEF EventsDone, Goto
<1>17. ASSUME UNCHANGED <<conn, adapter>>, pc'[r] \notin Early \cup {"states"},
              UNCHANGED result \/ AddError(r)
       PROVE  Unspoiled(r)'
  BY <1>0, <1>6, <1>17, ErrorAt
<1>18. CASE PoolObserved(r) \/ \E p \in Pool : Analyze(r, p) \/ NextPool(r, p)
  <2>1. pc'[r] \notin Early \cup {"states"}
    BY <1>18, Assigned DEF PoolObserved, Analyze, NextPool, Goto
  <2> QED BY <1>17, <1>18, <2>1 DEF PoolObserved, Analyze, NextPool
<1>19. CASE \E kind \in Kind : FetchEvents(r, kind)
  <2>1. pc'[r] \notin Early \cup {"states"}
    BY <1>19, Assigned DEF FetchEvents, InsertPhase, AfterKind, Goto
  <2> QED BY <1>17, <1>19, <2>1 DEF FetchEvents
<1> QED
  BY <1>3, <1>4, <1>5, <1>8, <1>9, <1>10, <1>11, <1>12, <1>14, <1>15, <1>16, <1>18, <1>19 DEF Step

\* Another process makes a snapshot stale, no more.
LEMMA OthersSpoilNothing ==
  ASSUME NEW s \in Run, Unspoiled(s), conn'[s] = conn[s] \/ (conn[s] = "snapshot" /\ conn'[s] = "stale"),
         adapter'[s] = adapter[s], pc'[s] = pc[s], result'[s] = result[s]
  PROVE  Unspoiled(s)'
BY DEF Unspoiled

LEMMA NextUnspoiled ==
  ASSUME IInv, SpoilInv, [Next]_vars
  PROVE  SpoilInv'
<1> SUFFICES ASSUME ~StatementFaults, NEW s \in Run PROVE Unspoiled(s)'
  BY DEF SpoilInv
<1>0. Unspoiled(s) /\ s \in Process
  BY RunIsProcess DEF SpoilInv
<1>1. ASSUME NEW r \in Run, Step(r) \/ Crash(r), r # s PROVE Unspoiled(s)'
  <2>1. conn'[s] = conn[s] \/ (conn[s] = "snapshot" /\ conn'[s] = "stale")
    BY <1>0, <1>1, StepConn, ConnOthers, RunIsProcess
  <2>2. Stays(s)
    BY <1>1, OthersStay
  <2> QED BY <1>0, <2>1, <2>2, OthersSpoilNothing DEF Stays
<1>2. CASE Step(s) \/ Crash(s)
  BY <1>0, <1>2, StepUnspoiled
<1>3. CASE DiscoveryWrites \/ DiscoveryCommits \/ DiscoveryEnds \/ UNCHANGED vars
  <2>1. conn'[s] = conn[s] \/ (conn[s] = "snapshot" /\ conn'[s] = "stale")
    BY <1>0, <1>3, DiscoveryConn, ConnOthers, RunAssumption
  <2> QED BY <1>0, <1>3, <2>1, DiscoveryKeeps, OthersSpoilNothing DEF local
<1> QED BY <1>1, <1>2, <1>3 DEF Next

\* Connections are spoiled by recorded failures of inserts only, whoever else writes.
THEOREM SpoilInvariance == Spec => []SpoilInv
<1>1. Init => SpoilInv
  BY RunAssumption DEF Init, SpoilInv, Unspoiled
<1>2. IInv /\ SpoilInv /\ [Next]_vars => SpoilInv'
  BY NextUnspoiled
<1> QED BY <1>1, <1>2, Invariance, PTL DEF Spec

\* An insert failed before, and the connection has been left with its old snapshot.
StaleForGood(r) == conn[r] = "stale" /\ 1 < adapter[r] /\ (result[r].errors \/ result[r].failed)

\* A run fails for a reason.  Nobody else holding the lock and no statement
\* faulty, it aborts only because an insert of an earlier adapter failed and was
\* recorded: its transaction stayed open, pinned a snapshot at the next read of
\* the catalog, and went stale.  And it raises only for its command line, before
\* the loop, or at its last statement, stale in the same way.
FailsForAReason ==
  [][\A r \in Run : ~StatementFaults /\ ~Busy(r) =>
       /\ result'[r].failed /\ ~result[r].failed => StaleForGood(r)
       /\ pc'[r] = "raised" /\ pc[r] # "raised" =>
            \/ pc[r] = "configure" /\ Misconfigured
            \/ pc[r] = "complete" /\ StaleForGood(r)]_vars

\* The last step of a run that fails, seen from its own connection.
LEMMA StepFails ==
  ASSUME IInv, ~StatementFaults, NEW r \in Run, Step(r) \/ Crash(r), CanWrite(r)
  PROVE  /\ result'[r].failed => result[r].failed
         /\ pc'[r] = "raised" => pc[r] = "configure" /\ Misconfigured
<1>0. /\ result \in [Run -> [states : Nat, executions : Nat, errors : BOOLEAN, failed : BOOLEAN]]
      /\ ~WriteFails(r) /\ ~StorageError(r)
  BY DEF IInv, Typed, ResultTyped, WriteFails, StorageError, LockedOut
<1>1. \/ UNCHANGED result
      \/ \E i, j, error : Count(r, i, j, error)
  BY <1>0 DEF Step, Crash, CheckNetwork, StartRun, Configure, LoadPools, AdaptersDone, CollectState,
         Analyze, NextPool, StatesDone, Observe, PoolObserved, ExecutionDone, EventsDone,
         FetchEvents, CommitEvents, InsertEvent, CompleteRun, AddError
<1>2. result'[r].failed => result[r].failed
  BY <1>0, <1>1 DEF Count
<1>3. pc'[r] = "raised" => pc[r] = "configure" /\ Misconfigured
  <2>1. CASE CheckNetwork(r) \/ StartRun(r) \/ CompleteRun(r) \/ Crash(r)
    <3>1. \E phase \in Phase \ {"raised"} : Goto(r, phase)
      BY <1>0, <2>1 DEF CheckNetwork, Judged, StartRun, CompleteRun, Crash, Phase
    <3> QED BY <3>1, Assigned DEF Goto
  <2>2. CASE Configure(r)
    BY <2>2, Assigned DEF Configure, Goto
  <2>3. CASE \/ LoadPools(r) \/ AdaptersDone(r) \/ StatesDone(r) \/ PoolObserved(r)
             \/ ExecutionDone(r) \/ EventsDone(r)
             \/ \E p \in Pool : CollectState(r, p) \/ Analyze(r, p) \/ NextPool(r, p)
             \/ \E c \in Case : Observe(r, c)
             \/ \E kind \in Kind : \/ FetchEvents(r, kind) \/ CommitEvents(r, kind)
                                   \/ \E e \in Event : InsertEvent(r, kind, e)
    <3>1. pc[r] # "raised"
      BY <2>3 DEF LoadPools, AdaptersDone, StatesDone, PoolObserved, ExecutionDone, EventsDone,
         CollectState, Analyze, NextPool, Observe, FetchEvents, CommitEvents, InsertEvent,
         FetchPhase, InsertPhase
    <3>2. UNCHANGED pc \/ \E phase \in Phase \ {"raised"} : Goto(r, phase)
      BY <2>3 DEF LoadPools, AdaptersDone, StatesDone, PoolObserved, ExecutionDone, EventsDone,
         CollectState, Analyze, NextPool, Observe, FetchEvents, CommitEvents, InsertEvent,
         FetchPhase, InsertPhase, AfterKind, ToEvents, Abort, Phase
    <3> QED BY <3>1, <3>2, Assigned DEF Goto
  <2> QED BY <2>1, <2>2, <2>3 DEF Step
<1> QED BY <1>2, <1>3

\* Whatever the connection: it aborts and raises nowhere else.
LEMMA StepRaises ==
  ASSUME ~StatementFaults, NEW r \in Run, IInv, AInv, Step(r) \/ Crash(r), pc'[r] = "raised"
  PROVE  (pc[r] = "configure" /\ Misconfigured) \/ pc[r] = "complete" \/ pc[r] \in {"check", "start"}
<1>1. CASE CheckNetwork(r) \/ StartRun(r) \/ CompleteRun(r)
  BY <1>1 DEF CheckNetwork, StartRun, CompleteRun
<1>2. CASE Configure(r)
  BY <1>2, Assigned DEF Configure, Goto
<1>3. CASE ~(CheckNetwork(r) \/ StartRun(r) \/ CompleteRun(r) \/ Configure(r))
  <2>1. pc[r] # "raised"
    BY OverIsOver DEF Over
  <2>2. UNCHANGED pc \/ \E phase \in Phase \ {"raised"} : Goto(r, phase)
    BY <1>3 DEF Step, Crash, LoadPools, AdaptersDone, StatesDone, PoolObserved, ExecutionDone, EventsDone,
       CollectState, Analyze, NextPool, Observe, FetchEvents, CommitEvents, InsertEvent,
       FetchPhase, InsertPhase, AfterKind, ToEvents, Abort, Phase
  <2> QED BY <2>1, <2>2, Assigned DEF Goto
<1> QED BY <1>1, <1>2, <1>3

\* So it is throughout run_collection and its collectors: the disk working and the
\* lock free, only a failed insert of an earlier adapter makes a run fail.
THEOREM FailuresHaveReasons == Spec => FailsForAReason
<1> DEFINE Reasons ==
     \A r \in Run : ~StatementFaults /\ ~Busy(r) =>
       /\ result'[r].failed /\ ~result[r].failed => StaleForGood(r)
       /\ pc'[r] = "raised" /\ pc[r] # "raised" =>
            \/ pc[r] = "configure" /\ Misconfigured
            \/ pc[r] = "complete" /\ StaleForGood(r)
<1>1. IInv /\ AInv /\ SpoilInv /\ [Next]_vars => [Reasons]_vars
  <2> SUFFICES ASSUME IInv, AInv, SpoilInv, [Next]_vars, ~StatementFaults, NEW s \in Run, ~Busy(s)
      PROVE  /\ result'[s].failed /\ ~result[s].failed => StaleForGood(s)
             /\ pc'[s] = "raised" /\ pc[s] # "raised" =>
                  \/ pc[s] = "configure" /\ Misconfigured
                  \/ pc[s] = "complete" /\ StaleForGood(s)
    OBVIOUS
  <2>1. CASE Step(s) \/ Crash(s)
    <3>1. CASE CanWrite(s)
      BY <2>1, <3>1, StepFails
    <3>2. CASE ~CanWrite(s)
      <4>1. StaleForGood(s)
        BY <3>2 DEF CanWrite, SpoilInv, Unspoiled, StaleForGood
      <4>2. pc[s] \notin {"check", "start"}
        BY <4>1 DEF StaleForGood, SpoilInv, Unspoiled
      <4> QED BY <2>1, <4>1, <4>2, StepRaises
    <3> QED BY <3>1, <3>2
  <2>2. ASSUME NEW r \in Run, Step(r) \/ Crash(r), r # s PROVE Stays(s)
    BY <2>2, OthersStay
  <2>3. CASE DiscoveryWrites \/ DiscoveryCommits \/ DiscoveryEnds \/ UNCHANGED vars
    BY <2>3, DiscoveryKeeps DEF local
  <2> QED BY <2>1, <2>2, <2>3 DEF Next, Stays
<1> QED BY <1>1, Invariance, Accounting, SpoilInvariance, PTL DEF Spec, FailsForAReason

\* With one adapter, no insert of an earlier one can have failed: it is as
\* _run_execution says, a run aborts only while another process has the lock.
THEOREM OneAdapterAborts ==
  ASSUME ~StatementFaults, Adapters <= 1
  PROVE  Spec => AbortsOnlyWhenLockedOut
<1> DEFINE Reasons ==
     \A r \in Run : ~StatementFaults /\ ~Busy(r) =>
       /\ result'[r].failed /\ ~result[r].failed => StaleForGood(r)
       /\ pc'[r] = "raised" /\ pc[r] # "raised" =>
            \/ pc[r] = "configure" /\ Misconfigured
            \/ pc[r] = "complete" /\ StaleForGood(r)
    Aborts == \A r \in Run : result'[r].failed /\ ~result[r].failed => Busy(r)
<1>1. SpoilInv /\ [Reasons]_vars => [Aborts]_vars
  BY RunAssumption DEF SpoilInv, Unspoiled, StaleForGood
<1> QED BY <1>1, FailuresHaveReasons, SpoilInvariance, PTL DEF FailsForAReason, AbortsOnlyWhenLockedOut

\* Left alone by the other processes.
Undisturbed(r) == ~Busy(r)
Sane(r) == conn[r] \in {"auto", "writer"} /\ pc[r] # "raised" /\ ~result[r].failed

LEMMA UndisturbedStep ==
  ASSUME IInv, ~Misconfigured, ~StatementFaults, NEW s \in Run, Sane(s), Undisturbed(s), [Next]_vars
  PROVE  Sane(s)'
<1>0. s \in Process /\ CanWrite(s) /\ conn \in [Process -> ConnState]
  BY RunIsProcess DEF Sane, Undisturbed, CanWrite, IInv, LockInv, ConnInv
<1>1. CASE Step(s) \/ Crash(s)
  <2>1. conn'[s] \in {"auto", "writer"}
    <3>1. ConnStep(s) /\ ~LockedOut(s)
      BY <1>0, <1>1, StepConn DEF LockedOut
    <3> QED
      BY <1>0, <3>1 DEF Sane, ConnStep, Write, Read, Commit, WriteCommit, AfterCommit, Close
  <2> QED BY <1>0, <1>1, <2>1, StepFails DEF Sane
<1>2. ASSUME NEW r \in Run, Step(r) \/ Crash(r), r # s PROVE Sane(s)'
  <2>1. conn'[s] = conn[s] \/ (conn[s] = "snapshot" /\ conn'[s] = "stale")
    BY <1>0, <1>2, StepConn, ConnOthers, RunIsProcess
  <2>2. Stays(s)
    BY <1>2, OthersStay
  <2> QED BY <2>1, <2>2 DEF Sane, Stays
<1>3. CASE DiscoveryWrites \/ DiscoveryCommits \/ DiscoveryEnds \/ UNCHANGED vars
  <2>1. conn'[s] = conn[s] \/ (conn[s] = "snapshot" /\ conn'[s] = "stale")
    BY <1>0, <1>3, DiscoveryConn, ConnOthers, RunAssumption
  <2> QED BY <1>3, <2>1, DiscoveryKeeps DEF Sane
<1> QED BY <1>1, <1>2, <1>3 DEF Next

\* A run that never meets the lock of another process, with a command line that
\* names DEXes and blocks there are and a disk that works, neither fails nor
\* raises, whatever the provider answers and whatever the others do.
THEOREM UndisturbedRun ==
  ASSUME NEW r \in Run, ~Misconfigured, ~StatementFaults
  PROVE  Spec /\ []Undisturbed(r) => [](pc[r] # "raised" /\ ~result[r].failed)
<1>1. Init => Sane(r)
  BY RunAssumption DEF Init, Sane
<1>2. IInv /\ Sane(r) /\ Undisturbed(r) /\ [Next]_vars => Sane(r)'
  BY UndisturbedStep
<1>3. Sane(r) => pc[r] # "raised" /\ ~result[r].failed
  BY DEF Sane
<1> QED BY <1>1, <1>2, <1>3, Invariance, PTL DEF Spec

\* So in a database used by one process at a time every run is recorded as
\* pipeline.py:4-6 says: none that ended by itself is left "running".
THEOREM UndisturbedRunsRecorded ==
  ASSUME ~Misconfigured, ~StatementFaults
  PROVE  Spec /\ [](\A r \in Run : Undisturbed(r)) => []NoRunLeftRunning
<1> DEFINE AllSane == \A r \in Run : Sane(r)
           Alone == \A r \in Run : Undisturbed(r)
<1>1. Init => AllSane
  BY RunAssumption DEF Init, Sane
<1>2. IInv /\ AllSane /\ Alone /\ [Next]_vars => AllSane'
  BY UndisturbedStep
<1>3. AllSane => NoRunLeftRunning
  BY DEF Sane, NoRunLeftRunning
<1> QED BY <1>1, <1>2, <1>3, Invariance, PTL DEF Spec
=============================================================================
