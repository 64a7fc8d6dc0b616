-------------------------- MODULE RunReadersProofs --------------------------
(* What a request reads of a completed run is final, and the latest run only  *)
(* moves on, for any number of runs and any faults.  Both rest on what a step *)
(* of a run leaves alone: everything of the other runs (Own), and of its own  *)
(* everything once it is over (ClosedIsOver).                                 *)
EXTENDS RunReaders, Reports, CollectionRunProofs

\* The steps of a request leave the processes alone.
THEOREM ReadersRun == ReadersSpec => Spec
<1>1. ReadersInit => Init
  BY DEF ReadersInit
<1>2. [ReadersNext]_rvars => [Next]_vars
  BY DEF ReadersNext, rvars
<1> QED BY <1>1, <1>2, PTL DEF ReadersSpec, Spec

-----------------------------------------------------------------------------
(* What a step of a run leaves alone *)

\* A run that steps or dies is not over, changes no record and no row of another
\* run, and does not complete unless it is over then.
Own(r) ==
  /\ pc[r] \notin Over
  /\ \A s \in Run \ {r} :
       row'[s] = row[s] /\ pc'[s] = pc[s] /\ ObservationRows(s)' = ObservationRows(s)
  /\ row'[r].status \in Success /\ row'[r] # row[r] => pc'[r] \in Over

\* A step that leaves the tables of runs, states and observations alone.
LEMMA TablesKept ==
  ASSUME NEW r \in Run, pc[r] \notin Over, UNCHANGED <<row, stateRows, obsRows>>,
         \A s \in Run \ {r} : pc'[s] = pc[s]
  PROVE  Own(r)
BY DEF Own, ObservationRows

\* Every step of run_collection is of that kind but for four.
LEMMA StepOwn ==
  ASSUME IInv, NEW r \in Run, Step(r)
  PROVE  Own(r)
<1>0. pc \in [Run -> Phase] /\ row \in [Run -> [status : Status, observations : Nat, errors : BOOLEAN]]
  BY DEF IInv, Typed, PlaceTyped, DbTyped
<1> USE DEF Over
<1>1. CASE StartRun(r)
  <2>1. \/ row' = [row EXCEPT ![r].status = "running"]
        \/ row' = row
    BY <1>1 DEF StartRun
  <2>2. UNCHANGED <<stateRows, obsRows>> /\ pc[r] = "start" /\ \A s \in Run \ {r} : pc'[s] = pc[s]
    BY <1>0, <1>1 DEF StartRun, Raise, Goto
  <2>3. \A s \in Run \ {r} : row'[s] = row[s]
    BY <1>0, <2>1
  <2>4. row'[r].status \in Success => row'[r] = row[r]
    BY <1>0, <2>1 DEF Success
  <2> QED BY <2>2, <2>3, <2>4 DEF Own, ObservationRows
<1>2. CASE CompleteRun(r)
  <2>1. pc[r] = "complete" /\ UNCHANGED <<stateRows, obsRows>>
    BY <1>2 DEF CompleteRun
  <2>2. pc'[r] \in {"returned", "raised"} /\ \A s \in Run \ {r} : pc'[s] = pc[s]
    BY <1>0, <1>2 DEF CompleteRun, Raise, Goto
  <2>3. \A s \in Run \ {r} : row'[s] = row[s]
    BY <1>0, <1>2 DEF CompleteRun
  <2> QED BY <2>1, <2>2, <2>3 DEF Own, ObservationRows
<1>3. ASSUME NEW p \in Pool, CollectState(r, p)
      PROVE  Own(r)
  <2>1. pc[r] = "states" /\ UNCHANGED <<row, obsRows>> /\ \A s \in Run \ {r} : pc'[s] = pc[s]
    BY <1>0, <1>3 DEF CollectState, StorageError, Abort, Goto, db
  <2>2. stateRows' = stateRows \/ stateRows' = stateRows \cup {<<r, p>>}
    BY <1>3 DEF CollectState, StateRow, StorageError, db
  <2>3. \A s \in Run \ {r} : ObservationRows(s)' = ObservationRows(s)
    BY <2>1, <2>2 DEF ObservationRows
  <2> QED BY <2>1, <2>3 DEF Own
<1>4. ASSUME NEW c \in Case, Observe(r, c)
      PROVE  Own(r)
  <2>1. pc[r] = "observe" /\ UNCHANGED <<row, stateRows>> /\ UNCHANGED pc
    BY <1>4 DEF Observe, StorageError, db
  <2>2. \/ obsRows' = obsRows
        \/ \E success \in BOOLEAN : obsRows' = obsRows \cup {<<r, pool[r], c, success>>}
    BY <1>4 DEF Observe, ExecutionRow, StorageError, db
  <2>3. \A s \in Run \ {r} : ObservationRows(s)' = ObservationRows(s)
    BY <2>1, <2>2 DEF ObservationRows
  <2> QED BY <2>1, <2>3 DEF Own
<1>5. CASE CheckNetwork(r) \/ Configure(r) \/ LoadPools(r) \/ AdaptersDone(r) \/ StatesDone(r)
  BY <1>0, <1>5, TablesKept
  DEF CheckNetwork, Configure, LoadPools, AdaptersDone, StatesDone, ToEvents, Raise, Abort, Goto, db
<1>6. CASE PoolObserved(r) \/ ExecutionDone(r) \/ EventsDone(r) \/ \E p \in Pool : Analyze(r, p) \/ NextPool(r, p)
  BY <1>0, <1>6, TablesKept
  DEF PoolObserved, ExecutionDone, EventsDone, Analyze, NextPool, ToEvents, Goto, db
<1>7. ASSUME NEW kind \in Kind,
             FetchEvents(r, kind) \/ CommitEvents(r, kind) \/ \E e \in Event : InsertEvent(r, kind, e)
      PROVE  Own(r)
  <2>1. pc[r] \in {FetchPhase(kind), InsertPhase(kind)} /\ UNCHANGED <<row, stateRows, obsRows>>
    BY <1>7 DEF FetchEvents, CommitEvents, InsertEvent, StorageError, db
  <2>2. \A s \in Run \ {r} : pc'[s] = pc[s]
    BY <1>0, <1>7 DEF FetchEvents, CommitEvents, InsertEvent, Goto
  <2>3. pc[r] \notin Over
    BY <2>1 DEF FetchPhase, InsertPhase
  <2> QED BY <2>1, <2>2, <2>3, TablesKept
<1> QED BY <1>1, <1>2, <1>3, <1>4, <1>5, <1>6, <1>7 DEF Step

\* A run that is stored as completed is over.
ClosedIsOver == \A r \in Run : row[r].status \in Success => pc[r] \in Over

\* A step of the processes: at most one run completes, and no completed run
\* changes.
LEMMA ClosedIsFinal ==
  ASSUME IInv, ClosedIsOver, [Next]_vars
  PROVE  /\ ClosedIsOver'
         /\ \A r \in Completed : r \in Completed' /\ Answer(r)' = Answer(r)
         /\ \/ Completed' = Completed
            \/ \E r \in Run : Completed' = Completed \cup {r}
<1>1. ASSUME NEW r \in Run, Own(r)
      PROVE  /\ ClosedIsOver'
             /\ \A s \in Completed : s \in Completed' /\ Answer(s)' = Answer(s)
             /\ Completed' = Completed \/ Completed' = Completed \cup {r}
  <2>1. r \notin Completed
    BY <1>1 DEF Own, ClosedIsOver, Completed
  <2>2. \A s \in Run \ {r} : row'[s] = row[s] /\ pc'[s] = pc[s] /\ Answer(s)' = Answer(s)
    BY <1>1 DEF Own, Answer
  <2>3. \A s \in Run \ {r} : s \in Completed' <=> s \in Completed
    BY <2>2 DEF Completed
  <2>4. row'[r].status \in Success => pc'[r] \in Over
    BY <1>1, <2>1 DEF Own, Completed
  <2> QED BY <2>1, <2>2, <2>3, <2>4 DEF ClosedIsOver, Completed
<1>2. CASE UNCHANGED <<row, stateRows, obsRows, pc>>
  BY <1>2 DEF ClosedIsOver, Completed, Answer, ObservationRows
<1>3. ASSUME NEW r \in Run, Crash(r)
      PROVE  Own(r)
  <2>1. pc[r] \notin Over /\ UNCHANGED <<row, stateRows, obsRows>>
    BY <1>3 DEF Crash, db
  <2>2. \A s \in Run \ {r} : pc'[s] = pc[s]
    BY <1>3 DEF Crash, Goto, IInv, Typed, PlaceTyped
  <2> QED BY <2>1, <2>2, TablesKept
<1>4. CASE DiscoveryWrites \/ DiscoveryCommits \/ DiscoveryEnds \/ UNCHANGED vars
  BY <1>2, <1>4 DEF DiscoveryWrites, DiscoveryCommits, DiscoveryEnds, vars, db
<1>5. CASE \E r \in Run : Step(r) \/ Crash(r)
  BY <1>1, <1>3, <1>5, StepOwn
<1> QED BY <1>4, <1>5 DEF Next

-----------------------------------------------------------------------------
(* The latest run *)

\* b is a, or a run that started after it.
NotBefore(a, b) == b = a \/ (b \in Run /\ (a = NoRun \/ Age[a] < Age[b]))

\* As long as nothing but NoRun and runs is compared, it is an order.
LEMMA NotBeforeTransitive ==
  ASSUME NEW a \in Run \cup {NoRun}, NEW b \in Run \cup {NoRun}, NEW c \in Run \cup {NoRun},
         NotBefore(a, b), NotBefore(b, c)
  PROVE  NotBefore(a, c)
BY RunAssumption, ReaderAssumption DEF NotBefore

\* Some run is the newest; no induction on the set is needed, because the runs
\* complete one by one.
HasNewest(runs) == runs # {} => \E r \in runs : \A s \in runs : Age[s] <= Age[r]

\* Newest picks that run.
LEMMA NewestIs ==
  ASSUME NEW runs \in SUBSET Run, NEW r \in runs, \A s \in runs : Age[s] <= Age[r]
  PROVE  Newest(runs) = r
<1>1. \A s \in runs : (\A t \in runs : Age[t] <= Age[s]) => s = r
  BY ReaderAssumption
<1> QED BY <1>1 DEF Newest

\* Hence it picks one of the runs, if there are any.
LEMMA NewestMember ==
  ASSUME NEW runs \in SUBSET Run, HasNewest(runs)
  PROVE  Newest(runs) \in runs \cup {NoRun}
<1>1. CASE runs = {}
  BY <1>1 DEF Newest
<1>2. ASSUME NEW r \in runs, \A s \in runs : Age[s] <= Age[r]
      PROVE  Newest(runs) = r
  BY <1>2, NewestIs
<1> QED BY <1>1, <1>2 DEF HasNewest

\* One run more: the newest is the same or the new one.
LEMMA NewestGrows ==
  ASSUME NEW runs \in SUBSET Run, HasNewest(runs), NEW r \in Run
  PROVE  /\ HasNewest(runs \cup {r})
         /\ NotBefore(Newest(runs), Newest(runs \cup {r}))
<1>1. CASE runs = {}
  <2>1. Newest(runs) = NoRun
    BY <1>1 DEF Newest
  <2>2. runs \cup {r} = {r} /\ Age[r] <= Age[r]
    BY <1>1, ReaderAssumption
  <2>3. Newest(runs \cup {r}) = r
    BY <2>2, NewestIs
  <2> QED BY <2>1, <2>2, <2>3 DEF HasNewest, NotBefore
<1>2. CASE runs # {}
  <2>1. PICK m \in runs : \A s \in runs : Age[s] <= Age[m]
    BY <1>2 DEF HasNewest
  <2>2. Newest(runs) = m
    BY <2>1, NewestIs
  <2>3. CASE Age[r] <= Age[m]
    <3>1. \A s \in runs \cup {r} : Age[s] <= Age[m]
      BY <2>1, <2>3
    <3>2. Newest(runs \cup {r}) = m
      BY <3>1, NewestIs
    <3> QED BY <2>2, <3>1, <3>2 DEF HasNewest, NotBefore
  <2>4. CASE Age[m] < Age[r]
    <3>1. \A s \in runs \cup {r} : Age[s] <= Age[r]
      BY <2>1, <2>4, ReaderAssumption
    <3>2. Newest(runs \cup {r}) = r
      BY <3>1, NewestIs
    <3> QED BY <2>2, <2>4, <3>1, <3>2 DEF HasNewest, NotBefore
  <2> QED BY <2>1, <2>3, <2>4, ReaderAssumption
<1> QED BY <1>1, <1>2

\* The latest run after a step of the processes.
LEMMA LatestRunMovesOn ==
  ASSUME IInv, ClosedIsOver, HasNewest(Completed), [Next]_vars
  PROVE  /\ HasNewest(Completed') /\ NotBefore(LatestRun, LatestRun')
         /\ LatestRun \in Completed \cup {NoRun} /\ LatestRun' \in Completed' \cup {NoRun}
<1>1. Completed \in SUBSET Run /\ Completed' \in SUBSET Run
  BY DEF Completed
<1>2. CASE Completed' = Completed
  BY <1>1, <1>2 DEF HasNewest, NotBefore, LatestRun, Newest
<1>3. ASSUME NEW r \in Run, Completed' = Completed \cup {r}
      PROVE  HasNewest(Completed') /\ NotBefore(LatestRun, LatestRun')
  BY <1>1, <1>3, NewestGrows DEF LatestRun
<1>4. HasNewest(Completed') /\ NotBefore(LatestRun, LatestRun')
  BY <1>2, <1>3, ClosedIsFinal
<1>5. Newest(Completed) \in Completed \cup {NoRun} /\ Newest(Completed') \in Completed' \cup {NoRun}
  BY <1>1, <1>4, NewestMember
<1> QED BY <1>4, <1>5 DEF LatestRun

-----------------------------------------------------------------------------
\* What a request was told is a completed run, and the snapshot it may be told
\* from is not ahead of the database.
RInv ==
  /\ ClosedIsOver
  /\ HasNewest(Completed)
  /\ latest \in {Idle, NoRun} \cup Completed
  /\ held \in {Free, NoRun} \cup Completed
  /\ held # Free => NotBefore(held, LatestRun)

\* It holds of the processes and the requests together.
THEOREM ReadersInvariance == ReadersSpec => [](IInv /\ RInv)
<1>1. ReadersInit => RInv
  BY DEF ReadersInit, Init, RInv, ClosedIsOver, Completed, HasNewest, Success
<1>2. IInv /\ RInv /\ [ReadersNext]_rvars => RInv'
  <2> SUFFICES ASSUME IInv, RInv, [ReadersNext]_rvars PROVE RInv'
    OBVIOUS
  <2>1. CASE [Next]_vars /\ UNCHANGED <<latest, held>>
    <3>1. ClosedIsOver' /\ Completed \subseteq Completed'
      BY <2>1, ClosedIsFinal DEF RInv
    <3>2. /\ HasNewest(Completed') /\ NotBefore(LatestRun, LatestRun')
          /\ LatestRun \in Completed \cup {NoRun} /\ LatestRun' \in Completed' \cup {NoRun}
      BY <2>1, LatestRunMovesOn DEF RInv
    <3>3. held # Free => NotBefore(held, LatestRun')
      BY <3>2, NotBeforeTransitive DEF RInv, Completed
    <3> QED BY <2>1, <3>1, <3>2, <3>3 DEF RInv
  <2>2. CASE (Ask \/ Answered \/ OthersExecute \/ OthersFetch) /\ UNCHANGED vars
    <3>1. UNCHANGED Completed /\ UNCHANGED LatestRun /\ ClosedIsOver'
      BY <2>2 DEF vars, db, Completed, LatestRun, ClosedIsOver, RInv
    <3>2. LatestRun \in Completed \cup {NoRun}
      BY NewestMember DEF RInv, LatestRun, Completed
    <3> QED BY <2>2, <3>1, <3>2 DEF RInv, Ask, Answered, OthersExecute, OthersFetch, Visible,
               NotBefore, HasNewest
  <2> QED BY <2>1, <2>2 DEF ReadersNext, rvars
<1> QED BY <1>1, <1>2, ReadersRun, Invariance, PTL DEF ReadersSpec

\* The statements of a request agree about the run it was told: nobody changes
\* the record or the rows of a completed run (latest_run, complete_run).
THEOREM RequestsAgree == ReadersSpec => AnswersAgree
<1>1. IInv /\ RInv /\ [ReadersNext]_rvars
        => [latest' = latest /\ latest \in Run => Answer(latest)' = Answer(latest)]_rvars
  <2> SUFFICES ASSUME IInv, RInv, [ReadersNext]_rvars, latest' = latest, latest \in Run
               PROVE  Answer(latest)' = Answer(latest)
    OBVIOUS
  <2>1. latest \in Completed
    BY RunAssumption, ReaderAssumption DEF RInv
  <2>2. [Next]_vars
    BY DEF ReadersNext, rvars
  <2>3. \A r \in Completed : Answer(r)' = Answer(r)
    BY <2>2, ClosedIsFinal DEF RInv
  <2> QED BY <2>1, <2>3 DEF Answer, ObservationRows
<1> QED BY <1>1, ReadersInvariance, PTL DEF ReadersSpec, AnswersAgree

\* Nobody is told an older run than was told before, from whatever snapshot the
\* shared connection answers (Repository._execute, latest_run).
THEOREM LatestOnlyMovesOn == ReadersSpec => LatestMovesOn
<1>1. IInv /\ RInv /\ [ReadersNext]_rvars
        => [Visible' # Visible =>
              Visible' \in Run /\ (Visible = NoRun \/ Age[Visible] < Age[Visible'])]_rvars
  <2> SUFFICES ASSUME IInv, RInv, [ReadersNext]_rvars PROVE NotBefore(Visible, Visible')
    BY DEF NotBefore
  <2>1. CASE [Next]_vars /\ UNCHANGED <<latest, held>>
    BY <2>1, LatestRunMovesOn DEF RInv, Visible, NotBefore
  <2>2. CASE (Ask \/ Answered \/ OthersExecute \/ OthersFetch) /\ UNCHANGED vars
    <3>1. UNCHANGED LatestRun
      BY <2>2 DEF vars, db, Completed, LatestRun
    <3> QED BY <2>2, <3>1 DEF RInv, Ask, Answered, OthersExecute, OthersFetch, Visible, NotBefore
  <2> QED BY <2>1, <2>2 DEF ReadersNext, rvars
<1> QED BY <1>1, ReadersInvariance, PTL DEF ReadersSpec, LatestMovesOn

-----------------------------------------------------------------------------
(* Reports and benchmarks.  A report reads one table at a time, but rows are  *)
(* only added to the tables, and none to those of a completed run.            *)

\* What belongs to a run that has no record yet.
Unregistered(r) == row[r].status = "none" => EventRows(r) = {}

\* What holds of the processes whatever reads beside them.
ProcessInv == IInv /\ AInv /\ OpenInv /\ \A r \in Run : Unregistered(r)

\* A step of the processes leaves what is over alone, and takes nothing back.
LEMMA ProcessStep ==
  ASSUME ProcessInv, [Next]_vars
  PROVE  /\ ProcessInv'
         /\ \A r \in Run : pc[r] \in Over => Stays(r)
         /\ \A r \in Run : StatesOf(r) \subseteq StatesOf(r)' /\ ObsOf(r) \subseteq ObsOf(r)'
         /\ \A r \in Run : row[r].status # "none" => row'[r].status # "none"
<1>0. IInv /\ AInv /\ OpenInv /\ row \in [Run -> [status : Status, observations : Nat, errors : BOOLEAN]]
  BY DEF ProcessInv, IInv, Typed, DbTyped
<1>1. IInv' /\ AInv' /\ OpenInv'
  BY <1>0, NextInv, NextAccounts, NextOpen
<1>2. [Records!Next]_Records!vars
  BY <1>0, NextRecords
<1>3. \A r \in Run : row[r].status # "none" => row'[r].status # "none"
  <2>1. \/ row' = row
        \/ \E r \in Run : row' = [row EXCEPT ![r].status = "running"]
        \/ \E r \in Run, status \in Records!Success \cup {"failed"} : \E n, errors :
             row' = [row EXCEPT ![r] = [status |-> status, observations |-> n, errors |-> errors]]
    BY <1>2, Zenon DEF Records!Next, Records!Begin, Records!Record, Records!Finish, Records!vars
  <2>2. ASSUME NEW r \in Run, NEW status \in Records!Success \cup {"failed"}, NEW n, NEW errors,
               row' = [row EXCEPT ![r] = [status |-> status, observations |-> n, errors |-> errors]]
        PROVE  \A s \in Run : row[s].status # "none" => row'[s].status # "none"
    BY <1>0, <2>2 DEF Records!Success
  <2>3. ASSUME NEW r \in Run, row' = [row EXCEPT ![r].status = "running"]
        PROVE  \A s \in Run : row[s].status # "none" => row'[s].status # "none"
    BY <1>0, <2>3
  <2> QED BY <2>1, <2>2, <2>3
<1>4. \A r \in Run : EventRows(r)' # EventRows(r) => row[r].status = "running"
  <2> DEFINE events == [s \in Run |-> EventRows(s)]
  <2>1. \/ events' = events
        \/ \E r \in Run : \E more : row[r].status = "running" /\ events' = [events EXCEPT ![r] = @ \cup more]
    BY <1>2, Zenon
    DEF Records!Next, Records!Begin, Records!Record, Records!Finish, Records!vars, Records!RecordEvents
  <2>2. \A r \in Run : events[r] = EventRows(r) /\ events'[r] = EventRows(r)'
    OBVIOUS
  <2>3. events \in [Run -> {EventRows(s) : s \in Run}]
    OBVIOUS
  <2> HIDE DEF events
  <2> QED BY <2>1, <2>2, <2>3
<1>5. \A r \in Run : Unregistered(r)'
  BY <1>3, <1>4 DEF Unregistered, ProcessInv
<1>6. \A r \in Run : pc[r] \in Over => Stays(r)
  <2>1. ASSUME NEW r \in Run, Step(r) \/ Crash(r), NEW s \in Run, pc[s] \in Over
        PROVE  Stays(s)
    <3>1. pc[r] \notin Over
      BY <1>0, <2>1, StepOwn DEF Own, Crash
    <3> QED BY <1>0, <2>1, <3>1, OthersStay
  <2>2. CASE UNCHANGED <<db, pc, local, result>>
    BY <2>2 DEF db, local, Stays, StatesOf, ObsOf
  <2> QED BY <2>1, <2>2 DEF Next, DiscoveryWrites, DiscoveryCommits, DiscoveryEnds, vars
<1>7. stateRows \subseteq stateRows' /\ obsRows \subseteq obsRows'
  <2>1. ASSUME NEW r \in Run, Step(r)
        PROVE  stateRows \subseteq stateRows' /\ obsRows \subseteq obsRows'
    BY <2>1 DEF Step, CheckNetwork, StartRun, Configure, LoadPools, AdaptersDone, CollectState,
       Analyze, NextPool, StatesDone, Observe, PoolObserved, ExecutionDone, EventsDone, FetchEvents,
       CommitEvents, InsertEvent, CompleteRun, StorageError, db
  <2>2. CASE UNCHANGED db
    BY <2>2 DEF db
  <2> QED BY <2>1, <2>2 DEF Next, Crash, DiscoveryWrites, DiscoveryCommits, DiscoveryEnds, vars
<1>8. \A r \in Run : StatesOf(r) \subseteq StatesOf(r)' /\ ObsOf(r) \subseteq ObsOf(r)'
  BY <1>7 DEF StatesOf, ObsOf
<1> QED BY <1>1, <1>3, <1>5, <1>6, <1>8 DEF ProcessInv

LEMMA ProcessStart == Init => ProcessInv
<1>1. Init => OpenInv /\ \A r \in Run : Unregistered(r)
  BY RunAssumption DEF Init, OpenInv, Unregistered, EventRows
<1> QED BY <1>1, InitInv, InitAccounts DEF ProcessInv

\* What a completed run says of itself.
LEMMA CompletedAccount ==
  ASSUME ProcessInv, NEW r \in Run, row[r].status \in Success
  PROVE  /\ pc[r] \in Over
         /\ row[r].observations = result[r].states + result[r].executions
         /\ row[r].observations = Cardinality(StatesOf(r)) + Cardinality(ObsOf(r))
         /\ result[r].executions = Cardinality(ObsOf(r))
BY DEF ProcessInv, AInv, Account, Recorded, Counts, Success, Ended

\* How many rows of a run the tables hold.
LEMMA TablesCounted ==
  ASSUME ProcessInv, NEW r \in Run
  PROVE  /\ IsFiniteSet(StatesOf(r)) /\ Cardinality(StatesOf(r)) \in Nat
         /\ IsFiniteSet(ObsOf(r)) /\ Cardinality(ObsOf(r)) \in Nat
BY FS_CardinalityType DEF ProcessInv, AInv, Account, Counts

\* What the report shows of the observations of r, as far as it has read.
Shows(r) ==
  LET so(n) == shown[r] <= n /\ (r \in settled => shown[r] = n) IN
  /\ section \in {0, 1} => shown[r] = 0
  /\ section = 2 => so(Cardinality(StatesOf(r)))
  /\ section \in 3..6 => so(Cardinality(StatesOf(r)) + Cardinality(ObsOf(r)))

\* The runs table of the report: what it says of a completed run stays true.
Lists(r) ==
  section = 6 =>
    /\ listed[r].status \in Success => listed[r] = row[r]
    /\ r \in settled => listed[r].status \in Success
    /\ r \in named => listed[r].status # "none"

RepTyped ==
  /\ section \in 0..6 /\ settled \subseteq Run /\ named \subseteq Run
  /\ shown \in [Run -> Nat]
  /\ listed \in [Run -> [status : Status, observations : Nat, errors : BOOLEAN]]

RepInv ==
  /\ RepTyped
  /\ \A r \in Run : Shows(r) /\ Lists(r)
  /\ \A r \in settled : row[r].status \in Success
  /\ \A r \in named : row[r].status # "none"

\* The processes go on under a report.
LEMMA ReportStands ==
  ASSUME ProcessInv, RepInv, [Next]_vars, UNCHANGED reportVars
  PROVE  RepInv'
<1>0. /\ ProcessInv' /\ \A r \in Run : pc[r] \in Over => Stays(r)
      /\ \A r \in Run : StatesOf(r) \subseteq StatesOf(r)' /\ ObsOf(r) \subseteq ObsOf(r)'
      /\ \A r \in Run : row[r].status # "none" => row'[r].status # "none"
      /\ RepTyped
      /\ section' = section /\ settled' = settled /\ shown' = shown /\ named' = named /\ listed' = listed
  BY ProcessStep DEF RepInv, reportVars
<1>1. RepTyped'
  BY <1>0 DEF RepTyped
<1>2. ASSUME NEW r \in Run PROVE Shows(r)'
  <2>1. Cardinality(StatesOf(r)) <= Cardinality(StatesOf(r)')
        /\ Cardinality(ObsOf(r)) <= Cardinality(ObsOf(r)')
    <3>1. IsFiniteSet(StatesOf(r)') /\ IsFiniteSet(ObsOf(r)')
      BY <1>0 DEF ProcessInv, AInv, Account, Counts
    <3>2. StatesOf(r) \subseteq StatesOf(r)' /\ ObsOf(r) \subseteq ObsOf(r)'
      BY <1>0
    <3> QED BY <3>1, <3>2, FS_Subset
  <2>2. r \in settled => StatesOf(r)' = StatesOf(r) /\ ObsOf(r)' = ObsOf(r)
    BY <1>0, CompletedAccount DEF RepInv, Stays
  <2>3. /\ Cardinality(StatesOf(r)) \in Nat /\ Cardinality(ObsOf(r)) \in Nat
        /\ Cardinality(StatesOf(r)') \in Nat /\ Cardinality(ObsOf(r)') \in Nat
        /\ shown[r] \in Nat
    <3>1. IsFiniteSet(StatesOf(r)') /\ IsFiniteSet(ObsOf(r)')
      BY <1>0 DEF ProcessInv, AInv, Account, Counts
    <3> QED BY <1>0, <3>1, TablesCounted, FS_CardinalityType DEF RepTyped
  <2>4. Shows(r)
    BY DEF RepInv
  <2> QED BY <1>0, <2>1, <2>2, <2>3, <2>4 DEF Shows
<1>3. \A r \in settled' : row'[r].status \in Success /\ row'[r] = row[r]
  BY <1>0, CompletedAccount DEF RepInv, RepTyped, Stays
<1>4. ASSUME NEW r \in Run PROVE Lists(r)'
  <2>1. row[r].status \in Success => row'[r] = row[r]
    BY <1>0, CompletedAccount DEF Stays
  <2> QED BY <1>0, <2>1 DEF RepInv, Lists
<1>5. \A r \in named' : row'[r].status # "none"
  BY <1>0 DEF RepInv, RepTyped
<1> QED BY <1>1, <1>2, <1>3, <1>4, <1>5 DEF RepInv

\* One more section is read.
LEMMA SectionRead ==
  ASSUME RepTyped, NEW name, Reading(name)
  PROVE  /\ section \in 1..5 /\ section' = section + 1
         /\ name = "states" => section = 1
         /\ name = "execution" => section = 2
         /\ name \in Kind => section \in {3, 4}
         /\ name = "runs" => section = 5
BY DEF Reading, Sections, RepTyped, Kind

\* The rows of a table join the report.
LEMMA RowsShown ==
  ASSUME RepTyped, ProcessInv, UNCHANGED vars, ShowRows(stateRows) \/ ShowRows(obsRows)
  PROVE  /\ ShowRows(stateRows) => \A r \in Run : shown'[r] = shown[r] + Cardinality(StatesOf(r))
         /\ ShowRows(obsRows) => \A r \in Run : shown'[r] = shown[r] + Cardinality(ObsOf(r))
         /\ shown' \in [Run -> Nat] /\ named' \subseteq Run
         /\ \A r \in named' : r \in named \/ StatesOf(r) # {} \/ ObsOf(r) # {}
         /\ UNCHANGED <<settled, listed>>
<1>1. \A r \in Run : /\ {x \in stateRows : x[1] = r} = StatesOf(r)
                     /\ {x \in obsRows : x[1] = r} = ObsOf(r)
  BY DEF StatesOf, ObsOf
<1>2. /\ ShowRows(stateRows) => \A r \in Run : shown'[r] = shown[r] + Cardinality(StatesOf(r))
      /\ ShowRows(obsRows) => \A r \in Run : shown'[r] = shown[r] + Cardinality(ObsOf(r))
  BY <1>1 DEF ShowRows
<1>3. shown' \in [Run -> Nat]
  <2>1. \A r \in Run : shown[r] \in Nat /\ Cardinality(StatesOf(r)) \in Nat /\ Cardinality(ObsOf(r)) \in Nat
    BY TablesCounted DEF RepTyped
  <2>2. \E f : shown' = [r \in Run |-> f[r]]
    <3>1. CASE ShowRows(stateRows)
      BY <3>1 DEF ShowRows
    <3>2. CASE ShowRows(obsRows)
      BY <3>2 DEF ShowRows
    <3> QED BY <3>1, <3>2
  <2>3. \A r \in Run : shown'[r] \in Nat
    BY <1>2, <2>1
  <2> QED BY <2>2, <2>3
<1>4. named' \subseteq Run /\ \A r \in named' : r \in named \/ StatesOf(r) # {} \/ ObsOf(r) # {}
  BY DEF ShowRows, RepTyped, StatesOf, ObsOf
<1>5. UNCHANGED <<settled, listed>>
  BY DEF ShowRows
<1> QED BY <1>2, <1>3, <1>4, <1>5

\* A step of the report itself.
LEMMA ReportGoesOn ==
  ASSUME ProcessInv, RepInv, Report
  PROVE  RepInv'
<1>0. /\ UNCHANGED vars /\ RepTyped
      /\ row' = row /\ \A r \in Run : StatesOf(r)' = StatesOf(r) /\ ObsOf(r)' = ObsOf(r)
      /\ row \in [Run -> [status : Status, observations : Nat, errors : BOOLEAN]]
  <2>1. UNCHANGED vars
    BY DEF Report
  <2>2. row' = row /\ stateRows' = stateRows /\ obsRows' = obsRows
    BY <2>1 DEF vars, db
  <2> QED BY <2>1, <2>2 DEF RepInv, StatesOf, ObsOf, ProcessInv, IInv, Typed, DbTyped
<1>rows. \A r \in Run : Cardinality(StatesOf(r)) \in Nat /\ Cardinality(ObsOf(r)) \in Nat
  BY TablesCounted
<1>1. CASE BeginReport
  <2>1. section' = 1 /\ settled' = {r \in Run : row[r].status \in Success}
        /\ section = 0 /\ UNCHANGED <<shown, named, listed>>
    BY <1>1 DEF BeginReport
  <2> QED BY <1>0, <2>1 DEF RepInv, RepTyped, Shows, Lists
<1>2. CASE ReadStates \/ ReadExecutions
  <2>1. /\ ReadStates => section = 1 /\ section' = 2 /\ ShowRows(stateRows)
        /\ ReadExecutions => section = 2 /\ section' = 3 /\ ShowRows(obsRows)
    BY <1>0, SectionRead DEF ReadStates, ReadExecutions
  <2>2. /\ shown' \in [Run -> Nat] /\ named' \subseteq Run
        /\ \A r \in named' : r \in named \/ StatesOf(r) # {} \/ ObsOf(r) # {}
        /\ UNCHANGED <<settled, listed>>
    BY <1>0, <1>2, <2>1, RowsShown
  <2>3. RepTyped'
    BY <1>0, <1>2, <2>1, <2>2 DEF RepTyped
  <2>4. ASSUME NEW r \in Run PROVE Shows(r)' /\ Lists(r)'
    <3>1. Shows(r) /\ shown[r] \in Nat
      BY <1>0 DEF RepInv, RepTyped
    <3>2. Lists(r)'
      BY <1>2, <2>1 DEF Lists
    <3>3. CASE ReadStates
      <4>1. shown'[r] = shown[r] + Cardinality(StatesOf(r))
        BY <1>0, <2>1, <3>3, RowsShown
      <4> QED BY <1>0, <1>rows, <2>1, <3>1, <3>2, <3>3, <4>1 DEF Shows
    <3>4. CASE ReadExecutions
      <4>1. shown'[r] = shown[r] + Cardinality(ObsOf(r))
        BY <1>0, <2>1, <3>4, RowsShown
      <4> QED BY <1>0, <1>rows, <2>1, <2>2, <3>1, <3>2, <3>4, <4>1 DEF Shows
    <3> QED BY <1>2, <3>3, <3>4
  <2>5. \A r \in named' : row'[r].status # "none"
    BY <1>0, <2>2 DEF RepInv, ProcessInv, AInv, Account, Recorded
  <2> QED BY <1>0, <2>2, <2>3, <2>4, <2>5 DEF RepInv
<1>3. ASSUME NEW k \in Kind, ReadEvents(k)
      PROVE  RepInv'
  <2>1. section \in {3, 4} /\ section' \in {4, 5} /\ UNCHANGED <<settled, shown, listed>>
    <3>1. Reading(k)
      BY <1>3 DEF ReadEvents
    <3> QED BY <1>0, <1>3, <3>1, SectionRead DEF ReadEvents
  <2>2. named' \subseteq Run /\ \A r \in named' : r \in named \/ EventRows(r) # {}
    <3>1. named' = named \cup {r \in Run : \E p \in Pool : \E e \in EventsOf[p][k] : owner[e] = r}
      BY <1>3 DEF ReadEvents
    <3>2. \A p \in Pool : EventsOf[p][k] \subseteq Event
      BY RunAssumption
    <3> QED BY <1>0, <3>1, <3>2 DEF RepTyped, EventRows
  <2>3. \A r \in named' : row'[r].status # "none"
    BY <1>0, <2>2 DEF RepInv, ProcessInv, Unregistered
  <2>4. \A r \in Run : Shows(r)' /\ Lists(r)'
    BY <1>0, <2>1 DEF RepInv, Shows, Lists
  <2> QED BY <1>0, <2>1, <2>2, <2>3, <2>4 DEF RepInv, RepTyped
<1>4. CASE ListRuns
  <2>1. section = 5 /\ section' = 6 /\ listed' = row /\ UNCHANGED <<settled, shown, named>>
    BY <1>0, <1>4, SectionRead DEF ListRuns
  <2>2. \A r \in Run : Shows(r)' /\ Lists(r)'
    BY <1>0, <2>1 DEF RepInv, Shows, Lists
  <2> QED BY <1>0, <2>1, <2>2 DEF RepInv, RepTyped
<1>5. CASE EndReport
  <2>1. section' = 0 /\ settled' = {} /\ named' = {} /\ shown' = [r \in Run |-> 0] /\ listed' = NoRows
    BY <1>5 DEF EndReport
  <2>2. RepTyped'
    BY <2>1 DEF RepTyped, NoRows, Status
  <2> QED BY <2>1, <2>2 DEF RepInv, Shows, Lists
<1> QED BY <1>1, <1>2, <1>3, <1>4, <1>5 DEF Report

\* What a benchmark has measured is what its run, which is over, has stored.
BenchInv ==
  /\ bench \in [Run -> BenchPhase]
  /\ quotes \in [Run -> [attempted : Nat, succeeded : Nat]]
  /\ \A r \in Run : bench[r] = "measured" =>
       pc[r] = "returned" /\ quotes[r].attempted = Cardinality(ObsOf(r))

\* The processes go on under a benchmark.
LEMMA BenchmarkStands ==
  ASSUME ProcessInv, BenchInv, [Next]_vars, UNCHANGED benchVars
  PROVE  BenchInv'
<1>1. \A r \in Run : pc[r] = "returned" => pc'[r] = "returned" /\ ObsOf(r)' = ObsOf(r)
  BY ProcessStep DEF Over, Stays
<1> QED BY <1>1 DEF BenchInv, benchVars

\* Nothing but the snapshots of others changes by the second check_network.
LEMMA CheckedAgain ==
  ASSUME ProcessInv, BenchInv, NEW r \in Run, CheckAgain(r)
  PROVE  /\ ProcessInv' /\ BenchInv'
         /\ UNCHANGED <<db, result, pc>>
<1>0. /\ pc[r] \in Over /\ UNCHANGED <<db, unsaved, pc, local, result, gap, quotes>>
      /\ \E b \in BenchPhase : bench' = [bench EXCEPT ![r] = b]
      /\ bench'[r] # "measured" /\ IInv
  BY DEF CheckAgain, BenchInv, BenchPhase, Over, ProcessInv
<1>1. unsaved[r] = {} /\ ConnInv /\ OverReleased
  BY <1>0 DEF IInv, LockInv, OverReleased
<1>2. ConnInv' /\ OverReleased'
  <2>1. CASE UNCHANGED conn
    BY <1>0, <1>1, <2>1 DEF ConnInv, OverReleased
  <2>2. CASE WriteCommit(r)
    <3>1. Store(r)
      <4>1. owner \in [Event -> Run \cup {NoRun}] /\ unsaved \in [Run -> SUBSET Event]
        BY <1>0 DEF IInv, Typed, DbTyped, LockInv, ConnInv
      <4>2. Saved(r) = owner
        BY <1>1, <4>1 DEF Saved
      <4>3. [unsaved EXCEPT ![r] = {}] = unsaved
        BY <1>1, <4>1
      <4> QED BY <1>0, <2>2, <4>2, <4>3 DEF Store, db
    <3> QED BY <1>0, <1>1, <3>1, StoreKeeps DEF OverReleased, LeavesOthers
  <2> QED BY <2>1, <2>2 DEF CheckAgain
<1>3. IInv'
  <2>1. Typed'
    BY <1>0 DEF db, local, IInv, Typed, DbTyped, PlaceTyped, LoopTyped, ResultTyped, Placed
  <2> QED BY <1>2, <2>1 DEF IInv, LockInv
<1>4. AInv'
  <2> SUFFICES ASSUME NEW s \in Run PROVE Account(s)'
    BY DEF AInv
  <2>1. Account(s) /\ Stays(s)
    BY <1>0 DEF ProcessInv, AInv, db, local, Stays, StatesOf, ObsOf
  <2> QED BY <2>1, StaysAccount
<1>5. OpenInv' /\ \A s \in Run : Unregistered(s)'
  BY <1>0 DEF ProcessInv, OpenInv, Unregistered, EventRows, db
<1>6. BenchInv'
  BY <1>0 DEF BenchInv, ObsOf, db
<1> QED BY <1>0, <1>3, <1>4, <1>5, <1>6 DEF ProcessInv

\* A step of the benchmark of r.
LEMMA BenchmarkGoesOn ==
  ASSUME ProcessInv, BenchInv, NEW r \in Run, Benchmark(r)
  PROVE  /\ ProcessInv' /\ BenchInv'
         /\ UNCHANGED <<db, result, pc>>
<1>1. CASE NothingToMeasure(r)
  <2>1. UNCHANGED vars /\ UNCHANGED quotes /\ bench' = [bench EXCEPT ![r] = "reported"]
    BY <1>1 DEF NothingToMeasure
  <2>2. ProcessInv' /\ UNCHANGED <<db, result, pc>>
    BY <2>1, ProcessStep DEF vars
  <2> QED BY <2>1, <2>2 DEF BenchInv, BenchPhase, ObsOf, db
<1>2. CASE Measure(r)
  <2>1. UNCHANGED vars /\ pc[r] = "returned"
    BY <1>2 DEF Measure
  <2>2. ProcessInv' /\ UNCHANGED <<db, result, pc>>
    BY <2>1, ProcessStep DEF vars
  <2>3. /\ RowsOf(r) = ObsOf(r) /\ Cardinality(ObsOf(r)) \in Nat
        /\ Cardinality({x \in RowsOf(r) : x[4]}) \in Nat
    <3>1. IsFiniteSet(ObsOf(r)) /\ RowsOf(r) = ObsOf(r)
      BY TablesCounted DEF RowsOf, ObsOf
    <3>2. IsFiniteSet({x \in RowsOf(r) : x[4]})
      BY <3>1, FS_Subset
    <3> QED BY <3>1, <3>2, FS_CardinalityType
  <2>4. \A s \in Run : ObsOf(s)' = ObsOf(s)
    BY <2>2 DEF ObsOf, db
  <2>5. CASE bench' = [bench EXCEPT ![r] = "lost"] /\ UNCHANGED quotes
    BY <2>2, <2>4, <2>5 DEF BenchInv, BenchPhase
  <2>6. CASE /\ quotes' = [quotes EXCEPT ![r] =
                  [attempted |-> Cardinality(RowsOf(r)),
                   succeeded |-> Cardinality({x \in RowsOf(r) : x[4]})]]
             /\ bench' = [bench EXCEPT ![r] = "measured"]
    <3> DEFINE attempted == Cardinality(RowsOf(r))
               succeeded == Cardinality({x \in RowsOf(r) : x[4]})
    <3>1. quotes' = [quotes EXCEPT ![r] = [attempted |-> attempted, succeeded |-> succeeded]]
      BY <2>6
    <3>2. attempted = Cardinality(ObsOf(r)) /\ attempted \in Nat /\ succeeded \in Nat
      BY <2>3
    <3> HIDE DEF attempted, succeeded
    <3> QED BY <2>1, <2>2, <2>4, <2>6, <3>1, <3>2 DEF BenchInv, BenchPhase
  <2> QED BY <1>2, <2>2, <2>5, <2>6 DEF Measure
<1>3. CASE CheckAgain(r)
  BY <1>3, CheckedAgain
<1> QED BY <1>1, <1>2, <1>3 DEF Benchmark

\* All that is kept by processes, reports and benchmarks together.
ReadersInv == ProcessInv /\ RepInv /\ BenchInv

\* The inductive invariant behind the three theorems on Reports.
THEOREM ReportsInvariance == ReportsSpec => []ReadersInv
<1>1. ReportsInit => ReadersInv
  <2> SUFFICES ASSUME ReportsInit PROVE ReadersInv
    OBVIOUS
  <2>1. ProcessInv
    BY ProcessStart DEF ReportsInit
  <2>2. RepInv
    BY DEF ReportsInit, RepInv, RepTyped, Shows, Lists, NoRows, Status
  <2>3. BenchInv
    BY DEF ReportsInit, BenchInv, BenchPhase
  <2> QED BY <2>1, <2>2, <2>3 DEF ReadersInv
<1>2. ReadersInv /\ [ReportsNext]_allVars => ReadersInv'
  <2> SUFFICES ASSUME ProcessInv, RepInv, BenchInv, [ReportsNext]_allVars PROVE ReadersInv'
    BY DEF ReadersInv
  <2>1. CASE [Next]_vars /\ UNCHANGED <<reportVars, benchVars>>
    <3>1. UNCHANGED reportVars /\ UNCHANGED benchVars
      BY <2>1
    <3> QED BY <2>1, <3>1, ProcessStep, ReportStands, BenchmarkStands DEF ReadersInv
  <2>2. CASE Report
    <3>1. UNCHANGED vars /\ UNCHANGED benchVars
      BY <2>2 DEF Report
    <3> QED BY <2>2, <3>1, ProcessStep, ReportGoesOn, BenchmarkStands DEF ReadersInv
  <2>3. ASSUME NEW r \in Benchmarked, Benchmark(r)
        PROVE  ReadersInv'
    <3>1. ProcessInv' /\ BenchInv' /\ UNCHANGED <<db, result, pc>>
      BY <2>3, BenchmarkAssumption, BenchmarkGoesOn
    <3>2. RepInv'
      BY <2>3, <3>1 DEF Benchmark, reportVars, db, RepInv, RepTyped, Shows, Lists, StatesOf, ObsOf
    <3> QED BY <3>1, <3>2 DEF ReadersInv
  <2> QED BY <2>1, <2>2, <2>3 DEF ReportsNext, allVars
<1> QED BY <1>1, <1>2, PTL DEF ReportsSpec

\* Reports and benchmarks keep their counters and tables well typed.
THEOREM ReportsTypeCorrect == ReportsSpec => []ReportsTypeOK
<1>1. ReadersInv => ReportsTypeOK
  <2> SUFFICES ASSUME ReadersInv PROVE ReportsTypeOK
    OBVIOUS
  <2>1. TypeOK
    BY DEF ReadersInv, ProcessInv, IInv, Typed, DbTyped, PlaceTyped, LoopTyped, ResultTyped,
       LockInv, ConnInv, TypeOK
  <2>2. Done = 6
    BY DEF Done, Sections
  <2> QED BY <2>1, <2>2 DEF ReadersInv, RepInv, RepTyped, BenchInv, ReportsTypeOK
<1> QED BY <1>1, ReportsInvariance, PTL

\* The sections of a report agree with the runs it lists, though each SELECT of
\* load_dataset sees another state of the database.
THEOREM ReportsAddUp == ReportsSpec => []ReportAddsUp
<1>1. ReadersInv => ReportAddsUp
  <2> SUFFICES ASSUME ReadersInv, section = Done
      PROVE  /\ \A r \in named : listed[r].status # "none"
             /\ \A r \in Run :
                  /\ listed[r].status \in Success => shown[r] <= listed[r].observations
                  /\ r \in settled => listed[r].status \in Success /\ shown[r] = listed[r].observations
    BY DEF ReportAddsUp
  <2>0. section = 6 /\ ProcessInv /\ RepInv
    BY DEF Done, Sections, ReadersInv
  <2>1. \A r \in named : listed[r].status # "none"
    BY <2>0 DEF RepInv, RepTyped, Lists
  <2>2. ASSUME NEW r \in Run, listed[r].status \in Success
        PROVE  /\ shown[r] <= listed[r].observations
               /\ r \in settled => shown[r] = listed[r].observations
    <3>1. listed[r] = row[r] /\ row[r].status \in Success
      BY <2>0, <2>2 DEF RepInv, Lists
    <3>2. listed[r].observations = Cardinality(StatesOf(r)) + Cardinality(ObsOf(r))
      BY <2>0, <3>1, CompletedAccount
    <3> QED BY <2>0, <3>2 DEF RepInv, Shows
  <2>3. \A r \in Run : r \in settled => listed[r].status \in Success
    BY <2>0 DEF RepInv, Lists
  <2> QED BY <2>1, <2>2, <2>3
<1> QED BY <1>1, ReportsInvariance, PTL

\* A benchmark counts in the database what its run has counted in memory, and
\* what a run that did not fail has recorded.
THEOREM BenchmarksMeasure == ReportsSpec => []BenchmarkMeasuresItsRun
<1>1. ReadersInv => BenchmarkMeasuresItsRun
  <2> SUFFICES ASSUME ReadersInv, NEW r \in Run, bench[r] = "measured"
      PROVE  /\ quotes[r].attempted = result[r].executions
             /\ row[r].status \in Success =>
                  row[r].observations = result[r].states + quotes[r].attempted
    BY DEF BenchmarkMeasuresItsRun
  <2>1. quotes[r].attempted = Cardinality(ObsOf(r)) /\ ProcessInv
    BY DEF ReadersInv, BenchInv
  <2>2. result[r].executions = Cardinality(ObsOf(r))
    BY <2>1 DEF ProcessInv, AInv, Account, Counts
  <2> QED BY <2>1, <2>2, CompletedAccount
<1> QED BY <1>1, ReportsInvariance, PTL
=============================================================================
