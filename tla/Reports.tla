------------------------------- MODULE Reports -------------------------------
(* The readers of the database that are processes of their own, beside the    *)
(* processes of CollectionRun: a report (reporting/dataset.py, report.py)     *)
(* reads the whole database table by table, each SELECT a snapshot of its own *)
(* and the runs last; a benchmark (reporting/benchmark.py) performs a run and *)
(* then measures it by the rows that are stored of it.                        *)
(* The LIMIT of the statements (20000 rows, 200 runs) is never reached here.  *)
EXTENDS CollectionRun, Sequences

CONSTANT Benchmarked  \* runs that are performed by a benchmark

ASSUME BenchmarkAssumption == Benchmarked \subseteq Run

VARIABLES
  section,  \* the section the report reads next; 0 when there is no report
  settled,  \* runs that had completed when the report began (it cannot tell)
  shown,    \* run -> observations of it in the report
  named,    \* runs that some row of the report belongs to
  listed,   \* the runs table of the report
  bench,    \* run -> where its benchmark is
  quotes    \* run -> what its benchmark counted: [attempted, succeeded]

reportVars == <<section, settled, shown, named, listed>>
benchVars  == <<bench, quotes>>
allVars    == <<vars, reportVars, benchVars>>

\* Mutant: the runs are read first.
RunsFirst == <<"runs", "states", "execution", "swap", "liquidity">>

\* load_dataset's statements over observations, in their order.
Sections == <<"states", "execution", "swap", "liquidity", "runs">>

NoRows == [r \in Run |-> [status |-> "none", observations |-> 0, errors |-> FALSE]]

Done == Len(Sections) + 1

BenchPhase == {"running", "measured", "reported", "lost"}

ReportsInit ==
  /\ Init
  /\ section = 0 /\ settled = {} /\ named = {}
  /\ shown = [r \in Run |-> 0]
  /\ listed = NoRows
  /\ bench = [r \in Run |-> "running"]
  /\ quotes = [r \in Run |-> [attempted |-> 0, succeeded |-> 0]]
-----------------------------------------------------------------------------
(* write_report *)

BeginReport ==
  /\ section = 0
  /\ section' = 1
  /\ settled' = {r \in Run : row[r].status \in Success}
  /\ UNCHANGED <<shown, named, listed>>

Reading(name) == section \in DOMAIN Sections /\ Sections[section] = name /\ section' = section + 1

\* The rows of one SELECT over pool_states or swap_observations join the report.
ShowRows(rows) ==
  /\ shown' = [r \in Run |-> shown[r] + Cardinality({x \in rows : x[1] = r})]
  /\ named' = named \cup {r \in Run : \E x \in rows : x[1] = r}
  /\ UNCHANGED <<settled, listed>>

ReadStates     == Reading("states") /\ ShowRows(stateRows)
ReadExecutions == Reading("execution") /\ ShowRows(obsRows)

ReadEvents(kind) ==
  /\ Reading(kind)
  /\ named' = named \cup {r \in Run : \E p \in Pool : \E e \in EventsOf[p][kind] : owner[e] = r}
  /\ UNCHANGED <<settled, shown, listed>>

ListRuns ==
  /\ Reading("runs")
  /\ listed' = row
  /\ UNCHANGED <<settled, shown, named>>

\* The files are written, or a SELECT has raised StorageError: no report is left.
EndReport ==
  /\ section = Done \/ (StatementFaults /\ section \in DOMAIN Sections)
  /\ section' = 0 /\ settled' = {} /\ named' = {}
  /\ shown' = [r \in Run |-> 0]
  /\ listed' = NoRows

Report ==
  /\ BeginReport \/ ReadStates \/ ReadExecutions \/ (\E k \in Kind : ReadEvents(k)) \/ ListRuns \/ EndReport
  /\ UNCHANGED <<vars, benchVars>>
-----------------------------------------------------------------------------
(* run_benchmark *)

\* Every exception of run_collection is caught: the benchmark reports that
\* there was no run to measure.
NothingToMeasure(r) ==
  /\ bench[r] = "running" /\ pc[r] \in Over \ {"returned"}
  /\ bench' = [bench EXCEPT ![r] = "reported"]
  /\ UNCHANGED <<vars, quotes>>

\* Mutant: failed quotes are left out.
RowsOfSuccesses(r) == {x \in obsRows : x[1] = r /\ x[4]}

\* execution_observations of its own run.
RowsOf(r) == {x \in obsRows : x[1] = r}

\* The quotes are counted in the database, not taken from the counters.
Measure(r) ==
  /\ bench[r] = "running" /\ pc[r] = "returned"
  /\ \/ /\ quotes' = [quotes EXCEPT ![r] =
               [attempted |-> Cardinality(RowsOf(r)),
                succeeded |-> Cardinality({x \in RowsOf(r) : x[4]})]]
        /\ bench' = [bench EXCEPT ![r] = "measured"]
     \/ /\ StatementFaults
        /\ bench' = [bench EXCEPT ![r] = "lost"]
        /\ UNCHANGED quotes
  /\ UNCHANGED vars

\* check_network once more, for the latency, and load_dataset for the age of the
\* data: a health row that cannot be stored, or a read that fails, raises, and
\* the measured result is lost with it.
CheckAgain(r) ==
  /\ bench[r] = "measured"
  /\ \/ WriteCommit(r) /\ bench' = [bench EXCEPT ![r] = "reported"]
     \/ StatementFaults /\ WriteCommit(r) /\ bench' = [bench EXCEPT ![r] = "lost"]
     \/ WriteFails(r) /\ bench' = [bench EXCEPT ![r] = "lost"] /\ UNCHANGED conn
  /\ UNCHANGED <<db, unsaved, pc, local, result, gap, quotes>>

Benchmark(r) == (NothingToMeasure(r) \/ Measure(r) \/ CheckAgain(r)) /\ UNCHANGED reportVars

ReportsNext ==
  \/ Next /\ UNCHANGED <<reportVars, benchVars>>
  \/ Report
  \/ \E r \in Benchmarked : Benchmark(r)

ReportsSpec == ReportsInit /\ [][ReportsNext]_allVars

\* As in CollectionRun: the calls of a run return; readers may stop anywhere.
FairReportsSpec == ReportsSpec /\ \A r \in Run : WF_vars(Step(r))
-----------------------------------------------------------------------------
ReportsTypeOK ==
  /\ TypeOK
  /\ section \in 0..Done
  /\ settled \subseteq Run /\ named \subseteq Run
  /\ shown \in [Run -> Nat]
  /\ listed \in [Run -> [status : Status, observations : Nat, errors : BOOLEAN]]
  /\ bench \in [Run -> BenchPhase]
  /\ quotes \in [Run -> [attempted : Nat, succeeded : Nat]]

\* A report adds up, though it is no snapshot and runs go on while it is read:
\* every row it shows belongs to a run that it lists, it never shows more
\* observations of a completed run than it says there are, and all of them if the
\* run had completed before (load_dataset, write_report).
ReportAddsUp ==
  section = Done =>
    /\ \A r \in named : listed[r].status # "none"
    /\ \A r \in Run :
         /\ listed[r].status \in Success => shown[r] <= listed[r].observations
         /\ r \in settled => listed[r].status \in Success /\ shown[r] = listed[r].observations

\* benchmark.py:151-152 measures "stored observations rather than in-memory
\* counters": what it counts is what the run counted and, unless the run failed,
\* what observations_created says, also after other processes have stored more.
BenchmarkMeasuresItsRun ==
  \A r \in Run : bench[r] = "measured" =>
    /\ quotes[r].attempted = result[r].executions
    /\ row[r].status \in Success =>
         row[r].observations = result[r].states + quotes[r].attempted
=============================================================================
