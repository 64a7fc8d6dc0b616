----------------------------- MODULE RunReaders -----------------------------
(* The API and the dashboard (api/app.py, api/dashboard.py) beside the        *)
(* processes of CollectionRun.  A request asks for the latest run and then    *)
(* reads, one statement at a time, what that run stored; runs go on           *)
(* meanwhile.  All worker threads share one connection.  _execute releases    *)
(* its lock before it fetches the rows, so a statement may find a cursor of   *)
(* another thread unfinished: SQLite then answers it from the snapshot that   *)
(* this cursor holds.  Of a snapshot only its latest run is kept: what else   *)
(* it shows of a run that has completed is AnswersAgree.                      *)
EXTENDS CollectionRun

CONSTANTS Age,   \* run -> its place in the order of started_at, then rowid
          Idle,  \* no request is under way
          Free   \* no cursor is unfinished

ASSUME ReaderAssumption ==
  /\ Age \in [Run -> Nat]
  /\ \A r, s \in Run : Age[r] = Age[s] => r = s
  /\ Idle \notin Run \cup {NoRun} /\ Free \notin Run \cup {NoRun}

VARIABLES
  latest,  \* what latest_run told the request under way, NoRun for None
  held     \* the latest run of the snapshot that unfinished cursors hold

rvars == <<vars, latest, held>>

Completed == {r \in Run : row[r].status \in Success}

Newest(runs) ==
  IF runs = {} THEN NoRun ELSE CHOOSE r \in runs : \A s \in runs : Age[s] <= Age[r]

\* Mutant: the order is ascending.
LatestRunAscending ==
  IF Completed = {} THEN NoRun ELSE CHOOSE r \in Completed : \A s \in Completed : Age[r] <= Age[s]

\* Mutant: a run that has stored something counts, though it still runs.
LatestRunUnfinished == Newest({r \in Run : row[r].status # "none"})

LatestRun == Newest(Completed)

\* latest_run as a statement of the shared connection answers it.
Visible == IF held = Free THEN LatestRun ELSE held

\* A request asks for the latest run; the dashboard's first page asks thrice.
Ask == latest' = Visible /\ UNCHANGED held

\* It has read the rest of its answer.
Answered == latest # Idle /\ latest' = Idle /\ UNCHANGED held

\* A statement of another thread waits to be fetched, with a row to its name;
\* once the last such cursor is fetched the connection sees what is new.
OthersExecute == held = Free /\ held' = LatestRun /\ UNCHANGED latest
OthersFetch   == held # Free /\ held' = Free /\ UNCHANGED latest

ReadersInit == Init /\ latest = Idle /\ held = Free

ReadersNext ==
  \/ Next /\ UNCHANGED <<latest, held>>
  \/ (Ask \/ Answered \/ OthersExecute \/ OthersFetch) /\ UNCHANGED vars

ReadersSpec == ReadersInit /\ [][ReadersNext]_rvars
-----------------------------------------------------------------------------
\* All that a statement filtered by run_id, or the run's own record, can say.
Answer(r) == <<row[r], ObservationRows(r)>>

\* The statements of one request agree: from the moment a run is told to be the
\* latest, its record and its rows are final, whatever the other processes do
\* and however long the request takes (app.py and dashboard.py read the run, then
\* its states and observations pool by pool).
AnswersAgree ==
  [][latest' = latest /\ latest \in Run => Answer(latest)' = Answer(latest)]_rvars

\* The latest run never goes back: whoever asks later, of whatever thread, is told
\* the same run or one that started after it (RunRepository.latest_run), though
\* runs overlap and an older one may complete last.
LatestMovesOn ==
  [][Visible' # Visible => Visible' \in Run /\ (Visible = NoRun \/ Age[Visible] < Age[Visible'])]_rvars
=============================================================================
