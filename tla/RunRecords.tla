----------------------------- MODULE RunRecords -----------------------------
(* What a reader of the database may rely on about collection runs, however   *)
(* many processes collect at once: a run is registered before it stores       *)
(* anything, stores only while it is running, and is closed once, with a      *)
(* count of its observations that is exact unless the run failed; an event    *)
(* belongs to the one run that recorded it first, and nothing of a closed run *)
(* changes any more.                                                          *)
EXTENDS Naturals, FiniteSets

CONSTANTS Run, Observation, Event

VARIABLES row,             \* run -> [status, observations, errors (any?)]
          observed,        \* run -> its committed observations
          recorded         \* run -> its committed events

vars == <<row, observed, recorded>>

Success == {"completed", "completed_with_errors"}

Init ==
  /\ row = [r \in Run |-> [status |-> "none", observations |-> 0, errors |-> FALSE]]
  /\ observed = [r \in Run |-> {}]
  /\ recorded = [r \in Run |-> {}]

Begin(r) ==
  /\ row[r].status = "none"
  /\ row' = [row EXCEPT ![r].status = "running"]
  /\ UNCHANGED <<observed, recorded>>

\* Events no run has recorded yet become r's.
RecordEvents(r) ==
  \E more \in SUBSET (Event \ UNION {recorded[s] : s \in Run}) :
    recorded' = [recorded EXCEPT ![r] = @ \cup more]

\* A commit of a running run: one observation at most, any number of events.
Record(r) ==
  /\ row[r].status = "running"
  /\ \/ \E o \in Observation \ observed[r] :
          observed' = [observed EXCEPT ![r] = @ \cup {o}]
     \/ UNCHANGED observed
  /\ RecordEvents(r)
  /\ UNCHANGED row

\* The commit that closes the run.
Finish(r) ==
  /\ row[r].status = "running"
  /\ \E status \in Success \cup {"failed"}, n \in 0..Cardinality(observed[r]), errors \in BOOLEAN :
       /\ status \in Success => n = Cardinality(observed[r])
       /\ status # "failed" => (errors <=> status = "completed_with_errors")
       /\ row' = [row EXCEPT ![r] =
                    [status |-> status, observations |-> n, errors |-> errors]]
  /\ RecordEvents(r)
  /\ UNCHANGED observed

Next == \E r \in Run : Begin(r) \/ Record(r) \/ Finish(r)

Spec == Init /\ [][Next]_vars
=============================================================================
