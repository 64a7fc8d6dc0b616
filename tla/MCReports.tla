------------------------------ MODULE MCReports ------------------------------
(* The processes of MCCollectionRun, a report and a benchmark beside them.    *)
EXTENDS MCCollectionRun, Reports
=============================================================================
