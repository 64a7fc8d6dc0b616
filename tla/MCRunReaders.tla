---------------------------- MODULE MCRunReaders ----------------------------
(* The processes of MCCollectionRun and a request beside them.                *)
EXTENDS MCCollectionRun, RunReaders, TLC

StartOrder == r1 :> 1 @@ r2 :> 2
=============================================================================
