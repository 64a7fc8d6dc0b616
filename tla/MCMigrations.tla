---------------------------- MODULE MCMigrations ----------------------------
(* TLC instances of Migrations.                                               *)
EXTENDS Migrations

CONSTANTS p1, p2, r1, r2
=============================================================================
