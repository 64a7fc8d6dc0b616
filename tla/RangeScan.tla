----------------------------- MODULE RangeScan -----------------------------
(* What one eth_getLogs scan promises its caller, whatever the chunking: the  *)
(* blocks of the requested inclusive range are settled in ascending order,    *)
(* each exactly once, either by taking its logs into the result or by naming  *)
(* it in a failed chunk, and the scan returns once none is left, unless an    *)
(* exception ends it before.                                                  *)
EXTENDS Naturals

CONSTANT MaxBlock          \* bound: highest block number a caller may name

VARIABLES scanning,        \* is a scan in progress?
          pending,         \* blocks of its range that are not settled
          fetched,         \* blocks whose logs are in the result
          missed           \* blocks inside a failed chunk

vars == <<scanning, pending, fetched, missed>>

Block == 0..MaxBlock

Init == /\ scanning = FALSE
        /\ pending = {} /\ fetched = {} /\ missed = {}

\* A caller asks for from..to (empty when from > to).
Begin(from, to) ==
  /\ ~scanning
  /\ scanning' = TRUE
  /\ pending' = from..to
  /\ fetched' = {} /\ missed' = {}

\* The pending blocks up to some last one are settled together.
Settle(last) ==
  LET chunk == {b \in pending : b <= last}
  IN /\ scanning
     /\ last \in pending
     /\ pending' = pending \ chunk
     /\ \/ fetched' = fetched \cup chunk /\ UNCHANGED missed
        \/ missed' = missed \cup chunk /\ UNCHANGED fetched
     /\ UNCHANGED scanning

\* The scan is broken off by an exception.
Abandon ==
  /\ scanning
  /\ pending # {}
  /\ scanning' = FALSE
  /\ pending' = {}
  /\ UNCHANGED <<fetched, missed>>

Return ==
  /\ scanning
  /\ pending = {}
  /\ scanning' = FALSE
  /\ UNCHANGED <<pending, fetched, missed>>

Next == \/ \E from, to \in Block : Begin(from, to)
        \/ \E last \in Block : Settle(last)
        \/ Abandon \/ Return

Spec == Init /\ [][Next]_vars
=============================================================================
