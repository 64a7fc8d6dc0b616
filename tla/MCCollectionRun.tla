-------------------------- MODULE MCCollectionRun --------------------------
(* TLC instances of CollectionRun.                                            *)
EXTENDS CollectionRun

CONSTANTS r1, r2, disc, p1, p2, c1, c2, e1, e2, e3

OneRun  == {r1}
TwoRuns == {r1, r2}
OneProcess   == {r1, disc}
TwoProcesses == {r1, r2, disc}

NoEvents == [p \in Pool |-> [k \in Kind |-> {}]]
\* Two swaps of p1, a mint of p2.
SomeEvents == [p \in Pool |-> [k \in Kind |->
  IF p = p1 /\ k = "swap" THEN {e1, e2}
  ELSE IF p = p2 /\ k = "liquidity" THEN {e3} ELSE {}]]
\* One swap of p1.
OneEvent == [p \in Pool |-> [k \in Kind |-> IF p = p1 /\ k = "swap" THEN {e1} ELSE {}]]

\* Catalogs: the second DEX of three has no pools yet.
MiddleEmpty  == <<{p1}, {}, {p2}>>
OnePoolEach  == <<{p1}, {p2}>>
OnePool      == <<{p1}>>
=============================================================================
