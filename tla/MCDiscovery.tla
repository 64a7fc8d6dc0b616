---------------------------- MODULE MCDiscovery ----------------------------
(* TLC instances of Discovery.  The first DEX has two pools that share a      *)
(* token, the second one pool of the first's tokens, the third none.          *)
EXTENDS Discovery

CONSTANTS d1, d2, x1, x2, x3, p1, p2, p3, t1, t2, t3

DexPools   == [x \in Dex |-> CASE x = x1 -> {p1, p2} [] x = x2 -> {p3} [] x = x3 -> {}]
PairTokens == [p \in Pool |-> IF p = p2 THEN {t2, t3} ELSE {t1, t2}]

\* Two commands at once: discover --dex x1 --dex x3, and discover --dex x2.
TwoAndOne == [d \in Process |-> IF d = d1 THEN <<x1, x3>> ELSE <<x2>>]
OnlyOne   == [d \in Process |-> <<x2>>]
=============================================================================
