---------------------------- MODULE MCMarketRead ----------------------------
(* Two pools with a token in common.  The first is not initialised before a   *)
(* block changes it, the second is drained in the last block.                 *)
EXTENDS ObservedImpact, TLC

CONSTANTS p, q, a, b, c, c1, c2

SharedTokens == p :> {a, b} @@ q :> {b, c}
FirstToken   == p :> a @@ q :> c
SecondToken  == p :> b @@ q :> b
TokenUnit    == a :> 2 @@ b :> 1 @@ c :> 1
\* For Swappi the two reserves, for VSwap the price and the liquidity.
Pair(x, y, s, l) == [reserve0 |-> x, reserve1 |-> y, sqrt |-> s, liquidity |-> l]
AllCurves ==
  p :> (0 :> Pair(0, 0, 0, 0)    @@ 1 :> Pair(40, 10, 1, 20) @@ 2 :> Pair(30, 14, 2, 20)) @@
  q :> (0 :> Pair(12, 40, 3, 20) @@ 1 :> Pair(20, 20, 2, 20) @@ 2 :> Pair(0, 0, 3, 0))
PoolCurve == [r \in Pool |-> [n \in 0..MaxHead |-> AllCurves[r][n]]]
CaseForward == c1 :> TRUE @@ c2 :> FALSE
CaseSize    == c1 :> 3 @@ c2 :> 6
=============================================================================
