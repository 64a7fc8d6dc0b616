--------------------------- MODULE ObservedImpact ---------------------------
(* The numbers of the observations MarketRead stores: what each adapter's     *)
(* quote gives in the block it was asked for, the reference price of the      *)
(* state, and the impact that is computed from the two.  The pools trade      *)
(* without ticks, so a concentrated pool is a constant product one of virtual *)
(* reserves liquidity / sqrtPrice and liquidity * sqrtPrice.                  *)
EXTENDS MarketRead, Integers

CONSTANTS FeeBase, Q96,
          Curve,      \* pool -> block -> what the pool is after a change there
          Token0, Token1,
          Unit,       \* token -> 10^decimals
          Forward,    \* case -> is token0 the input?
          Size,       \* case -> input_amount_raw
          FeeBps

INSTANCE ExecutionMath

ASSUME MathAssumption == FeeBase \in Nat \ {0} /\ Q96 \in Nat \ {0} /\ None \notin Int \cup Fraction

\* A pair has both reserves or none; a pool stays initialised once it is.
ASSUME CurveAssumption ==
  /\ Curve \in [Pool -> [0..MaxHead -> [reserve0 : Nat, reserve1 : Nat, sqrt : Nat, liquidity : Nat]]]
  /\ \A p \in Pool : \A b \in 0..MaxHead :
       /\ Curve[p][b].reserve0 = 0 <=> Curve[p][b].reserve1 = 0
       /\ \A c \in b..MaxHead : Curve[p][b].sqrt # 0 => Curve[p][c].sqrt # 0

ASSUME CaseAssumption ==
  /\ Token0 \in [Pool -> Token] /\ Token1 \in [Pool -> Token]
  /\ Unit \in [Token -> Nat \ {0}]
  /\ Forward \in [Case -> BOOLEAN] /\ Size \in [Case -> Nat]
  /\ FeeBps \in Nat /\ FeeBps < FeeBase

CurveAt(p, b) == Curve[p][value[b][p]]

Rate == BpsToRate(FeeBps)

UnitIn(o)  == Unit[IF Forward[o.case] THEN Token0[o.pool] ELSE Token1[o.pool]]
UnitOut(o) == Unit[IF Forward[o.case] THEN Token1[o.pool] ELSE Token0[o.pool]]

\* The reserves a trade in the direction of a case meets.
Reserves(curve, c) ==
  LET r0 == IF concentrated THEN Frac(curve.liquidity * Q96, curve.sqrt) ELSE Frac(curve.reserve0, 1)
      r1 == IF concentrated THEN Frac(curve.liquidity * curve.sqrt, Q96) ELSE Frac(curve.reserve1, 1)
  IN IF Forward[c] THEN [in |-> r0, out |-> r1] ELSE [in |-> r1, out |-> r0]

\* Can the pool be traded at all?  If not, the router or the quoter reverts.
Tradeable(curve) ==
  IF concentrated THEN curve.sqrt # 0 /\ curve.liquidity # 0 ELSE curve.reserve0 # 0

\* output_amount_raw, None when the quote failed or is not routable.
Output(o) ==
  IF o.quote = None \/ Size[o.case] = 0 THEN None
  ELSE LET curve == CurveAt(o.pool, o.quote)
           r == Reserves(curve, o.case)
       IN IF ~Tradeable(curve) THEN None
          ELSE LET amount == AmountOut(Size[o.case], r.in, r.out, Rate)
               IN IF amount > 0 THEN amount ELSE None

\* reference_price_from_state, given the block the state was read in.
Reference(o) ==
  IF o.reference = None THEN None
  ELSE LET curve == CurveAt(o.pool, o.reference) IN
    IF concentrated
      THEN ClReference(curve.sqrt, Forward[o.case], Unit[Token0[o.pool]], Unit[Token1[o.pool]])
      ELSE IF Forward[o.case]
             THEN CpReference(curve.reserve0, curve.reserve1, UnitIn(o), UnitOut(o))
             ELSE CpReference(curve.reserve1, curve.reserve0, UnitIn(o), UnitOut(o))

Impact(o) == PriceImpact(Reference(o), Output(o), Size[o.case], Rate, UnitIn(o), UnitOut(o))

\* success of the stored row.
Success(o) == Output(o) # None /\ Reference(o) # None
-----------------------------------------------------------------------------
\* Nobody traded between the eth_blockNumber call and the read of the pool.
Quiet(o) == value[o.label][o.pool] = value[o.reference][o.pool]

\* What the retained input is of the reserve it is added to: the impact of the
\* same trade in a pool without fee and without rounding.
SizeShare(o) ==
  LET in == Reserves(CurveAt(o.pool, o.reference), o.case).in
      kept == (FeeBase - FeeBps) * Size[o.case] * in.den
  IN Frac(kept, FeeBase * in.num + kept)

\* The impact one raw unit of output makes, when the fee is excluded.
RawUnit(o) ==
  LET r == Reserves(CurveAt(o.pool, o.reference), o.case)
  IN Frac(r.out.den * (FeeBase * r.in.num),
          (FeeBase - FeeBps) * Size[o.case] * r.out.num * r.in.den)

\* The impact of a success is the share of its size and nothing else: no fee in
\* it, no decimals, no other block, and less than one raw unit of rounding
\* (models/execution.py:12-14; analytics/execution.py, compute_price_impact).  A
\* trade that came between the block number and the read is excepted.
ImpactIsSizeOnly ==
  \A o \in stored : Success(o) /\ Quiet(o) =>
    Leq(SizeShare(o), Impact(o)) /\ Less(Impact(o), Plus(SizeShare(o), RawUnit(o)))

\* A success has an impact, though a pool that was not initialised yet has a
\* price of zero, which is a price for _build_observation and none for
\* compute_price_impact: the quote is of no later block than the price, and
\* fails there.
SuccessHasImpact ==
  \A o \in stored : Success(o) => Impact(o) # None
\* execution.py:48-54 (IMPACT_METHODOLOGY): "both values use the
\* output-per-input price convention at the same block".
ImpactAtOneBlock ==
  \A o \in stored : Success(o) => value[o.quote][o.pool] = value[o.reference][o.pool]
=============================================================================
