--------------------------- MODULE ExecutionMath ---------------------------
(* The arithmetic behind one execution observation: chain/units.py,           *)
(* analytics/fees.py, analytics/pricing.py, dex/pool_math.py and              *)
(* compute_price_impact of analytics/execution.py.  A Decimal is an exact     *)
(* fraction: the rounding at 80 digits is left out, the flooring to raw       *)
(* amounts is not.  A token's unit is 10^decimals.                            *)
EXTENDS Integers

CONSTANTS FeeBase,  \* basis points in a whole, 10000 in the code
          Q96,      \* what sqrtPriceX96 is scaled by, 2^96 in the code
          None

Frac(n, d) == [num |-> n, den |-> d]
Fraction == [num : Int, den : Nat \ {0}]

Leq(f, g)  == f.num * g.den <= g.num * f.den
Less(f, g) == f.num * g.den <  g.num * f.den
Plus(f, g) == Frac(f.num * g.den + g.num * f.den, f.den * g.den)
OneMinus(f) == Frac(f.den - f.num, f.den)

Quotient(f, g) == Frac(f.num * g.den, f.den * g.num)

SafeDiv(f, g) == IF g.num = 0 THEN None ELSE Quotient(f, g)

FromRaw(raw, unit) == Frac(raw, unit)
-----------------------------------------------------------------------------
(* Fees *)

BpsToRate(bps) == Frac(bps, FeeBase)

\* amount_out of a pool with fractional reserves (those of a concentrated pool
\* are virtual), floored to raw units as the contracts floor it.
AmountOut(amount, in, out, rate) ==
  LET kept == (rate.den - rate.num) * amount
  IN (kept * out.num * in.den) \div (out.den * (rate.den * in.num + kept * in.den))
-----------------------------------------------------------------------------
(* Reference prices, in whole output tokens per whole input token *)

\* A reserve that was read and is zero leaves no price on the input side, and
\* the price zero on the output side.
CpReference(in, out, unitIn, unitOut) ==
  IF in = 0 THEN None ELSE SafeDiv(FromRaw(out, unitOut), FromRaw(in, unitIn))

\* (sqrtPriceX96 / 2^96)^2, shifted by the decimals and inverted for the input
\* token1; zero before the pool is initialised.
ClReference(sqrt, forward, unit0, unit1) ==
  LET price == Frac(sqrt * sqrt * unit0, Q96 * Q96 * unit1)
  IN IF forward THEN price ELSE SafeDiv(Frac(1, 1), price)
-----------------------------------------------------------------------------
(* Price impact *)

\* Mutant: the fee is taken off the quoted output a second time.
FeeExcludedTwice(effective, rate) == Quotient(effective, Frac(rate.den + rate.num, rate.den))

\* The effective price as if no fee had been taken on the input.
FeeExcluded(effective, rate) ==
  IF rate = None THEN effective ELSE Quotient(effective, OneMinus(rate))

\* impact_fraction of compute_price_impact: None without a reference price or an
\* output, or when the division is degenerate.
PriceImpact(reference, output, amount, rate, unitIn, unitOut) ==
  IF reference = None \/ output = None \/ amount = 0 THEN None
  ELSE LET effective == Quotient(FromRaw(output, unitOut), FromRaw(amount, unitIn))
       IN IF reference.num = 0 THEN None
          ELSE OneMinus(Quotient(FeeExcluded(effective, rate), reference))
=============================================================================
