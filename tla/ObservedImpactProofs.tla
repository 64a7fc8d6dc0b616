------------------------ MODULE ObservedImpactProofs ------------------------
(* The impact that is stored is that of the size of the trade, for every pair *)
(* of reserves, price, liquidity, fee and unit.  The arithmetic is in lemmas  *)
(* of their own; the invariant of MarketReadProofs, with the history of the   *)
(* pools in order, says which blocks meet in an observation.                  *)
EXTENDS ObservedImpact, MarketReadProofs

PosNat == Nat \ {0}

\* The quotient of naturals, by its two inequalities.
LEMMA Floor ==
  ASSUME NEW m \in Nat, NEW n \in PosNat
  PROVE  /\ m \div n \in Nat
         /\ (m \div n) * n <= m
         /\ m < (m \div n + 1) * n
  BY DEF PosNat

\* A product of positive numbers is positive.
LEMMA Positive ==
  ASSUME NEW m \in PosNat, NEW n \in PosNat
  PROVE  m * n \in PosNat
  BY DEF PosNat

\* A positive factor may be cancelled.
LEMMA Cancel ==
  ASSUME NEW m \in Int, NEW n \in Int, NEW k \in PosNat
  PROVE  /\ m * k <= n * k => m <= n
         /\ m * k < n * k => m < n
  BY DEF PosNat

\* The situation of SizeOnly with its products named: q is m * g, u is d * t and
\* e is d * g.
Cleared(d, g, s, t, p, m, n, y, q, u, e) ==
  /\ {d, g, s, t, p, m, q, u, e} \subseteq PosNat /\ n \in Nat /\ y \in Nat
  /\ t = g + s /\ q = m * g /\ u = d * t /\ e = d * g
  /\ y * u <= p /\ p < (y + 1) * u
  /\ n * p = m * (y * e)

\* The two bounds, as inequalities between integers.
LEMMA Bounds ==
  ASSUME NEW d, NEW g, NEW s, NEW t, NEW p, NEW m, NEW n, NEW y, NEW q, NEW u, NEW e,
         Cleared(d, g, s, t, p, m, n, y, q, u, e)
  PROVE  /\ s * m <= (m - n) * t
         /\ (m - n) * (t * p) < (s * p + e * t) * m
  <1> /\ d \in PosNat /\ g \in PosNat /\ s \in PosNat /\ t \in PosNat /\ p \in PosNat
      /\ m \in PosNat /\ q \in PosNat /\ u \in PosNat /\ e \in PosNat
      /\ n \in Nat /\ y \in Nat
      /\ t = g + s /\ q = m * g /\ u = d * t /\ e = d * g
      /\ y * u <= p /\ p < (y + 1) * u
      /\ n * p = m * (y * e)
    BY DEF Cleared
  <1> USE DEF PosNat
  <1>1. (n * t) * p = q * (y * u)
    <2>1. (n * t) * p = (n * p) * t
      OBVIOUS
    <2>2. (n * p) * t = (m * y) * (e * t)
      OBVIOUS
    <2>3. e * t = g * u
      OBVIOUS
    <2>4. (m * y) * (g * u) = q * (y * u)
      OBVIOUS
    <2> QED
      BY <2>1, <2>2, <2>3, <2>4
  <1>2. s * m <= (m - n) * t
    <2>1. q * (y * u) <= q * p
      OBVIOUS
    <2>2. n * t <= q
      BY <1>1, <2>1, Cancel
    <2> QED
      BY <2>2
  <1>3. (m - n) * (t * p) < (s * p + e * t) * m
    <2>1. (m - n) * (t * p) = (m * t) * p - (n * t) * p
      OBVIOUS
    <2>2. (s * p + e * t) * m = (m * t) * p - q * p + q * u
      <3>1. (s * p + e * t) * m = (m * s) * p + m * (e * t)
        OBVIOUS
      <3>2. m * (e * t) = q * u
        OBVIOUS
      <3>3. (m * s) * p = (m * t) * p - q * p
        OBVIOUS
      <3> QED
        BY <3>1, <3>2, <3>3
    <2>3. q * p < q * (y * u) + q * u
      OBVIOUS
    <2> QED
      BY <1>1, <2>1, <2>2, <2>3
  <1> QED
    BY <1>2, <1>3

\* Both bounds of the impact, cleared of fractions.  The reserves are a/b and
\* c/d, x is put in and y comes out, k of every f raw units are kept after the
\* fee, and n/m is the fee-excluded price over the reference price.
LEMMA SizeOnly ==
  ASSUME NEW a \in PosNat, NEW b \in PosNat, NEW c \in PosNat, NEW d \in PosNat,
         NEW k \in PosNat, NEW f \in PosNat, NEW x \in PosNat, NEW y \in Nat,
         NEW n \in Nat, NEW m \in PosNat,
         y = (k * x * c * b) \div (d * (f * a + k * x * b)),
         n * (k * x * c * b) = m * (y * (d * (f * a)))
  PROVE  /\ (k * x * b) * m <= (m - n) * (f * a + k * x * b)
         /\ (m - n) * ((f * a + k * x * b) * (k * x * c * b))
              < ((k * x * b) * (k * x * c * b) + (d * (f * a)) * (f * a + k * x * b)) * m
  <1> DEFINE s == k * x * b
             p == k * x * c * b
             g == f * a
             t == g + s
             q == m * g
             u == d * t
             e == d * g
  <1>1. s \in PosNat /\ p \in PosNat /\ g \in PosNat
    BY Positive
  <1>2. t \in PosNat
    BY <1>1 DEF PosNat
  <1>3. q \in PosNat /\ u \in PosNat /\ e \in PosNat
    BY <1>1, <1>2, Positive
  <1>4. y = p \div u /\ n * p = m * (y * e)
    OBVIOUS
  <1>5. t = g + s /\ q = m * g /\ u = d * t /\ e = d * g
    OBVIOUS
  <1> HIDE DEF s, p, g, t, q, u, e
  <1>6. y * u <= p /\ p < (y + 1) * u
    <2>1. p \in Nat
      BY <1>1 DEF PosNat
    <2>2. (p \div u) * u <= p /\ p < (p \div u + 1) * u
      BY <1>3, <2>1, Floor
    <2>3. y = p \div u
      BY <1>4
    <2> QED
      BY <2>2, <2>3, Zenon
  <1>7. s * m <= (m - n) * t /\ (m - n) * (t * p) < (s * p + e * t) * m
    <2>1. Cleared(d, g, s, t, p, m, n, y, q, u, e)
      <3>1. {d, g, s, t, p, m, q, u, e} \subseteq PosNat
        BY <1>1, <1>2, <1>3
      <3>2. n * p = m * (y * e)
        BY <1>4
      <3> QED
        BY <1>5, <1>6, <3>1, <3>2, Zenon DEF Cleared
    <2> QED
      BY <2>1, Bounds, Zenon
  <1> QED
    BY <1>7 DEF s, p, t, g, e
-----------------------------------------------------------------------------
Kept == FeeBase - FeeBps

\* A fraction is not the absence of one.
LEMMA FracIsSome ==
  ASSUME NEW n \in Int, NEW d \in PosNat
  PROVE  Frac(n, d) # None
  BY MathAssumption DEF Frac, Fraction, PosNat

\* The impact for a price n/d, from its numerator and denominator.
ImpactIs(n, d, x, y, unitIn, unitOut) ==
  PriceImpact(Frac(n, d), y, x, Rate, unitIn, unitOut)
    = Frac(unitOut * x * Kept * n - y * unitIn * FeeBase * d, unitOut * x * Kept * n)

\* compute_price_impact returns it.
LEMMA ImpactForm ==
  ASSUME NEW n \in PosNat, NEW d \in PosNat, NEW x \in PosNat, NEW y \in PosNat,
         NEW unitIn \in PosNat, NEW unitOut \in PosNat
  PROVE  ImpactIs(n, d, x, y, unitIn, unitOut)
  <1>1. Frac(n, d) # None /\ y # None /\ Rate # None
    BY FracIsSome, MathAssumption, CaseAssumption DEF Rate, BpsToRate, PosNat
  <1>2. Quotient(FromRaw(y, unitOut), FromRaw(x, unitIn)) = Frac(y * unitIn, unitOut * x)
    BY DEF Quotient, FromRaw, Frac
  <1>3. OneMinus(Rate) = Frac(Kept, FeeBase)
    BY DEF OneMinus, Rate, BpsToRate, Frac, Kept
  <1>4. FeeExcluded(Frac(y * unitIn, unitOut * x), Rate)
          = Frac(y * unitIn * FeeBase, unitOut * x * Kept)
    BY <1>1, <1>3 DEF FeeExcluded, Quotient, Frac
  <1>5. OneMinus(Quotient(Frac(y * unitIn * FeeBase, unitOut * x * Kept), Frac(n, d)))
          = Frac(unitOut * x * Kept * n - y * unitIn * FeeBase * d, unitOut * x * Kept * n)
    BY DEF OneMinus, Quotient, Frac
  <1>6. Frac(n, d).num = n /\ x # 0 /\ n # 0
    BY DEF Frac, PosNat
  <1> QED
    BY <1>1, <1>2, <1>4, <1>5, <1>6, Zenon DEF PriceImpact, ImpactIs

\* The output of a trade is a natural number of raw units.
LEMMA AmountNatural ==
  ASSUME NEW a \in PosNat, NEW b \in PosNat, NEW c \in PosNat, NEW d \in PosNat,
         NEW x \in PosNat
  PROVE  AmountOut(x, Frac(a, b), Frac(c, d), Rate) \in Nat
  <1>1. AmountOut(x, Frac(a, b), Frac(c, d), Rate)
          = (Kept * x * c * b) \div (d * (FeeBase * a + Kept * x * b))
    BY DEF AmountOut, Frac, Rate, BpsToRate, Kept
  <1>2. Kept \in PosNat /\ FeeBase \in PosNat
    BY MathAssumption, CaseAssumption DEF Kept, PosNat
  <1>3. Kept * x * c * b \in PosNat /\ Kept * x * b \in PosNat /\ FeeBase * a \in PosNat
    BY <1>2, Positive
  <1>4. FeeBase * a + Kept * x * b \in PosNat
    BY <1>3 DEF PosNat
  <1>5. d * (FeeBase * a + Kept * x * b) \in PosNat
    BY <1>4, Positive
  <1> QED
    BY <1>1, <1>3, <1>5, Floor DEF PosNat

\* A trade against reserves a/b and c/d whose spot price is n/r: the impact is
\* the share of the size, up to one raw unit of the output.
LEMMA TradeImpact ==
  ASSUME NEW a \in PosNat, NEW b \in PosNat, NEW c \in PosNat, NEW d \in PosNat,
         NEW x \in PosNat, NEW y \in PosNat, NEW n \in PosNat, NEW r \in PosNat,
         NEW unitIn \in PosNat, NEW unitOut \in PosNat,
         unitIn * r * (c * b) = unitOut * n * (d * a),
         y = AmountOut(x, Frac(a, b), Frac(c, d), Rate)
  PROVE  LET impact == PriceImpact(Frac(n, r), y, x, Rate, unitIn, unitOut)
             share  == Frac(Kept * x * b, FeeBase * a + Kept * x * b)
             raw    == Frac(d * (FeeBase * a), Kept * x * c * b)
         IN Leq(share, impact) /\ Less(impact, Plus(share, raw))
  <1> DEFINE m == unitOut * x * Kept * n
             e == y * unitIn * FeeBase * r
  <1>1. Kept \in PosNat /\ FeeBase \in PosNat
    BY MathAssumption, CaseAssumption DEF Kept, PosNat
  <1>2. m \in PosNat /\ e \in Nat
    <2>1. m \in PosNat /\ e \in PosNat
      BY <1>1, Positive
    <2> QED
      BY <2>1 DEF PosNat
  <1>3. y = (Kept * x * c * b) \div (d * (FeeBase * a + Kept * x * b))
    BY DEF AmountOut, Frac, Rate, BpsToRate, Kept
  <1>4. (y * unitIn * FeeBase * r) * (Kept * x * c * b)
          = (unitOut * x * Kept * n) * (y * (d * (FeeBase * a)))
    <2> USE <1>1 DEF PosNat
    <2>1. (y * unitIn * FeeBase * r) * (Kept * x * c * b)
            = (y * FeeBase * Kept * x) * (unitIn * r * (c * b))
      OBVIOUS
    <2>2. (unitOut * x * Kept * n) * (y * (d * (FeeBase * a)))
            = (y * FeeBase * Kept * x) * (unitOut * n * (d * a))
      OBVIOUS
    <2> QED
      BY <2>1, <2>2
  <1>5. PriceImpact(Frac(n, r), y, x, Rate, unitIn, unitOut)
          = Frac(unitOut * x * Kept * n - y * unitIn * FeeBase * r, unitOut * x * Kept * n)
    <2>1. ImpactIs(n, r, x, y, unitIn, unitOut)
      BY ImpactForm, Zenon
    <2> QED
      BY <2>1 DEF ImpactIs
  <1>6. /\ (Kept * x * b) * m <= (m - e) * (FeeBase * a + Kept * x * b)
        /\ (m - e) * ((FeeBase * a + Kept * x * b) * (Kept * x * c * b))
             < ((Kept * x * b) * (Kept * x * c * b)
                + (d * (FeeBase * a)) * (FeeBase * a + Kept * x * b)) * m
    <2>1. y \in Nat
      BY DEF PosNat
    <2>2. e * (Kept * x * c * b) = m * (y * (d * (FeeBase * a)))
      BY <1>4, Zenon
    <2> HIDE DEF m, e
    <2> QED
      BY <1>1, <1>2, <1>3, <2>1, <2>2, SizeOnly, Zenon
  <1> DEFINE s == Kept * x * b
             t == FeeBase * a + Kept * x * b
             p == Kept * x * c * b
             g == d * (FeeBase * a)
  <1>7. s * m <= (m - e) * t /\ (m - e) * (t * p) < (s * p + g * t) * m
    BY <1>6
  <1> HIDE DEF m, e, s, t, p, g
  <1>8. Leq(Frac(s, t), Frac(m - e, m)) /\ Less(Frac(m - e, m), Plus(Frac(s, t), Frac(g, p)))
    BY <1>7 DEF Leq, Less, Plus, Frac
  <1> QED
    BY <1>5, <1>8, Zenon DEF m, e, s, t, p, g
-----------------------------------------------------------------------------
CurveType == [reserve0 : Nat, reserve1 : Nat, sqrt : Nat, liquidity : Nat]

\* The price of a pool as a fraction, in the direction of o.
PriceOf(o, k) ==
  LET u0 == Unit[Token0[o.pool]]
      u1 == Unit[Token1[o.pool]]
      up   == k.sqrt * k.sqrt * u0
      down == Q96 * Q96 * u1
  IN IF concentrated
       THEN IF Forward[o.case] THEN Frac(up, down) ELSE Frac(down, up)
       ELSE IF Forward[o.case] THEN Frac(k.reserve1 * u0, u1 * k.reserve0)
                               ELSE Frac(k.reserve0 * u1, u0 * k.reserve1)

\* It is the reference price, if the pool has one that is not zero.
LEMMA PriceForm ==
  ASSUME NEW o, o.pool \in Pool, o.case \in Case, o.reference # None,
         NEW k \in CurveType, CurveAt(o.pool, o.reference) = k,
         concentrated => k.sqrt # 0,
         ~concentrated => k.reserve0 # 0 /\ k.reserve1 # 0
  PROVE  Reference(o) = PriceOf(o, k)
  <1> DEFINE u0 == Unit[Token0[o.pool]]
             u1 == Unit[Token1[o.pool]]
             up   == k.sqrt * k.sqrt * u0
             down == Q96 * Q96 * u1
  <1>1. u0 \in PosNat /\ u1 \in PosNat /\ Q96 \in PosNat /\ Forward[o.case] \in BOOLEAN
    BY CaseAssumption, MathAssumption DEF PosNat
  <1>2. CASE ~concentrated
    <2>1. k.reserve0 \in PosNat /\ k.reserve1 \in PosNat
      BY <1>2 DEF CurveType, PosNat
    <2>2. UnitIn(o) = IF Forward[o.case] THEN u0 ELSE u1
      BY DEF UnitIn
    <2>3. UnitOut(o) = IF Forward[o.case] THEN u1 ELSE u0
      BY DEF UnitOut
    <2> QED
      BY <1>1, <1>2, <2>1, <2>2, <2>3
         DEF Reference, PriceOf, CpReference, SafeDiv, FromRaw, Quotient, Frac, PosNat
  <1>3. CASE concentrated
    <2>1. k.sqrt \in PosNat
      BY <1>3 DEF CurveType, PosNat
    <2>2. up \in PosNat /\ down \in PosNat
      BY <1>1, <2>1, Positive
    <2>3. Reference(o) = IF Forward[o.case] THEN Frac(up, down)
                                            ELSE SafeDiv(Frac(1, 1), Frac(up, down))
      BY <1>3 DEF Reference, ClReference
    <2>4. PriceOf(o, k) = IF Forward[o.case] THEN Frac(up, down) ELSE Frac(down, up)
      BY <1>3 DEF PriceOf
    <2> HIDE DEF up, down
    <2>5. SafeDiv(Frac(1, 1), Frac(up, down)) = Frac(down, up)
      BY <2>2 DEF SafeDiv, Quotient, Frac, PosNat
    <2> QED
      BY <2>3, <2>4, <2>5
  <1> QED
    BY <1>2, <1>3

\* The reserves a/b and c/d of a pool, and its price n/r, in the direction of o.
SpotAt(o, k, a, b, c, d, n, r) ==
  /\ a \in PosNat /\ b \in PosNat /\ c \in PosNat /\ d \in PosNat /\ n \in PosNat /\ r \in PosNat
  /\ Reserves(k, o.case) = [in |-> Frac(a, b), out |-> Frac(c, d)]
  /\ Reference(o) = Frac(n, r)
  /\ UnitIn(o) * r * (c * b) = UnitOut(o) * n * (d * a)

\* The reference price of a pool that can be traded is the ratio of its reserves,
\* whichever of the two formulas gave it.
LEMMA Spot ==
  ASSUME NEW o, o.pool \in Pool, o.case \in Case, o.reference # None,
         concentrated \in BOOLEAN,
         NEW k \in CurveType, CurveAt(o.pool, o.reference) = k,
         Tradeable(k), k.reserve0 = 0 <=> k.reserve1 = 0
  PROVE  \E a, b, c, d, n, r : SpotAt(o, k, a, b, c, d, n, r)
  <1> DEFINE u0 == Unit[Token0[o.pool]]
             u1 == Unit[Token1[o.pool]]
  <1>1. u0 \in PosNat /\ u1 \in PosNat /\ Q96 \in PosNat /\ 1 \in PosNat
    BY CaseAssumption, MathAssumption DEF PosNat
  <1>2. Forward[o.case] \in BOOLEAN
    BY CaseAssumption
  <1>3. Reference(o) = PriceOf(o, k)
    BY PriceForm DEF Tradeable
  <1>4. CASE ~concentrated
    <2>1. k.reserve0 \in PosNat /\ k.reserve1 \in PosNat
      BY <1>4 DEF CurveType, Tradeable, PosNat
    <2>2. CASE Forward[o.case]
      <3>1. UnitIn(o) = u0 /\ UnitOut(o) = u1
        BY <2>2 DEF UnitIn, UnitOut
      <3>2. Reserves(k, o.case) = [in |-> Frac(k.reserve0, 1), out |-> Frac(k.reserve1, 1)]
        BY <1>4, <2>2 DEF Reserves
      <3>3. Reference(o) = Frac(k.reserve1 * u0, u1 * k.reserve0)
        BY <1>4, <1>3, <2>2 DEF PriceOf
      <3>4. k.reserve1 * u0 \in PosNat /\ u1 * k.reserve0 \in PosNat
        BY <1>1, <2>1, Positive
      <3>5. u0 * (u1 * k.reserve0) * (k.reserve1 * 1) = u1 * (k.reserve1 * u0) * (1 * k.reserve0)
        BY <1>1, <2>1 DEF PosNat
      <3>6. SpotAt(o, k, k.reserve0, 1, k.reserve1, 1, k.reserve1 * u0, u1 * k.reserve0)
        BY <1>1, <2>1, <3>1, <3>2, <3>3, <3>4, <3>5, Zenon DEF SpotAt
      <3> QED
        BY <3>6
    <2>3. CASE ~Forward[o.case]
      <3>1. UnitIn(o) = u1 /\ UnitOut(o) = u0
        BY <2>3 DEF UnitIn, UnitOut
      <3>2. Reserves(k, o.case) = [in |-> Frac(k.reserve1, 1), out |-> Frac(k.reserve0, 1)]
        BY <1>4, <2>3 DEF Reserves
      <3>3. Reference(o) = Frac(k.reserve0 * u1, u0 * k.reserve1)
        BY <1>4, <1>3, <2>3 DEF PriceOf
      <3>4. k.reserve0 * u1 \in PosNat /\ u0 * k.reserve1 \in PosNat
        BY <1>1, <2>1, Positive
      <3>5. u1 * (u0 * k.reserve1) * (k.reserve0 * 1) = u0 * (k.reserve0 * u1) * (1 * k.reserve1)
        BY <1>1, <2>1 DEF PosNat
      <3>6. SpotAt(o, k, k.reserve1, 1, k.reserve0, 1, k.reserve0 * u1, u0 * k.reserve1)
        BY <1>1, <2>1, <3>1, <3>2, <3>3, <3>4, <3>5, Zenon DEF SpotAt
      <3> QED
        BY <3>6
    <2> QED
      BY <1>2, <2>2, <2>3
  <1>5. CASE concentrated
    <2> DEFINE s == k.sqrt
               l == k.liquidity
               up   == s * s * u0
               down == Q96 * Q96 * u1
    <2>1. s \in PosNat /\ l \in PosNat
      BY <1>5 DEF CurveType, Tradeable, PosNat
    <2>2. up \in PosNat /\ down \in PosNat /\ l * Q96 \in PosNat /\ l * s \in PosNat
      BY <1>1, <2>1, Positive
    <2>3. u0 * down * ((l * s) * s) = u1 * up * (Q96 * (l * Q96))
      BY <1>1, <2>1 DEF PosNat
    <2>4. u1 * up * ((l * Q96) * Q96) = u0 * down * (s * (l * s))
      BY <1>1, <2>1 DEF PosNat
    <2>6. CASE Forward[o.case]
      <3>1. UnitIn(o) = u0 /\ UnitOut(o) = u1
        BY <2>6 DEF UnitIn, UnitOut
      <3>2. Reserves(k, o.case) = [in |-> Frac(l * Q96, s), out |-> Frac(l * s, Q96)]
        BY <1>5, <2>6 DEF Reserves
      <3>3. Reference(o) = Frac(up, down)
        BY <1>5, <1>3, <2>6 DEF PriceOf
      <3>4. SpotAt(o, k, l * Q96, s, l * s, Q96, up, down)
        BY <1>1, <2>1, <2>2, <2>3, <3>1, <3>2, <3>3, Zenon DEF SpotAt
      <3> QED
        BY <3>4
    <2>7. CASE ~Forward[o.case]
      <3>1. UnitIn(o) = u1 /\ UnitOut(o) = u0
        BY <2>7 DEF UnitIn, UnitOut
      <3>2. Reserves(k, o.case) = [in |-> Frac(l * s, Q96), out |-> Frac(l * Q96, s)]
        BY <1>5, <2>7 DEF Reserves
      <3>3. Reference(o) = Frac(down, up)
        BY <1>5, <1>3, <2>7 DEF PriceOf
      <3>4. SpotAt(o, k, l * s, Q96, l * Q96, s, down, up)
        BY <1>1, <2>1, <2>2, <2>4, <3>1, <3>2, <3>3, Zenon DEF SpotAt
      <3> QED
        BY <3>4
    <2> QED
      BY <1>2, <2>6, <2>7
  <1> QED
    BY <1>4, <1>5
-----------------------------------------------------------------------------
\* The last change of a pool is no later than the block, and is not forgotten.
HistoryInOrder ==
  \A p \in Pool : \A b \in 0..head :
    /\ value[b][p] \in 0..b
    /\ \A c \in b..head : value[b][p] <= value[c][p]

\* A block that is mined is put at the end of the history.
LEMMA HistoryStep ==
  ASSUME TypeOK, HistoryInOrder, [Next]_vars
  PROVE  HistoryInOrder'
  <1>1. head \in Block /\ ValueTyped
    BY DEF TypeOK
  <1>2. CASE NewBlock
    <2>1. PICK touched \in SUBSET Pool :
            value' = [value EXCEPT ![head + 1] =
                        [p \in Pool |-> IF p \in touched THEN head + 1 ELSE value[head][p]]]
      BY <1>2 DEF NewBlock
    <2>2. head \in Nat /\ head + 1 \in Block /\ head' = head + 1
      BY <1>1, <1>2, MarketAssumption DEF NewBlock, Block
    <2>3. \A b \in 0..head : value'[b] = value[b]
      BY <1>1, <2>1, <2>2, MarketAssumption DEF ValueTyped, Block
    <2>4. \A p \in Pool : value'[head + 1][p] \in {head + 1, value[head][p]}
      BY <1>1, <2>1, <2>2 DEF ValueTyped
    <2>5. ASSUME NEW p \in Pool, NEW b \in 0..head
          PROVE  value[b][p] \in 0..b /\ value[b][p] <= value[head][p]
      BY <2>2 DEF HistoryInOrder
    <2>6. ASSUME NEW p \in Pool, NEW b \in 0..head + 1
          PROVE  /\ value'[b][p] \in 0..b
                 /\ \A c \in b..head + 1 : value'[b][p] <= value'[c][p]
      <3>1. value[head][p] \in 0..head
        BY <2>2, <2>5
      <3>2. CASE b = head + 1
        BY <2>2, <2>4, <3>1, <3>2
      <3>3. CASE b \in 0..head
        <4>1. value'[b][p] \in 0..b
          BY <2>3, <2>5, <3>3
        <4>2. ASSUME NEW c \in b..head PROVE value'[b][p] <= value'[c][p]
          BY <2>2, <2>3, <3>3 DEF HistoryInOrder
        <4>3. value'[b][p] <= value'[head + 1][p]
          BY <2>2, <2>3, <2>4, <2>5, <3>1, <3>3
        <4> QED
          BY <2>2, <3>3, <4>1, <4>2, <4>3
      <3> QED
        BY <2>2, <3>2, <3>3
    <2> QED
      BY <2>2, <2>6 DEF HistoryInOrder
  <1>3. CASE Step \/ UNCHANGED vars
    <2>1. value' = value /\ head' = head
      BY <1>3 DEF Step, ResolveBlock, Analyze, ReadMain, ReadExtra, ReadToken, StoreState,
         StatePassDone, QuoteCase, StoreObservations, ExecutionDone, vars, chain
    <2> QED
      BY <2>1 DEF HistoryInOrder
  <1> QED
    BY <1>2, <1>3 DEF Next

\* The history of the pools stays in order.
THEOREM History == Spec => []HistoryInOrder
  <1>1. Init => HistoryInOrder
    <2> SUFFICES ASSUME Init PROVE HistoryInOrder
      OBVIOUS
    <2>1. head = 0 /\ \A p \in Pool : value[0][p] = 0
      BY MarketAssumption DEF Init, Block
    <2> QED
      BY <2>1 DEF HistoryInOrder
  <1>2. IInv /\ HistoryInOrder /\ [Next]_vars => HistoryInOrder'
    BY HistoryStep DEF IInv
  <1> QED
    BY <1>1, <1>2, Invariance, PTL DEF Spec

\* A quote and a reference price were answered, the quote no later.
LEMMA Blocks ==
  ASSUME IInv, NEW o \in stored, o.quote # None, o.reference # None
  PROVE  /\ o.pool \in Pool /\ o.case \in Case
         /\ o.quote = o.label /\ o.label \in Block /\ o.reference \in Block
         /\ o.label <= o.reference /\ o.reference <= head
  <1>1. o.pool \in Pool /\ o.case \in Case /\ o.label \in Block /\ o.reference \in Block
    BY DEF IInv, TypeOK
  <1>2. Grounded(o)
    BY DEF IInv, ObservationsGrounded
  <1>3. o.quote = o.label /\ o.label <= o.reference
    BY <1>2 DEF Grounded
  <1>4. PICK s \in states : s.main = o.reference
    BY <1>2 DEF Grounded
  <1>5. o.reference <= head
    BY <1>4 DEF IInv, StoredInOrder
  <1> QED
    BY <1>1, <1>3, <1>5

\* What a routable output says of the pool it was quoted from.
LEMMA Routable ==
  ASSUME NEW o, o.case \in Case, Output(o) # None
  PROVE  LET k == CurveAt(o.pool, o.quote)
             r == Reserves(k, o.case)
         IN /\ o.quote # None /\ Tradeable(k) /\ Size[o.case] \in PosNat
            /\ Output(o) = AmountOut(Size[o.case], r.in, r.out, Rate)
            /\ Output(o) > 0
  BY CaseAssumption DEF Output, PosNat

\* A routable output is a positive number of raw units.
LEMMA OutputPositive ==
  ASSUME NEW o, o.case \in Case, Output(o) # None,
         concentrated \in BOOLEAN,
         NEW k \in CurveType, CurveAt(o.pool, o.quote) = k,
         k.reserve0 = 0 <=> k.reserve1 = 0
  PROVE  Output(o) \in PosNat
  <1> DEFINE x == Size[o.case]
             rs == Reserves(k, o.case)
  <1>1. Tradeable(k) /\ x \in PosNat /\ Output(o) = AmountOut(x, rs.in, rs.out, Rate) /\ Output(o) > 0
    BY Routable
  <1>2. Q96 \in PosNat /\ 1 \in PosNat /\ Forward[o.case] \in BOOLEAN
    BY CaseAssumption, MathAssumption DEF PosNat
  <1>3. ASSUME NEW a \in PosNat, NEW b \in PosNat, NEW c \in PosNat, NEW d \in PosNat,
               rs = [in |-> Frac(a, b), out |-> Frac(c, d)]
        PROVE  Output(o) \in PosNat
    <2>1. AmountOut(x, Frac(a, b), Frac(c, d), Rate) \in Nat
      BY <1>1, AmountNatural, Zenon
    <2>2. Output(o) = AmountOut(x, Frac(a, b), Frac(c, d), Rate)
      BY <1>1, <1>3
    <2> QED
      BY <1>1, <2>1, <2>2 DEF PosNat
  <1>4. CASE ~concentrated
    <2>1. k.reserve0 \in PosNat /\ k.reserve1 \in PosNat
      BY <1>1, <1>4 DEF CurveType, Tradeable, PosNat
    <2>2. rs = IF Forward[o.case]
                 THEN [in |-> Frac(k.reserve0, 1), out |-> Frac(k.reserve1, 1)]
                 ELSE [in |-> Frac(k.reserve1, 1), out |-> Frac(k.reserve0, 1)]
      BY <1>4 DEF Reserves
    <2> HIDE DEF rs
    <2> QED
      BY <1>2, <1>3, <2>1, <2>2, Zenon
  <1>5. CASE concentrated
    <2> DEFINE n0 == k.liquidity * Q96
               n1 == k.liquidity * k.sqrt
    <2>1. k.sqrt \in PosNat /\ k.liquidity \in PosNat
      BY <1>1, <1>5 DEF CurveType, Tradeable, PosNat
    <2>2. n0 \in PosNat /\ n1 \in PosNat
      BY <1>2, <2>1, Positive
    <2>3. rs = IF Forward[o.case] THEN [in |-> Frac(n0, k.sqrt), out |-> Frac(n1, Q96)]
                                  ELSE [in |-> Frac(n1, Q96), out |-> Frac(n0, k.sqrt)]
      BY <1>5 DEF Reserves
    <2> HIDE DEF rs, n0, n1
    <2> QED
      BY <1>2, <1>3, <2>1, <2>2, <2>3, Zenon
  <1> QED
    BY <1>4, <1>5

\* The curve of a pool in a block.
LEMMA CurveTyped ==
  ASSUME TypeOK, NEW p \in Pool, NEW b \in Block
  PROVE  /\ value[b][p] \in Block
         /\ CurveAt(p, b) \in CurveType
         /\ CurveAt(p, b).reserve0 = 0 <=> CurveAt(p, b).reserve1 = 0
  <1>1. value[b][p] \in Block
    BY DEF TypeOK, ValueTyped
  <1> QED
    BY <1>1, CurveAssumption DEF CurveAt, CurveType, Block

\* The impact stored with a success is the share of its size: free of the fee, of
\* the decimals and of the direction, up to one raw unit of the output, whatever
\* the reserves, the price or the fee (compute_price_impact, get_quote).
THEOREM SizeAlone == Spec => []ImpactIsSizeOnly
  <1>1. IInv => ImpactIsSizeOnly
    <2> SUFFICES ASSUME IInv, NEW o \in stored, Success(o), Quiet(o)
                 PROVE  Leq(SizeShare(o), Impact(o)) /\ Less(Impact(o), Plus(SizeShare(o), RawUnit(o)))
      BY DEF ImpactIsSizeOnly
    <2> DEFINE k == CurveAt(o.pool, o.reference)
               x == Size[o.case]
               y == Output(o)
               rs == Reserves(k, o.case)
    <2>1. o.quote # None /\ o.reference # None /\ y # None
      BY DEF Success, Output, Reference
    <2>2. o.pool \in Pool /\ o.case \in Case /\ o.quote = o.label /\ o.reference \in Block
      BY <2>1, Blocks
    <2>3. CurveAt(o.pool, o.quote) = k
      BY <2>2 DEF Quiet, CurveAt
    <2>4. Tradeable(k) /\ x \in PosNat /\ y = AmountOut(x, rs.in, rs.out, Rate) /\ y > 0
      BY <2>1, <2>2, <2>3, Routable
    <2>5. k \in CurveType /\ (k.reserve0 = 0 <=> k.reserve1 = 0)
      BY <2>2, CurveTyped DEF IInv
    <2>6. concentrated \in BOOLEAN
      BY DEF IInv, TypeOK
    <2> HIDE DEF k, x, y
    <2>7. CurveAt(o.pool, o.reference) = k
      BY DEF k
    <2>8. PICK a, b, c, d, n, r : SpotAt(o, k, a, b, c, d, n, r)
      BY <2>1, <2>2, <2>4, <2>5, <2>6, <2>7, Spot
    <2>9. /\ a \in PosNat /\ b \in PosNat /\ c \in PosNat /\ d \in PosNat /\ n \in PosNat /\ r \in PosNat
          /\ rs = [in |-> Frac(a, b), out |-> Frac(c, d)]
          /\ Reference(o) = Frac(n, r)
          /\ UnitIn(o) * r * (c * b) = UnitOut(o) * n * (d * a)
      BY <2>8 DEF SpotAt
    <2>10. UnitIn(o) \in PosNat /\ UnitOut(o) \in PosNat
      BY <2>2, CaseAssumption DEF UnitIn, UnitOut, PosNat
    <2>11. y = AmountOut(x, Frac(a, b), Frac(c, d), Rate)
      BY <2>4, <2>9
    <2>12. y \in PosNat
      <3>1. AmountOut(x, Frac(a, b), Frac(c, d), Rate) \in Nat
        BY <2>4, <2>9, AmountNatural, Zenon
      <3> QED
        BY <2>4, <2>11, <3>1 DEF PosNat
    <2>13. SizeShare(o) = Frac(Kept * x * b, FeeBase * a + Kept * x * b)
      BY <2>7, <2>9 DEF SizeShare, Kept, Frac, x
    <2>14. RawUnit(o) = Frac(d * (FeeBase * a), Kept * x * c * b)
      BY <2>7, <2>9 DEF RawUnit, Kept, Frac, x
    <2>15. Impact(o) = PriceImpact(Frac(n, r), y, x, Rate, UnitIn(o), UnitOut(o))
      BY <2>9 DEF Impact, x, y
    <2>16. /\ Leq(Frac(Kept * x * b, FeeBase * a + Kept * x * b),
                  PriceImpact(Frac(n, r), y, x, Rate, UnitIn(o), UnitOut(o)))
           /\ Less(PriceImpact(Frac(n, r), y, x, Rate, UnitIn(o), UnitOut(o)),
                   Plus(Frac(Kept * x * b, FeeBase * a + Kept * x * b),
                        Frac(d * (FeeBase * a), Kept * x * c * b)))
      BY <2>4, <2>9, <2>10, <2>11, <2>12, TradeImpact, Zenon
    <2> QED
      BY <2>13, <2>14, <2>15, <2>16, Zenon
  <1> QED
    BY <1>1, Invariance, PTL

\* The impact of a success, from a price m and an effective price e: the price
\* zero of a pool that is not initialised only meets quotes that fail.
LEMMA SuccessForm ==
  ASSUME IInv, HistoryInOrder, NEW o \in stored, Success(o)
  PROVE  \E m \in PosNat, e \in PosNat : Impact(o) = Frac(m - e, m)
  <1> DEFINE k == CurveAt(o.pool, o.reference)
  <1>1. o.quote # None /\ o.reference # None
    BY DEF Success, Output, Reference
  <1>2. /\ o.pool \in Pool /\ o.case \in Case
        /\ o.quote = o.label /\ o.label \in Block /\ o.reference \in Block
        /\ o.label <= o.reference /\ o.reference <= head
    BY <1>1, Blocks
  <1>3. /\ Tradeable(CurveAt(o.pool, o.label)) /\ Size[o.case] \in PosNat
        /\ Output(o) # None
    BY <1>1, <1>2, Routable DEF Success
  <1>4. k \in CurveType /\ (k.reserve0 = 0 <=> k.reserve1 = 0)
    BY <1>2, CurveTyped DEF IInv
  <1>5. concentrated => k.sqrt # 0
    <2>1. value[o.label][o.pool] <= value[o.reference][o.pool]
      <3>1. o.label \in 0..head /\ o.reference \in o.label..head
        BY <1>2 DEF IInv, TypeOK, Block
      <3> QED
        BY <1>2, <3>1 DEF HistoryInOrder
    <2>2. value[o.label][o.pool] \in Block /\ value[o.reference][o.pool] \in Block
      BY <1>2, CurveTyped DEF IInv
    <2>3. value[o.reference][o.pool] \in value[o.label][o.pool]..MaxHead
      BY <2>1, <2>2, MarketAssumption DEF Block
    <2>4. concentrated => CurveAt(o.pool, o.label).sqrt # 0
      BY <1>3 DEF Tradeable
    <2> QED
      BY <1>2, <2>2, <2>3, <2>4, CurveAssumption DEF CurveAt, Block
  <1>6. Unit[Token0[o.pool]] \in PosNat /\ Unit[Token1[o.pool]] \in PosNat /\ Q96 \in PosNat
    BY <1>2, CaseAssumption, MathAssumption DEF PosNat
  <1>7. concentrated \in BOOLEAN
    BY DEF IInv, TypeOK
  <1>8. Output(o) \in PosNat
    <2>1. /\ CurveAt(o.pool, o.label) \in CurveType
          /\ CurveAt(o.pool, o.label).reserve0 = 0 <=> CurveAt(o.pool, o.label).reserve1 = 0
      BY <1>2, CurveTyped DEF IInv
    <2> QED
      BY <1>2, <1>3, <1>7, <2>1, OutputPositive
  <1> HIDE DEF k
  <1>9. CurveAt(o.pool, o.reference) = k
    BY DEF k
  <1>10. PICK n \in PosNat, d \in PosNat : Reference(o) = Frac(n, d)
    <2> DEFINE u0 == Unit[Token0[o.pool]]
               u1 == Unit[Token1[o.pool]]
    <2>1. u0 \in PosNat /\ u1 \in PosNat /\ Forward[o.case] \in BOOLEAN
      BY <1>2, <1>6, CaseAssumption
    <2>2. CASE concentrated
      <3>1. Reference(o) = PriceOf(o, k)
        BY <1>1, <1>2, <1>4, <1>5, <1>9, <2>2, PriceForm
      <3>2. k.sqrt \in PosNat
        BY <1>4, <1>5, <2>2 DEF CurveType, PosNat
      <3>3. k.sqrt * k.sqrt * u0 \in PosNat /\ Q96 * Q96 * u1 \in PosNat
        BY <1>6, <2>1, <3>2, Positive
      <3> QED
        BY <2>2, <3>1, <3>3, Zenon DEF PriceOf
    <2>3. CASE ~concentrated
      <3>1. k.reserve0 \in PosNat /\ k.reserve1 \in PosNat
        <4>1. k.reserve0 # 0 /\ k.reserve1 # 0
          BY <1>1, <1>4, <1>9, <2>3 DEF Reference, CpReference, Success
        <4> QED
          BY <1>4, <4>1 DEF CurveType, PosNat
      <3>2. Reference(o) = PriceOf(o, k)
        BY <1>1, <1>2, <1>4, <1>9, <2>3, <3>1, PriceForm DEF PosNat
      <3>3. /\ k.reserve1 * u0 \in PosNat /\ u1 * k.reserve0 \in PosNat
            /\ k.reserve0 * u1 \in PosNat /\ u0 * k.reserve1 \in PosNat
        BY <2>1, <3>1, Positive
      <3> QED
        BY <2>3, <3>2, <3>3, Zenon DEF PriceOf
    <2> QED
      BY <2>2, <2>3
  <1>11. UnitIn(o) \in PosNat /\ UnitOut(o) \in PosNat
    BY <1>6 DEF UnitIn, UnitOut
  <1>12. ImpactIs(n, d, Size[o.case], Output(o), UnitIn(o), UnitOut(o))
    BY <1>3, <1>8, <1>11, ImpactForm, Zenon
  <1>13. /\ UnitOut(o) * Size[o.case] * Kept * n \in PosNat
         /\ Output(o) * UnitIn(o) * FeeBase * d \in PosNat
    <2>1. Kept \in PosNat /\ FeeBase \in PosNat
      BY MathAssumption, CaseAssumption DEF Kept, PosNat
    <2> QED
      BY <1>3, <1>8, <1>11, <2>1, Positive
  <1> QED
    BY <1>10, <1>12, <1>13 DEF ImpactIs, Impact

\* A success has an impact (_cl_reference, compute_price_impact).
THEOREM ImpactOfSuccess == Spec => []SuccessHasImpact
  <1>1. IInv /\ HistoryInOrder => SuccessHasImpact
    <2> SUFFICES ASSUME IInv, HistoryInOrder, NEW o \in stored, Success(o)
                 PROVE  Impact(o) # None
      BY DEF SuccessHasImpact
    <2>1. PICK m \in PosNat, e \in PosNat : Impact(o) = Frac(m - e, m)
      BY SuccessForm
    <2> QED
      BY <2>1, FracIsSome DEF PosNat
  <1> QED
    BY <1>1, Invariance, History, PTL
-----------------------------------------------------------------------------
\* A price impact is a loss: positive, and less than the whole of the trade, when
\* nobody traded in between.  Whatever happened in between, it is below one.
ImpactIsALoss ==
  \A o \in stored : Success(o) =>
    /\ Less(Impact(o), Frac(1, 1))
    /\ Quiet(o) => Less(Frac(0, 1), Impact(o))

\* The share of the size of a success is a positive part of a positive whole.
LEMMA SharePositive ==
  ASSUME IInv, NEW o \in stored, Success(o), Quiet(o)
  PROVE  \E g \in Nat, h \in PosNat : SizeShare(o) = Frac(h, g + h)
  <1> DEFINE k == CurveAt(o.pool, o.reference)
             x == Size[o.case]
             rs == Reserves(k, o.case)
  <1>1. o.quote # None /\ o.reference # None /\ Output(o) # None
    BY DEF Success, Output, Reference
  <1>2. o.pool \in Pool /\ o.case \in Case /\ o.quote = o.label /\ o.reference \in Block
    BY <1>1, Blocks
  <1>3. CurveAt(o.pool, o.quote) = k
    BY <1>2 DEF Quiet, CurveAt
  <1>4. Tradeable(k) /\ x \in PosNat
    BY <1>1, <1>2, <1>3, Routable
  <1>5. k \in CurveType /\ (k.reserve0 = 0 <=> k.reserve1 = 0)
    BY <1>2, CurveTyped DEF IInv
  <1>6. concentrated \in BOOLEAN
    BY DEF IInv, TypeOK
  <1> HIDE DEF k, x
  <1>7. CurveAt(o.pool, o.reference) = k
    BY DEF k
  <1>8. PICK a, b, c, d, n, r : SpotAt(o, k, a, b, c, d, n, r)
    BY <1>1, <1>2, <1>4, <1>5, <1>6, <1>7, Spot
  <1>9. a \in PosNat /\ b \in PosNat /\ rs.in = Frac(a, b)
    BY <1>8 DEF SpotAt
  <1>10. SizeShare(o) = Frac(Kept * x * b, FeeBase * a + Kept * x * b)
    BY <1>7, <1>9 DEF SizeShare, Kept, Frac, x
  <1>11. Kept \in PosNat /\ FeeBase \in PosNat
    BY MathAssumption, CaseAssumption DEF Kept, PosNat
  <1>12. Kept * x * b \in PosNat /\ FeeBase * a \in Nat
    <2>1. Kept * x * b \in PosNat /\ FeeBase * a \in PosNat
      BY <1>4, <1>9, <1>11, Positive
    <2> QED
      BY <2>1 DEF PosNat
  <1> QED
    BY <1>10, <1>12

\* compute_price_impact: no success reports a gain or more than a total loss,
\* for any reserves, size, fee and decimals; the output is floored against the
\* trader, never for him.
THEOREM SuccessesLose == Spec => []ImpactIsALoss
  <1>1. IInv /\ HistoryInOrder /\ ImpactIsSizeOnly => ImpactIsALoss
    <2> SUFFICES ASSUME IInv, HistoryInOrder, ImpactIsSizeOnly, NEW o \in stored, Success(o)
                 PROVE  /\ Less(Impact(o), Frac(1, 1))
                        /\ Quiet(o) => Less(Frac(0, 1), Impact(o))
      BY DEF ImpactIsALoss
    <2>1. PICK m \in PosNat, e \in PosNat : Impact(o) = Frac(m - e, m)
      BY SuccessForm
    <2>2. Less(Impact(o), Frac(1, 1))
      BY <2>1 DEF Less, Frac, PosNat
    <2>3. ASSUME Quiet(o) PROVE Less(Frac(0, 1), Impact(o))
      <3>1. Leq(SizeShare(o), Impact(o))
        BY <2>3 DEF ImpactIsSizeOnly
      <3>2. PICK g \in Nat, h \in PosNat : SizeShare(o) = Frac(h, g + h)
        BY <2>3, SharePositive
      <3>3. h * m <= (m - e) * (g + h)
        BY <2>1, <3>1, <3>2 DEF Leq, Frac
      <3>4. h * m \in PosNat /\ g + h \in PosNat
        BY <3>2, Positive DEF PosNat
      <3>5. ASSUME m - e <= 0 PROVE FALSE
        <4>1. e - m \in Nat
          BY <3>5 DEF PosNat
        <4>2. (e - m) * (g + h) \in Nat
          BY <3>4, <4>1 DEF PosNat
        <4>3. (m - e) * (g + h) = -((e - m) * (g + h))
          BY <3>4 DEF PosNat
        <4> QED
          BY <3>3, <3>4, <4>2, <4>3 DEF PosNat
      <3> QED
        BY <2>1, <3>5 DEF Less, Frac, PosNat
    <2> QED
      BY <2>2, <2>3
  <1> QED
    BY <1>1, Invariance, History, SizeAlone, PTL
-----------------------------------------------------------------------------
\* What a block says of a pool is what an earlier one said, or a change in between.
HistoryTold ==
  \A p \in Pool : \A c \in 0..head : \A b \in 0..c :
    \/ value[c][p] = value[b][p]
    \/ value[c][p] \in b + 1..c /\ value[value[c][p]][p] = value[c][p]

\* A block that is mined is told like the others.
LEMMA ToldStep ==
  ASSUME TypeOK, HistoryInOrder, HistoryTold, [Next]_vars
  PROVE  HistoryTold'
  <1>1. head \in Block /\ ValueTyped
    BY DEF TypeOK
  <1>2. CASE NewBlock
    <2>1. PICK touched \in SUBSET Pool :
            value' = [value EXCEPT ![head + 1] =
                        [p \in Pool |-> IF p \in touched THEN head + 1 ELSE value[head][p]]]
      BY <1>2 DEF NewBlock
    <2>2. head \in Nat /\ head + 1 \in Block /\ head' = head + 1
      BY <1>1, <1>2, MarketAssumption DEF NewBlock, Block
    <2>3. \A b \in 0..head : value'[b] = value[b]
      BY <1>1, <2>1, <2>2, MarketAssumption DEF ValueTyped, Block
    <2>4. \A p \in Pool : value'[head + 1][p] \in {head + 1, value[head][p]}
      BY <1>1, <2>1, <2>2 DEF ValueTyped
    <2>5. ASSUME NEW p \in Pool, NEW c \in 0..head + 1, NEW b \in 0..c
          PROVE  \/ value'[c][p] = value'[b][p]
                 \/ value'[c][p] \in b + 1..c /\ value'[value'[c][p]][p] = value'[c][p]
      <3>1. \A d \in 0..head : value[d][p] \in 0..d
        BY <2>2 DEF HistoryInOrder
      <3>2. ASSUME NEW d \in 0..head, b \in 0..d
            PROVE  \/ value[d][p] = value'[b][p]
                   \/ value[d][p] \in b + 1..d /\ value'[value[d][p]][p] = value[d][p]
        <4>1. value[d][p] \in 0..head
          BY <2>2, <3>1
        <4>2. b \in 0..head
          BY <2>2, <3>2
        <4>3. value'[b] = value[b] /\ value'[value[d][p]] = value[value[d][p]]
          BY <2>3, <4>1, <4>2
        <4> QED
          BY <3>2, <4>3 DEF HistoryTold
      <3>3. CASE c \in 0..head
        BY <2>3, <3>2, <3>3
      <3>4. CASE c = head + 1
        <4>1. CASE value'[c][p] = head + 1
          BY <2>2, <3>4, <4>1
        <4>2. CASE value'[c][p] = value[head][p]
          <5>1. CASE b = head + 1
            BY <3>4, <5>1
          <5>2. CASE b \in 0..head
            <6>1. \/ value[head][p] = value'[b][p]
                  \/ value[head][p] \in b + 1..head /\ value'[value[head][p]][p] = value[head][p]
              BY <2>2, <3>2, <5>2
            <6> QED
              BY <2>2, <3>4, <4>2, <5>2, <6>1
          <5> QED
            BY <2>2, <3>4, <5>1, <5>2
        <4> QED
          BY <2>4, <3>4, <4>1, <4>2
      <3> QED
        BY <2>2, <3>3, <3>4
    <2> QED
      BY <2>2, <2>5 DEF HistoryTold
  <1>3. CASE Step \/ UNCHANGED vars
    <2>1. value' = value /\ head' = head
      BY <1>3 DEF Step, ResolveBlock, Analyze, ReadMain, ReadExtra, ReadToken, StoreState,
         StatePassDone, QuoteCase, StoreObservations, ExecutionDone, vars, chain
    <2> QED
      BY <2>1 DEF HistoryTold
  <1> QED
    BY <1>2, <1>3 DEF Next

\* The history of every pool is told block by block.
THEOREM Told == Spec => []HistoryTold
  <1>1. Init => HistoryTold
    <2> SUFFICES ASSUME Init PROVE HistoryTold
      OBVIOUS
    <2>1. head = 0 /\ \A p \in Pool : value[0][p] = 0
      BY MarketAssumption DEF Init, Block
    <2> QED
      BY <2>1 DEF HistoryTold
  <1>2. IInv /\ HistoryInOrder /\ HistoryTold /\ [Next]_vars => HistoryTold'
    BY ToldStep DEF IInv
  <1> QED
    BY <1>1, <1>2, Invariance, History, PTL DEF Spec

\* Somebody traded in a block after the one the state is filed under, up to the
\* one it was read in.
TradedMeanwhile(o) == \E b \in o.label + 1..o.reference : value[b][o.pool] = b

\* What IMPACT_METHODOLOGY says of both prices is true of each success but those
\* whose pool was traded between the eth_blockNumber call and the read.
OneBlockUnlessTraded ==
  \A o \in stored : Success(o) =>
    value[o.quote][o.pool] = value[o.reference][o.pool] \/ TradedMeanwhile(o)

\* The two prices of a success disagree on the block for no other reason than
\* that trade (ImpactAtOneBlock, which a run refutes, holds apart from it): not
\* for a retry, a failed call, or the time the quotes take (get_pool_state, get_quote).
THEOREM OneBlockApart == Spec => []OneBlockUnlessTraded
  <1>1. IInv /\ HistoryTold => OneBlockUnlessTraded
    <2> SUFFICES ASSUME IInv, HistoryTold, NEW o \in stored, Success(o)
                 PROVE  value[o.quote][o.pool] = value[o.reference][o.pool] \/ TradedMeanwhile(o)
      BY DEF OneBlockUnlessTraded
    <2>1. o.quote # None /\ o.reference # None
      BY DEF Success, Output, Reference
    <2>2. /\ o.pool \in Pool /\ o.quote = o.label /\ o.label \in Block /\ o.reference \in Block
          /\ o.label <= o.reference /\ o.reference <= head
      BY <2>1, Blocks
    <2>3. o.reference \in 0..head /\ o.label \in 0..o.reference
      BY <2>2 DEF IInv, TypeOK, Block
    <2>4. \/ value[o.reference][o.pool] = value[o.label][o.pool]
          \/ /\ value[o.reference][o.pool] \in o.label + 1..o.reference
             /\ value[value[o.reference][o.pool]][o.pool] = value[o.reference][o.pool]
      BY <2>2, <2>3 DEF HistoryTold
    <2> QED
      BY <2>2, <2>4 DEF TradedMeanwhile
  <1> QED
    BY <1>1, Invariance, Told, PTL
=============================================================================
