-------------------------- MODULE LogFetcherProofs --------------------------
(* Theorems about LogFetcher, for every range, chunk size and shrink budget   *)
(* and for every answer the provider may give.                                *)
EXTENDS LogFetcher, TLAPS

\* The cursor stays inside the range it scans, or just behind it.
CursorInRange ==
  /\ from <= cursor
  /\ cursor <= to + 1 \/ cursor = from

\* The inductive invariant: the conjuncts of RequestsBounded and
\* EveryBlockSettledOnce are preserved only together with the cursor's place.
IInv ==
  /\ TypeOK
  /\ CursorInRange
  /\ EveryBlockSettledOnce
  /\ RequestsBounded

\* A request covers at least the cursor and ends inside the range.
LEMMA LastInRange ==
  ASSUME TypeOK, cursor <= to
  PROVE  Last \in Block /\ cursor <= Last /\ Last <= to
BY FetchAssumption DEF TypeOK, Last, Block

\* A shrunk chunk is still a positive number of blocks.
LEMMA HalvedPositive ==
  ASSUME TypeOK
  PROVE  Halved \in Nat \ {0}
BY FetchAssumption DEF TypeOK, Halved

\* LogFetcher's initial state satisfies the inductive invariant.
LEMMA InitIInv == Init => IInv
<1> SUFFICES ASSUME Init PROVE IInv
  OBVIOUS
<1> USE FetchAssumption DEF Init, Block
<1>1. TypeOK
  <2>1. failed \subseteq [from : Nat, to : Nat]
    OBVIOUS
  <2>2. taken \in [Block -> Nat]
    OBVIOUS
  <2>3. scanning \in BOOLEAN
    OBVIOUS
  <2> HIDE DEF Block
  <2>4. from \in Block /\ to \in Block
    BY DEF Block
  <2> QED BY <2>1, <2>2, <2>3, <2>4 DEF TypeOK
<1>2. CursorInRange /\ RequestsBounded
  BY DEF CursorInRange, RequestsBounded
<1>3. EveryBlockSettledOnce
  BY DEF EveryBlockSettledOnce, Missed
<1> QED BY <1>1, <1>2, <1>3 DEF IInv

\* Starting a fetch establishes the invariant afresh for its result.
LEMMA BeginIInv ==
  ASSUME IInv, NEW f \in Block, NEW t \in Block, Begin(f, t)
  PROVE  IInv'
BY FetchAssumption DEF Begin, IInv, TypeOK, CursorInRange, EveryBlockSettledOnce,
     RequestsBounded, Missed, Block

\* Taking the logs of a chunk settles exactly the blocks of that chunk.
LEMMA AcceptIInv ==
  ASSUME IInv, Request("logs"), Accept
  PROVE  IInv'
<1>1. Last \in Block /\ cursor <= Last /\ Last <= to
  BY LastInRange DEF IInv, Request
<1>2. TypeOK'
  BY <1>1, FetchAssumption DEF IInv, TypeOK, Request, Accept, Block
<1>3. CursorInRange' /\ RequestsBounded'
  BY <1>1, FetchAssumption
     DEF IInv, TypeOK, CursorInRange, RequestsBounded, Request, Accept, Block
<1>4. EveryBlockSettledOnce'
  <2>1. Missed' = Missed
    BY DEF Accept, Missed
  <2>2. SUFFICES ASSUME NEW b \in Block
                 PROVE  IF b \in from .. Last
                        THEN (taken'[b] = 1 /\ b \notin Missed) \/ (taken'[b] = 0 /\ b \in Missed)
                        ELSE taken'[b] = 0 /\ b \notin Missed
    BY <1>1, <2>1 DEF EveryBlockSettledOnce, Accept, Request, Block
  <2>3. taken'[b] = IF b \in cursor..Last THEN taken[b] + 1 ELSE taken[b]
    BY DEF Accept
  <2>4. IF b \in from .. cursor - 1
        THEN (taken[b] = 1 /\ b \notin Missed) \/ (taken[b] = 0 /\ b \in Missed)
        ELSE taken[b] = 0 /\ b \notin Missed
    BY DEF IInv, EveryBlockSettledOnce
  <2> QED BY <1>1, <2>3, <2>4 DEF IInv, TypeOK, CursorInRange, Block
<1> QED BY <1>2, <1>3, <1>4 DEF IInv

\* Shrinking settles nothing and keeps the chunk positive.
LEMMA ShrinkIInv ==
  ASSUME IInv, NEW answer \in ErrorAnswers, Request(answer), Shrink(answer)
  PROVE  IInv'
<1>1. Halved \in Nat \ {0}
  BY HalvedPositive DEF IInv
<1>2. TypeOK'
  BY <1>1, FetchAssumption DEF IInv, TypeOK, Request, Shrink, CanShrink, Block
<1>3. CursorInRange' /\ RequestsBounded'
  BY FetchAssumption
     DEF IInv, TypeOK, CursorInRange, RequestsBounded, Request, Shrink, CanShrink, Block
<1>4. EveryBlockSettledOnce'
  BY DEF IInv, EveryBlockSettledOnce, Missed, Request, Shrink
<1> QED BY <1>2, <1>3, <1>4 DEF IInv

\* A failed chunk names exactly the blocks of the request that failed.
LEMMA GiveUpMisses ==
  ASSUME TypeOK, cursor <= to, NEW answer, GiveUp(answer)
  PROVE  Missed' = Missed \cup (cursor .. Last)
<1>1. Last \in Block /\ cursor <= Last
  BY LastInRange
<1>2. failed' = failed \cup {[from |-> cursor, to |-> Last]}
  BY DEF GiveUp
<1>3. ASSUME NEW b \in Block
      PROVE  (\E c \in failed' : b \in c.from .. c.to)
               <=> (\E c \in failed : b \in c.from .. c.to) \/ b \in cursor .. Last
  <2> DEFINE d == [from |-> cursor, to |-> Last]
  <2>1. d.from = cursor /\ d.to = Last
    OBVIOUS
  <2>2. \A c : c \in failed' <=> c \in failed \/ c = d
    BY <1>2
  <2> HIDE DEF d
  <2> QED BY <2>1, <2>2
<1>4. (cursor .. Last) \subseteq Block
  BY <1>1, FetchAssumption DEF TypeOK, Block
<1> QED BY <1>3, <1>4 DEF Missed

\* Giving up on a chunk settles exactly the blocks of that chunk.
LEMMA GiveUpIInv ==
  ASSUME IInv, NEW answer \in ErrorAnswers, Request(answer), GiveUp(answer)
  PROVE  IInv'
<1>1. Last \in Block /\ cursor <= Last /\ Last <= to
  BY LastInRange DEF IInv, Request
<1>2. TypeOK'
  BY <1>1, FetchAssumption DEF IInv, TypeOK, Request, GiveUp, Block
<1>3. CursorInRange' /\ RequestsBounded'
  BY <1>1, FetchAssumption
     DEF IInv, TypeOK, CursorInRange, RequestsBounded, Request, GiveUp, Block
<1>4. EveryBlockSettledOnce'
  <2>1. Missed' = Missed \cup (cursor .. Last)
    BY GiveUpMisses DEF IInv, Request
  <2>2. taken' = taken /\ from' = from /\ cursor' = Last + 1
    BY DEF GiveUp, Request
  <2>3. SUFFICES ASSUME NEW b \in Block
                 PROVE  IF b \in from .. Last
                        THEN \/ taken[b] = 1 /\ b \notin Missed /\ b \notin cursor .. Last
                             \/ taken[b] = 0 /\ (b \in Missed \/ b \in cursor .. Last)
                        ELSE taken[b] = 0 /\ b \notin Missed /\ b \notin cursor .. Last
    BY <1>1, <2>1, <2>2 DEF EveryBlockSettledOnce, Block
  <2>4. IF b \in from .. cursor - 1
        THEN (taken[b] = 1 /\ b \notin Missed) \/ (taken[b] = 0 /\ b \in Missed)
        ELSE taken[b] = 0 /\ b \notin Missed
    BY DEF IInv, EveryBlockSettledOnce
  <2> QED BY <1>1, <2>4 DEF IInv, TypeOK, CursorInRange, Block
<1> QED BY <1>2, <1>3, <1>4 DEF IInv

\* Returning only records the final chunk size.
LEMMA ReturnIInv ==
  ASSUME IInv, Return
  PROVE  IInv'
BY DEF Return, IInv, TypeOK, CursorInRange, EveryBlockSettledOnce, RequestsBounded, Missed

\* An exception leaves what was settled as it was.
LEMMA RaiseIInv ==
  ASSUME IInv, Raise
  PROVE  IInv'
BY DEF Raise, IInv, TypeOK, CursorInRange, EveryBlockSettledOnce, RequestsBounded, Missed

\* One step of LogFetcher preserves the inductive invariant.
LEMMA NextIInv == IInv /\ [Next]_vars => IInv'
<1> SUFFICES ASSUME IInv, [Next]_vars PROVE IInv'
  OBVIOUS
<1>1. CASE \E f, t \in Block : Begin(f, t)
  BY <1>1, BeginIInv
<1>2. CASE \E answer \in {"logs"} \cup ErrorAnswers : Request(answer)
  <2>1. PICK answer \in {"logs"} \cup ErrorAnswers : Request(answer)
    BY <1>2
  <2>2. CASE answer = "logs"
    BY <2>1, <2>2, AcceptIInv DEF Request
  <2>3. CASE answer # "logs"
    BY <2>1, <2>3, ShrinkIInv, GiveUpIInv DEF Request
  <2> QED BY <2>2, <2>3
<1>3. CASE Raise
  BY <1>3, RaiseIInv
<1>4. CASE Return
  BY <1>4, ReturnIInv
<1>5. CASE UNCHANGED vars
  BY <1>5 DEF vars, IInv, TypeOK, CursorInRange, EveryBlockSettledOnce, RequestsBounded, Missed
<1> QED BY <1>1, <1>2, <1>3, <1>4, <1>5 DEF Next, Fetch

\* The inductive invariant holds throughout.
THEOREM Invariance == Spec => []IInv
BY InitIInv, NextIInv, PTL DEF Spec

\* Type correctness of the fetcher's state.
THEOREM TypeCorrect == Spec => []TypeOK
<1>1. IInv => TypeOK
  BY DEF IInv
<1> QED BY <1>1, Invariance, PTL

\* LogFetcher.fetch: every block behind the cursor is accounted for exactly
\* once, in the logs or in a failed chunk, and none ahead of it.
THEOREM SettledOnce == Spec => []EveryBlockSettledOnce
<1>1. IInv => EveryBlockSettledOnce
  BY DEF IInv
<1> QED BY <1>1, Invariance, PTL

\* LogFetcher.fetch: requests never exceed settled blocks plus shrinks, and
\* shrinks never exceed their budget.
THEOREM BoundedRequests == Spec => []RequestsBounded
<1>1. IInv => RequestsBounded
  BY DEF IInv
<1> QED BY <1>1, Invariance, PTL

-----------------------------------------------------------------------------
(* Halving often enough *)

LEMMA ProductMonotone ==
  ASSUME NEW a \in Nat, NEW b \in Nat, NEW p \in Nat, a <= b
  PROVE  a * p <= b * p
OBVIOUS

LEMMA QuotientBound ==
  ASSUME NEW a \in Nat, NEW c \in Nat, NEW p \in Nat \ {0}, a * p <= c
  PROVE  a <= c \div p
<1> DEFINE q == c \div p
<1>1. q \in Nat /\ c < p * (q + 1)
  <2>1. c \div p \in Nat /\ c = p * (c \div p) + (c % p) /\ c % p \in 0..p - 1
    OBVIOUS
  <2> QED BY <2>1
<1> HIDE DEF q
<1>2. CASE a > q
  <2>1. (q + 1) * p <= a * p
    BY <1>1, <1>2, ProductMonotone
  <2> QED BY <1>1, <2>1
<1>3. CASE a <= q
  BY <1>3 DEF q
<1> QED BY <1>1, <1>2, <1>3

\* The chunk was halved with every shrink, until it cannot shrink any more.
ChunkHalved == chunk <= MinChunk \/ chunk * 2^shrinks <= ChunkSize

\* One more shrink is one more halving.
LEMMA ShrinkHalves ==
  ASSUME TypeOK, ChunkHalved, NEW answer, Shrink(answer)
  PROVE  ChunkHalved'
<1>1. /\ chunk \in Nat /\ shrinks \in 0..MaxShrinks /\ ChunkSize \in Nat /\ MinChunk \in Nat
      /\ chunk > MinChunk /\ shrinks' = shrinks + 1 /\ chunk' = Halved
  BY FetchAssumption DEF TypeOK, Shrink, CanShrink
<1> DEFINE p == 2^shrinks
           half == chunk \div 2
<1>2. p \in Nat /\ 2^shrinks' = 2 * p /\ chunk * p <= ChunkSize
  BY <1>1, PowersOfTwo DEF ChunkHalved
<1>3. half \in Nat /\ half * 2 <= chunk
  BY <1>1
<1> HIDE DEF p, half
<1>4. half * (2 * p) <= ChunkSize
  <2>1. (half * 2) * p <= chunk * p
    BY <1>1, <1>2, <1>3, ProductMonotone
  <2> QED BY <1>1, <1>2, <1>3, <2>1
<1>5. chunk' = half \/ chunk' = MinChunk
  BY <1>1 DEF Halved, half
<1> QED BY <1>1, <1>2, <1>4, <1>5 DEF ChunkHalved

\* While the limit can be reached there is always another halving to try.
LEMMA NeverGivesUp ==
  ASSUME TypeOK, ChunkHalved, LimitReachable, NEW answer \in ErrorAnswers, Request(answer)
  PROVE  ~GiveUp(answer)
<1> SUFFICES ASSUME GiveUp(answer) PROVE FALSE
  OBVIOUS
<1>1. /\ chunk \in Nat /\ shrinks \in 0..MaxShrinks /\ MaxShrinks \in Nat
      /\ ChunkSize \in Nat /\ MinChunk \in Nat /\ provider.limit \in Nat
      /\ cursor \in Nat /\ to \in Nat
  BY FetchAssumption DEF TypeOK, Block
<1>2. Last - cursor + 1 > provider.limit /\ answer = "too_large"
  BY DEF Request, Answers, LimitReachable, ErrorAnswers, SizeAnswers
<1>3. chunk > provider.limit /\ provider.limit >= MinChunk
  BY <1>1, <1>2 DEF Last, LimitReachable
<1>4. shrinks = MaxShrinks
  BY <1>1, <1>2, <1>3 DEF GiveUp, CanShrink, SizeAnswers
<1>5. chunk * 2^MaxShrinks <= ChunkSize
  BY <1>1, <1>3, <1>4 DEF ChunkHalved
<1>6. 2^MaxShrinks \in Nat \ {0}
  BY <1>1, PowersOfTwo
<1>7. chunk <= ChunkSize \div 2^MaxShrinks
  BY <1>1, <1>5, <1>6, QuotientBound
<1>8. ChunkSize \div 2^MaxShrinks <= provider.limit
  BY DEF LimitReachable
<1>9. ChunkSize \div 2^MaxShrinks \in Nat
  BY <1>1, <1>6
<1> QED BY <1>1, <1>3, <1>7, <1>8, <1>9

\* LogFetcher.fetch loses no block to a provider whose only refusals are ranges
\* wider than a limit that max_shrinks halvings of the chunk size reach.
THEOREM Adapts == Spec => []AdaptsToLimit
<1>1. Init => ChunkHalved /\ AdaptsToLimit
  BY FetchAssumption, PowersOfTwo DEF Init, ChunkHalved, AdaptsToLimit
<1>2. IInv /\ ChunkHalved /\ AdaptsToLimit /\ [Next]_vars => (ChunkHalved /\ AdaptsToLimit)'
  <2> SUFFICES ASSUME IInv, ChunkHalved, AdaptsToLimit, [Next]_vars
               PROVE  (ChunkHalved /\ AdaptsToLimit)'
    OBVIOUS
  <2>0. TypeOK
    BY DEF IInv
  <2>1. ASSUME NEW f \in Block, NEW t \in Block, Begin(f, t)
        PROVE  (ChunkHalved /\ AdaptsToLimit)'
    BY <2>1, FetchAssumption, PowersOfTwo DEF Begin, ChunkHalved, AdaptsToLimit
  <2>2. ASSUME NEW answer \in {"logs"} \cup ErrorAnswers, Request(answer)
        PROVE  (ChunkHalved /\ AdaptsToLimit)'
    <3>1. LimitReachable' = LimitReachable
      BY <2>2 DEF Request, LimitReachable
    <3>2. CASE Accept
      BY <3>1, <3>2 DEF Accept, ChunkHalved, AdaptsToLimit
    <3>3. CASE Shrink(answer)
      BY <2>0, <3>1, <3>3, ShrinkHalves DEF Shrink, AdaptsToLimit
    <3>4. CASE answer # "logs" /\ GiveUp(answer)
      <4>1. ~LimitReachable
        BY <2>0, <2>2, <3>4, NeverGivesUp
      <4> QED BY <3>1, <3>4, <4>1 DEF GiveUp, ChunkHalved, AdaptsToLimit
    <3> QED BY <2>2, <3>2, <3>3, <3>4 DEF Request
  <2>3. CASE Raise \/ Return \/ UNCHANGED vars
    BY <2>3 DEF Raise, Return, vars, ChunkHalved, AdaptsToLimit, LimitReachable
  <2> QED BY <2>1, <2>2, <2>3 DEF Next, Fetch
<1> QED BY <1>1, <1>2, Invariance, PTL DEF Spec

-----------------------------------------------------------------------------
\* The refinement mapping of Scan.
Pending == IF scanning THEN cursor..to ELSE {}
Fetched == {b \in Block : taken[b] > 0}

\* A fetch that begins is a scan that begins.
LEMMA BeginScans ==
  ASSUME IInv, NEW f \in Block, NEW t \in Block, Begin(f, t)
  PROVE  Scan!Begin(f, t)
<1>1. Pending' = f..t
  BY DEF Begin, Pending
<1>2. Fetched' = {}
  BY DEF Begin, Fetched
<1>3. Missed' = {}
  BY DEF Begin, Missed
<1> QED BY <1>1, <1>2, <1>3 DEF Begin, Scan!Begin, Pending, Fetched

\* A request that settles its chunk settles the pending blocks up to its last.
LEMMA RequestShortens ==
  ASSUME IInv, scanning, scanning', to' = to, cursor <= to, cursor' = Last + 1
  PROVE  /\ Last \in Pending
         /\ {b \in Pending : b <= Last} = cursor .. Last
         /\ Pending' = Pending \ (cursor .. Last)
BY LastInRange DEF IInv, TypeOK, Pending, Block

\* Accepting a chunk settles it as fetched.
LEMMA AcceptSettles ==
  ASSUME IInv, Request("logs"), Accept
  PROVE  \E last \in Block : Scan!Settle(last)
<1>1. Last \in Block /\ cursor <= Last /\ Last <= to
  BY LastInRange DEF IInv, Request
<1>2. /\ scanning /\ scanning' = scanning
      /\ Last \in Pending
      /\ {b \in Pending : b <= Last} = cursor .. Last
      /\ Pending' = Pending \ (cursor .. Last)
  BY RequestShortens DEF Request, Accept
<1>3. Fetched' = Fetched \cup (cursor .. Last)
  <2>1. (cursor .. Last) \subseteq Block
    BY <1>1, FetchAssumption DEF IInv, TypeOK, Block
  <2>2. \A b \in Block : taken'[b] = IF b \in cursor..Last THEN taken[b] + 1 ELSE taken[b]
    BY DEF Accept
  <2>3. \A b \in Block : taken[b] \in Nat
    BY DEF IInv, TypeOK
  <2>4. \A b \in Block : taken'[b] > 0 <=> taken[b] > 0 \/ b \in cursor .. Last
    BY <2>2, <2>3
  <2> QED BY <2>1, <2>4 DEF Fetched
<1>4. Missed' = Missed
  BY DEF Accept, Missed
<1>5. PICK last \in Block : last = Last
  BY <1>1
<1>6. Scan!Settle(last)
  BY <1>2, <1>3, <1>4, <1>5 DEF Scan!Settle, Pending, Fetched
<1> QED BY <1>6

\* Giving up on a chunk settles it as missed.
LEMMA GiveUpSettles ==
  ASSUME IInv, NEW answer \in ErrorAnswers, Request(answer), GiveUp(answer)
  PROVE  \E last \in Block : Scan!Settle(last)
<1>1. /\ scanning /\ scanning' = scanning
      /\ Last \in Pending
      /\ {b \in Pending : b <= Last} = cursor .. Last
      /\ Pending' = Pending \ (cursor .. Last)
  BY RequestShortens DEF Request, GiveUp
<1>2. Missed' = Missed \cup (cursor .. Last)
  BY GiveUpMisses DEF IInv, Request
<1>3. Fetched' = Fetched
  BY DEF GiveUp, Fetched
<1>4. PICK last \in Block : last = Last
  BY LastInRange DEF IInv, Request
<1>5. Scan!Settle(last)
  BY <1>1, <1>2, <1>3, <1>4 DEF Scan!Settle, Pending, Fetched
<1> QED BY <1>5

\* Shrinking is invisible to the caller.
LEMMA ShrinkStutters ==
  ASSUME NEW answer, Request(answer), Shrink(answer)
  PROVE  UNCHANGED Scan!vars
BY DEF Request, Shrink, Scan!vars, Missed

\* An exception abandons the blocks that are still pending.
LEMMA RaiseAbandons ==
  ASSUME IInv, Raise
  PROVE  Scan!Abandon
<1>1. cursor \in Pending
  BY DEF Raise, Pending, IInv, TypeOK, Block
<1>2. Pending' = {}
  BY DEF Raise, Pending
<1>3. Fetched' = Fetched /\ Missed' = Missed
  BY DEF Raise, Fetched, Missed
<1> QED BY <1>1, <1>2, <1>3 DEF Raise, Scan!Abandon, Pending, Fetched

\* A fetch that returns is a scan that returns with nothing pending.
LEMMA ReturnReturns ==
  ASSUME IInv, Return
  PROVE  Scan!Return
<1>1. Pending = {} /\ Pending' = {}
  BY DEF Return, Pending, IInv, TypeOK, Block
<1>2. Fetched' = Fetched /\ Missed' = Missed
  BY DEF Return, Fetched, Missed
<1> QED BY <1>1, <1>2 DEF Return, Scan!Return, Pending, Fetched

\* Every step of LogFetcher is a step of RangeScan or invisible to it.
LEMMA StepScans == IInv /\ [Next]_vars => [Scan!Next]_(Scan!vars)
<1> SUFFICES ASSUME IInv, [Next]_vars PROVE [Scan!Next]_(Scan!vars)
  OBVIOUS
<1>1. CASE \E f, t \in Block : Begin(f, t)
  BY <1>1, BeginScans DEF Scan!Next, Scan!Block, Block
<1>2. CASE \E answer \in {"logs"} \cup ErrorAnswers : Request(answer)
  <2>1. PICK answer \in {"logs"} \cup ErrorAnswers : Request(answer)
    BY <1>2
  <2>2. (\E last \in Block : Scan!Settle(last)) => Scan!Next
    BY DEF Scan!Next, Scan!Block, Block
  <2>3. CASE answer = "logs"
    <3>1. Accept
      BY <2>1, <2>3 DEF Request
    <3> QED BY <2>1, <2>2, <2>3, <3>1, AcceptSettles
  <2>4. CASE answer # "logs"
    <3>1. CASE Shrink(answer)
      BY <2>1, <3>1, ShrinkStutters
    <3>2. CASE GiveUp(answer)
      BY <2>1, <2>2, <2>4, <3>2, GiveUpSettles
    <3> QED BY <2>1, <2>4, <3>1, <3>2 DEF Request
  <2> QED BY <2>3, <2>4
<1>3. CASE Raise
  BY <1>3, RaiseAbandons DEF Scan!Next
<1>4. CASE Return
  BY <1>4, ReturnReturns DEF Scan!Next
<1>5. CASE UNCHANGED vars
  BY <1>5 DEF vars, Scan!vars, Missed
<1> QED BY <1>1, <1>2, <1>3, <1>4, <1>5 DEF Next, Fetch

\* LogFetcher starts where RangeScan starts.
LEMMA InitScans == Init => Scan!Init
BY DEF Init, Scan!Init, Missed

\* LogFetcher.fetch implements RangeScan: whatever is refused, shrunk or
\* given up, the caller sees the range settled in order, each block once.
THEOREM Refinement == Spec => ImplementsScan
BY InitScans, StepScans, Invariance, PTL DEF Spec, ImplementsScan, Scan!Spec

-----------------------------------------------------------------------------
\* What a fetch has left: the blocks ahead of the cursor and the shrinks.
Left == (IF cursor <= to THEN to + 1 - cursor ELSE 0) + (MaxShrinks - shrinks)

\* No iteration of the loop is wasted: while a fetch goes on, each of its steps
\* leaves less to do, whatever the provider answers, and the bound MaxRequests
\* never stands in its way (the part of FetchReturns that is not about time).
FetchAdvances ==
  [][scanning =>
       /\ cursor <= to => requests < MaxRequests
       /\ scanning' => Left \in Nat /\ Left' \in Nat /\ Left' < Left]_vars

LEMMA LeftInNat == TypeOK => Left \in Nat
BY FetchAssumption DEF TypeOK, Left, Block

LEMMA LeftInNatNext == TypeOK' => Left' \in Nat
<1> SUFFICES ASSUME TypeOK'
             PROVE  Left' \in Nat
  OBVIOUS
<1>1. cursor' \in Nat /\ to' \in Nat /\ shrinks' \in 0..MaxShrinks /\ MaxShrinks \in Nat
  BY FetchAssumption DEF TypeOK, Block
<1> DEFINE c == cursor'
           t == to'
           k == shrinks'
<1>2. Left' = (IF c <= t THEN t + 1 - c ELSE 0) + (MaxShrinks - k)
  BY DEF Left
<1> HIDE DEF c, t, k
<1>3. c \in Nat /\ t \in Nat /\ k \in 0..MaxShrinks /\ MaxShrinks \in Nat
  BY <1>1 DEF c, t, k
<1> QED BY <1>2, <1>3

LEMMA RequestAdvances ==
  ASSUME TypeOK, NEW answer, Request(answer)
  PROVE  Left' < Left
<1>1. /\ cursor \in Nat /\ to \in Nat /\ cursor <= to /\ to' = to
      /\ shrinks \in 0..MaxShrinks /\ MaxShrinks \in Nat
      /\ Last \in Nat /\ cursor <= Last /\ Last <= to
  BY FetchAssumption, LastInRange DEF TypeOK, Request, Block
<1>2. CASE Accept \/ GiveUp(answer)
  <2>1. cursor' = Last + 1 /\ shrinks' = shrinks
    BY <1>2 DEF Accept, GiveUp
  <2> QED BY <1>1, <2>1 DEF Left
<1>3. CASE Shrink(answer)
  <2>1. cursor' = cursor /\ shrinks' = shrinks + 1
    BY <1>3 DEF Shrink
  <2> QED BY <1>1, <2>1 DEF Left
<1> QED BY <1>2, <1>3 DEF Request

LEMMA RequestsLeft == IInv /\ scanning /\ cursor <= to => requests < MaxRequests
<1> SUFFICES ASSUME IInv, cursor <= to
             PROVE  requests < MaxRequests
  OBVIOUS
<1>1. /\ requests \in Nat /\ cursor \in Nat /\ to \in Nat /\ to <= MaxBlock /\ from \in Nat
      /\ shrinks \in Nat /\ MaxShrinks \in Nat /\ MaxBlock \in Nat
      /\ MaxRequests \in Nat /\ MaxRequests > MaxBlock + 1 + MaxShrinks
  BY FetchAssumption DEF IInv, TypeOK, Block
<1>2. requests <= (cursor - from) + shrinks /\ shrinks <= MaxShrinks
  BY DEF IInv, RequestsBounded
<1> QED BY <1>1, <1>2

\* LogFetcher.fetch: the loop comes closer to its end with every iteration.
THEOREM FetchGoesForward == Spec => FetchAdvances
<1>1. ASSUME IInv, IInv', Next, scanning, scanning'
      PROVE  Left \in Nat /\ Left' \in Nat /\ Left' < Left
  <2>1. Left \in Nat /\ Left' \in Nat
    <3>1. TypeOK /\ TypeOK'
      BY <1>1 DEF IInv
    <3> QED BY <3>1, LeftInNat, LeftInNatNext
  <2>2. \E answer : Request(answer)
    BY <1>1 DEF Next, Fetch, Begin, Raise, Return
  <2> QED BY <1>1, <2>1, <2>2, RequestAdvances DEF IInv
<1>2. IInv /\ IInv' /\ [Next]_vars =>
        [scanning => /\ cursor <= to => requests < MaxRequests
                     /\ scanning' => Left \in Nat /\ Left' \in Nat /\ Left' < Left]_vars
  BY <1>1, RequestsLeft
<1> QED BY <1>2, Invariance, PTL DEF Spec, FetchAdvances
=============================================================================
