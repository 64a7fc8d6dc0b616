-------------------------- MODULE MarketReadProofs --------------------------
(* What MarketRead keeps for every set of pools, every chain and every fault. *)
(* The invariant has a part for each theorem, which only needs the ones above *)
(* it: the types, the order of the reads, the cache, the observations.        *)
EXTENDS MarketRead, TLAPS

StatePools == {s.pool : s \in states}

\* The execution pass only visits pools that have a state.
PoolsKnown ==
  /\ pc \in {"main", "extra", "tokens"} => pool \in Pool /\ label \in Block
  /\ pc = "execution" => left \subseteq StatePools
  /\ pc = "quote" => pool \in StatePools /\ left \subseteq StatePools

\* The order of the reads, while a pool is read and of what is stored.
ReadInOrder ==
  /\ pc \in {"main", "extra", "tokens"} => label <= head
  /\ pc = "main" => main = None /\ extra = None
  /\ pc = "extra" => main # None /\ extra = None
  /\ pc \in {"extra", "tokens"} =>
       /\ main # None => label <= main /\ main <= head
       /\ extra # None => main # None /\ main <= extra /\ extra <= head

StoredInOrder ==
  \A s \in states :
    /\ s.main # None => s.label <= s.main /\ s.main <= head
    /\ s.extra # None => s.main # None /\ s.main <= s.extra /\ s.extra <= head

\* The states know of a token what the cache does, and the cache does not guess.
CacheHonest ==
  /\ \A t \in Token : cache[t] = "known" => t \notin NoDecimals
  /\ \A s \in states : \A t \in TokensOf[s.pool] :
       cache[t] # "unread" /\ (t \in s.known <=> cache[t] = "known")
  /\ \A s \in states : s.known \subseteq TokensOf[s.pool]

\* What an observation rests on.
Grounded(o) ==
  /\ TokensOf[o.pool] \cap NoDecimals = {}
  /\ o.quote \in {o.label, None}
  /\ o.reference # None => /\ o.label <= o.reference
                          /\ \E s \in states : s.pool = o.pool /\ s.main = o.reference

ObservationsGrounded ==
  /\ \A o \in pending \cup stored : Grounded(o)
  /\ pc = "quote" /\ todo # {} => StateOf(pool).known = TokensOf[pool]

IInv == /\ TypeOK /\ PoolsKnown
        /\ ReadInOrder /\ StoredInOrder
        /\ CacheHonest
        /\ ObservationsGrounded
-----------------------------------------------------------------------------
\* A pool with a state has a state of its own.
LEMMA StateOfPool ==
  ASSUME NEW p \in StatePools
  PROVE  StateOf(p) \in states /\ StateOf(p).pool = p
  BY DEF StateOf, StatePools

\* The history of the pools is only written by the chain.
LEMMA ValueStep ==
  ASSUME ValueTyped, head \in Block, [Next]_vars
  PROVE  ValueTyped'
  <1> USE MarketAssumption DEF ValueTyped, Block
  <1>1. CASE NewBlock
    <2>1. PICK touched \in SUBSET Pool :
            value' = [value EXCEPT ![head + 1] =
                        [p \in Pool |-> IF p \in touched THEN head + 1 ELSE value[head][p]]]
      BY <1>1 DEF NewBlock
    <2>2. head \in Nat /\ head + 1 \in Block
      BY <1>1 DEF NewBlock
    <2>3. [p \in Pool |-> IF p \in touched THEN head + 1 ELSE value[head][p]] \in [Pool -> Block]
      BY <2>2
    <2> QED
      BY <2>1, <2>2, <2>3
  <1>2. CASE Step \/ UNCHANGED vars
    <2>1. value' = value
      BY <1>2 DEF Step, ResolveBlock, Analyze, ReadMain, ReadExtra, ReadToken, StoreState,
         StatePassDone, QuoteCase, StoreObservations, ExecutionDone, vars, chain
    <2> QED
      BY <2>1
  <1> QED
    BY <1>1, <1>2 DEF Next

\* A step keeps the types, and the pools of the execution pass have states.
LEMMA TypedStep ==
  ASSUME TypeOK, PoolsKnown, [Next]_vars
  PROVE  TypeOK' /\ PoolsKnown'
  <1> DEFINE Goal == TypeOK' /\ PoolsKnown'
  <1> USE MarketAssumption DEF TypeOK, PoolsKnown, StatePools, Block, Known, chain, read
  <1>0. ValueTyped'
    BY ValueStep
  <1> USE <1>0
  <1>1. ASSUME NEW p \in Pool, ResolveBlock(p) PROVE Goal
    BY <1>1 DEF ResolveBlock, Escape
  <1>2. CASE ReadMain
    BY <1>2 DEF ReadMain, Escape
  <1>3. CASE ReadExtra
    BY <1>3 DEF ReadExtra, Escape
  <1>4. ASSUME NEW t \in Token, ReadToken(t) PROVE Goal
    BY <1>4 DEF ReadToken
  <1>5. CASE StoreState
    BY <1>5 DEF StoreState
  <1>6. CASE StatePassDone
    BY <1>6 DEF StatePassDone
  <1>7. ASSUME NEW p \in Pool, Analyze(p) PROVE Goal
    BY <1>7 DEF Analyze
  <1>8. ASSUME NEW c \in Case, QuoteCase(c) PROVE Goal
    <2>1. StateOf(pool) \in states
      BY <1>8, StateOfPool DEF QuoteCase
    <2>2. \A quote \in Block \cup {None} : Observation(c, quote) \in
            [pool : Pool, case : Case, label : Block, reference : Block \cup {None},
             quote : Block \cup {None}]
      BY <1>8, <2>1 DEF QuoteCase, Observation
    <2>3. StateOf(pool).label \in Block
      BY <2>1
    <2> QED
      BY <1>8, <2>2, <2>3 DEF QuoteCase, GasEscapes, Escape
  <1>9. CASE StoreObservations
    BY <1>9 DEF StoreObservations
  <1>10. CASE ExecutionDone
    BY <1>10 DEF ExecutionDone
  <1>11. CASE NewBlock
    BY <1>11 DEF NewBlock
  <1>12. CASE UNCHANGED vars
    BY <1>12 DEF vars
  <1> QED BY <1>1, <1>2, <1>3, <1>4, <1>5, <1>6, <1>7, <1>8, <1>9, <1>10, <1>11, <1>12 DEF Next, Step

\* A step keeps the order of the reads.
LEMMA OrderStep ==
  ASSUME TypeOK, PoolsKnown, ReadInOrder, StoredInOrder, [Next]_vars
  PROVE  ReadInOrder' /\ StoredInOrder'
  <1> DEFINE Goal == ReadInOrder' /\ StoredInOrder'
  <1> USE MarketAssumption DEF TypeOK, PoolsKnown, ReadInOrder, StoredInOrder, Block, chain, read
  <1>1. ASSUME NEW p \in Pool, ResolveBlock(p) PROVE Goal
    BY <1>1 DEF ResolveBlock, Escape
  <1>2. CASE ReadMain
    BY <1>2 DEF ReadMain, Escape
  <1>3. CASE ReadExtra
    BY <1>3 DEF ReadExtra, Escape
  <1>4. ASSUME NEW t \in Token, ReadToken(t) PROVE Goal
    BY <1>4 DEF ReadToken
  <1>5. CASE StoreState
    BY <1>5 DEF StoreState
  <1>6. CASE StatePassDone
    BY <1>6 DEF StatePassDone
  <1>7. ASSUME NEW p \in Pool, Analyze(p) PROVE Goal
    BY <1>7 DEF Analyze
  <1>8. ASSUME NEW c \in Case, QuoteCase(c) PROVE Goal
    BY <1>8 DEF QuoteCase, GasEscapes, Escape
  <1>9. CASE StoreObservations
    BY <1>9 DEF StoreObservations
  <1>10. CASE ExecutionDone
    BY <1>10 DEF ExecutionDone
  <1>11. CASE NewBlock
    BY <1>11 DEF NewBlock
  <1>12. CASE UNCHANGED vars
    BY <1>12 DEF vars
  <1> QED BY <1>1, <1>2, <1>3, <1>4, <1>5, <1>6, <1>7, <1>8, <1>9, <1>10, <1>11, <1>12 DEF Next, Step

\* A step keeps the states and the cache in agreement.
LEMMA CacheStep ==
  ASSUME TypeOK, PoolsKnown, CacheHonest, [Next]_vars
  PROVE  CacheHonest'
  <1> DEFINE Goal == CacheHonest'
  <1> USE MarketAssumption DEF TypeOK, PoolsKnown, CacheHonest, Known, chain, read
  <1>1. ASSUME NEW p \in Pool, ResolveBlock(p) PROVE Goal
    BY <1>1 DEF ResolveBlock, Escape
  <1>2. CASE ReadMain
    BY <1>2 DEF ReadMain, Escape
  <1>3. CASE ReadExtra
    BY <1>3 DEF ReadExtra, Escape
  <1>4. ASSUME NEW t \in Token, ReadToken(t) PROVE Goal
    BY <1>4 DEF ReadToken
  <1>5. CASE StoreState
    BY <1>5 DEF StoreState
  <1>6. CASE StatePassDone
    BY <1>6 DEF StatePassDone
  <1>7. ASSUME NEW p \in Pool, Analyze(p) PROVE Goal
    BY <1>7 DEF Analyze
  <1>8. ASSUME NEW c \in Case, QuoteCase(c) PROVE Goal
    BY <1>8 DEF QuoteCase, Escape
  <1>9. CASE StoreObservations
    BY <1>9 DEF StoreObservations
  <1>10. CASE ExecutionDone
    BY <1>10 DEF ExecutionDone
  <1>11. CASE NewBlock
    BY <1>11 DEF NewBlock
  <1>12. CASE UNCHANGED vars
    BY <1>12 DEF vars
  <1> QED BY <1>1, <1>2, <1>3, <1>4, <1>5, <1>6, <1>7, <1>8, <1>9, <1>10, <1>11, <1>12 DEF Next, Step

\* A state that is added leaves the others the states of their pools.
LEMMA GroundedStep ==
  ASSUME states \subseteq states', NEW o, Grounded(o)
  PROVE  Grounded(o)'
  BY DEF Grounded

\* A step keeps every observation grounded.
LEMMA ObservationStep ==
  ASSUME TypeOK, PoolsKnown, StoredInOrder, CacheHonest, ObservationsGrounded, [Next]_vars
  PROVE  ObservationsGrounded'
  <1> DEFINE Goal == ObservationsGrounded'
  <1>1. ASSUME states \subseteq states', pending' \cup stored' \subseteq pending \cup stored,
               (pc = "quote" /\ todo # {} /\ pool' = pool /\ states' = states)
                 \/ ~(pc' = "quote" /\ todo' # {})
        PROVE  Goal
    BY <1>1, GroundedStep DEF ObservationsGrounded, StateOf
  <1>2. ASSUME NEW p \in Pool, ResolveBlock(p) PROVE Goal
    BY <1>1, <1>2 DEF ResolveBlock, Escape
  <1>3. CASE ReadMain
    BY <1>1, <1>3 DEF ReadMain, Escape
  <1>4. CASE ReadExtra
    BY <1>1, <1>4 DEF ReadExtra, Escape
  <1>5. ASSUME NEW t \in Token, ReadToken(t) PROVE Goal
    BY <1>1, <1>5 DEF ReadToken
  <1>6. CASE StoreState
    BY <1>1, <1>6 DEF StoreState
  <1>7. CASE StatePassDone
    BY <1>1, <1>7 DEF StatePassDone
  <1>8. ASSUME NEW p \in Pool, Analyze(p) PROVE Goal
    <2>1. \A o \in (pending \cup stored)' : Grounded(o)'
      BY <1>8, GroundedStep DEF Analyze, ObservationsGrounded
    <2>2. todo' # {} => StateOf(p)' = StateOf(p) /\ StateOf(p).known = TokensOf[p]
      BY <1>8 DEF Analyze, StateOf
    <2> QED
      BY <1>8, <2>1, <2>2 DEF Analyze, ObservationsGrounded, StateOf
  <1>9. ASSUME NEW c \in Case, QuoteCase(c) PROVE Goal
    <2>1. StateOf(pool) \in states /\ StateOf(pool).pool = pool /\ pool \in Pool
      BY <1>9, StateOfPool DEF QuoteCase, PoolsKnown, StatePools, TypeOK
    <2>2. StateOf(pool).known = TokensOf[pool]
      BY <1>9 DEF QuoteCase, ObservationsGrounded
    <2>3. TokensOf[pool] \cap NoDecimals = {}
      BY <2>1, <2>2, MarketAssumption DEF CacheHonest
    <2>4. StateOf(pool).main # None => StateOf(pool).label <= StateOf(pool).main
      BY <2>1 DEF StoredInOrder
    <2>5. ASSUME NEW quote \in {StateOf(pool).label, None} PROVE Grounded(Observation(c, quote))
      BY <2>1, <2>3, <2>4, <2>5 DEF Grounded, Observation
    <2>6. \A o \in (pending \cup stored)' : Grounded(o)
      BY <1>9, <2>5 DEF QuoteCase, Escape, ObservationsGrounded
    <2>7. \A o \in (pending \cup stored)' : Grounded(o)'
      BY <1>9, <2>6, GroundedStep DEF QuoteCase
    <2> QED
      BY <1>9, <2>2, <2>7 DEF QuoteCase, Escape, ObservationsGrounded, StateOf, read
  <1>10. CASE StoreObservations
    BY <1>1, <1>10 DEF StoreObservations
  <1>11. CASE ExecutionDone
    BY <1>1, <1>11 DEF ExecutionDone
  <1>12. CASE NewBlock
    BY <1>12, GroundedStep DEF NewBlock, ObservationsGrounded, StateOf, read
  <1>13. CASE UNCHANGED vars
    BY <1>13, GroundedStep DEF vars, ObservationsGrounded, StateOf, read
  <1> QED
    BY <1>2, <1>3, <1>4, <1>5, <1>6, <1>7, <1>8, <1>9, <1>10, <1>11, <1>12, <1>13
       DEF Next, Step
-----------------------------------------------------------------------------
\* The inductive invariant: every definition of it, over get_pool_state and analyze_pool.
THEOREM Invariance == Spec => []IInv
  <1>1. Init => IInv
    BY MarketAssumption DEF Init, IInv, TypeOK, PoolsKnown, StatePools, ReadInOrder,
       StoredInOrder, CacheHonest, ObservationsGrounded, Block, Known, ValueTyped
  <1>2. IInv /\ [Next]_vars => IInv'
    BY TypedStep, OrderStep, CacheStep, ObservationStep DEF IInv
  <1> QED
    BY <1>1, <1>2, PTL DEF Spec

\* MarketRead keeps its type invariant.
THEOREM TypeCorrect == Spec => []TypeOK
  <1>1. IInv => TypeOK
    BY DEF IInv
  <1> QED
    BY <1>1, Invariance, PTL

\* No state is filed under a block later than its values are from (get_pool_state
\* asks for the number first), however many blocks are mined in between.
THEOREM LabelsAreEarly == Spec => []LabelNotAhead
  <1>1. IInv => LabelNotAhead
    BY DEF IInv, StoredInOrder, LabelNotAhead
  <1> QED
    BY <1>1, Invariance, PTL

\* The states of the pools of one adapter agree on the decimals of shared tokens
\* (TokenReader._cache).
THEOREM OneAnswer == Spec => []OneAnswerPerToken
  <1>1. IInv => OneAnswerPerToken
    BY DEF IInv, CacheHonest, OneAnswerPerToken
  <1> QED
    BY <1>1, Invariance, PTL

\* Observations have real decimals and reference prices a state that was read
\* (analyze_direction, _build_observation).
THEOREM NoGuess == Spec => []NothingGuessed
  <1>1. IInv => NothingGuessed
    BY DEF IInv, ObservationsGrounded, Grounded, NothingGuessed
  <1> QED
    BY <1>1, Invariance, PTL
-----------------------------------------------------------------------------
(* Each pool is read once and quoted once: a part on the states, one on the   *)
(* observations that are there and one on those that must be.                 *)

Reading == {"next", "main", "extra", "tokens"}

HasState(p) == \E s \in states : s.pool = p

\* The pools that are still to be read, the one at work included, have no state.
OneState ==
  /\ \A s, u \in states : s.pool = u.pool => s = u
  /\ pc \in Reading => \A p \in left : ~HasState(p)
  /\ pc \in Reading \ {"next"} => pool \notin left /\ ~HasState(pool)

\* An observation carries the block number and the price of its pool's state,
\* which knows the decimals of both tokens.
FiledAs(o, s) ==
  s.pool = o.pool /\ o.label = s.label /\ o.reference = s.main /\ s.known = TokensOf[s.pool]

Alike(o, u) == o.pool = u.pool /\ o.case = u.case

\* A pool is quoted in its own turn, each case of it once.
OneObservation ==
  /\ \A o \in pending \cup stored : \E s \in states : FiledAs(o, s)
  /\ \A o, u \in pending \cup stored : Alike(o, u) => o = u
  /\ pc \in Reading => pending = {} /\ stored = {}
  /\ pc = "execution" => pending = {} /\ \A o \in stored : o.pool \notin left
  /\ pc = "quote" =>
       /\ pool \notin left
       /\ \A o \in stored : o.pool \notin left /\ o.pool # pool
       /\ \A o \in pending : o.pool = pool /\ o.case \notin todo

\* Every case of the pool of a state is observed, among these observations.
Quoted(s, observations) ==
  s.known = TokensOf[s.pool] =>
    \A c \in Case : \E o \in observations : o.pool = s.pool /\ o.case = c

\* A pool whose turn is over has its observations.
TurnsComplete ==
  /\ pc \in {"execution", "done"} => \A s \in states : s.pool \notin left => Quoted(s, stored)
  /\ pc = "quote" =>
       \A s \in states :
         /\ s.pool \notin left /\ s.pool # pool => Quoted(s, stored)
         /\ s.pool = pool /\ s.known = TokensOf[pool] =>
              \A c \in Case \ todo : \E o \in pending : o.pool = pool /\ o.case = c
  /\ pc = "done" => left = {}

OnceInv == OneState /\ OneObservation /\ TurnsComplete

\* The execution pass is over the states that were read, each once: a pool has
\* one state in a run, a case of a pool one observation, filed under the block
\* and priced by the reserves of that very state; and no case of a pool whose
\* decimals are known is missing when the pass is done, however the calls failed
\* (_run_adapter of pipeline.py, analyze_pool, _build_observation).
QuotedOnce ==
  /\ \A s, u \in states : s.pool = u.pool => s = u
  /\ \A o, u \in stored : Alike(o, u) => o = u
  /\ \A o \in stored : \E s \in states : FiledAs(o, s)
  /\ pc = "done" => \A s \in states : Quoted(s, stored)
-----------------------------------------------------------------------------
\* A pool gets its state in its own turn.
LEMMA OneStateStep ==
  ASSUME TypeOK, OneState, [Next]_vars
  PROVE  OneState'
  <1> DEFINE Goal == OneState'
  <1> USE DEF OneState, HasState, Reading, chain, read
  <1>1. ASSUME NEW p \in Pool, ResolveBlock(p) PROVE Goal
    BY <1>1 DEF ResolveBlock, Escape
  <1>2. CASE ReadMain \/ ReadExtra
    BY <1>2 DEF ReadMain, ReadExtra, Escape
  <1>3. ASSUME NEW t \in Token, ReadToken(t) PROVE Goal
    BY <1>3 DEF ReadToken
  <1>4. CASE StoreState
    BY <1>4 DEF StoreState
  <1>5. CASE StatePassDone \/ StoreObservations \/ ExecutionDone
    BY <1>5 DEF StatePassDone, StoreObservations, ExecutionDone
  <1>6. ASSUME NEW p \in Pool, Analyze(p) PROVE Goal
    BY <1>6 DEF Analyze
  <1>7. ASSUME NEW c \in Case, QuoteCase(c) PROVE Goal
    BY <1>7 DEF QuoteCase, GasEscapes, Escape
  <1>8. CASE NewBlock \/ UNCHANGED vars
    BY <1>8 DEF NewBlock, vars
  <1> QED BY <1>1, <1>2, <1>3, <1>4, <1>5, <1>6, <1>7, <1>8 DEF Next, Step

\* What a quote adds to the observations, if anything.
LEMMA QuoteAdds ==
  ASSUME PoolsKnown, ObservationsGrounded, NEW c \in Case, QuoteCase(c)
  PROVE  \/ pending' = pending
         \/ \E o : /\ pending' = pending \cup {o} /\ o.pool = pool /\ o.case = c
                   /\ FiledAs(o, StateOf(pool)) /\ StateOf(pool) \in states
  <1>1. StateOf(pool) \in states /\ StateOf(pool).pool = pool
    BY StateOfPool DEF QuoteCase, PoolsKnown
  <1>2. StateOf(pool).known = TokensOf[pool]
    BY DEF QuoteCase, ObservationsGrounded
  <1>3. ASSUME NEW quote
        PROVE  LET o == Observation(c, quote)
               IN o.pool = pool /\ o.case = c /\ FiledAs(o, StateOf(pool))
    BY <1>1, <1>2 DEF Observation, FiledAs
  <1>4. PICK quote : pending' \in {pending, pending \cup {Observation(c, quote)}}
    BY DEF QuoteCase, GasEscapes
  <1> DEFINE o == Observation(c, quote)
  <1>5. o.pool = pool /\ o.case = c /\ FiledAs(o, StateOf(pool))
    BY <1>3
  <1> HIDE DEF o
  <1>6. pending' = pending \/ pending' = pending \cup {o}
    BY <1>4 DEF o
  <1> QED BY <1>1, <1>5, <1>6

\* A case is observed in the turn of its pool, and once.
LEMMA OneObservationStep ==
  ASSUME TypeOK, PoolsKnown, ObservationsGrounded, OneObservation, [Next]_vars
  PROVE  OneObservation'
  <1> DEFINE Goal == OneObservation'
             All  == pending \cup stored
  <1> USE DEF OneObservation, Reading, Alike, FiledAs, chain, read
  <1>1. ASSUME NEW p \in Pool, ResolveBlock(p) PROVE Goal
    BY <1>1 DEF ResolveBlock, Escape
  <1>2. CASE ReadMain \/ ReadExtra
    BY <1>2 DEF ReadMain, ReadExtra, Escape
  <1>3. ASSUME NEW t \in Token, ReadToken(t) PROVE Goal
    BY <1>3 DEF ReadToken
  <1>4. CASE StoreState
    BY <1>4 DEF StoreState
  <1>5. CASE StatePassDone \/ ExecutionDone
    BY <1>5 DEF StatePassDone, ExecutionDone
  <1>6. CASE StoreObservations
    BY <1>6 DEF StoreObservations
  <1>7. ASSUME NEW p \in Pool, Analyze(p) PROVE Goal
    BY <1>7 DEF Analyze
  <1>8. ASSUME NEW c \in Case, QuoteCase(c) PROVE Goal
    <2>1. /\ pc = "quote" /\ c \in todo /\ pc' \in {"quote", "died"} /\ todo' = todo \ {c}
          /\ UNCHANGED <<states, stored, left, pool>>
      BY <1>8 DEF QuoteCase, GasEscapes, Escape
    <2>2. CASE pending' = pending
      BY <2>1, <2>2
    <2>3. CASE pending' # pending
      <3>1. PICK o : /\ pending' = pending \cup {o} /\ o.pool = pool /\ o.case = c
                     /\ FiledAs(o, StateOf(pool)) /\ StateOf(pool) \in states
        BY <1>8, <2>3, QuoteAdds
      <3>2. \A u \in All : ~Alike(o, u) /\ ~Alike(u, o)
        BY <2>1, <3>1
      <3>3. \A u \in (pending \cup stored)' : u = o \/ u \in All
        BY <2>1, <3>1
      <3>4. \A u \in (pending \cup stored)' : \E s \in states' : FiledAs(u, s)
        BY <2>1, <3>1, <3>3
      <3>5. \A u, w \in (pending \cup stored)' : Alike(u, w) => u = w
        BY <3>2, <3>3
      <3>6. \A u \in pending' : u.pool = pool /\ u.case \notin todo'
        BY <2>1, <3>1
      <3> QED BY <2>1, <3>4, <3>5, <3>6
    <2> QED BY <2>2, <2>3
  <1>9. CASE NewBlock \/ UNCHANGED vars
    BY <1>9 DEF NewBlock, vars
  <1> QED BY <1>1, <1>2, <1>3, <1>4, <1>5, <1>6, <1>7, <1>8, <1>9 DEF Next, Step

\* The turn of a pool is over when each of its cases is observed.
LEMMA TurnsStep ==
  ASSUME TypeOK, PoolsKnown, ObservationsGrounded, OneState, OneObservation, TurnsComplete,
         [Next]_vars
  PROVE  TurnsComplete'
  <1> DEFINE Goal == TurnsComplete'
  <1> USE DEF TurnsComplete, Quoted, Reading, chain, read
  <1>1. ASSUME NEW p \in Pool, ResolveBlock(p) PROVE Goal
    BY <1>1 DEF ResolveBlock, Escape
  <1>2. CASE ReadMain \/ ReadExtra
    BY <1>2 DEF ReadMain, ReadExtra, Escape
  <1>3. ASSUME NEW t \in Token, ReadToken(t) PROVE Goal
    BY <1>3 DEF ReadToken
  <1>4. CASE StoreState \/ StatePassDone
    BY <1>4 DEF StoreState, StatePassDone
  <1>5. CASE ExecutionDone
    BY <1>5 DEF ExecutionDone
  <1>6. CASE StoreObservations
    BY <1>6 DEF StoreObservations
  <1>7. ASSUME NEW p \in Pool, Analyze(p) PROVE Goal
    <2>1. /\ pc = "execution" /\ p \in left /\ left' = left \ {p} /\ pool' = p
          /\ pc' = "quote" /\ UNCHANGED <<states, stored>>
          /\ todo' = IF StateOf(p).known = TokensOf[p] THEN Case ELSE {}
      BY <1>7 DEF Analyze
    <2>2. \A s \in states : s.pool = p => s = StateOf(p)
      BY <2>1, StateOfPool DEF PoolsKnown, OneState
    <2> QED BY <2>1, <2>2
  <1>8. ASSUME NEW c \in Case, QuoteCase(c) PROVE Goal
    <2>1. /\ pc = "quote" /\ c \in todo /\ pc' \in {"quote", "died"} /\ todo' = todo \ {c}
          /\ UNCHANGED <<states, stored, left, pool>>
      BY <1>8 DEF QuoteCase, GasEscapes, Escape
    <2>2. pc' = "quote" => \E o \in pending' : o.pool = pool /\ o.case = c
      <3> SUFFICES ASSUME pc' = "quote" PROVE \E o \in pending' : o.pool = pool /\ o.case = c
        OBVIOUS
      <3>1. PICK quote : pending' = pending \cup {Observation(c, quote)}
        BY <1>8 DEF QuoteCase, GasEscapes, Escape
      <3>2. Observation(c, quote).pool = pool /\ Observation(c, quote).case = c
        BY DEF Observation
      <3> QED BY <3>1, <3>2
    <2>3. pending \subseteq pending'
      BY <1>8 DEF QuoteCase, GasEscapes
    <2> QED BY <2>1, <2>2, <2>3
  <1>9. CASE NewBlock \/ UNCHANGED vars
    BY <1>9 DEF NewBlock, vars
  <1> QED BY <1>1, <1>2, <1>3, <1>4, <1>5, <1>6, <1>7, <1>8, <1>9 DEF Next, Step

\* The three parts together are kept.
THEOREM OnceInvariance == Spec => []OnceInv
  <1>1. Init => OnceInv
    BY DEF Init, OnceInv, OneState, HasState, OneObservation, TurnsComplete
  <1>2. IInv /\ OnceInv /\ [Next]_vars => OnceInv'
    BY OneStateStep, OneObservationStep, TurnsStep DEF IInv, OnceInv
  <1> QED
    BY <1>1, <1>2, Invariance, PTL DEF Spec

\* One state per pool, one observation per pool and case, and none missing
\* (_run_adapter, analyze_pool), for every set of pools and every fault.
THEOREM EachQuotedOnce == Spec => []QuotedOnce
  <1>1. OnceInv => QuotedOnce
    BY DEF OnceInv, OneState, OneObservation, TurnsComplete, QuotedOnce
  <1> QED
    BY <1>1, OnceInvariance, PTL
-----------------------------------------------------------------------------
(* The passes only go forward. *)

Phase(at) == CASE at \in Reading -> 1 [] at \in {"execution", "quote"} -> 2 [] OTHER -> 3

\* Where the turn of a pool is, in either pass.
Stage(at) == CASE at \in {"main", "quote"} -> 1 [] at = "extra" -> 2 [] at = "tokens" -> 3
               [] OTHER -> 4

Unread == {t \in Token : cache[t] = "unread"}

Shrinks(before, after) == after # before /\ after \subseteq before

\* Closer to the end: in the next pass or out of both, or with fewer pools left,
\* or later in the turn of a pool, or with fewer tokens to read or cases to quote.
Further ==
  \/ Phase(pc) < Phase(pc')
  \/ /\ Phase(pc') = Phase(pc)
     /\ \/ Shrinks(left, left')
        \/ left' = left /\ Stage(pc) < Stage(pc')
  \/ /\ pc' = pc /\ left' = left
     /\ \/ Shrinks(Unread, Unread') /\ todo' = todo
        \/ Shrinks(todo, todo') /\ cache' = cache

\* No step of the adapter leads back, whatever the calls answer and however many
\* blocks are mined: the chain changes nothing of what is still to be done (the
\* part of PassEnds that is not about time: pools, tokens and cases are finite).
ReadsAdvance == [][Further \/ UNCHANGED <<pc, left, cache, todo, states, pending, stored>>]_vars

\* Each step of the two passes is one step less to do.
LEMMA StepFurther ==
  ASSUME TypeOK, Step
  PROVE  Further
  <1> USE DEF Further, Reading, chain, read
  <1>1. ASSUME NEW p \in Pool, ResolveBlock(p) PROVE Further
    BY <1>1 DEF ResolveBlock, Escape, Phase, Shrinks
  <1>2. CASE ReadMain
    BY <1>2 DEF ReadMain, Escape, Phase, Stage
  <1>3. CASE ReadExtra
    BY <1>3 DEF ReadExtra, Escape, Phase, Stage
  <1>4. ASSUME NEW t \in Token, ReadToken(t) PROVE Further
    <2>1. t \in Unread /\ Unread' = Unread \ {t}
      BY <1>4 DEF ReadToken, Unread, TypeOK, Known
    <2>2. UNCHANGED <<pc, left, todo>>
      BY <1>4 DEF ReadToken
    <2> QED BY <2>1, <2>2 DEF Shrinks
  <1>5. CASE StoreState
    BY <1>5 DEF StoreState, Phase, Stage
  <1>6. CASE StatePassDone
    BY <1>6 DEF StatePassDone, Phase
  <1>7. ASSUME NEW p \in Pool, Analyze(p) PROVE Further
    BY <1>7 DEF Analyze, Phase, Shrinks
  <1>8. ASSUME NEW c \in Case, QuoteCase(c) PROVE Further
    <2>1. CASE GasEscapes /\ pc = "quote"
      BY <2>1 DEF GasEscapes, Escape, Phase
    <2>2. CASE UNCHANGED pc
      BY <1>8, <2>2 DEF QuoteCase, Shrinks
    <2> QED BY <1>8, <2>1, <2>2 DEF QuoteCase
  <1>9. CASE StoreObservations
    BY <1>9 DEF StoreObservations, Phase, Stage
  <1>10. CASE ExecutionDone
    BY <1>10 DEF ExecutionDone, Phase
  <1> QED BY <1>1, <1>2, <1>3, <1>4, <1>5, <1>6, <1>7, <1>8, <1>9, <1>10 DEF Step

\* The two passes of an adapter go forward with every call, and nothing else moves them.
THEOREM ReadsGoForward == Spec => ReadsAdvance
  <1>1. TypeOK /\ [Next]_vars =>
          [Further \/ UNCHANGED <<pc, left, cache, todo, states, pending, stored>>]_vars
    BY StepFurther DEF Next, NewBlock
  <1> QED
    BY <1>1, TypeCorrect, PTL DEF Spec, ReadsAdvance
-----------------------------------------------------------------------------
\* A step keeps FailedReadLeavesState: it leaves a pool whose state it has stored, or in
\* its turn of the execution pass, or dies of garbage.
LEMMA StateLeftStep ==
  ASSUME TypeOK, PoolsKnown, FailedReadLeavesState, [Next]_vars
  PROVE  FailedReadLeavesState'
  <1> USE DEF FailedReadLeavesState, DiesOfGarbage, chain, read
  <1>1. ASSUME NEW p \in Pool, ResolveBlock(p) PROVE FailedReadLeavesState'
    BY <1>1 DEF ResolveBlock, Escape
  <1>2. CASE ReadMain
    BY <1>2 DEF ReadMain, Escape
  <1>3. CASE ReadExtra
    BY <1>3 DEF ReadExtra, Escape
  <1>4. ASSUME NEW t \in Token, ReadToken(t) PROVE FailedReadLeavesState'
    BY <1>4 DEF ReadToken
  <1>5. CASE StoreState
    <2> DEFINE new == [pool |-> pool, label |-> label, main |-> main, extra |-> extra,
                       known |-> {t \in TokensOf[pool] : cache[t] = "known"}]
    <2>1. new \in states' /\ new.pool = pool /\ pool' = pool
      BY <1>5 DEF StoreState
    <2> QED BY <2>1
  <1>6. CASE StatePassDone
    BY <1>6 DEF StatePassDone
  <1>7. ASSUME NEW p \in Pool, Analyze(p) PROVE FailedReadLeavesState'
    BY <1>7 DEF Analyze, PoolsKnown, StatePools
  <1>8. ASSUME NEW c \in Case, QuoteCase(c) PROVE FailedReadLeavesState'
    BY <1>8 DEF QuoteCase, GasEscapes, Escape
  <1>9. CASE StoreObservations
    BY <1>9 DEF StoreObservations
  <1>10. CASE ExecutionDone
    BY <1>10 DEF ExecutionDone
  <1>11. CASE NewBlock \/ UNCHANGED vars
    BY <1>11 DEF NewBlock, vars
  <1> QED BY <1>1, <1>2, <1>3, <1>4, <1>5, <1>6, <1>7, <1>8, <1>9, <1>10, <1>11 DEF Next, Step

\* No pool that was read goes without a state (get_pool_state, _empty_state), whatever
\* calls fail, in Swappi V2 whatever they answer, and in VSwap unless it is garbage.
THEOREM ReadsLeaveStates == Spec => []FailedReadLeavesState
  <1>1. Init => FailedReadLeavesState
    BY DEF Init, FailedReadLeavesState
  <1>2. IInv /\ FailedReadLeavesState /\ [Next]_vars => FailedReadLeavesState'
    BY StateLeftStep DEF IInv
  <1> QED BY <1>1, <1>2, Invariance, PTL DEF Spec
=============================================================================
