----------------------------- MODULE MarketRead -----------------------------
(* What one adapter reads from a chain that moves while it reads: the state   *)
(* pass (get_pool_state of dex/swappi_v2.py and dex/vswap_v3.py, behind       *)
(* collectors/market_state.py) and the execution pass (analytics/execution.py *)
(* with get_quote).  CollectionRun takes the outcome of these reads as a      *)
(* choice of the environment and models what is stored; here storing works.   *)
(* ObservedImpact adds the numbers.                                           *)
(*                                                                            *)
(* A pool is as the block that last changed it left it.  A call is answered *)
(* with a value, with an error (any RpcError, after retries), or with a       *)
(* malformed value (too short or empty, which decoding rejects).              *)
EXTENDS Naturals, FiniteSets

CONSTANTS Pool, Token,
          Case,               \* a direction and a trade size that resolves
          TokensOf,           \* pool -> its two tokens
          NoDecimals,         \* tokens whose contract has no usable decimals()
          Faults, Malformed,  \* may a call fail, or be answered with garbage?
          MaxHead, None

ASSUME MarketAssumption ==
  /\ NoDecimals \subseteq Token
  /\ TokensOf \in [Pool -> SUBSET Token]
  /\ Faults \in BOOLEAN /\ Malformed \in BOOLEAN
  /\ MaxHead \in Nat /\ None \notin Nat

VARIABLES
  concentrated, \* is the adapter VSwap V3's, or else Swappi V2's?
  head,     \* number of the latest block
  value,    \* block -> pool -> the last block, up to this one, that changed the pool
  pc, left, \* where the pass is, and the pools it still has to visit
  pool,     \* pool at work
  label,    \* block_number, resolved before the pool is read
  main,     \* block in which getReserves or slot0 was answered, None if not
  extra,    \* the same for totalSupply or liquidity
  cache,    \* TokenReader._cache: token -> its decimals, if it was read
  states,   \* the states that were stored
  todo,     \* cases of the pool still to analyse
  pending,  \* observations of the pool, kept in memory until all are made
  stored    \* the observations stored

chain == <<concentrated, head, value>>
read  == <<pool, label, main, extra>>
vars  == <<chain, pc, left, read, cache, states, todo, pending, stored>>

\* What TokenReader knows of a token: not read yet, a value, or the absence.
Known == {"unread", "known", "unknown"}

Block == 0..MaxHead

Init ==
  /\ concentrated \in BOOLEAN
  /\ head = 0 /\ value = [b \in Block |-> [p \in Pool |-> 0]]
  /\ pc = "next" /\ left = Pool
  /\ pool = None /\ label = None /\ main = None /\ extra = None
  /\ cache = [t \in Token |-> "unread"]
  /\ states = {} /\ todo = {} /\ pending = {} /\ stored = {}

\* A block is mined while the collector works.  Assumed of the provider: no call
\* is answered from an earlier block than the calls before it (one node, and no
\* reorganisation while the passes last).
NewBlock ==
  /\ head < MaxHead
  /\ head' = head + 1
  /\ \E touched \in SUBSET Pool :
       value' = [value EXCEPT ![head + 1] =
                   [p \in Pool |-> IF p \in touched THEN head + 1 ELSE value[head][p]]]
  /\ UNCHANGED <<concentrated, pc, left, read, cache, states, todo, pending, stored>>
-----------------------------------------------------------------------------
(* The state pass *)

\* An exception the callers do not catch: they expect ConfluxAnalyticsError.
Escape == Malformed /\ pc' = "died"

\* Mutant: the block number is asked for after the pool is read.
ResolveBlockLast(p) ==
  /\ pc = "next" /\ p \in left
  /\ left' = left \ {p} /\ pool' = p
  /\ main' = head /\ extra' = None
  /\ \E b \in head..MaxHead : label' = b
  /\ pc' = "extra"
  /\ UNCHANGED <<chain, cache, states, todo, pending, stored>>

\* _resolve_block_number("latest").  An RpcError is recorded and the pool is
\* passed over; int() of a malformed answer raises ValueError.
ResolveBlock(p) ==
  /\ pc = "next" /\ p \in left
  /\ left' = left \ {p}
  /\ \/ pc' = "main" /\ pool' = p /\ label' = head /\ main' = None /\ extra' = None
     \/ Faults /\ UNCHANGED <<pc, read>>
     \/ Escape /\ UNCHANGED read
  /\ UNCHANGED <<chain, cache, states, todo, pending, stored>>

\* Mutant: an empty state carries no block number.
ReadMainUnlabelled ==
  /\ pc = "main"
  /\ \/ main' = head /\ pc' = "extra" /\ UNCHANGED label
     \/ Faults /\ pc' = "tokens" /\ label' = None /\ UNCHANGED main
  /\ UNCHANGED <<chain, left, pool, extra, cache, states, todo, pending, stored>>

\* Mutant: the handler of vswap_v3 in both adapters.
ReadMainOneClause ==
  /\ pc = "main"
  /\ \/ main' = head /\ pc' = "extra"
     \/ Faults /\ pc' = "tokens" /\ UNCHANGED main
     \/ Escape /\ UNCHANGED main
  /\ UNCHANGED <<chain, left, pool, label, extra, cache, states, todo, pending, stored>>

\* getReserves() or slot0(), at "latest".  When it is not decoded the state is
\* an empty one; the handler of vswap_v3 takes exc.rpc_message of whatever it
\* caught, and only an RpcError has one.
ReadMain ==
  /\ pc = "main"
  /\ \/ main' = head /\ pc' = "extra"
     \/ Faults /\ pc' = "tokens" /\ UNCHANGED main
     \/ Malformed /\ ~concentrated /\ pc' = "tokens" /\ UNCHANGED main
     \/ concentrated /\ Escape /\ UNCHANGED main
  /\ UNCHANGED <<chain, left, pool, label, extra, cache, states, todo, pending, stored>>

\* totalSupply() may be missing from a state; liquidity() may not.
ReadExtra ==
  /\ pc = "extra"
  /\ \/ extra' = head /\ pc' = "tokens" /\ UNCHANGED main
     \/ /\ ~concentrated /\ (Faults \/ Malformed)
        /\ pc' = "tokens" /\ UNCHANGED <<main, extra>>
     \/ /\ concentrated /\ Faults
        /\ main' = None /\ pc' = "tokens" /\ UNCHANGED extra
     \/ concentrated /\ Escape /\ UNCHANGED <<main, extra>>
  /\ UNCHANGED <<chain, left, pool, label, cache, states, todo, pending, stored>>

\* Mutant: a failed decimals() is asked again for the next pool.
ReadTokenUncached(t) ==
  /\ pc = "tokens" /\ t \in TokensOf[pool] /\ cache[t] # "known"
  /\ \E answer \in {"known", "unknown"} :
       /\ answer = "known" => t \notin NoDecimals
       /\ answer = "unknown" => t \in NoDecimals \/ Faults \/ Malformed
       /\ cache' = [cache EXCEPT ![t] = answer]
  /\ UNCHANGED <<chain, pc, left, read, states, todo, pending, stored>>

\* Mutant: tokens without decimals are taken to have 18.
ReadTokenGuess(t) ==
  /\ pc = "tokens" /\ t \in TokensOf[pool] /\ cache[t] = "unread"
  /\ cache' = [cache EXCEPT ![t] = "known"]
  /\ UNCHANGED <<chain, pc, left, read, states, todo, pending, stored>>

\* token_metadata: every failure is tolerated and cached like an answer.
ReadToken(t) ==
  /\ pc = "tokens" /\ t \in TokensOf[pool] /\ cache[t] = "unread"
  /\ \E answer \in {"known", "unknown"} :
       /\ answer = "known" => t \notin NoDecimals
       /\ answer = "unknown" => t \in NoDecimals \/ Faults \/ Malformed
       /\ cache' = [cache EXCEPT ![t] = answer]
  /\ UNCHANGED <<chain, pc, left, read, states, todo, pending, stored>>

\* The state of the pool, empty if its main read failed, is stored.
StoreState ==
  /\ pc = "tokens" /\ \A t \in TokensOf[pool] : cache[t] # "unread"
  /\ states' = states \cup {[pool |-> pool, label |-> label, main |-> main, extra |-> extra,
                             known |-> {t \in TokensOf[pool] : cache[t] = "known"}]}
  /\ pc' = "next"
  /\ UNCHANGED <<chain, left, read, cache, todo, pending, stored>>

StatePassDone ==
  /\ pc = "next" /\ left = {}
  /\ pc' = "execution" /\ left' = {s.pool : s \in states}
  /\ UNCHANGED <<chain, read, cache, states, todo, pending, stored>>
-----------------------------------------------------------------------------
(* The execution pass *)

StateOf(p) == CHOOSE s \in states : s.pool = p

\* Mutant: a pool whose tokens have no decimals is put off instead of skipped.
AnalyzeLater(p) ==
  /\ pc = "execution" /\ p \in left
  /\ pool' = p /\ pending' = {}
  /\ pc' = "quote"
  /\ IF StateOf(p).known = TokensOf[p]
       THEN left' = left \ {p} /\ todo' = Case
       ELSE left' = left /\ todo' = {}
  /\ UNCHANGED <<chain, label, main, extra, cache, states, stored>>

\* analyze_pool: both directions are skipped unless both decimals are known.
Analyze(p) ==
  /\ pc = "execution" /\ p \in left
  /\ left' = left \ {p} /\ pool' = p
  /\ pending' = {}
  /\ pc' = "quote"
  /\ todo' = IF StateOf(p).known = TokensOf[p] THEN Case ELSE {}
  /\ UNCHANGED <<chain, label, main, extra, cache, states, stored>>

\* The observation of a case, given the block its quote was answered from.
Observation(c, quote) ==
  LET s == StateOf(pool)
  IN [pool |-> pool, case |-> c, label |-> s.label, reference |-> s.main, quote |-> quote]

\* Mutant: the quote is asked at "latest".
QuoteLatest(c) ==
  /\ pc = "quote" /\ c \in todo
  /\ pending' = pending \cup {Observation(c, head)}
  /\ todo' = todo \ {c}
  /\ UNCHANGED <<chain, pc, left, read, cache, states, stored>>

\* The routable quotes of VSwap are priced by eth_estimateGas and eth_gasPrice
\* (estimate_route_gas).  An RpcError makes the estimate unavailable, which
\* no property depends on; a malformed answer nobody expects.
GasEscapes == concentrated /\ Escape

\* get_quote at state.block_number; whatever it raises is a failed quote.
QuoteCase(c) ==
  /\ pc = "quote" /\ c \in todo
  /\ todo' = todo \ {c}
  /\ \/ pending' = pending \cup {Observation(c, StateOf(pool).label)} /\ UNCHANGED pc
     \/ /\ Faults \/ Malformed
        /\ pending' = pending \cup {Observation(c, None)} /\ UNCHANGED pc
     \/ GasEscapes /\ UNCHANGED pending
  /\ UNCHANGED <<chain, left, read, cache, states, stored>>

StoreObservations ==
  /\ pc = "quote" /\ todo = {}
  /\ stored' = stored \cup pending
  /\ pending' = {}
  /\ pc' = "execution"
  /\ UNCHANGED <<chain, left, read, cache, states, todo>>

ExecutionDone ==
  /\ pc = "execution" /\ left = {}
  /\ pc' = "done"
  /\ UNCHANGED <<chain, left, read, cache, states, todo, pending, stored>>

Step ==
  \/ \E p \in Pool : ResolveBlock(p) \/ Analyze(p)
  \/ ReadMain \/ ReadExtra
  \/ \E t \in Token : ReadToken(t)
  \/ StoreState \/ StatePassDone
  \/ \E c \in Case : QuoteCase(c)
  \/ StoreObservations \/ ExecutionDone

Next == Step \/ NewBlock

Spec == Init /\ [][Next]_vars

\* Every call is answered or times out.
FairSpec == Spec /\ WF_vars(Step)
-----------------------------------------------------------------------------
ValueTyped == value \in [Block -> [Pool -> Block]]

TypeOK ==
  /\ concentrated \in BOOLEAN
  /\ head \in Block /\ ValueTyped
  /\ pc \in {"next", "main", "extra", "tokens", "execution", "quote", "done", "died"}
  /\ left \subseteq Pool /\ pool \in Pool \cup {None}
  /\ label \in Block \cup {None} /\ main \in Block \cup {None} /\ extra \in Block \cup {None}
  /\ cache \in [Token -> Known]
  /\ states \subseteq [pool : Pool, label : Block, main : Block \cup {None},
                       extra : Block \cup {None}, known : SUBSET Token]
  /\ todo \subseteq Case
  /\ pending \cup stored \subseteq
       [pool : Pool, case : Case, label : Block, reference : Block \cup {None},
        quote : Block \cup {None}]

\* The block a state is filed under is never later than the blocks its values
\* are from (swappi_v2.py and vswap_v3.py, get_pool_state: the number is asked for
\* first), and these are in the order of the reads.
LabelNotAhead ==
  \A s \in states :
    /\ s.main # None => s.label <= s.main
    /\ s.main # None /\ s.extra # None => s.main <= s.extra
    /\ s.extra # None => s.extra <= head

\* An observation needs the decimals of both tokens (chain/tokens.py:6-7) and a
\* reference price a state that was read (base.py, _empty_state).
NothingGuessed ==
  \A o \in stored :
    /\ TokensOf[o.pool] \cap NoDecimals = {}
    /\ o.reference # None => \E s \in states : s.pool = o.pool /\ s.main = o.reference

\* Two states of the pools of one adapter agree on every token they share: through
\* the adapter's own TokenReader._cache, a decimals() call that failed once silences
\* the token for all of them.
OneAnswerPerToken ==
  \A s, u \in states : \A t \in TokensOf[s.pool] \cap TokensOf[u.pool] :
    t \in s.known <=> t \in u.known

\* VSwap's handlers of garbage, and its gas estimates, end the process.
DiesOfGarbage == concentrated /\ Malformed

\* What base.py:290-291 says of a read that fails, "the record states that the data
\* is unavailable": a pool whose reading began has a state, empty or not, when it
\* is over, whatever its calls answered, except where a read dies of garbage.
FailedReadLeavesState ==
  pool # None /\ pc \notin {"main", "extra", "tokens"} =>
    \/ \E s \in states : s.pool = pool
    \/ pc = "died" /\ DiesOfGarbage

\* The passes come to an end however fast blocks are mined (every loop of
\* _run_adapter is over pools, directions and sizes that are known before it).
\* Once begun, the execution pass comes to its regular end, as pipeline.py:376-377
\* says ("never abort the run"), except where a gas estimate dies of garbage.
PassEnds ==
  /\ <>(pc \in {"done", "died"})
  /\ pc = "execution" ~> pc = "done" \/ (pc = "died" /\ DiesOfGarbage)
=============================================================================
