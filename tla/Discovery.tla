----------------------------- MODULE Discovery -----------------------------
(* pipeline.py: AnalyticsPipeline.discover and _register_dex, with            *)
(* collectors/discovery.py: discover_for_adapter and the CatalogRepository    *)
(* writes of storage/repositories.py.  Every `discover` command is a process  *)
(* with its own connection; any number runs at once.                          *)
(*                                                                            *)
(* upsert_dex and upsert_pool commit, upsert_token does not.  A pool and a    *)
(* token are members of small sets; of a token row only its presence matters  *)
(* here, of a summary which pools, tokens and DEXs it names.                  *)
EXTENDS Connections, FiniteSets, Sequences

CONSTANTS Pool, Token,
          Dex,
          Selected,        \* process -> its enabled adapters, those --dex names
          PoolsOf,         \* DEX -> the pools of tracked tokens on chain
          TokensOf,        \* pool -> its two tokens
          DropsLookups,    \* DEXs whose adapter skips a failed lookup (V3)
          MaxPools,        \* collector.max_pools
          NoPool

ASSUME DiscoveryAssumption ==
  /\ IsFiniteSet(Pool) /\ NoPool \notin Pool
  /\ Selected \in [Process -> Seq(Dex)]
  /\ MaxPools \in Nat
  /\ PoolsOf \in [Dex -> SUBSET Pool]
  /\ TokensOf \in [Pool -> SUBSET Token]
  /\ DropsLookups \subseteq Dex
  /\ Pool \cap Token = {} /\ (Pool \cup Token) \cap Dex = {}

VARIABLES
  faulty,     \* may a statement fail though the lock is free?
  pools,      \* table pools
  tokens,     \* table tokens
  dexes,      \* table dexes: DEX -> the outcome of its verification
  unsaved,    \* process -> tokens upserted in its open transaction
  pc,         \* process -> where discover is
  adapter,    \* process -> index in Selected of the adapter at work
  left,       \* process -> pools the loop still has to visit
  pool,       \* process -> the pool at work
  todo,       \* process -> its tokens still to visit
  seen,       \* process -> seen_tokens of the adapter at work
  summary     \* process -> what discover will print:
              \* pools found and persisted, tokens persisted, errors

db    == <<pools, tokens, dexes>>
local == <<adapter, left, pool, todo, seen>>
vars  == <<conn, faulty, db, unsaved, pc, local, summary>>

Over  == {"returned", "ended"}
Phase == {"register", "discover", "persist"} \cup Over

NoSummary == [found |-> {}, persisted |-> {}, counted |-> {}, errors |-> {}]

Init ==
  /\ conn = [d \in Process |-> "auto"]
  /\ faulty \in BOOLEAN
  /\ pools = {} /\ tokens = {}
  /\ dexes = [x \in Dex |-> "absent"]
  /\ unsaved = [d \in Process |-> {}]
  /\ pc = [d \in Process |-> "register"]
  /\ adapter = [d \in Process |-> 1]
  /\ left = [d \in Process |-> {}]
  /\ pool = [d \in Process |-> NoPool]
  /\ todo = [d \in Process |-> {}] /\ seen = [d \in Process |-> {}]
  /\ summary = [d \in Process |-> NoSummary]
-----------------------------------------------------------------------------
Goto(d, phase) == pc' = [pc EXCEPT ![d] = phase]

Report(d, what) == summary' = [summary EXCEPT ![d].errors = @ \cup what]

\* A write statement of d followed by commit(), which commits the token rows
\* of its transaction with it.
Store(d) ==
  /\ WriteCommit(d)
  /\ tokens' = tokens \cup unsaved[d]
  /\ unsaved' = [unsaved EXCEPT ![d] = {}]

\* A definition marked "Mutant" is a slip in the one after it that a property
\* catches; no specification uses it.  Mutant: the handler looks the row up.
StorageErrorThenSelect(d) ==
  /\ ~CanWrite(d)
  /\ conn' = [conn EXCEPT ![d] = IF @ = "writer" THEN @ ELSE "snapshot"]
  /\ UNCHANGED <<unsaved, db>>

\* A write statement of d that raises StorageError; nothing rolls back, except
\* SQLite itself on some errors (disk full, I/O error).
StorageError(d) ==
  /\ \/ LockedOut(d) /\ UNCHANGED unsaved
     \/ faulty /\ Write(d) /\ UNCHANGED unsaved
     \/ faulty /\ CanWrite(d) /\ Close(d) /\ unsaved' = [unsaved EXCEPT ![d] = {}]
  /\ UNCHANGED db

\* The connection is closed: what is not committed is gone.
End(d) == Close(d) /\ unsaved' = [unsaved EXCEPT ![d] = {}]
-----------------------------------------------------------------------------
\* The DEX of the adapter at work.
Current(d) == Selected[d][adapter[d]]

\* What the checks of verify_contracts may come to.  Swappi asks for the code and
\* what factory and router say of each other: an RpcError of such a call is a
\* failed check, one of get_code ends the verification without any.
PairChecks == SUBSET {"ok", "no code", "unreadable", "mismatch"}

\* VSwap asks for the code at four addresses: whatever goes wrong is a failed check.
CodeChecks == SUBSET {"ok", "no code", "unreadable", "unconfigured"} \ {{}}

Checks(x) == IF x \in DropsLookups THEN CodeChecks ELSE PairChecks

\* bool(checks) and not failed: no DEX is verified by no checks.
Verdict(checks) == IF checks = {"ok"} THEN "verified" ELSE "unverified"

\* _register_dex: verify on chain, record the outcome, report a failed check
\* or write.  Discovery goes on either way.
RegisterDex(d) ==
  /\ pc[d] = "register" /\ adapter[d] <= Len(Selected[d])
  /\ \/ /\ Store(d)
        /\ \E checks \in Checks(Current(d)) :
             /\ dexes' = [dexes EXCEPT ![Current(d)] = Verdict(checks)]
             /\ IF Verdict(checks) = "verified" THEN UNCHANGED summary ELSE Report(d, {Current(d)})
        /\ UNCHANGED pools
     \/ StorageError(d) /\ Report(d, {Current(d)})
  /\ Goto(d, "discover")
  /\ UNCHANGED <<faulty, local>>

\* What adapter.discover_pools may return: Swappi raises when a getPair lookup
\* fails, VSwap skips a getPool lookup that does and says nothing.
ByPair(x) == {PoolsOf[x]}
ByTier(x) == SUBSET PoolsOf[x]
Listed(x) == IF x \in DropsLookups THEN ByTier(x) ELSE ByPair(x)

\* The first max_pools, in an order that says nothing about the pools.
Capped(ps) ==
  IF Cardinality(ps) <= MaxPools THEN {ps}
  ELSE {some \in SUBSET ps : Cardinality(some) = MaxPools}

DiscoverPools(d) ==
  /\ pc[d] = "discover"
  /\ \E listed \in Listed(Current(d)) : \E ps \in Capped(listed) :
       /\ left' = [left EXCEPT ![d] = ps]
       /\ summary' = [summary EXCEPT ![d].found = @ \cup ps]
  /\ seen' = [seen EXCEPT ![d] = {}]
  /\ Goto(d, "persist")
  /\ UNCHANGED <<conn, faulty, db, unsaved, adapter, pool, todo>>

\* Mutant: the loop advances twice.
NextAdapterTwice(d) ==
  /\ adapter' = [adapter EXCEPT ![d] = @ + 2]
  /\ Goto(d, "register")

NextAdapter(d) ==
  /\ adapter' = [adapter EXCEPT ![d] = @ + 1]
  /\ Goto(d, "register")

\* discover_pools raises ConfluxAnalyticsError: the adapter is skipped.
DiscoverFails(d) ==
  /\ pc[d] = "discover"
  /\ Report(d, {Current(d)})
  /\ NextAdapter(d)
  /\ UNCHANGED <<conn, faulty, db, unsaved, left, pool, todo, seen>>

PoolStored(d, p) ==
  /\ Store(d)
  /\ pools' = pools \cup {p}
  /\ summary' = [summary EXCEPT ![d].persisted = @ \cup {p}]
  /\ pool' = [pool EXCEPT ![d] = p]
  /\ todo' = [todo EXCEPT ![d] = TokensOf[p] \ seen[d]]
  /\ UNCHANGED dexes

\* Mutants: the error is not recorded; the loop goes on to the tokens.
PoolFailedSilently(d, p) ==
  /\ StorageError(d)
  /\ UNCHANGED <<pool, todo, summary>>
PoolFailedGoesOn(d, p) ==
  /\ StorageError(d)
  /\ Report(d, {p})
  /\ todo' = [todo EXCEPT ![d] = TokensOf[p] \ seen[d]]
  /\ UNCHANGED pool

\* A pool that cannot be stored is reported and its tokens are left alone.
PoolFailed(d, p) ==
  /\ StorageError(d)
  /\ Report(d, {p})
  /\ UNCHANGED <<pool, todo>>

\* Mutant: a pool that failed is tried again.
UpsertPoolRetrying(d, p) ==
  /\ pc[d] = "persist" /\ todo[d] = {} /\ p \in left[d]
  /\ \/ left' = [left EXCEPT ![d] = @ \ {p}] /\ PoolStored(d, p)
     \/ PoolFailed(d, p) /\ UNCHANGED left
  /\ UNCHANGED <<faulty, pc, adapter, seen>>

UpsertPool(d, p) ==
  /\ pc[d] = "persist" /\ todo[d] = {} /\ p \in left[d]
  /\ left' = [left EXCEPT ![d] = @ \ {p}]
  /\ PoolStored(d, p) \/ PoolFailed(d, p)
  /\ UNCHANGED <<faulty, pc, adapter, seen>>

\* token_metadata answers with or without decimals; upsert_token writes the
\* answer, over an earlier row if there is one, and does not commit.
TokenWritten(d, t) ==
  /\ Write(d)
  /\ unsaved' = [unsaved EXCEPT ![d] = @ \cup {t}]
  /\ summary' = [summary EXCEPT ![d].counted = @ \cup {t}]
  /\ UNCHANGED db

\* Mutant: the token is counted before the statement has run.
UpsertTokenCountedFirst(d, t) ==
  /\ pc[d] = "persist" /\ t \in todo[d]
  /\ todo' = [todo EXCEPT ![d] = @ \ {t}]
  /\ seen' = [seen EXCEPT ![d] = @ \cup {t}]
  /\ \/ TokenWritten(d, t)
     \/ /\ StorageError(d)
        /\ summary' = [summary EXCEPT ![d].counted = @ \cup {t}, ![d].errors = @ \cup {t}]
  /\ UNCHANGED <<faulty, pc, adapter, left, pool>>

UpsertToken(d, t) ==
  /\ pc[d] = "persist" /\ t \in todo[d]
  /\ todo' = [todo EXCEPT ![d] = @ \ {t}]
  /\ seen' = [seen EXCEPT ![d] = @ \cup {t}]
  /\ TokenWritten(d, t) \/ (StorageError(d) /\ Report(d, {t}))
  /\ UNCHANGED <<faulty, pc, adapter, left, pool>>

AdapterDone(d) ==
  /\ pc[d] = "persist" /\ todo[d] = {} /\ left[d] = {}
  /\ NextAdapter(d)
  /\ UNCHANGED <<conn, faulty, db, unsaved, left, pool, todo, seen, summary>>

\* discover returns its summary and _cmd_discover closes the pipeline.
Return(d) ==
  /\ pc[d] = "register" /\ adapter[d] > Len(Selected[d])
  /\ Goto(d, "returned")
  /\ End(d)
  /\ UNCHANGED <<faulty, db, local, summary>>

\* The process ends early: killed, or by an exception nobody catches (a
\* ValueError of discover_pools, for one); it prints no summary.
Fail(d) ==
  /\ pc[d] \notin Over
  /\ Goto(d, "ended")
  /\ End(d)
  /\ left' = [left EXCEPT ![d] = {}]
  /\ pool' = [pool EXCEPT ![d] = NoPool]
  /\ todo' = [todo EXCEPT ![d] = {}]
  /\ seen' = [seen EXCEPT ![d] = {}]
  /\ summary' = [summary EXCEPT ![d] = NoSummary]
  /\ adapter' = [adapter EXCEPT ![d] = 1]
  /\ UNCHANGED <<faulty, db>>

Step(d) ==
  \/ RegisterDex(d) \/ DiscoverPools(d) \/ DiscoverFails(d)
  \/ \E p \in Pool : UpsertPool(d, p)
  \/ \E t \in Token : UpsertToken(d, t)
  \/ AdapterDone(d) \/ Return(d)

Next == \E d \in Process : Step(d) \/ Fail(d)

Spec == Init /\ [][Next]_vars

\* Every call returns, by an answer, an error or a timeout.
FairSpec == Spec /\ \A d \in Process : WF_vars(Step(d))
-----------------------------------------------------------------------------
TypeOK ==
  /\ conn \in [Process -> ConnState]
  /\ faulty \in BOOLEAN
  /\ pools \subseteq Pool /\ tokens \subseteq Token
  /\ dexes \in [Dex -> {"absent", "verified", "unverified"}]
  /\ unsaved \in [Process -> SUBSET Token]
  /\ pc \in [Process -> Phase]
  /\ adapter \in [Process -> Nat]
  /\ \A d \in Process : adapter[d] \in 1 .. Len(Selected[d]) + 1
  /\ left \in [Process -> SUBSET Pool]
  /\ pool \in [Process -> Pool \cup {NoPool}]
  /\ todo \in [Process -> SUBSET Token] /\ seen \in [Process -> SUBSET Token]
  /\ summary \in [Process -> [found : SUBSET Pool, persisted : SUBSET Pool, counted : SUBSET Token,
                              errors : SUBSET (Pool \cup Token \cup Dex)]]

\* d was asked for x, and has reported it or died.
Blames(d, x) ==
  /\ \E i \in DOMAIN Selected[d] : Selected[d][i] = x
  /\ x \in summary[d].errors \/ pc[d] = "ended"

\* DiscoveryResult hides nothing the loops of discover_for_adapter came past,
\* whatever failed under way: a pool found is in the catalog, in the errors or
\* still to come; a token of a pool it persisted is counted, in the errors or
\* still to come; a DEX it left behind has a row or an error; and no DEX is in
\* the catalog unverified unless a discovery of it has said so, or died.
SummaryComplete ==
  /\ \A x \in Dex : dexes[x] = "unverified" => \E d \in Process : Blames(d, x)
  /\ \A d \in Process :
       /\ summary[d].persisted \subseteq pools
       /\ summary[d].found \subseteq summary[d].persisted \cup summary[d].errors \cup left[d]
       /\ \A p \in summary[d].persisted :
            TokensOf[p] \subseteq summary[d].counted \cup summary[d].errors \cup todo[d]
       /\ \A i \in DOMAIN Selected[d] :
            i < adapter[d] /\ dexes[Selected[d][i]] = "absent" => Selected[d][i] \in summary[d].errors

\* upsert_token leaves its transaction open across RPC calls and later
\* statements, and no failure is ever rolled back: all the same two processes
\* never hold the write lock at once, only its holder has unsaved rows, and no
\* failed statement makes a later one fail once the lock is free (there is no
\* SELECT in discover to pin a snapshot, as there is in run_collection).
FailuresDoNotSpread ==
  /\ \A c, d \in Process : conn[c] = "writer" /\ conn[d] = "writer" => c = d
  /\ \A d \in Process :
       /\ conn[d] \notin {"snapshot", "stale"}
       /\ unsaved[d] # {} => conn[d] = "writer"

\* The tokens of the last pool d has persisted.
LastTokens(d) == IF pool[d] = NoPool THEN {} ELSE TokensOf[pool[d]]

\* How much of tokens_persisted may be lost when statements only ever fail on
\* the lock: while discover runs, what it counted is stored or in its
\* transaction; when it has returned, all that is missing are tokens of one
\* pool, the last it persisted.
LossIsOnePools ==
  \A d \in Process : ~faulty =>
    /\ pc[d] \notin Over => summary[d].counted \subseteq tokens \cup unsaved[d]
    /\ pc[d] = "returned" => summary[d].counted \subseteq tokens \cup LastTokens(d)

\* Every discovery comes to an end, whoever holds the write lock meanwhile.
DiscoveryEnds == \A d \in Process : <>(pc[d] \in Over)

\* discovery.py:52 "Discover pools for one adapter and persist them with token
\* metadata": what tokens_persisted counts is in the database afterwards.
CountedTokensStored ==
  \A d \in Process : pc[d] = "returned" => summary[d].counted \subseteq tokens

TheCatalog == INSTANCE Catalog

\* Concurrent discoveries implement Catalog.
ImplementsCatalog == TheCatalog!Spec
=============================================================================
