-------------------------- MODULE DiscoveryProofs --------------------------
(* Theorems about Discovery, for any number of processes, DEXs, pools and     *)
(* tokens, any selection of adapters and any faults.                          *)
EXTENDS Discovery, TLAPS

\* The connections and their open transactions.
ConnInv ==
  /\ conn \in [Process -> {"auto", "open", "writer"}]
  /\ unsaved \in [Process -> SUBSET Token]
  /\ \A c, d \in Process : conn[c] = "writer" /\ conn[d] = "writer" => c = d
  /\ \A d \in Process : unsaved[d] # {} => conn[d] = "writer"

Summary == [found : SUBSET Pool, persisted : SUBSET Pool, counted : SUBSET Token,
            errors : SUBSET (Pool \cup Token \cup Dex)]

Typed ==
  /\ faulty \in BOOLEAN
  /\ pools \subseteq Pool /\ tokens \subseteq Token
  /\ dexes \in [Dex -> {"absent", "verified", "unverified"}]
  /\ pc \in [Process -> Phase]
  /\ adapter \in [Process -> Nat]
  /\ left \in [Process -> SUBSET Pool]
  /\ pool \in [Process -> Pool \cup {NoPool}]
  /\ todo \in [Process -> SUBSET Token] /\ seen \in [Process -> SUBSET Token]
  /\ summary \in [Process -> Summary]

\* Where discover is: past _register_dex the adapter has a row or an error,
\* and outside the loop over the pools nothing is left of it.
Placed(d) ==
  /\ adapter[d] \in 1 .. Len(Selected[d]) + 1
  /\ pc[d] \in {"discover", "persist"} =>
       /\ adapter[d] <= Len(Selected[d])
       /\ dexes[Current(d)] # "absent" \/ Current(d) \in summary[d].errors
  /\ pc[d] # "persist" => left[d] = {} /\ todo[d] = {}

\* The transaction of d, and what d still has to visit, are tokens of the last
\* pool it persisted; a token it has seen is counted or in the errors.
Recent(d) ==
  /\ pool[d] # NoPool => pool[d] \in pools
  /\ todo[d] \subseteq LastTokens(d)
  /\ unsaved[d] \subseteq LastTokens(d)
  /\ seen[d] \subseteq summary[d].counted \cup summary[d].errors

\* SummaryComplete and LossIsOnePools, for one process.
Complete(d) ==
  /\ summary[d].persisted \subseteq pools
  /\ summary[d].found \subseteq summary[d].persisted \cup summary[d].errors \cup left[d]
  /\ \A p \in summary[d].persisted :
       TokensOf[p] \subseteq summary[d].counted \cup summary[d].errors \cup todo[d]
  /\ \A i \in DOMAIN Selected[d] :
       i < adapter[d] /\ dexes[Selected[d][i]] = "absent" => Selected[d][i] \in summary[d].errors
Kept(d) ==
  ~faulty =>
    /\ pc[d] \notin Over => summary[d].counted \subseteq tokens \cup unsaved[d]
    /\ pc[d] = "returned" => summary[d].counted \subseteq tokens \cup LastTokens(d)

Good(d) == Placed(d) /\ Recent(d) /\ Complete(d) /\ Kept(d)

\* The inductive invariant.  LossIsOnePools needs Recent: tokens are only lost
\* with a transaction, and a transaction only holds tokens of one pool.
IInv == ConnInv /\ Typed /\ \A d \in Process : Good(d)

-----------------------------------------------------------------------------
(* The connections *)

\* The transactions of the others are left alone.
Alone(d) == \A c \in Process \ {d} : unsaved'[c] = unsaved[c]

LEMMA StoreConn ==
  ASSUME ConnInv, NEW d \in Process, Store(d)
  PROVE  ConnInv' /\ Alone(d) /\ unsaved'[d] = {} /\ tokens' = tokens \cup unsaved[d]
BY DEF ConnInv, Store, WriteCommit, AfterCommit, Alone

LEMMA WriteConn ==
  ASSUME ConnInv, NEW d \in Process, NEW t \in Token, Write(d),
         unsaved' = [unsaved EXCEPT ![d] = @ \cup {t}]
  PROVE  ConnInv' /\ Alone(d) /\ unsaved'[d] = unsaved[d] \cup {t}
BY DEF ConnInv, Write, CanWrite, Busy, Alone

LEMMA EndConn ==
  ASSUME ConnInv, NEW d \in Process, End(d)
  PROVE  ConnInv' /\ Alone(d) /\ unsaved'[d] = {}
BY DEF ConnInv, End, Close, Alone

\* A failed statement takes rows from nobody, unless SQLite itself rolls back.
LEMMA ErrorConn ==
  ASSUME ConnInv, NEW d \in Process, StorageError(d)
  PROVE  ConnInv' /\ Alone(d) /\ UNCHANGED db
         /\ (unsaved'[d] = unsaved[d] \/ (faulty /\ unsaved'[d] = {}))
<1>1. CASE LockedOut(d) /\ UNCHANGED unsaved
  BY <1>1 DEF StorageError, ConnInv, LockedOut, CanWrite, Busy, Alone
<1>2. CASE Write(d) /\ UNCHANGED unsaved
  BY <1>2 DEF StorageError, ConnInv, Write, CanWrite, Busy, Alone
<1>3. CASE faulty /\ Close(d) /\ unsaved' = [unsaved EXCEPT ![d] = {}]
  BY <1>3 DEF StorageError, ConnInv, Close, Alone
<1> QED BY <1>1, <1>2, <1>3 DEF StorageError

-----------------------------------------------------------------------------
(* One process steps, the others stand *)

\* The tables only grow.
Grows ==
  /\ pools \subseteq pools' /\ tokens \subseteq tokens'
  /\ \A x \in Dex : dexes[x] # "absent" => dexes'[x] # "absent"
  /\ faulty' = faulty

OthersStand(d) ==
  \A c \in Process \ {d} :
    /\ pc'[c] = pc[c] /\ adapter'[c] = adapter[c] /\ left'[c] = left[c] /\ pool'[c] = pool[c]
    /\ todo'[c] = todo[c] /\ seen'[c] = seen[c] /\ summary'[c] = summary[c]

\* What is good stays good while the tables grow.
LEMMA GoodStays ==
  ASSUME Typed, Grows, NEW d \in Process, Alone(d), OthersStand(d),
         NEW c \in Process \ {d}, Good(c)
  PROVE  Good(c)'
<1>1. /\ unsaved'[c] = unsaved[c] /\ pc'[c] = pc[c] /\ adapter'[c] = adapter[c]
      /\ left'[c] = left[c] /\ pool'[c] = pool[c] /\ todo'[c] = todo[c]
      /\ seen'[c] = seen[c] /\ summary'[c] = summary[c]
  BY DEF Alone, OthersStand
<1>2. Selected[c] \in Seq(Dex)
  BY DiscoveryAssumption
<1>3. Placed(c)'
  <2>1. adapter[c] \in 1 .. Len(Selected[c]) /\ dexes[Current(c)] # "absent" => dexes'[Current(c)] # "absent"
    BY <1>2 DEF Grows, Current
  <2>2. Current(c)' = Current(c)
    BY <1>1 DEF Current
  <2> QED BY <1>1, <2>1, <2>2, <1>2 DEF Good, Placed
<1>4. Recent(c)'
  BY <1>1 DEF Good, Recent, LastTokens, Grows
<1>5. Complete(c)'
  <2>1. \A i \in DOMAIN Selected[c] : dexes'[Selected[c][i]] = "absent" => dexes[Selected[c][i]] = "absent"
    BY <1>2 DEF Grows
  <2> QED BY <1>1, <2>1 DEF Good, Complete, Grows
<1>6. Kept(c)'
  BY <1>1 DEF Good, Kept, LastTokens, Grows
<1> QED BY <1>3, <1>4, <1>5, <1>6 DEF Good

LEMMA StepKeeps ==
  ASSUME IInv, NEW d \in Process,
         ConnInv', Typed', Alone(d), Grows, OthersStand(d), Good(d)'
  PROVE  IInv'
BY GoodStays DEF IInv

-----------------------------------------------------------------------------
(* The steps *)

\* The summary of d, and of nobody else, has more errors and is else the same.
ReportedMore(d) ==
  /\ summary' \in [Process -> Summary]
  /\ \A c \in Process \ {d} : summary'[c] = summary[c]
  /\ summary'[d].found = summary[d].found /\ summary'[d].persisted = summary[d].persisted
  /\ summary'[d].counted = summary[d].counted
  /\ summary[d].errors \subseteq summary'[d].errors

LEMMA Reported ==
  ASSUME Typed, NEW d \in Process, NEW what \in SUBSET (Pool \cup Token \cup Dex), Report(d, what)
  PROVE  ReportedMore(d) /\ summary'[d].errors = summary[d].errors \cup what
<1>1. summary[d] \in Summary
  BY DEF Typed
<1>2. summary'[d] = [summary[d] EXCEPT !.errors = @ \cup what]
  BY DEF Report, Typed
<1>3. \A c \in Process \ {d} : summary'[c] = summary[c]
  BY DEF Report, Typed
<1>4. summary'[d] \in Summary /\ summary'[d].errors = summary[d].errors \cup what
  BY <1>1, <1>2 DEF Summary
<1>5. summary' \in [Process -> Summary]
  BY <1>1, <1>4 DEF Report, Typed
<1> QED BY <1>1, <1>2, <1>3, <1>4, <1>5 DEF ReportedMore, Summary

\* What a step of d must do for StepKeeps.
Steps(d) == ConnInv' /\ Typed' /\ Alone(d) /\ Grows /\ OthersStand(d) /\ Good(d)'

\* The adapter at work is one of a DEX.
LEMMA CurrentIsDex ==
  ASSUME NEW d \in Process, adapter[d] \in Nat \ {0}, adapter[d] <= Len(Selected[d])
  PROVE  Current(d) \in Dex
BY DiscoveryAssumption DEF Current

LEMMA RegisterSteps ==
  ASSUME IInv, NEW d \in Process, RegisterDex(d)
  PROVE  Steps(d)
<1> DEFINE x == Current(d)
<1>0. ConnInv /\ Typed /\ Good(d)
  BY DEF IInv
<1>1. /\ pc[d] = "register" /\ pc' = [pc EXCEPT ![d] = "discover"]
      /\ UNCHANGED <<faulty, adapter, left, pool, todo, seen, pools>>
  BY DEF RegisterDex, StorageError, Goto, local, db
<1>2. x \in Dex /\ adapter[d] \in DOMAIN Selected[d] /\ adapter[d] <= Len(Selected[d])
  <2>1. adapter[d] \in Nat \ {0} /\ adapter[d] <= Len(Selected[d])
    BY <1>0 DEF RegisterDex, Good, Placed
  <2> QED BY <2>1, CurrentIsDex, DiscoveryAssumption
<1>3. /\ ConnInv' /\ Alone(d) /\ tokens \subseteq tokens' /\ tokens' \subseteq Token
      /\ unsaved'[d] \subseteq unsaved[d]
      /\ ~faulty => unsaved[d] \subseteq tokens' \cup unsaved'[d]
  <2>1. CASE Store(d)
    BY <1>0, <2>1, StoreConn DEF ConnInv, Typed
  <2>2. CASE StorageError(d)
    BY <1>0, <2>2, ErrorConn DEF Typed, db
  <2> QED BY <2>1, <2>2 DEF RegisterDex
<1>4. /\ dexes' \in [Dex -> {"absent", "verified", "unverified"}]
      /\ \A y \in Dex : dexes[y] # "absent" => dexes'[y] # "absent"
      /\ summary' = summary \/ Report(d, {x})
      /\ dexes'[x] # "absent" \/ Report(d, {x})
  BY <1>0, <1>2 DEF RegisterDex, Verdict, StorageError, db, Typed
<1>5. ReportedMore(d) /\ (dexes'[x] # "absent" \/ x \in summary'[d].errors)
  <2>1. CASE Report(d, {x})
    BY <1>0, <1>2, <2>1, Reported
  <2>2. CASE summary' = summary /\ dexes'[x] # "absent"
    BY <1>0, <2>2 DEF ReportedMore, Typed
  <2> QED BY <1>4, <2>1, <2>2
<1>6. Typed'
  BY <1>0, <1>1, <1>3, <1>4, <1>5 DEF Typed, Phase, ReportedMore
<1>7. Grows /\ OthersStand(d)
  BY <1>0, <1>1, <1>3, <1>4, <1>5 DEF Grows, OthersStand, Typed, ReportedMore
<1>8. Good(d)'
  <2>0. pc'[d] = "discover" /\ Current(d)' = x
    BY <1>0, <1>1 DEF Typed, Current
  <2>1. Placed(d)'
    BY <1>0, <1>1, <1>2, <1>5, <2>0 DEF Good, Placed, ReportedMore
  <2>2. Recent(d)'
    BY <1>0, <1>1, <1>3, <1>5 DEF Good, Recent, LastTokens, ReportedMore
  <2>3. Complete(d)'
    BY <1>0, <1>1, <1>4, <1>5, DiscoveryAssumption DEF Good, Complete, ReportedMore
  <2>4. Kept(d)'
    BY <1>0, <1>1, <1>3, <1>5, <2>0 DEF Good, Kept, Over, ReportedMore
  <2> QED BY <2>1, <2>2, <2>3, <2>4 DEF Good
<1> QED BY <1>3, <1>6, <1>7, <1>8 DEF Steps

LEMMA DiscoverSteps ==
  ASSUME IInv, NEW d \in Process, DiscoverPools(d)
  PROVE  Steps(d)
<1>0. ConnInv /\ Typed /\ Good(d)
  BY DEF IInv
<1>1. UNCHANGED <<conn, faulty, db, unsaved, adapter, pool, todo>> /\ pc[d] = "discover"
      /\ pc' = [pc EXCEPT ![d] = "persist"] /\ seen' = [seen EXCEPT ![d] = {}]
  BY DEF DiscoverPools, Goto
<1>2. PICK ps \in SUBSET Pool : /\ left' = [left EXCEPT ![d] = ps]
                               /\ summary' = [summary EXCEPT ![d].found = @ \cup ps]
  <2>1. Current(d) \in Dex
    BY <1>0, <1>1, CurrentIsDex DEF Good, Placed
  <2>2. \A listed \in Listed(Current(d)) : listed \subseteq Pool
    BY <2>1, DiscoveryAssumption DEF Listed, ByPair, ByTier
  <2>3. \A listed \in Listed(Current(d)) : \A ps \in Capped(listed) : ps \subseteq Pool
    BY <2>2 DEF Capped
  <2> QED BY <2>3 DEF DiscoverPools
<1>3. /\ summary' \in [Process -> Summary]
      /\ \A c \in Process \ {d} : summary'[c] = summary[c]
      /\ summary'[d].found = summary[d].found \cup ps
      /\ summary'[d].persisted = summary[d].persisted
      /\ summary'[d].counted = summary[d].counted /\ summary'[d].errors = summary[d].errors
  <2>1. summary[d] \in Summary /\ summary'[d] = [summary[d] EXCEPT !.found = @ \cup ps]
    BY <1>0, <1>2 DEF Typed
  <2>2. summary'[d] \in Summary
    BY <2>1 DEF Summary
  <2>3. summary' \in [Process -> Summary] /\ \A c \in Process \ {d} : summary'[c] = summary[c]
    BY <1>0, <1>2, <2>1, <2>2 DEF Typed
  <2> QED BY <2>1, <2>2, <2>3 DEF Summary
<1>4. ConnInv' /\ Alone(d)
  BY <1>0, <1>1 DEF ConnInv, Alone
<1>5. Typed'
  BY <1>0, <1>1, <1>2, <1>3 DEF Typed, Phase, db
<1>6. Grows /\ OthersStand(d)
  BY <1>0, <1>1, <1>2, <1>3 DEF Grows, OthersStand, Typed, db
<1>7. Good(d)'
  <2>0. pc'[d] = "persist" /\ left'[d] = ps /\ seen'[d] = {} /\ left[d] = {}
        /\ Current(d)' = Current(d)
    BY <1>0, <1>1, <1>2 DEF Typed, Current, Good, Placed
  <2>1. Placed(d)'
    BY <1>0, <1>1, <1>3, <2>0 DEF Good, Placed, db
  <2>2. Recent(d)'
    BY <1>0, <1>1, <1>3, <2>0 DEF Good, Recent, LastTokens, db
  <2>3. Complete(d)'
    BY <1>0, <1>1, <1>3, <2>0 DEF Good, Complete, db
  <2>4. Kept(d)'
    BY <1>0, <1>1, <1>3, <2>0 DEF Good, Kept, Over, db
  <2> QED BY <2>1, <2>2, <2>3, <2>4 DEF Good
<1> QED BY <1>4, <1>5, <1>6, <1>7 DEF Steps

\* Leaving an adapter: by an error of discover_pools, or after its last pool.
LEMMA NextAdapterSteps ==
  ASSUME IInv, NEW d \in Process, DiscoverFails(d) \/ AdapterDone(d)
  PROVE  Steps(d)
<1>0. ConnInv /\ Typed /\ Good(d)
  BY DEF IInv
<1>1. /\ UNCHANGED <<conn, faulty, db, unsaved, left, pool, todo, seen>>
      /\ pc[d] \in {"discover", "persist"} /\ pc' = [pc EXCEPT ![d] = "register"]
      /\ adapter' = [adapter EXCEPT ![d] = @ + 1]
  BY DEF DiscoverFails, AdapterDone, NextAdapter, Goto
<1>2. left[d] = {} /\ todo[d] = {}
  BY <1>0 DEF DiscoverFails, AdapterDone, Good, Placed
<1>3. Current(d) \in Dex
  BY <1>0, <1>1, CurrentIsDex DEF Good, Placed
<1>4. ReportedMore(d)
  <2>1. CASE Report(d, {Current(d)})
    BY <1>0, <1>3, <2>1, Reported
  <2>2. CASE summary' = summary
    BY <1>0, <2>2 DEF ReportedMore, Typed
  <2> QED BY <2>1, <2>2 DEF DiscoverFails, AdapterDone
<1>5. ConnInv' /\ Alone(d)
  BY <1>0, <1>1 DEF ConnInv, Alone
<1>6. Typed'
  <2>1. adapter' \in [Process -> Nat]
    BY <1>0, <1>1 DEF Typed
  <2>2. pc' \in [Process -> Phase]
    BY <1>0, <1>1 DEF Typed, Phase
  <2> QED BY <1>0, <1>1, <1>4, <2>1, <2>2 DEF Typed, db, ReportedMore
<1>7. Grows /\ OthersStand(d)
  BY <1>0, <1>1, <1>4 DEF Grows, OthersStand, Typed, db, ReportedMore
<1>8. Good(d)'
  <2>0. pc'[d] = "register" /\ adapter'[d] = adapter[d] + 1 /\ adapter[d] <= Len(Selected[d])
        /\ adapter[d] \in Nat /\ Selected[d] \in Seq(Dex)
    BY <1>0, <1>1, DiscoveryAssumption DEF Typed, Good, Placed
  <2>1. Placed(d)'
    BY <1>0, <1>1, <1>2, <2>0 DEF Good, Placed
  <2>2. Recent(d)'
    BY <1>0, <1>1, <1>4 DEF Good, Recent, LastTokens, db, ReportedMore
  <2>3. Complete(d)'
    <3>1. \A i \in DOMAIN Selected[d] : i < adapter'[d] => i < adapter[d] \/ i = adapter[d]
      BY <2>0
    <3>2. dexes[Selected[d][adapter[d]]] = "absent" => Selected[d][adapter[d]] \in summary[d].errors
      BY <1>0, <1>1 DEF Good, Placed, Current
    <3>3. \A i \in DOMAIN Selected[d] :
            i < adapter'[d] /\ dexes[Selected[d][i]] = "absent" => Selected[d][i] \in summary'[d].errors
      BY <1>0, <1>4, <3>1, <3>2 DEF Good, Complete, ReportedMore
    <3> QED BY <1>0, <1>1, <1>4, <3>3 DEF Good, Complete, db, ReportedMore
  <2>4. Kept(d)'
    BY <1>0, <1>1, <1>4, <2>0 DEF Good, Kept, Over, db, ReportedMore
  <2> QED BY <2>1, <2>2, <2>3, <2>4 DEF Good
<1> QED BY <1>5, <1>6, <1>7, <1>8 DEF Steps

LEMMA UpsertPoolSteps ==
  ASSUME IInv, NEW d \in Process, NEW p \in Pool, UpsertPool(d, p)
  PROVE  Steps(d)
<1>0. ConnInv /\ Typed /\ Good(d)
  BY DEF IInv
<1>1. /\ UNCHANGED <<faulty, pc, adapter, seen, dexes>> /\ pc[d] = "persist" /\ todo[d] = {}
      /\ left' = [left EXCEPT ![d] = @ \ {p}]
  BY DEF UpsertPool, PoolStored, PoolFailed, StorageError, db
<1>2. CASE PoolStored(d, p)
  <2>1. /\ ConnInv' /\ Alone(d) /\ unsaved'[d] = {} /\ tokens' = tokens \cup unsaved[d]
        /\ pools' = pools \cup {p} /\ pool' = [pool EXCEPT ![d] = p]
        /\ todo' = [todo EXCEPT ![d] = TokensOf[p] \ seen[d]]
        /\ summary' = [summary EXCEPT ![d].persisted = @ \cup {p}]
    BY <1>0, <1>2, StoreConn DEF PoolStored
  <2>2. /\ summary' \in [Process -> Summary] /\ \A c \in Process \ {d} : summary'[c] = summary[c]
        /\ summary'[d].found = summary[d].found /\ summary'[d].counted = summary[d].counted
        /\ summary'[d].persisted = summary[d].persisted \cup {p}
        /\ summary'[d].errors = summary[d].errors
    <3>1. summary[d] \in Summary /\ summary'[d] = [summary[d] EXCEPT !.persisted = @ \cup {p}]
      BY <1>0, <2>1 DEF Typed
    <3>2. summary'[d] \in Summary
      BY <3>1 DEF Summary
    <3>3. summary' \in [Process -> Summary] /\ \A c \in Process \ {d} : summary'[c] = summary[c]
      BY <1>0, <2>1, <3>1, <3>2 DEF Typed
    <3> QED BY <3>1, <3>2, <3>3 DEF Summary
  <2>3. TokensOf[p] \subseteq Token /\ p # NoPool
    BY DiscoveryAssumption
  <2>4. Typed'
    <3>1. left' \in [Process -> SUBSET Pool] /\ todo' \in [Process -> SUBSET Token]
          /\ pool' \in [Process -> Pool \cup {NoPool}]
      BY <1>0, <1>1, <2>1, <2>3 DEF Typed
    <3>2. pools' \subseteq Pool /\ tokens' \subseteq Token
      BY <1>0, <2>1 DEF Typed, ConnInv
    <3> QED BY <1>0, <1>1, <2>2, <3>1, <3>2 DEF Typed
  <2>5. Grows /\ OthersStand(d)
    BY <1>0, <1>1, <2>1, <2>2 DEF Grows, OthersStand, Typed
  <2>6. todo'[d] = TokensOf[p] \ seen[d] /\ pool'[d] = p /\ left'[d] = left[d] \ {p}
    BY <1>0, <1>1, <2>1 DEF Typed
  <2>7. Placed(d)'
    BY <1>0, <1>1, <2>2 DEF Good, Placed, Current
  <2>8. Recent(d)'
    BY <1>0, <1>1, <2>1, <2>2, <2>3, <2>6 DEF Good, Recent, LastTokens
  <2>9. Complete(d)'
    <3>1. TokensOf[p] \subseteq summary[d].counted \cup summary[d].errors \cup todo'[d]
      BY <1>0, <2>6 DEF Good, Recent
    <3> QED BY <1>0, <1>1, <2>1, <2>2, <2>6, <3>1 DEF Good, Complete
  <2>10. Kept(d)'
    BY <1>0, <1>1, <2>1, <2>2 DEF Good, Kept, Over
  <2> QED BY <2>1, <2>4, <2>5, <2>7, <2>8, <2>9, <2>10 DEF Good, Steps
<1>3. CASE PoolFailed(d, p)
  <2>1. /\ ConnInv' /\ Alone(d) /\ UNCHANGED <<pools, tokens, dexes, pool, todo>>
        /\ unsaved'[d] = unsaved[d] \/ (faulty /\ unsaved'[d] = {})
    BY <1>0, <1>3, ErrorConn DEF PoolFailed, db
  <2>2. ReportedMore(d) /\ p \in summary'[d].errors
    BY <1>0, <1>3, Reported DEF PoolFailed
  <2>3. left' \in [Process -> SUBSET Pool] /\ left'[d] = left[d] \ {p}
    BY <1>0, <1>1 DEF Typed
  <2>4. Typed'
    BY <1>0, <1>1, <2>1, <2>2, <2>3 DEF Typed, ReportedMore
  <2>5. Grows /\ OthersStand(d)
    BY <1>0, <1>1, <2>1, <2>2 DEF Grows, OthersStand, Typed, ReportedMore
  <2>6. Placed(d)'
    BY <1>0, <1>1, <2>1, <2>2 DEF Good, Placed, Current, ReportedMore
  <2>7. Recent(d)'
    BY <1>0, <1>1, <2>1, <2>2 DEF Good, Recent, LastTokens, ReportedMore
  <2>8. Complete(d)'
    BY <1>0, <1>1, <2>1, <2>2, <2>3 DEF Good, Complete, ReportedMore
  <2>9. Kept(d)'
    BY <1>0, <1>1, <2>1, <2>2 DEF Good, Kept, Over, ReportedMore
  <2> QED BY <2>1, <2>4, <2>5, <2>6, <2>7, <2>8, <2>9 DEF Good, Steps
<1> QED BY <1>2, <1>3 DEF UpsertPool

LEMMA UpsertTokenSteps ==
  ASSUME IInv, NEW d \in Process, NEW t \in Token, UpsertToken(d, t)
  PROVE  Steps(d)
<1>0. ConnInv /\ Typed /\ Good(d)
  BY DEF IInv
<1>1. /\ UNCHANGED <<faulty, pc, adapter, left, pool, pools, tokens, dexes>>
      /\ pc[d] = "persist" /\ t \in todo[d]
      /\ todo' = [todo EXCEPT ![d] = @ \ {t}] /\ seen' = [seen EXCEPT ![d] = @ \cup {t}]
  BY DEF UpsertToken, TokenWritten, StorageError, db
<1>2. /\ todo'[d] = todo[d] \ {t} /\ seen'[d] = seen[d] \cup {t}
      /\ todo' \in [Process -> SUBSET Token] /\ seen' \in [Process -> SUBSET Token]
  BY <1>0, <1>1 DEF Typed
<1>3. t \in LastTokens(d) /\ LastTokens(d)' = LastTokens(d)
  BY <1>0, <1>1 DEF Good, Recent, LastTokens
<1>4. CASE TokenWritten(d, t)
  <2>1. ConnInv' /\ Alone(d) /\ unsaved'[d] = unsaved[d] \cup {t}
    BY <1>0, <1>4, WriteConn DEF TokenWritten
  <2>2. /\ summary' \in [Process -> Summary] /\ \A c \in Process \ {d} : summary'[c] = summary[c]
        /\ summary'[d].found = summary[d].found
        /\ summary'[d].persisted = summary[d].persisted
        /\ summary'[d].counted = summary[d].counted \cup {t}
        /\ summary'[d].errors = summary[d].errors
    <3>1. summary[d] \in Summary /\ summary'[d] = [summary[d] EXCEPT !.counted = @ \cup {t}]
      BY <1>0, <1>4 DEF Typed, TokenWritten
    <3>2. summary'[d] \in Summary
      BY <3>1 DEF Summary
    <3>3. summary' \in [Process -> Summary] /\ \A c \in Process \ {d} : summary'[c] = summary[c]
      BY <1>0, <1>4, <3>1, <3>2 DEF Typed, TokenWritten
    <3> QED BY <3>1, <3>2, <3>3 DEF Summary
  <2>3. Typed'
    BY <1>0, <1>1, <1>2, <2>2 DEF Typed
  <2>4. Grows /\ OthersStand(d)
    BY <1>0, <1>1, <2>2 DEF Grows, OthersStand, Typed
  <2>5. Placed(d)'
    BY <1>0, <1>1, <2>2 DEF Good, Placed, Current
  <2>6. Recent(d)'
    BY <1>0, <1>1, <1>2, <1>3, <2>1, <2>2 DEF Good, Recent
  <2>7. Complete(d)'
    BY <1>0, <1>1, <1>2, <2>2 DEF Good, Complete
  <2>8. Kept(d)'
    BY <1>0, <1>1, <1>3, <2>1, <2>2 DEF Good, Kept, Over
  <2> QED BY <2>1, <2>3, <2>4, <2>5, <2>6, <2>7, <2>8 DEF Good, Steps
<1>5. CASE StorageError(d) /\ Report(d, {t})
  <2>1. /\ ConnInv' /\ Alone(d)
        /\ unsaved'[d] = unsaved[d] \/ (faulty /\ unsaved'[d] = {})
    BY <1>0, <1>5, ErrorConn
  <2>2. ReportedMore(d) /\ t \in summary'[d].errors
    BY <1>0, <1>5, Reported
  <2>3. Typed'
    BY <1>0, <1>1, <1>2, <2>2 DEF Typed, ReportedMore
  <2>4. Grows /\ OthersStand(d)
    BY <1>0, <1>1, <2>2 DEF Grows, OthersStand, Typed, ReportedMore
  <2>5. Placed(d)'
    BY <1>0, <1>1, <2>2 DEF Good, Placed, Current, ReportedMore
  <2>6. Recent(d)'
    BY <1>0, <1>1, <1>2, <1>3, <2>1, <2>2 DEF Good, Recent, ReportedMore
  <2>7. Complete(d)'
    BY <1>0, <1>1, <1>2, <2>2 DEF Good, Complete, ReportedMore
  <2>8. Kept(d)'
    BY <1>0, <1>1, <2>1, <2>2 DEF Good, Kept, Over, ReportedMore
  <2> QED BY <2>1, <2>3, <2>4, <2>5, <2>6, <2>7, <2>8 DEF Good, Steps
<1> QED BY <1>4, <1>5 DEF UpsertToken

LEMMA ReturnSteps ==
  ASSUME IInv, NEW d \in Process, Return(d)
  PROVE  Steps(d)
<1>0. ConnInv /\ Typed /\ Good(d)
  BY DEF IInv
<1>1. /\ UNCHANGED <<faulty, pools, tokens, dexes, adapter, left, pool, todo, seen, summary>>
      /\ pc[d] = "register" /\ pc' = [pc EXCEPT ![d] = "returned"]
  BY DEF Return, Goto, db, local
<1>2. ConnInv' /\ Alone(d) /\ unsaved'[d] = {}
  BY <1>0, EndConn DEF Return
<1>3. Typed'
  BY <1>0, <1>1 DEF Typed, Phase, Over
<1>4. Grows /\ OthersStand(d)
  BY <1>0, <1>1 DEF Grows, OthersStand, Typed
<1>5. pc'[d] = "returned"
  BY <1>0, <1>1 DEF Typed
<1>6. Placed(d)' /\ Recent(d)' /\ Complete(d)'
  BY <1>0, <1>1, <1>2, <1>5 DEF Good, Placed, Recent, Complete, LastTokens
<1>7. Kept(d)'
  BY <1>0, <1>1, <1>5 DEF Good, Kept, Recent, LastTokens, Over
<1> QED BY <1>2, <1>3, <1>4, <1>6, <1>7 DEF Good, Steps

LEMMA FailSteps ==
  ASSUME IInv, NEW d \in Process, Fail(d)
  PROVE  Steps(d)
<1>0. ConnInv /\ Typed /\ Good(d)
  BY DEF IInv
<1>1. /\ UNCHANGED <<faulty, pools, tokens, dexes>>
      /\ pc' = [pc EXCEPT ![d] = "ended"] /\ adapter' = [adapter EXCEPT ![d] = 1]
      /\ left' = [left EXCEPT ![d] = {}] /\ pool' = [pool EXCEPT ![d] = NoPool]
      /\ todo' = [todo EXCEPT ![d] = {}] /\ seen' = [seen EXCEPT ![d] = {}]
      /\ summary' = [summary EXCEPT ![d] = NoSummary]
  BY DEF Fail, Goto, db
<1>2. ConnInv' /\ Alone(d) /\ unsaved'[d] = {}
  BY <1>0, EndConn DEF Fail
<1>3. Typed'
  BY <1>0, <1>1 DEF Typed, Phase, Over, Summary, NoSummary
<1>4. Grows /\ OthersStand(d)
  BY <1>0, <1>1 DEF Grows, OthersStand, Typed
<1>5. /\ pc'[d] = "ended" /\ adapter'[d] = 1 /\ left'[d] = {} /\ pool'[d] = NoPool
      /\ todo'[d] = {} /\ seen'[d] = {} /\ summary'[d] = NoSummary
  BY <1>0, <1>1 DEF Typed
<1>6. Selected[d] \in Seq(Dex)
  BY DiscoveryAssumption
<1>7. Good(d)'
  BY <1>2, <1>5, <1>6 DEF Good, Placed, Recent, Complete, Kept, LastTokens, NoSummary, Over
<1> QED BY <1>2, <1>3, <1>4, <1>7 DEF Steps

-----------------------------------------------------------------------------
\* The inductive invariant holds of any number of discoveries together.
THEOREM Invariance == Spec => []IInv
<1>1. Init => IInv
  <2> SUFFICES ASSUME Init PROVE IInv
    OBVIOUS
  <2>1. ConnInv /\ Typed
    BY DEF Init, ConnInv, Typed, Phase, Summary, NoSummary
  <2>2. ASSUME NEW d \in Process PROVE Good(d)
    <3>1. Selected[d] \in Seq(Dex)
      BY DiscoveryAssumption
    <3> QED BY <3>1 DEF Init, Good, Placed, Recent, Complete, Kept, LastTokens, NoSummary, Over
  <2> QED BY <2>1, <2>2 DEF IInv
<1>2. IInv /\ [Next]_vars => IInv'
  <2> SUFFICES ASSUME IInv, [Next]_vars PROVE IInv'
    OBVIOUS
  <2>1. CASE UNCHANGED vars
    BY <2>1 DEF vars, db, local, IInv, ConnInv, Typed, Good, Placed, Recent, Complete, Kept,
       LastTokens, Current
  <2>2. ASSUME NEW d \in Process, Step(d) \/ Fail(d) PROVE IInv'
    <3>1. Steps(d)
      BY <2>2, RegisterSteps, DiscoverSteps, NextAdapterSteps, UpsertPoolSteps, UpsertTokenSteps,
         ReturnSteps, FailSteps DEF Step
    <3> QED BY <3>1, StepKeeps DEF Steps
  <2> QED BY <2>1, <2>2 DEF Next
<1> QED BY <1>1, <1>2, PTL DEF Spec

\* discover keeps its tables, its loops and its summary well typed.
THEOREM TypeCorrect == Spec => []TypeOK
<1>1. IInv => TypeOK
  BY DEF IInv, ConnInv, ConnState, Typed, Summary, Good, Placed, TypeOK
<1> QED BY <1>1, Invariance, PTL

\* However a statement fails, the transaction it leaves open costs no other
\* process its lock and no later statement of discover its success.
THEOREM FailuresContained == Spec => []FailuresDoNotSpread
<1>1. IInv => FailuresDoNotSpread
  BY DEF IInv, ConnInv, FailuresDoNotSpread
<1> QED BY <1>1, Invariance, PTL

\* Who has blamed a DEX, or died, goes on to have.
Blamed == \A x \in Dex : dexes[x] = "unverified" => \E d \in Process : Blames(d, x)

\* What a step adds to the unverified DEXs, its errors name.
LEMMA StepVerdicts ==
  ASSUME IInv, NEW d \in Process, Step(d) \/ Fail(d), NEW x \in Dex,
         dexes'[x] = "unverified"
  PROVE  dexes[x] = "unverified" \/ Blames(d, x)'
<1>1. CASE RegisterDex(d)
  <2>1. dexes'[x] = dexes[x] \/ (x = Current(d) /\ Report(d, {x}))
    BY <1>1 DEF RegisterDex, StorageError, db, IInv, Typed
  <2>2. CASE x = Current(d) /\ Report(d, {x})
    <3>1. adapter[d] \in DOMAIN Selected[d]
      BY <1>1, DiscoveryAssumption DEF RegisterDex, IInv, Good, Placed
    <3>2. x \in summary'[d].errors
      BY <2>2, Reported DEF IInv
    <3> QED BY <2>2, <3>1, <3>2 DEF Blames, Current
  <2> QED BY <2>1, <2>2
<1>2. CASE ~RegisterDex(d)
  <2>1. dexes' = dexes
    BY <1>2 DEF Step, Fail, DiscoverPools, DiscoverFails, UpsertPool, PoolStored, PoolFailed,
       UpsertToken, TokenWritten, StorageError, AdapterDone, Return, db
  <2> QED BY <2>1
<1> QED BY <1>1, <1>2

\* Errors are not taken back, but for those of a process that ends early.
LEMMA BlameStays ==
  ASSUME IInv, NEW d \in Process, Step(d) \/ Fail(d), NEW c \in Process, NEW x \in Dex,
         Blames(c, x)
  PROVE  Blames(c, x)'
<1>0. Typed
  BY DEF IInv
<1>1. CASE c # d
  BY <1>1, RegisterSteps, DiscoverSteps, NextAdapterSteps, UpsertPoolSteps, UpsertTokenSteps,
     ReturnSteps, FailSteps DEF Step, Steps, OthersStand, Blames
<1>2. CASE c = d /\ Fail(d)
  BY <1>0, <1>2 DEF Fail, Goto, Blames, Typed
<1>3. CASE c = d /\ Step(d)
  <2>1. pc[d] # "ended"
    BY <1>3 DEF Step, RegisterDex, DiscoverPools, DiscoverFails, UpsertPool, UpsertToken,
       AdapterDone, Return
  <2>2. summary[d].errors \subseteq summary'[d].errors
    BY <1>0, <1>3 DEF Step, RegisterDex, DiscoverPools, DiscoverFails, UpsertPool, PoolStored,
       PoolFailed, UpsertToken, TokenWritten, AdapterDone, Return, Report, Typed, Summary
  <2> QED BY <1>3, <2>1, <2>2 DEF Blames
<1> QED BY <1>1, <1>2, <1>3

\* Whatever discover came past is in its tables or in its errors, and what its
\* checks of a DEX came to, as well.
THEOREM NothingHidden == Spec => []SummaryComplete
<1>1. Init => Blamed
  BY DEF Init, Blamed
<1>2. IInv /\ Blamed /\ [Next]_vars => Blamed'
  <2> SUFFICES ASSUME IInv, Blamed, [Next]_vars PROVE Blamed'
    OBVIOUS
  <2>1. CASE UNCHANGED vars
    BY <2>1 DEF vars, db, Blamed, Blames
  <2>2. ASSUME NEW d \in Process, Step(d) \/ Fail(d) PROVE Blamed'
    BY <2>2, StepVerdicts, BlameStays DEF Blamed
  <2> QED BY <2>1, <2>2 DEF Next
<1>3. IInv /\ Blamed => SummaryComplete
  BY DEF IInv, Good, Complete, Blamed, SummaryComplete
<1> QED BY <1>1, <1>2, <1>3, Invariance, PTL DEF Spec

\* The tokens lost when the connection closes are those of one pool, whatever
\* the number of pools, adapters and concurrent discoveries.
THEOREM BoundedLoss == Spec => []LossIsOnePools
<1>1. IInv => LossIsOnePools
  BY DEF IInv, Good, Kept, LossIsOnePools
<1> QED BY <1>1, Invariance, PTL

\* A step adds at most one pool, and no tokens but those of its transaction.
LEMMA StepTables ==
  ASSUME NEW d \in Process, Step(d) \/ Fail(d)
  PROVE  /\ (\E p \in Pool : pools' = pools \cup {p}) \/ UNCHANGED pools
         /\ tokens' = tokens \cup unsaved[d] \/ UNCHANGED tokens
<1>1. CASE RegisterDex(d)
  BY <1>1 DEF RegisterDex, Store, StorageError, db
<1>2. ASSUME NEW p \in Pool, UpsertPool(d, p)
      PROVE  /\ pools' = pools \cup {p} \/ UNCHANGED pools
             /\ tokens' = tokens \cup unsaved[d] \/ UNCHANGED tokens
  BY <1>2 DEF UpsertPool, PoolStored, PoolFailed, Store, StorageError, db
<1>3. ASSUME NEW t \in Token, UpsertToken(d, t) PROVE UNCHANGED db
  BY <1>3 DEF UpsertToken, TokenWritten, StorageError
<1>4. CASE DiscoverPools(d) \/ DiscoverFails(d) \/ AdapterDone(d) \/ Return(d) \/ Fail(d)
  BY <1>4 DEF DiscoverPools, DiscoverFails, AdapterDone, Return, Fail, db
<1> QED BY <1>1, <1>2, <1>3, <1>4 DEF Step, db

\* Concurrent discoveries implement Catalog: a row for a token appears only
\* once a pool it belongs to has been committed, whoever commits it.
THEOREM Refinement == Spec => ImplementsCatalog
<1>1. Init => TheCatalog!Init
  BY DEF Init, TheCatalog!Init
<1>2. IInv /\ [Next]_vars => [TheCatalog!Next]_(TheCatalog!vars)
  <2> SUFFICES ASSUME IInv, [Next]_vars PROVE [TheCatalog!Next]_(TheCatalog!vars)
    OBVIOUS
  <2>1. CASE UNCHANGED vars
    BY <2>1 DEF vars, db, TheCatalog!vars
  <2>2. ASSUME NEW d \in Process, Step(d) \/ Fail(d) PROVE TheCatalog!Next
    <3>1. unsaved[d] \subseteq Token /\ unsaved[d] \subseteq TheCatalog!Described
      <4>1. unsaved[d] \subseteq LastTokens(d) /\ (pool[d] # NoPool => pool[d] \in pools)
            /\ unsaved[d] \subseteq Token
        BY DEF IInv, ConnInv, Good, Recent
      <4> QED BY <4>1 DEF LastTokens, TheCatalog!Described
    <3>2. TheCatalog!Register
      BY <2>2, StepTables DEF TheCatalog!Register
    <3>3. TheCatalog!Describe
      BY <2>2, <3>1, StepTables DEF TheCatalog!Describe
    <3> QED BY <3>2, <3>3 DEF TheCatalog!Next
  <2> QED BY <2>1, <2>2 DEF Next
<1> QED BY <1>1, <1>2, Invariance, PTL DEF Spec, ImplementsCatalog, TheCatalog!Spec

-----------------------------------------------------------------------------
\* The summary of a process only grows, unless the process ends early.
LEMMA SummaryGrows ==
  ASSUME IInv, NEW d \in Process, Step(d)
  PROVE  /\ summary[d].found \subseteq summary'[d].found
         /\ summary[d].errors \subseteq summary'[d].errors
<1> USE DEF IInv
<1>1. summary[d] \in Summary
  BY DEF Typed
<1>2. ASSUME NEW what, Report(d, what)
      PROVE  summary'[d].found = summary[d].found /\ summary[d].errors \subseteq summary'[d].errors
  BY <1>1, <1>2 DEF Report, Typed, Summary
<1>3. CASE RegisterDex(d) \/ DiscoverFails(d)
  BY <1>1, <1>2, <1>3 DEF RegisterDex, DiscoverFails
<1>4. CASE DiscoverPools(d)
  BY <1>1, <1>4 DEF DiscoverPools, Typed, Summary
<1>5. ASSUME NEW p \in Pool, UpsertPool(d, p)
      PROVE  summary'[d].found = summary[d].found /\ summary[d].errors \subseteq summary'[d].errors
  <2>1. CASE PoolStored(d, p)
    BY <1>1, <2>1 DEF PoolStored, Typed, Summary
  <2>2. CASE PoolFailed(d, p)
    BY <1>2, <2>2 DEF PoolFailed
  <2> QED BY <1>5, <2>1, <2>2 DEF UpsertPool
<1>6. ASSUME NEW t \in Token, UpsertToken(d, t)
      PROVE  summary'[d].found = summary[d].found /\ summary[d].errors \subseteq summary'[d].errors
  <2>1. CASE TokenWritten(d, t)
    BY <1>1, <2>1 DEF TokenWritten, Typed, Summary
  <2>2. CASE Report(d, {t})
    BY <1>2, <2>2
  <2> QED BY <1>6, <2>1, <2>2 DEF UpsertToken
<1>7. CASE AdapterDone(d) \/ Return(d)
  BY <1>7 DEF AdapterDone, Return
<1> QED BY <1>3, <1>4, <1>5, <1>6, <1>7 DEF Step

\* Has d come past the discovery of its i-th DEX?
Past(d, i) == i < adapter[d] \/ (i = adapter[d] /\ pc[d] = "persist")

\* An adapter that raises for a failed lookup, with no more pools than the cap.
Whole(x) == x \notin DropsLookups /\ Cardinality(PoolsOf[x]) <= MaxPools

\* The pools of such a DEX are among those found, or it is in the errors.
ListedAll(d) ==
  \A i \in DOMAIN Selected[d] :
    Past(d, i) /\ Whole(Selected[d][i]) =>
      Selected[d][i] \in summary[d].errors \/ PoolsOf[Selected[d][i]] \subseteq summary[d].found

LEMMA StepLists ==
  ASSUME IInv, NEW d \in Process, ListedAll(d), Step(d)
  PROVE  ListedAll(d)'
<1>0. /\ Typed /\ Selected[d] \in Seq(Dex) /\ adapter[d] \in Nat
      /\ summary[d].found \subseteq summary'[d].found
      /\ summary[d].errors \subseteq summary'[d].errors
  BY SummaryGrows, DiscoveryAssumption DEF IInv, Typed
<1>1. ASSUME \A i \in DOMAIN Selected[d] : Past(d, i)' => Past(d, i)
      PROVE  ListedAll(d)'
  BY <1>0, <1>1 DEF ListedAll
<1>2. CASE RegisterDex(d) \/ Return(d)
  <2>1. adapter'[d] = adapter[d] /\ pc'[d] # "persist"
    BY <1>0, <1>2 DEF RegisterDex, Return, Goto, local, Typed
  <2> QED BY <1>1, <2>1 DEF Past
<1>3. CASE DiscoverPools(d)
  <2>1. Current(d) = Selected[d][adapter[d]] /\ adapter'[d] = adapter[d]
    BY <1>0, <1>3 DEF DiscoverPools, Current
  <2>2. ASSUME Whole(Current(d))
        PROVE  PoolsOf[Current(d)] \subseteq summary'[d].found
    <3>1. Listed(Current(d)) = {PoolsOf[Current(d)]} /\ Capped(PoolsOf[Current(d)]) = {PoolsOf[Current(d)]}
      BY <2>2 DEF Whole, Listed, ByPair, Capped
    <3>2. summary' = [summary EXCEPT ![d].found = @ \cup PoolsOf[Current(d)]]
      BY <1>3, <3>1 DEF DiscoverPools
    <3> QED BY <1>0, <3>2 DEF Typed, Summary
  <2>3. ASSUME NEW i \in DOMAIN Selected[d], Past(d, i)'
        PROVE  Past(d, i) \/ i = adapter[d]
    BY <2>1, <2>3 DEF Past
  <2> QED BY <1>0, <2>1, <2>2, <2>3 DEF ListedAll
<1>4. CASE DiscoverFails(d)
  <2>1. adapter'[d] = adapter[d] + 1 /\ pc'[d] = "register" /\ Current(d) \in summary'[d].errors
    <3>1. adapter[d] <= Len(Selected[d]) /\ adapter[d] \in Nat \ {0}
      BY <1>0, <1>4 DEF DiscoverFails, IInv, Good, Placed
    <3>2. Current(d) \in Dex
      BY <3>1, CurrentIsDex
    <3> QED BY <1>0, <1>4, <3>2, Reported DEF DiscoverFails, NextAdapter, Goto, Typed
  <2>2. ASSUME NEW i \in DOMAIN Selected[d], Past(d, i)'
        PROVE  Past(d, i) \/ Selected[d][i] \in summary'[d].errors
    <3>1. i < adapter[d] \/ i = adapter[d]
      BY <1>0, <2>1, <2>2 DEF Past
    <3> QED BY <2>1, <3>1 DEF Past, Current
  <2> QED BY <1>0, <2>2 DEF ListedAll
<1>5. CASE AdapterDone(d)
  <2>1. adapter'[d] = adapter[d] + 1 /\ pc'[d] = "register" /\ pc[d] = "persist"
    BY <1>0, <1>5 DEF AdapterDone, NextAdapter, Goto, Typed
  <2>2. ASSUME NEW i \in DOMAIN Selected[d], Past(d, i)'
        PROVE  Past(d, i)
    BY <1>0, <2>1, <2>2 DEF Past
  <2> QED BY <1>1, <2>2
<1>6. CASE (\E p \in Pool : UpsertPool(d, p)) \/ (\E t \in Token : UpsertToken(d, t))
  <2>1. adapter' = adapter /\ pc' = pc
    BY <1>6 DEF UpsertPool, UpsertToken
  <2> QED BY <1>1, <2>1 DEF Past
<1> QED BY <1>2, <1>3, <1>4, <1>5, <1>6 DEF Step

\* The invariant behind it: discover_pools of Swappi raises or lists all.
THEOREM ListedInvariance == Spec => [](\A d \in Process : ListedAll(d))
<1>1. Init => \A d \in Process : ListedAll(d)
  <2>1. \A d \in Process : Selected[d] \in Seq(Dex)
    BY DiscoveryAssumption
  <2> QED BY <2>1 DEF Init, ListedAll, Past
<1>2. IInv /\ (\A d \in Process : ListedAll(d)) /\ [Next]_vars => (\A d \in Process : ListedAll(d))'
  <2> SUFFICES ASSUME IInv, \A c \in Process : ListedAll(c), [Next]_vars, NEW c \in Process
               PROVE  ListedAll(c)'
    OBVIOUS
  <2>1. CASE UNCHANGED vars
    BY <2>1 DEF vars, local, ListedAll, Past
  <2>2. ASSUME NEW d \in Process, Step(d) \/ Fail(d), c # d
        PROVE  ListedAll(c)'
    <3>1. adapter'[c] = adapter[c] /\ pc'[c] = pc[c] /\ summary'[c] = summary[c]
      BY <2>2, RegisterSteps, DiscoverSteps, NextAdapterSteps, UpsertPoolSteps, UpsertTokenSteps,
         ReturnSteps, FailSteps DEF Step, Steps, OthersStand
    <3> QED BY <3>1 DEF ListedAll, Past
  <2>3. CASE Step(c)
    BY <2>3, StepLists
  <2>4. CASE Fail(c)
    <3>1. adapter'[c] = 1 /\ pc'[c] = "ended" /\ Selected[c] \in Seq(Dex)
      BY <2>4, DiscoveryAssumption DEF Fail, Goto, IInv, Typed
    <3> QED BY <3>1 DEF ListedAll, Past
  <2> QED BY <2>1, <2>2, <2>3, <2>4 DEF Next
<1> QED BY <1>1, <1>2, Invariance, PTL DEF Spec

\* No news is good news, whatever other processes do meanwhile: a discovery
\* that returns without an error has a row for each of its DEXs, and of a DEX
\* whose adapter raises for failed lookups, and that has no more pools than the
\* cap, every pool is in the catalog and every token of these is counted.
QuietMeansAll ==
  \A d \in Process : pc[d] = "returned" /\ summary[d].errors = {} =>
    \A i \in DOMAIN Selected[d] :
      LET x == Selected[d][i]
      IN /\ dexes[x] # "absent"
         /\ Whole(x) => /\ PoolsOf[x] \subseteq pools
                        /\ \A p \in PoolsOf[x] : TokensOf[p] \subseteq summary[d].counted

\* discover returns when it is through with its adapters.
AtTheEnd == \A d \in Process : pc[d] = "returned" => adapter[d] = Len(Selected[d]) + 1

\* discover and discover_for_adapter, end to end: what the summary says of a
\* discovery without errors can be relied on.
THEOREM NoNewsIsGoodNews == Spec => []QuietMeansAll
<1>1. IInv /\ (\A d \in Process : ListedAll(d)) /\ AtTheEnd => QuietMeansAll
  <2> SUFFICES ASSUME IInv, \A d \in Process : ListedAll(d), AtTheEnd,
                      NEW d \in Process, pc[d] = "returned", summary[d].errors = {},
                      NEW i \in DOMAIN Selected[d]
               PROVE  LET x == Selected[d][i]
                      IN /\ dexes[x] # "absent"
                         /\ Whole(x) => /\ PoolsOf[x] \subseteq pools
                                        /\ \A p \in PoolsOf[x] : TokensOf[p] \subseteq summary[d].counted
    BY DEF QuietMeansAll
  <2>1. i < adapter[d] /\ left[d] = {} /\ todo[d] = {}
    <3>1. Selected[d] \in Seq(Dex) /\ adapter[d] = Len(Selected[d]) + 1
      BY DiscoveryAssumption DEF AtTheEnd
    <3> QED BY <3>1 DEF IInv, Good, Placed
  <2>2. Complete(d) /\ ListedAll(d)
    BY DEF IInv, Good
  <2>3. dexes[Selected[d][i]] # "absent"
    BY <2>1, <2>2 DEF Complete
  <2>4. ASSUME Whole(Selected[d][i])
        PROVE  PoolsOf[Selected[d][i]] \subseteq summary[d].persisted
    BY <2>1, <2>2, <2>4 DEF ListedAll, Past, Complete
  <2> QED BY <2>1, <2>2, <2>3, <2>4 DEF Complete
<1>2. Init => AtTheEnd
  BY DEF Init, AtTheEnd
<1>3. IInv /\ AtTheEnd /\ [Next]_vars => AtTheEnd'
  <2> SUFFICES ASSUME IInv, AtTheEnd, [Next]_vars, NEW c \in Process, pc'[c] = "returned"
               PROVE  adapter'[c] = Len(Selected[c]) + 1
    BY DEF AtTheEnd
  <2>1. CASE UNCHANGED vars
    BY <2>1 DEF vars, local, AtTheEnd
  <2>2. ASSUME NEW d \in Process, Step(d) \/ Fail(d), c # d
        PROVE  adapter'[c] = Len(Selected[c]) + 1
    <3>1. adapter'[c] = adapter[c] /\ pc'[c] = pc[c]
      BY <2>2, RegisterSteps, DiscoverSteps, NextAdapterSteps, UpsertPoolSteps, UpsertTokenSteps,
         ReturnSteps, FailSteps DEF Step, Steps, OthersStand
    <3> QED BY <3>1 DEF AtTheEnd
  <2>3. CASE Step(c) \/ Fail(c)
    <3>1. Return(c)
      BY <2>3 DEF Step, Fail, RegisterDex, DiscoverPools, DiscoverFails, NextAdapter, UpsertPool,
         UpsertToken, AdapterDone, Goto, IInv, Typed
    <3>2. adapter'[c] = adapter[c] /\ adapter[c] > Len(Selected[c])
          /\ adapter[c] \in 1 .. Len(Selected[c]) + 1 /\ Selected[c] \in Seq(Dex)
      BY <3>1, DiscoveryAssumption DEF Return, local, IInv, Good, Placed
    <3> QED BY <3>2
  <2> QED BY <2>1, <2>2, <2>3 DEF Next
<1> QED BY <1>1, <1>2, <1>3, Invariance, ListedInvariance, PTL DEF Spec

-----------------------------------------------------------------------------
\* The turns of the loop over the adapters.
Turn(phase) == CASE phase = "register" -> 1 [] phase = "discover" -> 2 [] phase = "persist" -> 3
                 [] OTHER -> 4

\* Closer to the end: the discovery is over, or at a later adapter, or later in
\* the turn for one, or has fewer of its pools left, or fewer tokens of a pool.
Forward(d) ==
  \/ pc[d] \notin Over /\ pc'[d] \in Over
  \/ adapter[d] < adapter'[d]
  \/ /\ adapter'[d] = adapter[d] /\ Turn(pc[d]) < Turn(pc'[d])
  \/ /\ adapter'[d] = adapter[d] /\ pc'[d] = pc[d]
     /\ \/ left'[d] # left[d] /\ left'[d] \subseteq left[d]
        \/ left'[d] = left[d] /\ todo'[d] # todo[d] /\ todo'[d] \subseteq todo[d]

Still(d) ==
  UNCHANGED <<pc[d], adapter[d], left[d], todo[d], seen[d], pool[d], summary[d], unsaved[d]>>

\* Nothing is done twice: each step of a discovery brings it closer to its end,
\* however its statements fail, and a step of another one changes nothing of
\* what it does, will print or has in its transaction (the part of
\* DiscoveryEnds that is not about time: adapters, pools and tokens are finite).
DiscoveryAdvances == [][\A d \in Process : Forward(d) \/ Still(d)]_vars

LEMMA StepAdvances ==
  ASSUME IInv, NEW d \in Process, Step(d) \/ Fail(d)
  PROVE  Forward(d)
<1>0. Typed
  BY DEF IInv
<1>1. CASE RegisterDex(d)
  <2>1. pc[d] = "register" /\ pc'[d] = "discover" /\ adapter'[d] = adapter[d]
    BY <1>0, <1>1 DEF RegisterDex, Goto, local, Typed
  <2>2. Turn("register") < Turn("discover")
    BY DEF Turn
  <2> QED BY <2>1, <2>2 DEF Forward
<1>2. CASE DiscoverPools(d)
  <2>1. pc[d] = "discover" /\ pc'[d] = "persist" /\ adapter'[d] = adapter[d]
    BY <1>0, <1>2 DEF DiscoverPools, Goto, Typed
  <2>2. Turn("discover") < Turn("persist")
    BY DEF Turn
  <2> QED BY <2>1, <2>2 DEF Forward
<1>3. CASE DiscoverFails(d) \/ AdapterDone(d)
  <2>1. adapter'[d] = adapter[d] + 1 /\ adapter[d] \in Nat
    BY <1>0, <1>3 DEF DiscoverFails, AdapterDone, NextAdapter, Typed
  <2> QED BY <2>1 DEF Forward
<1>4. ASSUME NEW p \in Pool, UpsertPool(d, p)
      PROVE  Forward(d)
  <2>1. p \in left[d] /\ left'[d] = left[d] \ {p} /\ adapter' = adapter /\ pc' = pc
    BY <1>0, <1>4 DEF UpsertPool, Typed
  <2> QED BY <2>1 DEF Forward
<1>5. ASSUME NEW t \in Token, UpsertToken(d, t)
      PROVE  Forward(d)
  <2>1. t \in todo[d] /\ todo'[d] = todo[d] \ {t} /\ UNCHANGED <<adapter, pc, left>>
    BY <1>0, <1>5 DEF UpsertToken, Typed
  <2> QED BY <2>1 DEF Forward
<1>6. CASE Return(d) \/ Fail(d)
  <2>1. pc[d] \notin Over /\ pc'[d] \in Over
    BY <1>0, <1>6 DEF Return, Fail, Goto, Over, Typed
  <2> QED BY <2>1 DEF Forward
<1> QED BY <1>1, <1>2, <1>3, <1>4, <1>5, <1>6 DEF Step

\* discover always comes to its next step, and never back to an earlier one.
THEOREM DiscoveriesGoForward == Spec => DiscoveryAdvances
<1>1. IInv /\ [Next]_vars => [\A d \in Process : Forward(d) \/ Still(d)]_vars
  <2> SUFFICES ASSUME IInv, NEW c \in Process, Step(c) \/ Fail(c), NEW d \in Process
               PROVE  Forward(d) \/ Still(d)
    BY DEF Next
  <2>1. CASE d = c
    BY <2>1, StepAdvances
  <2>2. CASE d # c
    <3>1. Alone(c) /\ OthersStand(c)
      BY RegisterSteps, DiscoverSteps, NextAdapterSteps, UpsertPoolSteps, UpsertTokenSteps,
         ReturnSteps, FailSteps DEF Step, Steps
    <3> QED BY <2>2, <3>1 DEF Alone, OthersStand, Still
  <2> QED BY <2>1, <2>2
<1> QED BY <1>1, Invariance, PTL DEF Spec, DiscoveryAdvances
=============================================================================
