----------------------------- MODULE EventBatch -----------------------------
(* get_swap_events and get_liquidity_events of the adapters (dex/swappi_v2.py *)
(* and dex/vswap_v3.py) on top of EventScan: the fetches of one call over the *)
(* range of the run, sort_logs over what they found, and one log after the    *)
(* other decoded and dated by a call of its own.                              *)
(*                                                                            *)
(* A log is a place in the chain, a topic, and whether its data and its       *)
(* numbers can be decoded.  Nodes return the logs of the topics asked for.    *)
EXTENDS EventScan, Sequences

CONSTANTS Calls,           \* [adapter, kind] a collector may make
          Chains           \* sets of logs the pool may have on chain

Topic == {"swap", "mint", "burn"}
Log   == [block : Block, index : Nat, topic : Topic, data : BOOLEAN, numbers : BOOLEAN]

ASSUME BatchAssumption ==
  /\ Calls \subseteq [adapter : {"v2", "v3"}, kind : {"swap", "liquidity"}]
  /\ \A chain \in Chains :
       /\ chain \subseteq Log
       /\ \A l, m \in chain : l # m => <<l.block, l.index>> # <<m.block, m.index>>

VARIABLES
  call, chain,
  stage,          \* where the call is: Stage
  scan,           \* fetches of the call begun so far
  found,          \* log -> times it is in the results and still to decode
  lost,           \* logs of failed chunks (the call does not look at them)
  events,         \* the events decoded: [log, time]
  times           \* Swappi's _timestamp_cache: block -> time, or "unread"

batchVars == <<call, chain, stage, scan, found, lost, events, times>>
allVars   == <<scanVars, batchVars>>

Stage == {"fetch", "sort", "decode", "returned", "failed", "died"}
Time  == {"known", "null"}

\* The topics of the fetches of a call, in their order.
Fetches(c) ==
  IF c.kind = "swap" THEN <<{"swap"}>>
  ELSE IF c.adapter = "v3" THEN <<{"mint", "burn"}>> ELSE <<{"mint"}, {"burn"}>>

BatchInit ==
  /\ ScanInit
  /\ call \in Calls /\ chain \in Chains
  /\ stage = "fetch" /\ scan = 0
  /\ found = [l \in chain |-> 0]
  /\ lost = {}
  /\ events = <<>>
  /\ times = [b \in Block |-> "unread"]
-----------------------------------------------------------------------------
StartFetch ==
  /\ stage = "fetch" /\ scan < Len(Fetches(call))
  /\ BeginFetch
  /\ scan' = scan + 1
  /\ UNCHANGED <<call, chain, stage, found, lost, events, times>>

\* A POST of the fetch in progress; an exception it does not catch ends the call.
Fetching ==
  /\ \E reply \in Reply : RetryPost(reply) \/ EndCall(reply)
  /\ stage' = IF raised' THEN "died" ELSE stage
  /\ UNCHANGED <<call, chain, scan, found, lost, events, times>>

\* Logs of this fetch, among them those of the given blocks.
OfFetch(blocks) == {l \in chain : l.topic \in Fetches(call)[scan] /\ l.block \in blocks}

\* The fetch returns; its failed_chunks are left unread.
FetchDone ==
  /\ EndFetch
  /\ found' = [l \in chain |-> found[l] + IF l \in OfFetch(Block) THEN taken[l.block] ELSE 0]
  /\ lost' = lost \cup OfFetch(Missed)
  /\ stage' = IF scan = Len(Fetches(call)) THEN "sort" ELSE "fetch"
  /\ UNCHANGED <<call, chain, scan, events, times>>

\* sort_logs decodes blockNumber and logIndex of every log, outside any try.
Sort ==
  /\ stage = "sort"
  /\ stage' = IF \E l \in chain : found[l] > 0 /\ ~l.numbers THEN "died" ELSE "decode"
  /\ UNCHANGED <<scanVars, call, chain, scan, found, lost, events, times>>

Before(l, m) == l.block < m.block \/ (l.block = m.block /\ l.index < m.index)

\* Mutant: the logs are decoded as the fetches returned them, one after another.
FirstAsFetched(l) ==
  /\ l \in chain /\ found[l] > 0
  /\ \A m \in chain : found[m] > 0 /\ m.topic = l.topic => ~Before(m, l)
  /\ l.topic = "burn" => \A m \in chain : m.topic = "mint" => found[m] = 0

\* The log whose turn it is.
First(l) ==
  /\ l \in chain /\ found[l] > 0
  /\ \A m \in chain : found[m] > 0 => ~Before(m, l)

Take(l) == found' = [found EXCEPT ![l] = @ - 1]

\* A log whose data does not decode is dropped with a warning.
Discard(l) ==
  /\ stage = "decode" /\ First(l) /\ ~l.data
  /\ Take(l)
  /\ UNCHANGED <<scanVars, call, chain, stage, scan, lost, events, times>>

Emit(l, time) == events' = Append(events, [log |-> l, time |-> time])

\* Mutant: the answer is not kept.
DateUncached(l) ==
  /\ \E time \in Time : Emit(l, time)
  /\ Take(l)
  /\ UNCHANGED <<stage, times>>

\* Swappi's block_timestamp: from the cache, or read and cached, a block that
\* is not there included; an RpcError goes through to the collector, and the
\* ValueError of a time that is no number goes through the collector as well.
DateCached(l) ==
  \/ /\ times[l.block] # "unread"
     /\ Emit(l, times[l.block]) /\ Take(l)
     /\ UNCHANGED <<stage, times>>
  \/ /\ times[l.block] = "unread"
     /\ \E time \in Time :
          times' = [times EXCEPT ![l.block] = time] /\ Emit(l, time)
     /\ Take(l)
     /\ UNCHANGED stage
  \/ /\ times[l.block] = "unread"
     /\ stage' \in {"failed", "died"}
     /\ UNCHANGED <<found, events, times>>

\* VSwap's: read for every event, and None when it cannot be read; what is read
\* must be numbers here, too.
DateEach(l) ==
  /\ \/ (\E time \in Time : Emit(l, time)) /\ Take(l) /\ UNCHANGED stage
     \/ stage' = "died" /\ UNCHANGED <<found, events>>
  /\ UNCHANGED times

Decode(l) ==
  /\ stage = "decode" /\ First(l) /\ l.data
  /\ IF call.adapter = "v2" THEN DateCached(l) ELSE DateEach(l)
  /\ UNCHANGED <<scanVars, call, chain, scan, lost>>

Deliver ==
  /\ stage = "decode" /\ \A l \in chain : found[l] = 0
  /\ stage' = "returned"
  /\ UNCHANGED <<scanVars, call, chain, scan, found, lost, events, times>>

BatchStep == Fetching \/ FetchDone \/ Sort \/ (\E l \in chain : Discard(l) \/ Decode(l)) \/ Deliver

BatchNext == StartFetch \/ BatchStep

BatchSpec == BatchInit /\ [][BatchNext]_allVars

\* Every POST returns, by a reply or a time-out, and nothing else waits.
FairBatchSpec == BatchSpec /\ WF_allVars(BatchStep)
-----------------------------------------------------------------------------
BatchTypeOK ==
  /\ ScanTypeOK
  /\ call \in Calls /\ chain \in Chains
  /\ stage \in Stage /\ scan \in 0..2
  /\ found \in [chain -> Nat]
  /\ lost \subseteq chain
  /\ events \in Seq([log : chain, time : Time])
  /\ times \in [Block -> Time \cup {"unread"}]

\* A call that returns has, once each and in chain order, an event for every
\* log of its topics that can be decoded in the blocks the command line asks
\* for, but for failed chunks: neither shrinking, retries, a second fetch over
\* the same range nor a malformed log between them costs or doubles an event.
BatchComplete ==
  stage = "returned" =>
    /\ \A i, j \in DOMAIN events : i < j => Before(events[i].log, events[j].log)
    /\ {events[i].log : i \in DOMAIN events} =
         {l \in chain : /\ l.data /\ Wanted(asked, MaxBlock, l.block)
                        /\ \E i \in DOMAIN Fetches(call) : l.topic \in Fetches(call)[i]} \ lost

\* swappi_v2.py:242 "cached per run": the events of one block in a batch of
\* Swappi never disagree about its time, or whether it is known.
OneTimePerBlock ==
  call.adapter = "v2" =>
    \A i, j \in DOMAIN events :
      events[i].log.block = events[j].log.block => events[i].time = events[j].time
=============================================================================
