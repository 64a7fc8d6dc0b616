----------------------------- MODULE LogFetcher -----------------------------
(* chain/logs.py: LogFetcher.fetch, the bounded, self-adjusting eth_getLogs   *)
(* scan.  One Request action is one iteration of its while loop: the call,    *)
(* its answer and everything the loop body does with it.  The adapters run    *)
(* one fetch after another, so the module runs a sequence of them.            *)
(*                                                                            *)
(* A log is abstracted to its block: taken[b] counts how often the logs of    *)
(* block b were added to result.logs.  The error message of an RpcError is    *)
(* abstracted to the kind of answer; SizeAnswers are the kinds whose text     *)
(* carries one of RANGE_TOO_LARGE_MARKERS ("limit" makes a rate limit one).   *)
EXTENDS Integers

CONSTANTS MaxBlock,        \* bound: highest block number a caller may name
          ChunkSize,       \* LogFetcher.chunk_size
          MinChunk,        \* LogFetcher.min_chunk_size, at least 1
          MaxShrinks,      \* LogFetcher.max_shrinks
          Providers,       \* [limit: widest range it ever serves,
                           \*  faults: answers it may give instead of the logs]
          MaxFetches,      \* bound: fetches in one behaviour
          MaxRequests      \* bound: requests in one fetch, more than it issues

SizeAnswers  == {"too_large", "rate_limited"}
ErrorAnswers == SizeAnswers \cup {"error"}
\* ... and an exception that is no RpcError, which fetch() does not catch.
Faults       == ErrorAnswers \cup {"raises"}

ASSUME FetchAssumption ==
  /\ MaxBlock \in Nat
  /\ ChunkSize \in Nat \ {0}
  /\ MinChunk \in Nat \ {0}
  /\ MaxShrinks \in Nat
  /\ Providers \subseteq [limit : Nat, faults : SUBSET Faults]
  /\ MaxFetches \in Nat
  /\ MaxRequests \in Nat /\ MaxRequests > MaxBlock + 1 + MaxShrinks

\* What the proofs need to know of powers: arithmetic, and no demand on the code.
ASSUME PowersOfTwo ==
  /\ 2^0 = 1
  /\ \A n \in 0..MaxShrinks : 2^n \in Nat \ {0} /\ 2^(n + 1) = 2 * 2^n

VARIABLES provider,        \* the provider the adapter talks to
          scanning,        \* inside fetch()?
          from, to,        \* its arguments from_block, to_block
          cursor, chunk, shrinks,
          taken,           \* result.logs: block -> times its logs were added
          failed,          \* result.failed_chunks
          requests,        \* result.requests_issued
          effective,       \* result.effective_chunk_size
          fetches          \* fetches begun so far

vars == <<provider, scanning, from, to, cursor, chunk, shrinks, taken, failed,
          requests, effective, fetches>>

Block == 0..MaxBlock

Init ==
  /\ provider \in Providers
  /\ scanning = FALSE
  /\ from = 0 /\ to = 0 /\ cursor = 0
  /\ chunk = ChunkSize /\ shrinks = 0
  /\ taken = [b \in Block |-> 0]
  /\ failed = {}
  /\ requests = 0
  /\ effective = ChunkSize
  /\ fetches = 0

\* An adapter builds a fetcher and calls fetch(); nothing of an earlier
\* result is consulted.
Begin(f, t) ==
  /\ ~scanning
  /\ fetches < MaxFetches
  /\ scanning' = TRUE
  /\ from' = f /\ to' = t /\ cursor' = f
  /\ chunk' = ChunkSize /\ shrinks' = 0
  /\ taken' = [b \in Block |-> 0]
  /\ failed' = {}
  /\ requests' = 0
  /\ effective' = ChunkSize
  /\ fetches' = fetches + 1
  /\ UNCHANGED provider

\* The last block of the next request: min(cursor + chunk - 1, to_block).
Last == IF cursor + chunk - 1 <= to THEN cursor + chunk - 1 ELSE to

\* What the provider may answer to a request for the given number of blocks.  Its
\* limit comes first: a range beyond it is refused as too wide, with no other fault.
Answers(size) ==
  IF size > provider.limit THEN {"too_large"} ELSE {"logs"} \cup provider.faults

\* Mutants, each a slip in the code that one of the properties catches.
CanShrinkOnceMore(answer) ==
  answer \in SizeAnswers /\ chunk > MinChunk /\ shrinks <= MaxShrinks
HalvedByOne == chunk - 1
AcceptOverlapping ==
  /\ taken' = [b \in Block |-> IF b \in cursor..Last THEN taken[b] + 1 ELSE taken[b]]
  /\ cursor' = IF Last = to THEN to + 1 ELSE Last
  /\ UNCHANGED <<chunk, shrinks, failed, effective>>
ShrinkUncounted(answer) ==
  /\ answer \in SizeAnswers /\ chunk > MinChunk
  /\ chunk' = chunk \div 2 /\ effective' = chunk \div 2
  /\ UNCHANGED <<shrinks, cursor, taken, failed>>
GiveUpSilently(answer) ==
  /\ ~(answer \in SizeAnswers /\ chunk > MinChunk /\ shrinks < MaxShrinks)
  /\ cursor' = Last + 1
  /\ UNCHANGED <<chunk, shrinks, taken, failed, effective>>

CanShrink(answer) ==
  /\ answer \in SizeAnswers
  /\ chunk > MinChunk
  /\ shrinks < MaxShrinks

Halved == IF chunk \div 2 >= MinChunk THEN chunk \div 2 ELSE MinChunk

Accept ==
  /\ taken' = [b \in Block |-> IF b \in cursor..Last THEN taken[b] + 1 ELSE taken[b]]
  /\ cursor' = Last + 1
  /\ UNCHANGED <<chunk, shrinks, failed, effective>>

Shrink(answer) ==
  /\ CanShrink(answer)
  /\ chunk' = Halved
  /\ shrinks' = shrinks + 1
  /\ effective' = Halved
  /\ UNCHANGED <<cursor, taken, failed>>

GiveUp(answer) ==
  /\ ~CanShrink(answer)
  /\ failed' = failed \cup {[from |-> cursor, to |-> Last]}
  /\ cursor' = Last + 1
  /\ UNCHANGED <<chunk, shrinks, taken, effective>>

\* One iteration of the loop: request cursor..Last and act on the answer.
Request(answer) ==
  /\ scanning
  /\ cursor <= to /\ requests < MaxRequests
  /\ answer \in Answers(Last - cursor + 1)
  /\ requests' = requests + 1
  /\ \/ answer = "logs" /\ Accept
     \/ answer # "logs" /\ (Shrink(answer) \/ GiveUp(answer))
  /\ UNCHANGED <<provider, scanning, from, to, fetches>>

\* get_logs raises what fetch() does not catch: the result is lost with it.
Raise ==
  /\ scanning
  /\ cursor <= to /\ requests < MaxRequests
  /\ "raises" \in Answers(Last - cursor + 1)
  /\ scanning' = FALSE
  /\ UNCHANGED <<provider, from, to, cursor, chunk, shrinks, taken, failed, requests,
                 effective, fetches>>

\* Mutant: the loop goes on until every block was served, failed chunks or not.
ReturnServed ==
  /\ scanning
  /\ \A b \in from..to : taken[b] > 0
  /\ scanning' = FALSE
  /\ effective' = chunk
  /\ UNCHANGED <<provider, from, to, cursor, chunk, shrinks, taken, failed, requests, fetches>>

Return ==
  /\ scanning
  /\ cursor > to
  /\ scanning' = FALSE
  /\ effective' = chunk
  /\ UNCHANGED <<provider, from, to, cursor, chunk, shrinks, taken, failed, requests, fetches>>

Fetch == (\E answer \in {"logs"} \cup ErrorAnswers : Request(answer)) \/ Raise \/ Return

Next == (\E f, t \in Block : Begin(f, t)) \/ Fetch

Spec == Init /\ [][Next]_vars

\* The loop never waits: a fetch in progress keeps taking steps.
FairSpec == Spec /\ WF_vars(Fetch)
-----------------------------------------------------------------------------
\* The blocks inside a failed chunk.
Missed == {b \in Block : \E c \in failed : b \in c.from .. c.to}

TypeOK ==
  /\ provider \in Providers
  /\ scanning \in BOOLEAN
  /\ from \in Block /\ to \in Block /\ cursor \in Nat
  /\ chunk \in Nat \ {0} /\ shrinks \in 0..MaxShrinks
  /\ taken \in [Block -> Nat]
  /\ failed \subseteq [from : Nat, to : Nat]
  /\ requests \in Nat
  /\ effective \in Nat \ {0}
  /\ fetches \in 0..MaxFetches

\* LogFetcher.fetch accounts for every block behind the cursor exactly once
\* and for none ahead of it, however often the chunk shrank under way: its
\* logs were added once, or it lies in a reported failed chunk, never both.
EveryBlockSettledOnce ==
  \A b \in Block :
    IF b \in from .. cursor - 1
    THEN (taken[b] = 1 /\ b \notin Missed) \/ (taken[b] = 0 /\ b \in Missed)
    ELSE taken[b] = 0 /\ b \notin Missed

\* Shrinking costs a bounded number of extra calls: at every point of the
\* loop the requests issued are at most the blocks settled so far plus the
\* shrinks taken, so a provider that keeps refusing cannot stall the scan.
RequestsBounded ==
  /\ requests <= (cursor - from) + shrinks
  /\ shrinks <= MaxShrinks

\* The adjustment does its job: a provider whose only refusals are ranges
\* wider than its limit, a limit the halving can reach, costs no block.
LimitReachable ==
  /\ provider.faults = {}
  /\ provider.limit >= MinChunk
  /\ ChunkSize \div 2^MaxShrinks <= provider.limit

AdaptsToLimit == LimitReachable => failed = {}

\* Every fetch an adapter begins returns to it or raises.
FetchReturns == scanning ~> ~scanning

Scan == INSTANCE RangeScan WITH
  pending <- IF scanning THEN cursor..to ELSE {},
  fetched <- {b \in Block : taken[b] > 0},
  missed  <- Missed

\* A fetch implements RangeScan: chunking and shrinking are invisible to the
\* caller, who sees only blocks settled in order.
ImplementsScan == Scan!Spec
=============================================================================
