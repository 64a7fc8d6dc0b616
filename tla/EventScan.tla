----------------------------- MODULE EventScan -----------------------------
(* How a collection run reads events: the range of pipeline.py resolved by    *)
(* resolve_block_range, one LogFetcher.fetch after another over it, and every *)
(* get_logs of a fetch a call with retries.  LogFetcher sees a call as one    *)
(* Request; here a call is its attempts, one HTTP POST each.                  *)
(*                                                                            *)
(* The head of the chain is MaxBlock; heads grow, but a run reads its once.   *)
EXTENDS LogFetcher, RpcCall, BlockRanges, FiniteSets

CONSTANT Asked             \* start_block and end_block of the command line

ASSUME AskedAssumption ==
  Asked \subseteq [start : Int \cup {None}, end : Int \cup {None}]

VARIABLES asked,
          attempt,         \* attempts of the call in progress that have failed
          posts,           \* HTTP POSTs of the fetch
          rpcErrors,       \* RpcProvider._rpc_error_count
          errorsBefore,    \* its value when the fetch began
          unlisted,        \* answers of the fetch that were no list of logs
          raised           \* did the fetch end in an exception?

callVars == <<attempt, posts, rpcErrors, errorsBefore, unlisted, raised>>
scanVars == <<vars, asked, callVars>>

ScanInit ==
  /\ Init
  /\ asked \in Asked
  /\ attempt = 0 /\ posts = 0
  /\ rpcErrors = 0 /\ errorsBefore = 0
  /\ unlisted = 0 /\ raised = FALSE

\* An adapter fetches the range of the run; a refused range ends the run.
BeginFetch ==
  /\ ~RangeRefused(asked, MaxBlock) /\ ~raised
  /\ Begin(RangeStart(asked, MaxBlock), RangeEnd(asked, MaxBlock))
  /\ attempt' = 0 /\ posts' = 0 /\ unlisted' = 0
  /\ errorsBefore' = rpcErrors
  /\ UNCHANGED <<asked, rpcErrors, raised>>

\* The provider's reply to the request for cursor..Last: any that comes, in
\* the end, to something it may answer.
Receive(reply) ==
  /\ scanning /\ cursor <= to /\ requests < MaxRequests
  /\ AsAnswer(reply) \in Answers(Last - cursor + 1)
  /\ posts' = posts + 1

RetryPost(reply) ==
  /\ Receive(reply)
  /\ Fails(reply) /\ Retries(reply, attempt)
  /\ attempt' = attempt + 1
  /\ UNCHANGED <<vars, asked, rpcErrors, errorsBefore, unlisted, raised>>

\* Mutant: the counter counts attempts that failed, not calls.
CountedPerAttempt(reply) ==
  rpcErrors' = IF Fails(reply) THEN rpcErrors + attempt + 1 ELSE rpcErrors

\* call() counts the calls that raise; get_logs() raises, uncounted, for a
\* result that is no list.
CountErrors(reply) ==
  rpcErrors' = IF Fails(reply) THEN rpcErrors + 1 ELSE rpcErrors

\* The call ends with this reply, and fetch() goes on or is broken off by it.
EndCall(reply) ==
  /\ Receive(reply)
  /\ ~(Fails(reply) /\ Retries(reply, attempt))
  /\ attempt' = 0
  /\ CountErrors(reply)
  /\ unlisted' = IF reply.kind = "not_list" THEN unlisted + 1 ELSE unlisted
  /\ \/ AsAnswer(reply) # "raises" /\ Request(AsAnswer(reply)) /\ UNCHANGED raised
     \/ AsAnswer(reply) = "raises" /\ Raise /\ raised' = TRUE
  /\ UNCHANGED <<asked, errorsBefore>>

EndFetch == Return /\ UNCHANGED <<asked, callVars>>

ScanStep == (\E reply \in Reply : RetryPost(reply) \/ EndCall(reply)) \/ EndFetch

ScanNext == BeginFetch \/ ScanStep

ScanSpec == ScanInit /\ [][ScanNext]_scanVars

\* Every POST returns, by a reply or a time-out, and every sleep ends.
FairScanSpec == ScanSpec /\ WF_scanVars(ScanStep)
-----------------------------------------------------------------------------
ScanTypeOK ==
  /\ TypeOK
  /\ asked \in Asked
  /\ attempt \in 0..MaxRetries /\ posts \in Nat
  /\ rpcErrors \in Nat /\ errorsBefore \in Nat
  /\ unlisted \in Nat /\ raised \in BOOLEAN

\* Retries multiply with shrinks: a fetch that is refused, retried and shrunk
\* in any order costs at most Attempts POSTs for each block of its range and
\* each shrink, so neither loop can feed the other for ever.
PostsBounded ==
  scanning \/ raised =>
    posts <= Attempts * ((to - from + 1) + MaxShrinks)

\* rpc_errors of the benchmark: what the provider counted during a fetch is
\* what the fetch shrank for, gave up on or was broken off by, once each
\* however often it was retried, but for the answers that were no list.
ErrorsAccounted ==
  (rpcErrors - errorsBefore) + unlisted
    = shrinks + Cardinality(failed) + (IF raised THEN 1 ELSE 0)

\* Across options, range, chunks and retries: a fetch that returned has
\* settled exactly the blocks the command line asks for, none other is ever
\* touched, and what the caps cut off is the oldest part.
RangeHonoured ==
  \A b \in Block :
    LET settled == taken[b] > 0 \/ b \in Missed
    IN /\ settled => Wanted(asked, MaxBlock, b)
       /\ fetches > 0 /\ ~scanning /\ ~raised /\ Wanted(asked, MaxBlock, b) => settled

\* A fetch whose calls are retried is still a fetch of LogFetcher.
ImplementsFetcher == Spec
=============================================================================
