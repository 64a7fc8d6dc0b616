-------------------------- MODULE EventScanProofs --------------------------
(* Theorems about EventScan, for every option, range, retry budget and reply: *)
(* a fetch whose calls are retried implements LogFetcher, so what is proved   *)
(* of LogFetcher holds of it, and the properties that join the three layers.  *)
EXTENDS EventBatch, LogFetcherProofs, FiniteSetTheorems

-----------------------------------------------------------------------------
(* Facts about one reply and about the resolved range *)

\* A reply counts as a failed call, or as an answer that was no list, exactly
\* when LogFetcher does not get its logs.
LEMMA RepliesCounted ==
  ASSUME NEW reply \in Reply
  PROVE  /\ AsAnswer(reply) \in {"logs"} \cup ErrorAnswers \cup {"raises"}
         /\ AsAnswer(reply) = "logs" => ~Fails(reply) /\ reply.kind # "not_list"
         /\ AsAnswer(reply) \in ErrorAnswers => (Fails(reply) <=> reply.kind # "not_list")
         /\ AsAnswer(reply) = "raises" => Fails(reply) /\ reply.kind # "not_list"
<1>1. CASE reply.kind \in {"list", "not_list"}
  BY <1>1 DEF AsAnswer, Fails, Class, ErrorClass, ErrorAnswers, SizeAnswers
<1>2. CASE reply.kind \in {"timeout", "broken", "not_json", "no_result", "odd_error"}
  BY <1>2 DEF AsAnswer, Fails, Class, ErrorClass, ErrorAnswers, SizeAnswers
<1>3. CASE reply.kind \in {"http", "error"}
  BY <1>3 DEF AsAnswer, Fails, Class, ErrorClass, ErrorAnswers, SizeAnswers
<1> QED BY <1>1, <1>2, <1>3 DEF Reply

\* A range that is not refused is a non-empty range of blocks.
LEMMA RangeInBlocks ==
  ASSUME NEW a \in [start : Int \cup {None}, end : Int \cup {None}], ~RangeRefused(a, MaxBlock)
  PROVE  /\ RangeStart(a, MaxBlock) \in Block /\ RangeEnd(a, MaxBlock) \in Block
         /\ RangeStart(a, MaxBlock) <= RangeEnd(a, MaxBlock)
<1>1. RangeEnd(a, MaxBlock) \in Int /\ RangeEnd(a, MaxBlock) <= MaxBlock
  BY FetchAssumption, RangeAssumption DEF RangeEnd, Smaller
<1>2. WishedStart(a, MaxBlock) \in Int
  BY <1>1, RangeAssumption DEF WishedStart, Larger
<1>3. RangeStart(a, MaxBlock) \in Int
  BY <1>1, <1>2, RangeAssumption DEF RangeStart, Larger
<1> QED BY <1>1, <1>3, FetchAssumption DEF RangeRefused, Block

\* resolve_block_range: whatever the options, the bounds it computes enclose the
\* blocks that the options, the lookback and the cap want, and no other.
THEOREM RangeIsWanted ==
  ASSUME NEW a \in [start : Int \cup {None}, end : Int \cup {None}],
         ~RangeRefused(a, MaxBlock), NEW b \in Block
  PROVE  Wanted(a, MaxBlock, b)
           <=> b \in RangeStart(a, MaxBlock) .. RangeEnd(a, MaxBlock)
<1> DEFINE first == RangeStart(a, MaxBlock)
           last  == RangeEnd(a, MaxBlock)
           named == {c \in 0..MaxBlock : a.end # None => c <= a.end}
           newer == {c \in named : c > b}
           Few(n) == \A c \in newer : c - b < n
<1>1. first \in Block /\ last \in Block /\ first <= last
  BY RangeInBlocks
<1>2. named = 0..last
  BY FetchAssumption, RangeAssumption DEF RangeEnd, Smaller
<1>3. b \in named <=> b <= last
  BY <1>1, <1>2 DEF Block
<1>4. ASSUME NEW n \in Int, b <= last, last - b < n
      PROVE  Few(n)
  BY <1>1, <1>2, <1>4 DEF Block
<1>5. ASSUME NEW n \in Int, b < last, Few(n)
      PROVE  last - b < n
  <2>1. last \in newer
    BY <1>1, <1>2, <1>5 DEF Block
  <2> QED BY <2>1, <1>5
<1>6. MaxBlocksPerRun > 0
  BY <1>1, RangeAssumption DEF RangeStart, Larger, RangeRefused, Block, WishedStart
<1>7. first = Larger(WishedStart(a, MaxBlock), last - MaxBlocksPerRun + 1)
  BY DEF RangeStart
<1>8. ASSUME a.start = None
      PROVE  WishedStart(a, MaxBlock) = Larger(last - Lookback + 1, 0) /\ Lookback > 0
  <2>1. WishedStart(a, MaxBlock) = Larger(last - Lookback + 1, 0)
    BY <1>8 DEF WishedStart
  <2>2. WishedStart(a, MaxBlock) <= last
    BY <1>1, <2>1, RangeAssumption DEF RangeRefused, Larger, Block
  <2> QED BY <1>1, <2>1, <2>2, RangeAssumption DEF Larger, Block
<1>9. ASSUME a.start # None
      PROVE  WishedStart(a, MaxBlock) = a.start /\ a.start \in Int
  BY <1>9 DEF WishedStart
<1>10. Wanted(a, MaxBlock, b)
         <=> /\ b \in named
             /\ IF a.start = None THEN Few(Lookback) ELSE b >= a.start
             /\ Few(MaxBlocksPerRun)
  BY DEF Wanted
<1>11. ASSUME NEW n \in Int, n > 0, b <= last
       PROVE  Few(n) <=> b >= last - n + 1
  <2>1. CASE b = last
    BY <1>1, <1>4, <1>11, <2>1 DEF Block
  <2>2. CASE b < last
    BY <1>1, <1>4, <1>5, <1>11, <2>2 DEF Block
  <2> QED BY <1>1, <1>11, <2>1, <2>2 DEF Block
<1> HIDE DEF first, last, named, newer, Few
<1>12. b \in first..last
         <=> b <= last /\ b >= WishedStart(a, MaxBlock) /\ b >= last - MaxBlocksPerRun + 1
  <2>1. WishedStart(a, MaxBlock) \in Int
    BY <1>1, <1>8, <1>9, RangeAssumption DEF Larger, Block
  <2> QED BY <1>1, <1>7, <2>1, RangeAssumption DEF Larger, Block
<1>13. CASE b <= last
  <2>1. Few(MaxBlocksPerRun) <=> b >= last - MaxBlocksPerRun + 1
    BY <1>6, <1>11, <1>13, RangeAssumption
  <2>2. CASE a.start = None
    <3>1. Few(Lookback) <=> b >= last - Lookback + 1
      BY <1>8, <1>11, <1>13, <2>2, RangeAssumption
    <3>2. b >= WishedStart(a, MaxBlock) <=> b >= last - Lookback + 1
      BY <1>1, <1>8, <2>2, RangeAssumption DEF Larger, Block
    <3> QED BY <1>3, <1>10, <1>12, <1>13, <2>1, <2>2, <3>1, <3>2 DEF first, last
  <2>3. CASE a.start # None
    BY <1>3, <1>9, <1>10, <1>12, <1>13, <2>1, <2>3 DEF first, last
  <2> QED BY <2>2, <2>3
<1>14. CASE ~(b <= last)
  BY <1>3, <1>10, <1>12, <1>14 DEF first, last
<1> QED BY <1>13, <1>14

-----------------------------------------------------------------------------
(* A fetch with retries is a fetch of LogFetcher *)

\* The options are options of the command line.
AskedOK == asked \in Asked

\* BeginFetch begins a fetch of blocks.
LEMMA BeginFetchBegins ==
  ASSUME asked \in Asked, BeginFetch
  PROVE  \E f, t \in Block : Begin(f, t)
<1>1. asked \in [start : Int \cup {None}, end : Int \cup {None}]
  BY AskedAssumption
<1>2. RangeStart(asked, MaxBlock) \in Block /\ RangeEnd(asked, MaxBlock) \in Block
  BY <1>1, RangeInBlocks DEF BeginFetch
<1> QED BY <1>2 DEF BeginFetch

\* A call ends in the Request LogFetcher sees, or in its exception.
LEMMA EndCallEnds ==
  ASSUME NEW reply \in Reply, EndCall(reply)
  PROVE  \/ /\ AsAnswer(reply) \in {"logs"} \cup ErrorAnswers
            /\ Request(AsAnswer(reply)) /\ UNCHANGED raised
         \/ AsAnswer(reply) = "raises" /\ Raise /\ raised' = TRUE
BY RepliesCounted DEF EndCall

\* Every step of EventScan is a step of LogFetcher or invisible to it.
LEMMA StepFetches == AskedOK /\ [ScanNext]_scanVars => [Next]_vars
<1> SUFFICES ASSUME AskedOK, [ScanNext]_scanVars PROVE [Next]_vars
  OBVIOUS
<1>1. CASE BeginFetch
  BY <1>1, BeginFetchBegins DEF AskedOK, Next
<1>2. CASE \E reply \in Reply : RetryPost(reply)
  BY <1>2 DEF RetryPost
<1>3. CASE \E reply \in Reply : EndCall(reply)
  BY <1>3, EndCallEnds DEF Next, Fetch
<1>4. CASE EndFetch
  BY <1>4 DEF EndFetch, Next, Fetch
<1>5. CASE UNCHANGED scanVars
  BY <1>5 DEF scanVars
<1> QED BY <1>1, <1>2, <1>3, <1>4, <1>5 DEF ScanNext, ScanStep

\* The options of the command line never change.
LEMMA AskedStays == ScanSpec => []AskedOK
<1>1. ScanInit => AskedOK
  BY DEF AskedOK, ScanInit
<1>2. AskedOK /\ [ScanNext]_scanVars => AskedOK'
  BY DEF AskedOK, ScanNext, ScanStep, BeginFetch, RetryPost, EndCall, EndFetch, scanVars
<1> QED BY <1>1, <1>2, PTL DEF ScanSpec

\* pipeline.py, provider.py and retry.py around LogFetcher.fetch: whatever is
\* retried, a fetch of a run is a fetch of LogFetcher.
THEOREM Refines == ScanSpec => ImplementsFetcher
<1>1. ScanInit => Init
  BY DEF ScanInit
<1> QED BY <1>1, StepFetches, AskedStays, PTL DEF ScanSpec, Spec, ImplementsFetcher

\* So a fetch with retries accounts for every block exactly once, too.
THEOREM SettledOnceDespiteRetries == ScanSpec => []EveryBlockSettledOnce
BY Refines, SettledOnce, PTL DEF ImplementsFetcher

\* And it loses no block to a provider whose limit the halvings reach.
THEOREM AdaptsDespiteRetries == ScanSpec => []AdaptsToLimit
BY Refines, Adapts, PTL DEF ImplementsFetcher

-----------------------------------------------------------------------------
(* The inductive invariant *)

\* Calls are in progress inside the range only, and within the retry budget.
CallInv ==
  /\ attempt # 0 => scanning /\ cursor <= to
  /\ raised => ~scanning /\ cursor <= to

\* POSTs so far: all attempts of the requests that ended, and of the one that
\* is in progress or raised.
PostInv ==
  IF raised THEN posts <= Attempts * (requests + 1) ELSE posts <= Attempts * requests + attempt

\* The failed chunks are as many as were given up on, as they do not overlap.
FailedInv ==
  /\ IsFiniteSet(failed)
  /\ \A c \in failed : c.to < cursor

\* The fetch is over the resolved range, and over it unless it raised.
RangeInv ==
  IF fetches = 0
  THEN ~scanning /\ ~raised /\ \A b \in Block : taken[b] = 0 /\ b \notin Missed
  ELSE /\ ~RangeRefused(asked, MaxBlock)
       /\ from = RangeStart(asked, MaxBlock) /\ to = RangeEnd(asked, MaxBlock)
       /\ scanning \/ raised \/ cursor > to

SInv ==
  /\ ScanTypeOK /\ IInv
  /\ CallInv /\ PostInv /\ FailedInv /\ RangeInv /\ ErrorsAccounted

\* The initial states satisfy it.
LEMMA InitSInv == ScanInit => SInv
<1> SUFFICES ASSUME ScanInit PROVE SInv
  OBVIOUS
<1>1. IInv
  BY InitIInv DEF ScanInit
<1>2. IsFiniteSet(failed) /\ Cardinality(failed) = 0 /\ failed = {}
  BY FS_EmptySet DEF ScanInit, Init
<1>3. ScanTypeOK
  <2>1. TypeOK
    BY <1>1 DEF IInv
  <2>2. asked \in Asked /\ raised \in BOOLEAN
    BY Zenon DEF ScanInit
  <2>3. attempt \in 0..MaxRetries
    BY RetryAssumption DEF ScanInit
  <2>4. posts \in Nat /\ rpcErrors \in Nat /\ errorsBefore \in Nat /\ unlisted \in Nat
    BY DEF ScanInit
  <2> QED BY <2>1, <2>2, <2>3, <2>4 DEF ScanTypeOK
<1>4. CallInv /\ PostInv
  BY RetryAssumption DEF CallInv, PostInv, ScanInit, Init, Attempts
<1>5. FailedInv /\ RangeInv
  BY <1>2 DEF FailedInv, RangeInv, ScanInit, Init, Missed
<1>6. ErrorsAccounted
  BY <1>2 DEF ErrorsAccounted, ScanInit, Init
<1> QED BY <1>1, <1>3, <1>4, <1>5, <1>6 DEF SInv

\* A fetch that begins starts its accounts afresh.
LEMMA BeginSInv ==
  ASSUME SInv, BeginFetch
  PROVE  CallInv' /\ PostInv' /\ FailedInv' /\ RangeInv' /\ ErrorsAccounted' /\ ScanTypeOK'
<1>1. failed' = {} /\ IsFiniteSet(failed') /\ Cardinality(failed') = 0
  BY FS_EmptySet DEF BeginFetch, Begin
<1>2. IInv'
  BY FetchAssumption, BeginFetchBegins, NextIInv DEF SInv, ScanTypeOK, Next
<1>3. ScanTypeOK'
  BY <1>2, RetryAssumption DEF IInv, ScanTypeOK, SInv, BeginFetch
<1>4. CallInv' /\ PostInv'
  BY <1>1, RetryAssumption DEF CallInv, PostInv, BeginFetch, Begin, Attempts
<1>5. FailedInv' /\ ErrorsAccounted'
  BY <1>1 DEF FailedInv, ErrorsAccounted, BeginFetch, Begin, SInv, ScanTypeOK
<1>6. RangeInv'
  BY DEF RangeInv, BeginFetch, Begin, SInv, ScanTypeOK, TypeOK
<1> QED BY <1>3, <1>4, <1>5, <1>6

\* A retry costs a POST and nothing else.
LEMMA RetrySInv ==
  ASSUME SInv, NEW reply \in Reply, RetryPost(reply)
  PROVE  CallInv' /\ PostInv' /\ FailedInv' /\ RangeInv' /\ ErrorsAccounted' /\ ScanTypeOK'
<1> USE DEF RetryPost, Receive, SInv
<1>1. ScanTypeOK'
  BY RetryAssumption DEF ScanTypeOK, TypeOK, vars, Retries, Attempts
<1>2. ~raised
  BY DEF CallInv
<1>3. CallInv'
  BY <1>2, RetryAssumption DEF CallInv, vars, ScanTypeOK
<1>4. PostInv'
  <2>1. posts' = posts + 1 /\ attempt' = attempt + 1 /\ requests' = requests /\ raised' = raised
    BY DEF vars
  <2>2. posts \in Nat /\ attempt \in Nat /\ Attempts * requests \in Nat
    BY RetryAssumption DEF ScanTypeOK, TypeOK, Attempts
  <2> QED BY <1>2, <2>1, <2>2 DEF PostInv
<1>5. FailedInv' /\ RangeInv'
  BY DEF FailedInv, RangeInv, vars, Missed
<1>6. ErrorsAccounted'
  BY DEF ErrorsAccounted, vars
<1> QED BY <1>1, <1>3, <1>4, <1>5, <1>6

\* A call that ends fits its attempts into the request it becomes.
LEMMA EndCallPosts ==
  ASSUME SInv, NEW reply \in Reply, EndCall(reply)
  PROVE  CallInv' /\ PostInv'
<1>1. scanning /\ cursor <= to /\ ~raised
  BY DEF CallInv, EndCall, Receive, SInv
<1>2. posts' = posts + 1 /\ attempt' = 0 /\ attempt < Attempts /\ attempt \in Nat
  BY RetryAssumption DEF ScanTypeOK, Attempts, EndCall, Receive, SInv
<1>3. posts + 1 <= Attempts * (requests + 1)
  <2>1. posts <= Attempts * requests + attempt
    BY <1>1 DEF PostInv, SInv
  <2>2. Attempts \in Nat /\ requests \in Nat /\ posts \in Nat
    BY RetryAssumption DEF ScanTypeOK, TypeOK, Attempts, SInv
  <2>3. Attempts * (requests + 1) = Attempts * requests + Attempts
    BY <2>2
  <2> QED BY <1>2, <2>1, <2>2, <2>3
<1>4. CASE Request(AsAnswer(reply)) /\ UNCHANGED raised
  <2>1. requests' = requests + 1 /\ ~raised'
    BY <1>1, <1>4 DEF Request
  <2>2. posts' \in Nat /\ Attempts * requests' \in Nat
    BY <1>2, <2>1, RetryAssumption DEF SInv, ScanTypeOK, TypeOK, Attempts
  <2>3. PostInv'
    BY <1>2, <1>3, <2>1, <2>2 DEF PostInv
  <2> QED BY <1>2, <2>1, <2>3 DEF CallInv
<1>5. CASE Raise /\ raised' = TRUE
  BY <1>1, <1>2, <1>3, <1>5 DEF CallInv, PostInv, Raise
<1> QED BY <1>4, <1>5, EndCallEnds

\* Giving up names a chunk that no failed chunk overlaps.
LEMMA GiveUpAdds ==
  ASSUME TypeOK, FailedInv, cursor <= to, NEW answer, GiveUp(answer)
  PROVE  FailedInv' /\ Cardinality(failed') = Cardinality(failed) + 1
<1>1. Last \in Nat /\ cursor <= Last /\ cursor' = Last + 1
  BY LastInRange DEF GiveUp, Block
<1>2. failed' = failed \cup {[from |-> cursor, to |-> Last]}
  BY DEF GiveUp
<1>3. [from |-> cursor, to |-> Last] \notin failed
  BY <1>1 DEF FailedInv, TypeOK
<1>4. IsFiniteSet(failed') /\ Cardinality(failed') = Cardinality(failed) + 1
  BY <1>2, <1>3, FS_AddElement DEF FailedInv
<1>5. \A c \in failed' : c.to < cursor'
  BY <1>1, <1>2 DEF FailedInv, TypeOK
<1> QED BY <1>4, <1>5 DEF FailedInv

\* What the provider counts is what the fetch makes of it.
LEMMA EndCallErrors ==
  ASSUME SInv, NEW reply \in Reply, EndCall(reply)
  PROVE  FailedInv' /\ ErrorsAccounted'
<1> DEFINE answer == AsAnswer(reply)
<1> USE DEF SInv
<1>1. scanning /\ cursor <= to /\ ~raised
  BY DEF EndCall, Receive, CallInv
<1>2. /\ rpcErrors' = (IF Fails(reply) THEN rpcErrors + 1 ELSE rpcErrors)
      /\ unlisted' = (IF reply.kind = "not_list" THEN unlisted + 1 ELSE unlisted)
      /\ errorsBefore' = errorsBefore
  BY DEF EndCall, CountErrors
<1>3. Cardinality(failed) \in Nat
  BY FS_CardinalityType DEF FailedInv
<1>4. /\ rpcErrors \in Nat /\ errorsBefore \in Nat /\ unlisted \in Nat
      /\ shrinks \in Nat /\ (rpcErrors - errorsBefore) + unlisted = shrinks + Cardinality(failed)
  BY <1>1, <1>3 DEF ScanTypeOK, TypeOK, ErrorsAccounted
<1>5. CASE answer = "logs" /\ Request(answer) /\ UNCHANGED raised
  <2>1. failed' = failed /\ shrinks' = shrinks /\ cursor' = Last + 1
    BY <1>5 DEF Request, Accept
  <2>2. Last \in Nat /\ cursor <= Last
    BY <1>1, LastInRange DEF ScanTypeOK, Block
  <2>3. FailedInv'
    BY <2>1, <2>2 DEF FailedInv, ScanTypeOK, TypeOK
  <2>4. ~Fails(reply) /\ reply.kind # "not_list"
    BY <1>5, RepliesCounted
  <2> QED BY <1>1, <1>2, <1>4, <1>5, <2>1, <2>3, <2>4 DEF ErrorsAccounted
<1>6. CASE answer \in ErrorAnswers /\ Request(answer) /\ UNCHANGED raised
  <2>1. (rpcErrors' - errorsBefore') + unlisted' = shrinks + Cardinality(failed) + 1
    BY <1>2, <1>4, <1>6, RepliesCounted
  <2>2. CASE Shrink(answer)
    <3>1. failed' = failed /\ cursor' = cursor /\ shrinks' = shrinks + 1
      BY <2>2 DEF Shrink
    <3> QED BY <1>1, <1>3, <1>4, <1>6, <2>1, <3>1 DEF ErrorsAccounted, FailedInv
  <2>3. CASE GiveUp(answer)
    <3>1. FailedInv' /\ Cardinality(failed') = Cardinality(failed) + 1
      BY <1>1, <2>3, GiveUpAdds DEF ScanTypeOK
    <3>2. shrinks' = shrinks
      BY <2>3 DEF GiveUp
    <3> QED BY <1>1, <1>3, <1>4, <1>6, <2>1, <3>1, <3>2 DEF ErrorsAccounted
  <2>4. answer # "logs"
    BY <1>6 DEF ErrorAnswers, SizeAnswers
  <2> QED BY <1>6, <2>2, <2>3, <2>4 DEF Request
<1>7. CASE answer = "raises" /\ Raise /\ raised' = TRUE
  <2>1. failed' = failed /\ cursor' = cursor /\ shrinks' = shrinks
    BY <1>7 DEF Raise
  <2>2. Fails(reply) /\ reply.kind # "not_list"
    BY <1>7, RepliesCounted
  <2> QED BY <1>1, <1>2, <1>3, <1>4, <1>7, <2>1, <2>2 DEF ErrorsAccounted, FailedInv
<1> QED BY <1>5, <1>6, <1>7, EndCallEnds

\* The fetch stays on its range.
LEMMA EndCallRange ==
  ASSUME SInv, NEW reply \in Reply, EndCall(reply)
  PROVE  RangeInv' /\ ScanTypeOK'
<1>1. fetches # 0 /\ asked' = asked /\ fetches' = fetches /\ from' = from /\ to' = to
  BY EndCallEnds DEF SInv, RangeInv, EndCall, Receive, Request, Raise
<1>2. scanning' \/ raised'
  BY EndCallEnds DEF EndCall, Receive, Request
<1>3. RangeInv'
  BY <1>1, <1>2 DEF SInv, RangeInv
<1>4. [Next]_vars
  BY EndCallEnds DEF Next, Fetch
<1>5. TypeOK'
  BY <1>4, NextIInv DEF SInv, IInv
<1>6. ScanTypeOK'
  <2>1. asked' \in Asked /\ raised' \in BOOLEAN
    BY <1>1, EndCallEnds DEF SInv, ScanTypeOK
  <2>2. attempt' \in 0..MaxRetries /\ posts' \in Nat /\ errorsBefore' \in Nat
    BY RetryAssumption DEF SInv, ScanTypeOK, EndCall, Receive
  <2>3. rpcErrors' \in Nat /\ unlisted' \in Nat
    BY DEF SInv, ScanTypeOK, EndCall, CountErrors
  <2> QED BY <1>5, <2>1, <2>2, <2>3 DEF ScanTypeOK
<1> QED BY <1>3, <1>6

\* A fetch ends behind its range.
LEMMA EndFetchSInv ==
  ASSUME SInv, EndFetch
  PROVE  CallInv' /\ PostInv' /\ FailedInv' /\ RangeInv' /\ ErrorsAccounted' /\ ScanTypeOK'
<1> USE DEF SInv, EndFetch, callVars, Return
<1>1. attempt = 0 /\ ~raised /\ to \in Nat /\ cursor \in Nat
  BY DEF CallInv, ScanTypeOK, TypeOK, Block
<1>2. CallInv' /\ PostInv'
  BY <1>1 DEF CallInv, PostInv
<1>3. FailedInv' /\ ErrorsAccounted'
  BY DEF FailedInv, ErrorsAccounted
<1>4. RangeInv'
  BY <1>1 DEF RangeInv, Missed
<1>5. ScanTypeOK'
  BY DEF ScanTypeOK, TypeOK
<1> QED BY <1>2, <1>3, <1>4, <1>5

\* One step of EventScan preserves the inductive invariant.
LEMMA NextSInv == SInv /\ [ScanNext]_scanVars => SInv'
<1> SUFFICES ASSUME SInv, [ScanNext]_scanVars PROVE SInv'
  OBVIOUS
<1>1. IInv'
  BY StepFetches, NextIInv DEF SInv, ScanTypeOK, AskedOK
<1>2. CASE BeginFetch
  BY <1>1, <1>2, BeginSInv DEF SInv
<1>3. CASE \E reply \in Reply : RetryPost(reply)
  BY <1>1, <1>3, RetrySInv DEF SInv
<1>4. CASE \E reply \in Reply : EndCall(reply)
  BY <1>1, <1>4, EndCallPosts, EndCallErrors, EndCallRange DEF SInv
<1>5. CASE EndFetch
  BY <1>1, <1>5, EndFetchSInv DEF SInv
<1>6. CASE UNCHANGED scanVars
  BY <1>1, <1>6 DEF SInv, scanVars, callVars, vars, ScanTypeOK, TypeOK, CallInv, PostInv,
     FailedInv, RangeInv, ErrorsAccounted, Missed
<1> QED BY <1>2, <1>3, <1>4, <1>5, <1>6 DEF ScanNext, ScanStep

\* The inductive invariant holds throughout.
THEOREM ScanInvariance == ScanSpec => []SInv
BY InitSInv, NextSInv, PTL DEF ScanSpec

\* Type correctness of a fetch with its calls.
THEOREM ScanTypeCorrect == ScanSpec => []ScanTypeOK
<1>1. SInv => ScanTypeOK
  BY DEF SInv
<1> QED BY <1>1, ScanInvariance, PTL

\* RpcProvider.rpc_error_count: the errors counted during a fetch are its
\* shrinks, its failed chunks and its exception, but for answers of no list.
THEOREM ErrorsAreAccounted == ScanSpec => []ErrorsAccounted
<1>1. SInv => ErrorsAccounted
  BY DEF SInv
<1> QED BY <1>1, ScanInvariance, PTL

\* LogFetcher.fetch over run_with_retries: Attempts POSTs per block and shrink
\* are enough for any fetch.
THEOREM BoundedPosts == ScanSpec => []PostsBounded
<1>1. SInv => PostsBounded
  <2> SUFFICES ASSUME SInv, scanning \/ raised
               PROVE  posts <= Attempts * ((to - from + 1) + MaxShrinks)
    BY DEF PostsBounded
  <2> DEFINE n == (to - from + 1) + MaxShrinks
  <2> USE DEF SInv
  <2>1. /\ posts \in Nat /\ requests \in Nat /\ attempt \in 0..MaxRetries /\ shrinks \in Nat
        /\ from \in Nat /\ to \in Nat /\ cursor \in Nat /\ MaxShrinks \in Nat
        /\ Attempts \in Nat /\ MaxRetries \in Nat /\ attempt < Attempts
    BY FetchAssumption, RetryAssumption DEF ScanTypeOK, TypeOK, Block, Attempts
  <2>2. from <= to
    <3>1. fetches # 0
      BY DEF RangeInv
    <3>2. ~RangeRefused(asked, MaxBlock) /\ asked \in [start : Int \cup {None}, end : Int \cup {None}]
      BY <3>1, AskedAssumption DEF RangeInv, ScanTypeOK
    <3> QED BY <3>1, <3>2, RangeInBlocks DEF RangeInv
  <2>3. requests <= (cursor - from) + MaxShrinks /\ from <= cursor /\ cursor <= to + 1
    BY <2>1, <2>2 DEF IInv, RequestsBounded, CursorInRange
  <2>4. requests <= n /\ n \in Nat /\ (cursor <= to => requests + 1 <= n)
    BY <2>1, <2>2, <2>3
  <2> HIDE DEF n
  <2>5. \A k \in Nat : k <= n => Attempts * k <= Attempts * n
    BY <2>1, <2>4
  <2>6. CASE raised \/ attempt # 0
    <3>1. requests + 1 <= n
      BY <2>4, <2>6 DEF CallInv
    <3>2. posts <= Attempts * (requests + 1)
      BY <2>1 DEF PostInv
    <3> QED BY <2>1, <2>4, <2>5, <3>1, <3>2 DEF n
  <2>7. CASE ~raised /\ attempt = 0
    <3>1. posts <= Attempts * requests
      BY <2>1, <2>7 DEF PostInv
    <3> QED BY <2>1, <2>4, <2>5, <3>1 DEF n
  <2> QED BY <2>6, <2>7
<1> QED BY <1>1, ScanInvariance, PTL

\* resolve_block_range and LogFetcher.fetch together: the blocks settled are
\* wanted ones, and all of them once the fetch returned.
THEOREM RangeIsHonoured == ScanSpec => []RangeHonoured
<1>1. SInv => RangeHonoured
  <2> SUFFICES ASSUME SInv, NEW b \in Block
               PROVE  LET settled == taken[b] > 0 \/ b \in Missed
                      IN /\ settled => Wanted(asked, MaxBlock, b)
                         /\ fetches > 0 /\ ~scanning /\ ~raised /\ Wanted(asked, MaxBlock, b)
                              => settled
    BY DEF RangeHonoured
  <2> USE DEF SInv
  <2>1. CASE fetches = 0
    BY <2>1 DEF RangeInv
  <2>2. CASE fetches # 0
    <3>1. asked \in [start : Int \cup {None}, end : Int \cup {None}]
      BY AskedAssumption DEF ScanTypeOK
    <3>2. Wanted(asked, MaxBlock, b) <=> b \in from .. to
      BY <2>2, <3>1, RangeIsWanted DEF RangeInv
    <3>3. from <= to /\ from \in Nat /\ to \in Nat /\ cursor \in Nat
      BY <2>2, <3>1, RangeInBlocks DEF RangeInv, Block, ScanTypeOK, TypeOK
    <3>4. taken[b] > 0 \/ b \in Missed <=> b \in from .. cursor - 1
      BY DEF IInv, EveryBlockSettledOnce
    <3>5. cursor <= to + 1 /\ (~scanning /\ ~raised => cursor > to)
      BY <2>2, <3>3 DEF IInv, CursorInRange, RangeInv
    <3> QED BY <3>2, <3>3, <3>4, <3>5
  <2> QED BY <2>1, <2>2
<1> QED BY <1>1, ScanInvariance, PTL
-----------------------------------------------------------------------------
(* One call of an adapter: EventBatch *)

\* The fetches of a call are those of EventScan; nothing else of it moves them.
LEMMA BatchStepScans == [BatchNext]_allVars => [ScanNext]_scanVars
<1> SUFFICES ASSUME [BatchNext]_allVars PROVE [ScanNext]_scanVars
  OBVIOUS
<1>1. CASE StartFetch
  BY <1>1 DEF StartFetch, ScanNext
<1>2. CASE Fetching
  BY <1>2 DEF Fetching, ScanNext, ScanStep
<1>3. CASE FetchDone
  BY <1>3 DEF FetchDone, ScanNext, ScanStep
<1>4. CASE Sort \/ Deliver
  BY <1>4 DEF Sort, Deliver
<1>5. CASE \E l \in chain : Discard(l) \/ Decode(l)
  BY <1>5 DEF Discard, Decode
<1>6. CASE UNCHANGED allVars
  BY <1>6 DEF allVars
<1> QED BY <1>1, <1>2, <1>3, <1>4, <1>5, <1>6 DEF BatchNext, BatchStep

\* get_swap_events and get_liquidity_events around the fetches: they implement
\* EventScan, so all that is proved of it holds of them.
THEOREM BatchRefines == BatchSpec => ScanSpec
<1>1. BatchInit => ScanInit
  BY DEF BatchInit
<1> QED BY <1>1, BatchStepScans, PTL DEF BatchSpec, ScanSpec

BTyped ==
  /\ call \in Calls /\ chain \in Chains
  /\ stage \in Stage /\ scan \in 0..Len(Fetches(call))
  /\ found \in [chain -> Nat]
  /\ lost \subseteq chain
  /\ events \in Seq([log : chain, time : Time])
  /\ times \in [Block -> Time \cup {"unread"}]

\* Where the call is says which fetches are over.
PlaceInv ==
  /\ scan = fetches
  /\ scanning => stage = "fetch"
  /\ raised => stage = "died"
  /\ stage \in {"sort", "decode", "returned"} => scan = Len(Fetches(call)) /\ ~scanning

\* A fetch for the topic of l is over; l is in the results, or should be.
ScannedFor(l) == \E i \in 1..scan : (i < scan \/ ~scanning) /\ l.topic \in Fetches(call)[i]
Due(l)     == ScannedFor(l) /\ Wanted(asked, MaxBlock, l.block) /\ l \notin lost

\* Each log that is due was found once.
FoundInv ==
  stage \in {"fetch", "sort"} =>
    /\ \A l \in chain : found[l] = IF Due(l) THEN 1 ELSE 0
    /\ \A l \in lost : ScannedFor(l)
    /\ events = <<>>

\* The logs that are due are those still to decode and those of the events,
\* but for malformed ones, and the events are the older ones.
DecodeInv ==
  stage \in {"decode", "returned"} =>
    /\ \A l \in chain : found[l] \in {0, 1} /\ (found[l] = 1 => Due(l))
    /\ \A i \in DOMAIN events : events[i].log.data /\ Due(events[i].log)
    /\ \A l \in chain :
         l.data /\ Due(l) => (found[l] = 0 <=> \E i \in DOMAIN events : events[i].log = l)
    /\ \A i, j \in DOMAIN events : i < j => Before(events[i].log, events[j].log)
    /\ \A i \in DOMAIN events, l \in chain : found[l] = 1 => Before(events[i].log, l)
    /\ stage = "returned" => \A l \in chain : found[l] = 0

\* Swappi's events have the time its cache holds.
TimesInv ==
  call.adapter = "v2" =>
    \A i \in DOMAIN events : events[i].time = times[events[i].log.block]

BInv == SInv /\ BTyped /\ PlaceInv /\ FoundInv /\ DecodeInv /\ TimesInv

\* A call fetches each topic at most once.
LEMMA FetchesShape ==
  ASSUME NEW c \in Calls
  PROVE  /\ Len(Fetches(c)) \in 1..2
         /\ DOMAIN Fetches(c) = 1..Len(Fetches(c))
         /\ \A i, j \in 1..Len(Fetches(c)) : \A t :
              t \in Fetches(c)[i] /\ t \in Fetches(c)[j] => i = j
<1>1. CASE c.kind = "swap"
  <2>1. Fetches(c) = <<{"swap"}>>
    BY <1>1 DEF Fetches
  <2> QED BY <2>1
<1>2. CASE c.kind # "swap" /\ c.adapter = "v3"
  <2>1. Fetches(c) = <<{"mint", "burn"}>>
    BY <1>2 DEF Fetches
  <2> QED BY <2>1
<1>3. CASE c.kind # "swap" /\ c.adapter # "v3"
  <2>1. Fetches(c) = <<{"mint"}, {"burn"}>>
    BY <1>3 DEF Fetches
  <2>2. Len(Fetches(c)) = 2 /\ Fetches(c)[1] = {"mint"} /\ Fetches(c)[2] = {"burn"}
        /\ DOMAIN Fetches(c) = 1..2
    BY <2>1
  <2>3. \A i \in 1..2 : i = 1 \/ i = 2
    OBVIOUS
  <2>4. \A i, j \in 1..2 : \A t : t \in Fetches(c)[i] /\ t \in Fetches(c)[j] => i = j
    BY <2>2, <2>3
  <2> HIDE DEF Fetches
  <2> QED BY <2>2, <2>4
<1> QED BY <1>1, <1>2, <1>3

\* The places of a chain are in one order.
LEMMA Ordered ==
  ASSUME NEW c \in Chains, NEW l \in c, NEW m \in c
  PROVE  /\ l.block \in Block /\ l.data \in BOOLEAN
         /\ l # m /\ ~Before(m, l) => Before(l, m)
<1>1. l \in Log /\ m \in Log
  BY BatchAssumption
<1>2. l # m => <<l.block, l.index>> # <<m.block, m.index>>
  BY BatchAssumption
<1> QED BY <1>1, <1>2, FetchAssumption DEF Log, Before, Block

\* An event is of a log of the chain, and has a time.
LEMMA EventTyped ==
  ASSUME BTyped, NEW i \in DOMAIN events
  PROVE  events[i].log \in chain /\ events[i].time \in Time
<1> DEFINE E == [log : chain, time : Time]
<1>1. events \in Seq(E)
  BY DEF BTyped
<1> HIDE DEF E
<1>2. events[i] \in E
  BY <1>1
<1> QED BY <1>2 DEF E

\* The initial states satisfy the invariant of the call.
LEMMA InitBInv == BatchInit => BInv
<1> SUFFICES ASSUME BatchInit PROVE BInv
  OBVIOUS
<1>1. SInv
  BY InitSInv DEF BatchInit
<1>2. /\ call \in Calls /\ chain \in Chains /\ scan = 0 /\ stage = "fetch" /\ lost = {}
      /\ events = <<>> /\ found = [l \in chain |-> 0] /\ times = [b \in Block |-> "unread"]
  BY DEF BatchInit
<1>3. fetches = 0 /\ ~scanning /\ ~raised
  BY DEF BatchInit, ScanInit, Init
<1>4. BTyped
  BY <1>2, FetchesShape DEF BTyped, Stage
<1>5. PlaceInv /\ DecodeInv /\ TimesInv
  BY <1>2, <1>3 DEF PlaceInv, DecodeInv, TimesInv
<1>6. FoundInv
  BY <1>2 DEF FoundInv, Due, ScannedFor
<1> QED BY <1>1, <1>4, <1>5, <1>6 DEF BInv

\* A fetch begins: what earlier ones found stays.
LEMMA StartBInv ==
  ASSUME BInv, SInv', StartFetch
  PROVE  BInv'
<1> USE DEF BInv
<1>1. /\ stage = "fetch" /\ stage' = "fetch" /\ ~scanning /\ scanning' /\ scan' = scan + 1
      /\ scan < Len(Fetches(call)) /\ fetches' = fetches + 1 /\ ~raised'
      /\ UNCHANGED <<call, chain, found, lost, events, times, asked>>
  BY DEF StartFetch, BeginFetch, Begin, PlaceInv
<1>2. BTyped'
  BY <1>1, FetchesShape DEF BTyped
<1>3. PlaceInv' /\ DecodeInv'
  BY <1>1 DEF PlaceInv, DecodeInv
<1>4. \A l : ScannedFor(l)' <=> ScannedFor(l)
  <2>1. scan \in Nat
    BY FetchesShape DEF BTyped
  <2>2. \A i : i \in 1..scan + 1 /\ i < scan + 1 <=> i \in 1..scan
    BY <2>1
  <2>3. ASSUME NEW l PROVE ScannedFor(l) <=> \E i \in 1..scan : l.topic \in Fetches(call)[i]
    BY <1>1 DEF ScannedFor
  <2>4. ASSUME NEW l
        PROVE  ScannedFor(l)' <=> \E i \in 1..scan + 1 : i < scan + 1 /\ l.topic \in Fetches(call)[i]
    BY <1>1 DEF ScannedFor
  <2> QED BY <2>2, <2>3, <2>4
<1>5. FoundInv'
  <2>1. \A l \in chain : Due(l)' <=> Due(l)
    BY <1>1, <1>4 DEF Due
  <2> QED BY <1>1, <1>4, <2>1 DEF FoundInv
<1>6. TimesInv'
  BY <1>1 DEF TimesInv
<1> QED BY <1>2, <1>3, <1>5, <1>6

\* A POST moves nothing of the batch, unless its exception ends the call.
LEMMA FetchingBInv ==
  ASSUME BInv, SInv', Fetching
  PROVE  BInv'
<1> USE DEF BInv
<1>1. UNCHANGED <<call, chain, scan, found, lost, events, times>>
  BY DEF Fetching
<1>2. scanning /\ stage = "fetch" /\ ~raised
  BY DEF Fetching, RetryPost, EndCall, Receive, PlaceInv
<1>3. fetches' = fetches /\ asked' = asked /\ (scanning' \/ raised') /\ (raised' => ~scanning')
  <2>1. ASSUME NEW reply \in Reply, RetryPost(reply)
        PROVE  fetches' = fetches /\ asked' = asked /\ scanning' /\ raised' = raised
    BY <1>2, <2>1 DEF RetryPost, vars
  <2>2. ASSUME NEW reply \in Reply, EndCall(reply)
        PROVE  fetches' = fetches /\ asked' = asked /\ (scanning' \/ raised')
    BY <1>2, <2>2, EndCallEnds DEF EndCall, Request, Raise
  <2>3. raised' => ~scanning'
    BY DEF SInv, CallInv
  <2> QED BY <2>1, <2>2, <2>3 DEF Fetching
<1>4. stage' = IF raised' THEN "died" ELSE "fetch"
  BY <1>2 DEF Fetching
<1>5. BTyped' /\ DecodeInv' /\ TimesInv'
  BY <1>1, <1>4 DEF BTyped, DecodeInv, TimesInv, Stage
<1>6. PlaceInv'
  BY <1>1, <1>2, <1>3, <1>4 DEF PlaceInv
<1>7. CASE ~raised'
  <2>1. scanning' = scanning
    BY <1>2, <1>3, <1>7 DEF SInv, ScanTypeOK, TypeOK
  <2>2. \A l : (ScannedFor(l)' <=> ScannedFor(l)) /\ (Due(l)' <=> Due(l))
    BY <1>1, <1>3, <2>1 DEF ScannedFor, Due
  <2> QED BY <1>1, <1>2, <1>5, <1>6, <2>2 DEF FoundInv
<1>8. CASE raised'
  BY <1>4, <1>5, <1>6, <1>8 DEF FoundInv
<1> QED BY <1>7, <1>8

\* What a fetch behind its range has taken of one block.
LEMMA TakenOnce ==
  ASSUME SInv, fetches # 0, cursor > to, NEW b \in Block
  PROVE  /\ taken[b] = IF Wanted(asked, MaxBlock, b) /\ b \notin Missed THEN 1 ELSE 0
         /\ b \in Missed => Wanted(asked, MaxBlock, b)
<1> USE DEF SInv
<1>1. asked \in [start : Int \cup {None}, end : Int \cup {None}]
  BY AskedAssumption DEF ScanTypeOK
<1>2. Wanted(asked, MaxBlock, b) <=> b \in from .. to
  BY <1>1, RangeIsWanted DEF RangeInv
<1>3. from <= to /\ from \in Nat /\ to \in Nat /\ cursor \in Nat
  BY <1>1, RangeInBlocks DEF RangeInv, Block, ScanTypeOK, TypeOK
<1>4. cursor - 1 = to
  BY <1>3 DEF IInv, CursorInRange
<1> QED BY <1>2, <1>4 DEF IInv, EveryBlockSettledOnce

\* A fetch that is over adds the logs of its topics, and of no other.
LEMMA FetchDoneBInv ==
  ASSUME BInv, SInv', FetchDone
  PROVE  BInv'
<1> USE DEF BInv
<1>1. /\ scanning /\ stage = "fetch" /\ ~scanning' /\ fetches' = fetches /\ scan' = scan
      /\ cursor > to /\ raised' = raised /\ asked' = asked
      /\ UNCHANGED <<call, chain, events, times>>
  BY DEF FetchDone, EndFetch, Return, callVars, PlaceInv
<1>2. ~raised /\ fetches # 0 /\ scan \in 1..Len(Fetches(call)) /\ chain \in Chains
  <2>1. ~raised /\ fetches # 0
    BY <1>1 DEF SInv, CallInv, RangeInv
  <2> QED BY <2>1, FetchesShape DEF BTyped, PlaceInv
<1>3. \A b \in Block : /\ taken[b] = IF Wanted(asked, MaxBlock, b) /\ b \notin Missed THEN 1 ELSE 0
                       /\ b \in Missed => Wanted(asked, MaxBlock, b)
  BY <1>1, <1>2, TakenOnce
<1> DEFINE Now(l) == l.topic \in Fetches(call)[scan]
<1>4. \A l \in chain : ScannedFor(l)' <=> ScannedFor(l) \/ Now(l)
  BY <1>1, <1>2, FetchesShape DEF ScannedFor, BTyped
<1>5. \A l \in chain : ~(ScannedFor(l) /\ Now(l))
  <2> SUFFICES ASSUME NEW l \in chain, ScannedFor(l), Now(l) PROVE FALSE
    OBVIOUS
  <2>1. PICK i \in 1..scan : i < scan /\ l.topic \in Fetches(call)[i]
    BY <1>1 DEF ScannedFor
  <2>2. call \in Calls /\ scan \in 1..Len(Fetches(call)) /\ Len(Fetches(call)) \in Nat
    BY <1>2, FetchesShape DEF BTyped
  <2>3. i \in 1..Len(Fetches(call)) /\ i # scan
    BY <2>1, <2>2
  <2> QED BY <2>1, <2>2, <2>3, FetchesShape DEF Now
<1>6. ASSUME NEW l \in chain
      PROVE  /\ l.block \in Block
             /\ found'[l] = found[l] + (IF Now(l) THEN taken[l.block] ELSE 0)
             /\ l \in lost' <=> l \in lost \/ (Now(l) /\ l.block \in Missed)
  <2>1. l.block \in Block
    BY <1>2, Ordered
  <2>2. l \in OfFetch(Block) <=> Now(l)
    BY <2>1 DEF OfFetch
  <2>3. found'[l] = found[l] + (IF l \in OfFetch(Block) THEN taken[l.block] ELSE 0)
    BY DEF FetchDone
  <2>4. l \in lost' <=> l \in lost \/ (Now(l) /\ l.block \in Missed)
    BY DEF FetchDone, OfFetch
  <2> QED BY <2>1, <2>2, <2>3, <2>4
<1> HIDE DEF Now
<1>7. \A l \in chain : Due(l)' <=>
        (ScannedFor(l) \/ Now(l)) /\ Wanted(asked, MaxBlock, l.block) /\ l \notin lost'
  BY <1>1, <1>4 DEF Due
<1>8. stage' \in {"fetch", "sort"} /\ (stage' = "sort" <=> scan = Len(Fetches(call)))
  BY <1>1 DEF FetchDone
<1>9. FoundInv'
  <2>1. ASSUME NEW l \in chain
        PROVE  found'[l] = (IF Due(l)' THEN 1 ELSE 0) /\ (l \in lost' => ScannedFor(l)')
    <3>1. l \in lost => ScannedFor(l)
      BY <1>1 DEF FoundInv
    <3>2. found[l] = IF Due(l) THEN 1 ELSE 0
      BY <1>1 DEF FoundInv
    <3>3. CASE Now(l)
      BY <1>3, <1>4, <1>5, <1>6, <1>7, <3>1, <3>2, <3>3 DEF Due
    <3>4. CASE ~Now(l)
      BY <1>4, <1>6, <1>7, <3>1, <3>2, <3>4 DEF Due
    <3> QED BY <3>3, <3>4
  <2>2. lost' \subseteq chain
    BY DEF FetchDone, OfFetch, BTyped
  <2> QED BY <1>1, <2>1, <2>2 DEF FoundInv
<1>10. BTyped'
  <2>1. found' \in [chain -> Nat]
    <3>1. \A l \in chain : found[l] \in Nat /\ taken[l.block] \in Nat
      BY <1>6 DEF BTyped, SInv, ScanTypeOK, TypeOK
    <3> QED BY <3>1 DEF FetchDone
  <2>2. lost' \subseteq chain
    BY DEF FetchDone, OfFetch, BTyped
  <2> QED BY <1>1, <1>8, <2>1, <2>2 DEF BTyped, Stage
<1>11. PlaceInv' /\ DecodeInv' /\ TimesInv'
  BY <1>1, <1>2, <1>8 DEF PlaceInv, DecodeInv, TimesInv
<1> QED BY <1>9, <1>10, <1>11

\* sort_logs hands every log that is due to the decoder, or ends the call.
LEMMA SortBInv ==
  ASSUME BInv, SInv', Sort
  PROVE  BInv'
<1> USE DEF BInv
<1>1. /\ stage = "sort" /\ stage' \in {"decode", "died"}
      /\ UNCHANGED <<call, chain, scan, found, lost, events, times>> /\ UNCHANGED scanVars
  BY DEF Sort
<1>2. fetches' = fetches /\ scanning' = scanning /\ raised' = raised /\ asked' = asked
  BY <1>1 DEF scanVars, vars, callVars
<1>3. BTyped'
  BY <1>1 DEF BTyped, Stage
<1>4. PlaceInv'
  BY <1>1, <1>2 DEF PlaceInv
<1>5. FoundInv' /\ TimesInv'
  BY <1>1 DEF FoundInv, TimesInv
<1>6. \A l : Due(l)' <=> Due(l)
  BY <1>1, <1>2 DEF Due, ScannedFor
<1>7. DecodeInv'
  BY <1>1, <1>6 DEF FoundInv, DecodeInv
<1> QED BY <1>3, <1>4, <1>5, <1>7

\* A log leaves the queue, with or without an event.
LEMMA TakenNext ==
  ASSUME BInv, stage = "decode", NEW l \in chain, First(l), Take(l)
  PROVE  /\ found' \in [chain -> Nat] /\ found[l] = 1 /\ found'[l] = 0 /\ Due(l)
         /\ \A m \in chain : m # l => found'[m] = found[m]
         /\ \A m \in chain : found'[m] = 1 => found[m] = 1 /\ Before(l, m)
<1>1. found \in [chain -> Nat] /\ chain \in Chains
  BY DEF BInv, BTyped
<1>2. found[l] = 1 /\ Due(l)
  BY <1>1 DEF BInv, DecodeInv, First
<1>3. found'[l] = 0 /\ found' \in [chain -> Nat] /\ \A m \in chain : m # l => found'[m] = found[m]
  BY <1>1, <1>2 DEF Take
<1>4. \A m \in chain : found'[m] = 1 => found[m] = 1 /\ m # l /\ ~Before(m, l)
  BY <1>3 DEF First
<1> QED BY <1>1, <1>2, <1>3, <1>4, Ordered

\* The event that is emitted is the last.
LEMMA Emitted ==
  ASSUME BInv, NEW l \in chain, NEW time \in Time, Emit(l, time)
  PROVE  /\ events' \in Seq([log : chain, time : Time])
         /\ DOMAIN events' = 1..Len(events) + 1 /\ DOMAIN events = 1..Len(events)
         /\ Len(events) \in Nat
         /\ events'[Len(events) + 1].log = l /\ events'[Len(events) + 1].time = time
         /\ \A i \in DOMAIN events : events'[i] = events[i]
<1> DEFINE e == [log |-> l, time |-> time]
<1>1. e \in [log : chain, time : Time] /\ events \in Seq([log : chain, time : Time])
  BY DEF BInv, BTyped
<1>2. events' = Append(events, e) /\ e.log = l /\ e.time = time
  BY DEF Emit
<1> HIDE DEF e
<1> QED BY <1>1, <1>2

\* A log that was due becomes the last event.
LEMMA EmitDecodes ==
  ASSUME BInv, stage = "decode", stage' = stage, UNCHANGED <<call, chain, scan, lost>>,
         UNCHANGED scanVars, NEW l \in chain, l.data, First(l), Take(l),
         NEW time \in Time, Emit(l, time)
  PROVE  DecodeInv' /\ found' \in [chain -> Nat] /\ events' \in Seq([log : chain, time : Time])
<1> DEFINE n == Len(events)
<1>1. /\ found' \in [chain -> Nat] /\ found[l] = 1 /\ found'[l] = 0 /\ Due(l)
      /\ \A m \in chain : m # l => found'[m] = found[m]
      /\ \A m \in chain : found'[m] = 1 => found[m] = 1 /\ Before(l, m)
  BY TakenNext
<1>2. /\ events' \in Seq([log : chain, time : Time])
      /\ DOMAIN events' = 1..n + 1 /\ DOMAIN events = 1..n /\ n \in Nat
      /\ events'[n + 1].log = l /\ \A i \in 1..n : events'[i] = events[i]
  BY Emitted
<1> HIDE DEF n
<1>3. \A m \in chain : found'[m] \in {0, 1} /\ (found'[m] = 1 => Due(m))
  BY <1>1 DEF BInv, DecodeInv
<1>4. \A i \in 1..n : events[i].log.data /\ Due(events[i].log)
  BY <1>2 DEF BInv, DecodeInv
<1>5. \A i \in 1..n + 1 : i \in 1..n \/ i = n + 1
  BY <1>2
<1>6. \A i \in DOMAIN events' : events'[i].log.data /\ Due(events'[i].log)
  BY <1>1, <1>2, <1>4, <1>5
<1>7. ASSUME NEW m \in chain, m.data, Due(m)
      PROVE  found'[m] = 0 <=> \E i \in DOMAIN events' : events'[i].log = m
  <2>1. found[m] = 0 <=> \E i \in 1..n : events[i].log = m
    BY <1>2, <1>7 DEF BInv, DecodeInv
  <2>2. CASE m = l
    BY <1>1, <1>2, <2>2
  <2>3. CASE m # l
    <3>1. found'[m] = found[m]
      BY <1>1, <2>3
    <3>2. (\E i \in 1..n + 1 : events'[i].log = m) <=> \E i \in 1..n : events[i].log = m
      BY <1>2, <1>5, <2>3
    <3> QED BY <1>2, <2>1, <3>1, <3>2
  <2> QED BY <2>2, <2>3
<1>8. \A i, j \in DOMAIN events' : i < j => Before(events'[i].log, events'[j].log)
  <2>1. \A i, j \in 1..n : i < j => Before(events[i].log, events[j].log)
    BY <1>2 DEF BInv, DecodeInv
  <2>2. \A i \in 1..n : Before(events[i].log, l)
    BY <1>1, <1>2 DEF BInv, DecodeInv
  <2> QED BY <1>2, <1>5, <2>1, <2>2
<1>9. \A i \in DOMAIN events', m \in chain : found'[m] = 1 => Before(events'[i].log, m)
  <2>1. \A i \in 1..n, m \in chain : found[m] = 1 => Before(events[i].log, m)
    BY <1>2 DEF BInv, DecodeInv
  <2> QED BY <1>1, <1>2, <1>5, <2>1
<1>10. \A m : Due(m)' <=> Due(m)
  BY DEF Due, ScannedFor, scanVars, vars
<1>11. DecodeInv'
  BY <1>3, <1>6, <1>7, <1>8, <1>9, <1>10 DEF DecodeInv
<1> QED BY <1>1, <1>2, <1>11

\* Swappi's cache holds the time of the event that is emitted.
LEMMA EmitDates ==
  ASSUME BInv, call.adapter = "v2", call' = call, NEW l \in chain, NEW time \in Time,
         Emit(l, time), times' = [times EXCEPT ![l.block] = time],
         times[l.block] \in {time, "unread"}
  PROVE  TimesInv' /\ times' \in [Block -> Time \cup {"unread"}]
<1> DEFINE n == Len(events)
<1>1. l.block \in Block
  BY Ordered DEF BInv, BTyped
<1>2. times \in [Block -> Time \cup {"unread"}] /\ "unread" \notin Time
  BY DEF BInv, BTyped, Time
<1>3. /\ DOMAIN events' = 1..n + 1 /\ DOMAIN events = 1..n /\ n \in Nat
      /\ events'[n + 1].log = l /\ events'[n + 1].time = time
      /\ \A i \in 1..n : events'[i] = events[i]
  BY Emitted
<1>4. \A i \in 1..n : /\ events[i].time = times[events[i].log.block]
                      /\ events[i].time \in Time /\ events[i].log \in chain
  <2>1. \A i \in DOMAIN events : events[i].time \in Time /\ events[i].log \in chain
    BY EventTyped DEF BInv
  <2>2. \A i \in DOMAIN events : events[i].time = times[events[i].log.block]
    BY DEF BInv, TimesInv
  <2> QED BY <1>3, <2>1, <2>2
<1> HIDE DEF n
<1>5. \A i \in 1..n : events[i].time = times'[events[i].log.block]
  <2> SUFFICES ASSUME NEW i \in 1..n PROVE events[i].time = times'[events[i].log.block]
    OBVIOUS
  <2>1. events[i].log.block \in Block
    BY <1>4, Ordered DEF BInv, BTyped
  <2> QED BY <1>1, <1>2, <1>4, <2>1
<1>6. times'[l.block] = time
  BY <1>1, <1>2
<1> QED BY <1>1, <1>2, <1>3, <1>5, <1>6 DEF TimesInv

\* The call goes on decoding, fails or dies with its fetches untouched.
LEMMA DecodeBInv ==
  ASSUME BInv, SInv', NEW l \in chain, Discard(l) \/ Decode(l)
  PROVE  BInv'
<1> USE DEF BInv
<1>1. /\ stage = "decode" /\ First(l)
      /\ UNCHANGED <<call, chain, scan, lost>> /\ UNCHANGED scanVars
  BY DEF Discard, Decode
<1>2. fetches' = fetches /\ scanning' = scanning /\ raised' = raised /\ asked' = asked
  BY <1>1 DEF scanVars, vars, callVars
<1>3. \A m : Due(m)' <=> Due(m)
  BY <1>1, <1>2 DEF Due, ScannedFor
<1>4. l.block \in Block
  BY Ordered DEF BTyped
<1>5. ASSUME stage' \in {"decode", "failed", "died"}, BTyped', TimesInv',
             stage' = "decode" => DecodeInv'
      PROVE  BInv'
  <2>1. PlaceInv'
    BY <1>1, <1>2, <1>5 DEF PlaceInv
  <2>2. FoundInv' /\ DecodeInv'
    BY <1>5 DEF FoundInv, DecodeInv
  <2> QED BY <1>5, <2>1, <2>2
<1>6. CASE Discard(l)
  <2>1. ~l.data /\ Take(l) /\ stage' = stage /\ events' = events /\ times' = times
    BY <1>6 DEF Discard
  <2>2. /\ found' \in [chain -> Nat] /\ found'[l] = 0
        /\ \A m \in chain : m # l => found'[m] = found[m]
        /\ \A m \in chain : found'[m] = 1 => found[m] = 1
    BY <1>1, <2>1, TakenNext
  <2>3. BTyped' /\ TimesInv'
    BY <1>1, <2>1, <2>2 DEF BTyped, TimesInv
  <2>4. DecodeInv'
    BY <1>1, <1>3, <2>1, <2>2 DEF DecodeInv
  <2> QED BY <1>1, <1>5, <2>1, <2>3, <2>4
<1>7. CASE Decode(l) /\ call.adapter = "v2"
  <2>1. l.data /\ DateCached(l)
    BY <1>7 DEF Decode
  <2>2. CASE stage' \in {"failed", "died"} /\ UNCHANGED <<found, events, times>>
    <3>1. BTyped' /\ TimesInv'
      BY <1>1, <2>2 DEF BTyped, TimesInv, Stage
    <3> QED BY <1>5, <2>2, <3>1
  <2>3. ASSUME NEW time \in Time, Emit(l, time), Take(l), stage' = stage,
               times' = [times EXCEPT ![l.block] = time],
               times[l.block] \in {time, "unread"}
        PROVE  BInv'
    <3>1. DecodeInv' /\ found' \in [chain -> Nat] /\ events' \in Seq([log : chain, time : Time])
      BY <1>1, <2>1, <2>3, EmitDecodes
    <3>2. TimesInv' /\ times' \in [Block -> Time \cup {"unread"}]
      BY <1>1, <1>7, <2>3, EmitDates
    <3>3. BTyped'
      BY <1>1, <2>3, <3>1, <3>2 DEF BTyped
    <3> QED BY <1>1, <1>5, <2>3, <3>1, <3>2, <3>3
  <2>4. CASE times[l.block] # "unread" /\ Emit(l, times[l.block]) /\ Take(l)
             /\ UNCHANGED <<stage, times>>
    <3>1. times \in [Block -> Time \cup {"unread"}]
      BY DEF BTyped
    <3>2. times[l.block] \in Time /\ times' = [times EXCEPT ![l.block] = times[l.block]]
      BY <1>4, <2>4, <3>1
    <3> QED BY <2>3, <2>4, <3>2
  <2>5. CASE /\ times[l.block] = "unread"
             /\ \E time \in Time : times' = [times EXCEPT ![l.block] = time] /\ Emit(l, time)
             /\ Take(l) /\ UNCHANGED stage
    BY <2>3, <2>5
  <2> QED BY <2>1, <2>2, <2>4, <2>5 DEF DateCached
<1>8. CASE Decode(l) /\ call.adapter # "v2"
  <2>1. l.data /\ DateEach(l)
    BY <1>8 DEF Decode
  <2>2. times' = times /\ call' = call
    BY <1>1, <2>1 DEF DateEach
  <2>3. TimesInv'
    BY <1>8, <2>2 DEF TimesInv
  <2>4. CASE stage' = "died" /\ UNCHANGED <<found, events>>
    <3>1. BTyped'
      BY <1>1, <2>2, <2>4 DEF BTyped, Stage
    <3> QED BY <1>5, <2>3, <2>4, <3>1
  <2>5. ASSUME NEW time \in Time, Emit(l, time), Take(l), stage' = stage
        PROVE  BInv'
    <3>1. DecodeInv' /\ found' \in [chain -> Nat] /\ events' \in Seq([log : chain, time : Time])
      BY <1>1, <2>1, <2>5, EmitDecodes
    <3>2. BTyped'
      BY <1>1, <2>2, <2>5, <3>1 DEF BTyped
    <3> QED BY <1>1, <1>5, <2>3, <2>5, <3>1, <3>2
  <2> QED BY <2>1, <2>4, <2>5 DEF DateEach
<1> QED BY <1>6, <1>7, <1>8

\* The call returns when every log is decoded.
LEMMA DeliverBInv ==
  ASSUME BInv, SInv', Deliver
  PROVE  BInv'
<1> USE DEF BInv
<1>1. /\ stage = "decode" /\ stage' = "returned" /\ \A l \in chain : found[l] = 0
      /\ UNCHANGED <<call, chain, scan, found, lost, events, times>> /\ UNCHANGED scanVars
  BY DEF Deliver
<1>2. fetches' = fetches /\ scanning' = scanning /\ raised' = raised /\ asked' = asked
  BY <1>1 DEF scanVars, vars, callVars
<1>3. BTyped' /\ FoundInv' /\ TimesInv'
  BY <1>1 DEF BTyped, FoundInv, TimesInv, Stage
<1>4. PlaceInv'
  BY <1>1, <1>2 DEF PlaceInv
<1>5. \A l : Due(l)' <=> Due(l)
  BY <1>1, <1>2 DEF Due, ScannedFor
<1>6. DecodeInv'
  BY <1>1, <1>5 DEF DecodeInv
<1> QED BY <1>3, <1>4, <1>6

\* Nothing of the call moves.
LEMMA StutterBInv ==
  ASSUME BInv, SInv', UNCHANGED allVars
  PROVE  BInv'
<1> USE DEF BInv
<1>1. /\ UNCHANGED <<call, chain, stage, scan, found, lost, events, times>>
      /\ fetches' = fetches /\ scanning' = scanning /\ raised' = raised /\ asked' = asked
  BY DEF allVars, batchVars, scanVars, vars, callVars
<1>2. \A l : (Due(l)' <=> Due(l)) /\ (ScannedFor(l)' <=> ScannedFor(l))
  BY <1>1 DEF Due, ScannedFor
<1>3. BTyped' /\ PlaceInv' /\ TimesInv'
  BY <1>1 DEF BTyped, PlaceInv, TimesInv
<1>4. FoundInv' /\ DecodeInv'
  BY <1>1, <1>2 DEF FoundInv, DecodeInv
<1> QED BY <1>3, <1>4

\* The inductive invariant of a call holds throughout.
THEOREM BatchInvariance == BatchSpec => []BInv
<1>1. BInv /\ [BatchNext]_allVars => BInv'
  <2> SUFFICES ASSUME BInv, [BatchNext]_allVars PROVE BInv'
    OBVIOUS
  <2>1. SInv'
    BY BatchStepScans, NextSInv DEF BInv
  <2>2. CASE StartFetch
    BY <2>1, <2>2, StartBInv
  <2>3. CASE Fetching
    BY <2>1, <2>3, FetchingBInv
  <2>4. CASE FetchDone
    BY <2>1, <2>4, FetchDoneBInv
  <2>5. CASE Sort
    BY <2>1, <2>5, SortBInv
  <2>6. CASE \E l \in chain : Discard(l) \/ Decode(l)
    BY <2>1, <2>6, DecodeBInv
  <2>7. CASE Deliver
    BY <2>1, <2>7, DeliverBInv
  <2>8. CASE UNCHANGED allVars
    BY <2>1, <2>8, StutterBInv
  <2> QED BY <2>2, <2>3, <2>4, <2>5, <2>6, <2>7, <2>8 DEF BatchNext, BatchStep
<1> QED BY <1>1, InitBInv, PTL DEF BatchSpec

\* Type correctness of a call with its fetches.
THEOREM BatchTypeCorrect == BatchSpec => []BatchTypeOK
<1>1. BInv => BatchTypeOK
  <2> SUFFICES ASSUME BInv PROVE BatchTypeOK
    OBVIOUS
  <2>1. ScanTypeOK /\ BTyped
    BY DEF BInv, SInv
  <2>2. scan \in 0..2
    <3>1. call \in Calls /\ scan \in 0..Len(Fetches(call))
      BY <2>1 DEF BTyped
    <3> DEFINE n == Len(Fetches(call))
    <3>2. n \in 1..2
      BY <3>1, FetchesShape
    <3>3. scan \in 0..n
      BY <3>1
    <3> HIDE DEF n
    <3> QED BY <3>2, <3>3
  <2> QED BY <2>1, <2>2 DEF BTyped, BatchTypeOK
<1> QED BY <1>1, BatchInvariance, PTL

\* get_swap_events and get_liquidity_events of both adapters: a call that
\* returns has one event, in chain order, for each log that can be decoded in
\* the blocks asked for, outside failed chunks.
THEOREM BatchIsComplete == BatchSpec => []BatchComplete
<1>1. BInv => BatchComplete
  <2> SUFFICES ASSUME BInv, stage = "returned" PROVE BatchComplete
    BY DEF BatchComplete
  <2> USE DEF BInv
  <2> DEFINE Topical(l) == \E i \in DOMAIN Fetches(call) : l.topic \in Fetches(call)[i]
  <2>1. scan = Len(Fetches(call)) /\ ~scanning /\ DOMAIN Fetches(call) = 1..Len(Fetches(call))
    BY FetchesShape DEF PlaceInv, BTyped
  <2>2. \A l : ScannedFor(l) <=> Topical(l)
    BY <2>1 DEF ScannedFor
  <2>3. \A i \in DOMAIN events : events[i].log \in chain
    BY EventTyped
  <2>4. \A l \in chain : l.data /\ Due(l) <=> \E i \in DOMAIN events : events[i].log = l
    BY DEF DecodeInv
  <2> HIDE DEF Topical
  <2>5. {events[i].log : i \in DOMAIN events} =
          {l \in chain : l.data /\ Wanted(asked, MaxBlock, l.block) /\ Topical(l)} \ lost
    BY <2>2, <2>3, <2>4 DEF Due
  <2>6. \A i, j \in DOMAIN events : i < j => Before(events[i].log, events[j].log)
    BY DEF DecodeInv
  <2> QED BY <2>5, <2>6 DEF BatchComplete, Topical
<1> QED BY <1>1, BatchInvariance, PTL

\* SwappiV2Adapter.block_timestamp: the events of a block share its time.
THEOREM OneTime == BatchSpec => []OneTimePerBlock
<1>1. BInv => OneTimePerBlock
  BY DEF BInv, TimesInv, OneTimePerBlock
<1> QED BY <1>1, BatchInvariance, PTL

\* Where the provider's limit can be reached, nothing is given up on and no log
\* is lost to a failed chunk.
LostInv == LimitReachable => failed = {} /\ lost = {}

\* A batch has all there is to have: an event for every log that can be decoded
\* and is wanted, and for no other, when the provider refuses nothing but ranges
\* that are wider than a limit within reach of the halving.
FullBatch ==
  LimitReachable /\ stage = "returned" =>
    {events[i].log : i \in DOMAIN events} =
      {l \in chain : /\ l.data /\ Wanted(asked, MaxBlock, l.block)
                     /\ \E i \in DOMAIN Fetches(call) : l.topic \in Fetches(call)[i]}

\* get_swap_events and get_liquidity_events miss no event of a provider like
\* that, though they never look at failed_chunks.
THEOREM FullBatchWithinReach == BatchSpec => []FullBatch
<1>1. BatchInit /\ AdaptsToLimit => LostInv
  BY DEF BatchInit, LostInv, AdaptsToLimit
<1>2. AdaptsToLimit /\ AdaptsToLimit' /\ LostInv /\ [BatchNext]_allVars => LostInv'
  <2> SUFFICES ASSUME AdaptsToLimit, AdaptsToLimit', LostInv, [BatchNext]_allVars, LimitReachable'
               PROVE  lost' = {}
    BY DEF LostInv, AdaptsToLimit
  <2>1. LimitReachable
    <3>1. provider' = provider
      <4>1. CASE StartFetch
        BY <4>1 DEF StartFetch, BeginFetch, Begin
      <4>2. CASE Fetching
        BY <4>2 DEF Fetching, RetryPost, EndCall, Request, Raise, vars
      <4>3. CASE FetchDone
        BY <4>3 DEF FetchDone, EndFetch, Return
      <4>4. CASE Sort \/ Deliver \/ UNCHANGED allVars
        BY <4>4 DEF Sort, Deliver, allVars, scanVars, vars
      <4>5. CASE \E l \in chain : Discard(l) \/ Decode(l)
        BY <4>5 DEF Discard, Decode, scanVars, vars
      <4> QED BY <4>1, <4>2, <4>3, <4>4, <4>5 DEF BatchNext, BatchStep
    <3> QED BY <3>1 DEF LimitReachable
  <2>2. failed = {} /\ lost = {}
    BY <2>1 DEF LostInv
  <2>3. CASE FetchDone
    <3>1. Missed = {}
      BY <2>2 DEF Missed
    <3> QED BY <2>2, <2>3, <3>1 DEF FetchDone, OfFetch
  <2>4. CASE ~FetchDone
    BY <2>2, <2>4 DEF BatchNext, BatchStep, StartFetch, Fetching, Sort, Deliver, Discard, Decode, allVars, batchVars
  <2> QED BY <2>3, <2>4
<1>3. BatchSpec => []AdaptsToLimit
  BY BatchRefines, AdaptsDespiteRetries, PTL
<1>4. LostInv /\ BatchComplete => FullBatch
  BY DEF LostInv, BatchComplete, FullBatch
<1> QED BY <1>1, <1>2, <1>3, <1>4, BatchIsComplete, PTL DEF BatchSpec

-----------------------------------------------------------------------------
\* What a fetch has left in attempts of calls.
AttemptsLeft == Attempts * Left - attempt

\* Every POST counts: while a fetch goes on, each attempt, successful, retried,
\* shrunk on or given up on, leaves fewer that it may still need.
PostsAdvance ==
  [][scanning /\ scanning' =>
       AttemptsLeft \in Nat /\ AttemptsLeft' \in Nat /\ AttemptsLeft' < AttemptsLeft]_scanVars

\* The budget of attempts is never overdrawn.
LEMMA AttemptsLeftInNat == SInv /\ scanning => AttemptsLeft \in Nat
<1> SUFFICES ASSUME SInv, scanning
             PROVE  AttemptsLeft \in Nat
  OBVIOUS
<1>1. attempt \in 0..MaxRetries /\ MaxRetries \in Nat /\ Left \in Nat
  BY RetryAssumption, LeftInNat DEF SInv, ScanTypeOK
<1>2. attempt # 0 => Left >= 1
  <2>1. attempt # 0 => cursor <= to
    BY DEF SInv, CallInv
  <2>2. cursor \in Nat /\ to \in Nat /\ shrinks \in 0..MaxShrinks /\ MaxShrinks \in Nat
    BY FetchAssumption DEF SInv, ScanTypeOK, TypeOK, Block
  <2> QED BY <2>1, <2>2 DEF Left
<1>3. CASE attempt = 0
  BY <1>1, <1>3 DEF AttemptsLeft, Attempts
<1>4. CASE attempt # 0
  <2>1. \A k \in Nat : k >= 1 => (MaxRetries + 1) * k >= MaxRetries + 1
    BY <1>1
  <2>2. (MaxRetries + 1) * Left >= MaxRetries + 1 /\ (MaxRetries + 1) * Left \in Nat
    BY <1>1, <1>2, <1>4, <2>1
  <2> QED BY <1>1, <2>2 DEF AttemptsLeft, Attempts
<1> QED BY <1>3, <1>4

AttemptsKept == scanning => AttemptsLeft \in Nat

\* run_with_retries inside LogFetcher.fetch: the two loops end each other.
THEOREM PostsGoForward == ScanSpec => PostsAdvance
<1>1. ASSUME SInv, SInv', ScanNext, scanning, scanning'
      PROVE  AttemptsLeft' < AttemptsLeft
  <2>1. attempt \in 0..MaxRetries /\ MaxRetries \in Nat /\ Left \in Nat /\ TypeOK
    BY <1>1, RetryAssumption, LeftInNat DEF SInv, ScanTypeOK
  <2>2. PICK reply \in Reply : RetryPost(reply) \/ EndCall(reply)
    BY <1>1 DEF ScanNext, ScanStep, BeginFetch, Begin, EndFetch, Return
  <2>3. CASE RetryPost(reply)
    <3>1. Left' = Left /\ attempt' = attempt + 1
      BY <2>3 DEF RetryPost, vars, Left
    <3>2. Attempts * Left \in Nat
      BY <2>1 DEF Attempts
    <3> QED BY <2>1, <3>1, <3>2 DEF AttemptsLeft
  <2>4. CASE EndCall(reply)
    <3>1. attempt' = 0 /\ \E answer : Request(answer)
      BY <1>1, <2>4 DEF EndCall, Raise
    <3>2. Left' < Left
      BY <2>1, <3>1, RequestAdvances
    <3>3. Left' \in Nat
      <4>1. TypeOK'
        BY <1>1 DEF SInv, ScanTypeOK
      <4> QED BY <4>1, LeftInNatNext
    <3>4. (MaxRetries + 1) * Left' + (MaxRetries + 1) <= (MaxRetries + 1) * Left
      <4>1. \A k, n \in Nat : k < n => (MaxRetries + 1) * k + (MaxRetries + 1) <= (MaxRetries + 1) * n
        <5> SUFFICES ASSUME NEW k \in Nat, NEW n \in Nat, k < n
                     PROVE  (MaxRetries + 1) * k + (MaxRetries + 1) <= (MaxRetries + 1) * n
          OBVIOUS
        <5>1. (k + 1) * (MaxRetries + 1) <= n * (MaxRetries + 1)
          BY <2>1, ProductMonotone
        <5> QED BY <2>1, <5>1
      <4> DEFINE now == Left
                 then == Left'
      <4>2. now \in Nat /\ then \in Nat /\ then < now
        BY <2>1, <3>2, <3>3
      <4> HIDE DEF now, then
      <4>3. (MaxRetries + 1) * then + (MaxRetries + 1) <= (MaxRetries + 1) * now
        BY <4>1, <4>2
      <4> QED BY <4>3 DEF now, then
    <3>5. (MaxRetries + 1) * Left' \in Nat /\ (MaxRetries + 1) * Left \in Nat
      <4>1. \A k \in Nat : (MaxRetries + 1) * k \in Nat
        BY <2>1
      <4> QED BY <2>1, <3>3, <4>1, Zenon
    <3> QED BY <2>1, <3>1, <3>4, <3>5 DEF AttemptsLeft, Attempts
  <2> QED BY <2>2, <2>3, <2>4
<1>2. SInv => AttemptsKept
  BY AttemptsLeftInNat DEF AttemptsKept
<1>3. SInv /\ SInv' /\ AttemptsKept /\ AttemptsKept' /\ [ScanNext]_scanVars =>
        [scanning /\ scanning' =>
           AttemptsLeft \in Nat /\ AttemptsLeft' \in Nat /\ AttemptsLeft' < AttemptsLeft]_scanVars
  BY <1>1 DEF AttemptsKept
<1> QED BY <1>2, <1>3, ScanInvariance, PTL DEF ScanSpec, PostsAdvance
=============================================================================
