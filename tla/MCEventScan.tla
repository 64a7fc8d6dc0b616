---------------------------- MODULE MCEventScan ----------------------------
(* TLC instances of EventBatch.                                               *)
EXTENDS EventBatch

\* A provider that may give any reply to any request, and three whose only
\* refusals are ranges that are too wide: the third is satisfied by one halving
\* of the chunk, the second by the whole shrink budget, the first by nothing.
MCProviders ==
  {[limit |-> 4, faults |-> Faults]} \cup [limit : {1, 2, 4}, faults : {{}}]

\* No options; each alone; an end beyond the head; a negative start that the
\* cap mends, one that it does not; a start behind the end.
MCAsked ==
  {[start |-> None, end |-> None], [start |-> None, end |-> 3], [start |-> 2, end |-> None],
   [start |-> 1, end |-> MaxBlock + 2], [start |-> -1, end |-> 4], [start |-> -1, end |-> 2],
   [start |-> 4, end |-> 2]}

MCCalls == {[adapter |-> "v2", kind |-> "liquidity"], [adapter |-> "v3", kind |-> "liquidity"],
            [adapter |-> "v2", kind |-> "swap"]}

At(b, i, topic, data, numbers) ==
  [block |-> b, index |-> i, topic |-> topic, data |-> data, numbers |-> numbers]

\* Two fetches of Swappi interleave on this chain, and one log is malformed.
Mixed == {At(2, 0, "burn", TRUE, TRUE), At(2, 1, "mint", TRUE, TRUE), At(2, 2, "swap", TRUE, TRUE),
          At(3, 0, "mint", FALSE, TRUE), At(4, 0, "burn", TRUE, TRUE), At(5, 0, "swap", TRUE, TRUE)}

\* A log without a block number that can be read.
Broken == {At(3, 0, "swap", TRUE, TRUE), At(4, 0, "mint", TRUE, FALSE)}

MCChains == {Mixed, Broken}
=============================================================================
