---------------------------- MODULE BlockRanges ----------------------------
(* chain/blocks.py: resolve_block_range, which turns the block numbers of the *)
(* command line into the range a run collects events from.                    *)
EXTENDS Integers

CONSTANTS None,            \* an option that was not given
          Lookback,        \* default_lookback_blocks
          MaxBlocksPerRun  \* max_blocks_per_run

ASSUME RangeAssumption ==
  /\ None \notin Int
  /\ Lookback \in Int /\ MaxBlocksPerRun \in Int

Smaller(a, b) == IF a <= b THEN a ELSE b
Larger(a, b)  == IF a >= b THEN a ELSE b

\* Mutant: end_block is not capped at the head of the chain.
RangeEndUncapped(asked, head) == IF asked.end = None THEN head ELSE asked.end

RangeEnd(asked, head) ==
  IF asked.end = None THEN head ELSE Smaller(asked.end, head)

\* The first block before the cap on the length is applied.
WishedStart(asked, head) ==
  IF asked.start = None THEN Larger(RangeEnd(asked, head) - Lookback + 1, 0) ELSE asked.start

\* Mutant: one block too many is cut off.
RangeStartOffByOne(asked, head) ==
  Larger(WishedStart(asked, head), RangeEnd(asked, head) - MaxBlocksPerRun + 2)

\* The most recent blocks of a range that is too long are kept.
RangeStart(asked, head) ==
  Larger(WishedStart(asked, head), RangeEnd(asked, head) - MaxBlocksPerRun + 1)

\* ConfigurationError: of resolve_block_range, or of BlockRange itself.
RangeRefused(asked, head) ==
  \/ WishedStart(asked, head) > RangeEnd(asked, head)
  \/ RangeStart(asked, head) > RangeEnd(asked, head)
  \/ RangeStart(asked, head) < 0 \/ RangeEnd(asked, head) < 0

\* The same blocks, said without arithmetic on the bounds: those the options
\* name, up to the head, that are not too old for the lookback or the cap.
Wanted(asked, head, b) ==
  LET named == {c \in 0..head : asked.end # None => c <= asked.end}
      newer == {c \in named : c > b}
      Few(n) == \A c \in newer : c - b < n
  IN /\ b \in named
     /\ IF asked.start = None THEN Few(Lookback) ELSE b >= asked.start
     /\ Few(MaxBlocksPerRun)
=============================================================================
