------------------------------ MODULE Catalog ------------------------------
(* What a reader of the pools and tokens tables may rely on, however many     *)
(* discoveries fill them: rows are only ever added, pools one commit at a     *)
(* time, and a token only when a pool it belongs to was registered before.    *)
CONSTANTS Pool, Token, TokensOf

VARIABLES pools,           \* the registered pools
          tokens           \* the tokens that have a row

vars == <<pools, tokens>>

Init == pools = {} /\ tokens = {}

Described == UNION {TokensOf[p] : p \in pools}

Describe ==
  /\ tokens \subseteq tokens'
  /\ tokens' \subseteq tokens \cup (Token \cap Described)

Register == (\E p \in Pool : pools' = pools \cup {p}) \/ UNCHANGED pools

Next == Register /\ Describe

Spec == Init /\ [][Next]_vars
=============================================================================
