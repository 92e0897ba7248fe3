--------------------------- MODULE MCQuorumRoute ----------------------------
(***************************************************************************)
(* QuorumRoute for TLC: two requests on a router with two process adapters *)
(* of one descriptor and an HTTP adapter.                                  *)
(***************************************************************************)
EXTENDS QuorumRoute

MCRequests   == {"r1", "r2"}
MCCandidates == <<"claude", "gpt", "claude2">>
MCKey        == [a \in {"claude", "gpt", "claude2"} |-> IF a = "gpt" THEN "gpt" ELSE "claude"]
MCIsProcess  == [a \in {"claude", "gpt", "claude2"} |-> a # "gpt"]
MCCustom     == [a \in {"claude", "gpt", "claude2"} |-> a = "gpt"]
MCCost       == [k \in {"gpt", "claude"} |-> 2]
=============================================================================
