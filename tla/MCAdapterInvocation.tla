------------------------ MODULE MCAdapterInvocation -------------------------
(* Calls for TLC on a process adapter that can refresh its credentials (p1,    *)
(* p2) and on a direct HTTP adapter (h1), with a common budget.                *)
EXTENDS AdapterInvocation

AdapterFor(call) == IF call = "h1" THEN "openai" ELSE "codex"

MCCalls     == {"p1", "p2", "h1"}
MCAdapterOf == [c \in MCCalls |-> AdapterFor(c)]
MCAdapters  == {"codex", "openai"}
MCTransport == [a \in MCAdapters |-> IF a = "openai" THEN "http" ELSE "process"]
MCAuth      == [a \in MCAdapters |-> IF a = "openai" THEN "none" ELSE "refresh"]
MCCost      == [a \in MCAdapters |-> IF a = "openai" THEN 2 ELSE 3]
=============================================================================
