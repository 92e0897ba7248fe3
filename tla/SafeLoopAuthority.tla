-------------------------- MODULE SafeLoopAuthority --------------------------
(***************************************************************************)
(* What AgentRuntime relies on when it has an action executed: a request   *)
(* is accepted only after its action has been applied to the repository,   *)
(* and applied at most once.  It may be refused although it has been, or   *)
(* is about to be, applied.                                                *)
(***************************************************************************)
CONSTANT Requests

VARIABLES
  answer,  \* answer[r]: what execute() has told the caller
  applied  \* applied[r]: has r's action changed the repository?

vars == <<answer, applied>>

Init ==
  /\ answer = [r \in Requests |-> "none"]
  /\ applied = [r \in Requests |-> FALSE]

Apply(r) ==
  /\ answer[r] # "accepted" /\ ~ applied[r]
  /\ applied' = [applied EXCEPT ![r] = TRUE]
  /\ UNCHANGED answer

Accept(r) ==
  /\ answer[r] = "none" /\ applied[r]
  /\ answer' = [answer EXCEPT ![r] = "accepted"]
  /\ UNCHANGED applied

Refuse(r) ==
  /\ answer[r] = "none"
  /\ answer' = [answer EXCEPT ![r] = "refused"]
  /\ UNCHANGED applied

Next == \E r \in Requests : Apply(r) \/ Accept(r) \/ Refuse(r)

Spec == Init /\ [][Next]_vars
=============================================================================
