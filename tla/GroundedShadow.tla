---------------------------- MODULE GroundedShadow ----------------------------
(***************************************************************************)
(* How two evaluators' answers about one candidate are read and combined   *)
(* (evaluation/grounded_shadow.ts).  An answer says of each requirement    *)
(* whether, and by which span of the candidate and evidence, it is         *)
(* satisfied, names unsupported claims, and draws a conclusion.            *)
(***************************************************************************)
EXTENDS Naturals

CONSTANTS
  Requirements,  \* of the task contract; all are required
  Grounds,       \* a span with evidence that may satisfy a requirement
  Claims,        \* unsupported claims the candidate may make
  Reasons        \* the abstention reasons that the contract allows

ASSUME ContractAssumption ==
  /\ Requirements # {}
  /\ "none" \notin Grounds \cup Reasons

Evaluators == 1 .. 2

Statuses == {"qualified", "abstained", "non_answer", "invalid"}

Answers ==
  [status  : Statuses,
   grounds : [Requirements -> Grounds \cup {"none"}],
   claims  : SUBSET Claims,
   asks    : BOOLEAN,   \* for evidence that is available
   reason  : Reasons \cup {"none"},
   sure    : BOOLEAN]   \* is its confidence above the contract's threshold?

Satisfied(q) == {r \in Requirements : q.grounds[r] # "none"}

\* The grounding invariants: the status an answer may draw from its findings.
Coherent(q) ==
  \/ /\ q.status = "qualified" /\ Satisfied(q) = Requirements
     /\ ~ q.asks /\ q.claims = {} /\ q.reason = "none"
  \/ /\ q.status = "abstained" /\ Satisfied(q) = {}
     /\ ~ q.asks /\ q.claims = {} /\ q.reason # "none"
  \/ /\ q.status = "non_answer" /\ Satisfied(q) # Requirements
     /\ q.claims = {} /\ q.reason = "none"
  \/ q.status = "invalid" /\ q.claims # {} /\ q.reason = "none"

\* What an evaluator's output amounts to: the answer that parseQualification
\* returns, or nothing if it throws.
Parsed == {{}} \cup {{q} : q \in {a \in Answers : Coherent(a)}}

\* The findings about requirements are left out.
WrongCanonical(q) == <<q.status, q.reason, q.claims>>

\* canonicalQualification: neither confidence nor the wish for evidence counts.
Canonical(q) == <<q.status, q.reason, q.claims, q.grounds>>

Agree(p, q) == Canonical(p) = Canonical(q)

\* The disposition of an evaluation.
Resolve(parsed) ==
  IF \E e \in Evaluators : parsed[e] = {}
    THEN "offline_unavailable"
  ELSE IF \E p \in parsed[1], q \in parsed[2] : ~ Agree(p, q)
    THEN "offline_disputed"
  ELSE IF \E p \in parsed[1] : p.status = "qualified"
    THEN "offline_match_qualified"
  ELSE "offline_match_non_qualified"

Dispositions == {"offline_unavailable", "offline_disputed",
                 "offline_match_qualified", "offline_match_non_qualified"}

\* Does the first evaluator's answer leave it open whether it can be relied on?
\* (What the contract says of its own is up to the caller.)
Doubtful(parsed) ==
  \A q \in parsed : ~ q.sure \/ q.claims # {} \/ q.asks
=============================================================================
