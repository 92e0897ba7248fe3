-------------------------- MODULE AgentChatSimulator --------------------------
(***************************************************************************)
(* runAgentChatSimulator: five scripted roles take one turn each, in       *)
(* order, under limits on turns, time and budget.  A limit that is         *)
(* exceeded throws in the middle of the run: what the audit sink was told  *)
(* by then stays told.  A run is a fold of one step per role over a record *)
(* of where the run is.                                                    *)
(*                                                                         *)
(* A script gives every role an objection or none, a duration and a cost,  *)
(* and the caller a time to start at.  Times are in units of 1/Fraction    *)
(* ms: a start and a scripted duration may be fractional, the transcript's *)
(* times may not.                                                          *)
(***************************************************************************)
EXTENDS Integers, Sequences, FiniteSets, SequencesExt

CONSTANTS
  Fraction,   \* units in a millisecond
  Unlimited   \* an absent maxBudgetUsd

ASSUME FractionAssumption == Fraction \in Nat \ {0}

Roles == <<"planner", "coder", "reviewer", "red_team", "closeout">>

PhaseOf(role) ==
  CASE role = "planner"  -> "planning"
    [] role = "coder"    -> "coding"
    [] role = "reviewer" -> "review"
    [] OTHER             -> role

Objectors == {"reviewer", "red_team"}

(* normalizeAgentChatLimits.                                               *)
LimitsOK(l) ==
  /\ l.turns >= 1 /\ l.duration >= 1 /\ l.phase >= 1
  /\ \A i \in DOMAIN Roles : l.perRole[Roles[i]] >= 1
  /\ l.budget # Unlimited => l.budget >= 0

Fresh == [ended |-> "running", turns |-> <<>>, elapsed |-> 0, spent |-> 0,
          phase |-> "none", objections |-> <<>>, audit |-> <<"started">>]

(* The limits are looked at before the turn is taken: time and money that  *)
(* would go over are not spent.  A role has one turn in the script.        *)
WrongWithinLimits(run, step, l, role) ==
  /\ Len(run.turns) < l.turns
  /\ step.duration <= l.phase * Fraction
  /\ run.elapsed + step.duration <= l.duration * Fraction
  /\ l.budget # Unlimited => run.spent <= l.budget

WithinLimits(run, step, l, role) ==
  /\ Len(run.turns) < l.turns
  /\ Cardinality({i \in DOMAIN run.turns : run.turns[i].role = role}) + 1 <= l.perRole[role]
  /\ step.duration <= l.phase * Fraction
  /\ run.elapsed + step.duration <= l.duration * Fraction
  /\ l.budget # Unlimited => run.spent + step.cost <= l.budget

Verdict(step, role) ==
  IF role \notin Objectors THEN <<>> ELSE
  IF step.objects THEN <<"objection_raised">> ELSE
  <<IF role = "reviewer" THEN "review_passed" ELSE "red_team_passed">>

TakeTurn(run, role, script, l) ==
  LET step == script[role] IN
  IF run.ended # "running" THEN run ELSE
  IF step.duration < 0 \/ step.cost < 0 THEN [run EXCEPT !.ended = "bad_step"] ELSE
  IF ~ WithinLimits(run, step, l, role) THEN [run EXCEPT !.ended = "limit"] ELSE
  LET started == IF run.phase = PhaseOf(role) THEN <<>> ELSE <<"phase_started">>
      at      == run.elapsed + step.duration
  IN  [run EXCEPT
        !.phase      = PhaseOf(role),
        !.elapsed    = at,
        !.spent      = @ + step.cost,
        !.turns      = Append(@, [role |-> role, at |-> at]),
        !.objections = IF step.objects /\ role \in Objectors THEN Append(@, role) ELSE @,
        !.audit      = @ \o started \o <<"turn_recorded">> \o Verdict(step, role)]

(* AgentChatTranscriptSchema: the start, which is the caller's, and the    *)
(* times counted from it are whole milliseconds from zero on.              *)
TranscriptOK(run, start) ==
  /\ start >= 0 /\ start % Fraction = 0
  /\ \A i \in DOMAIN run.turns : (start + run.turns[i].at) % Fraction = 0

(* After the last role: the decision is announced before the transcript is *)
(* parsed.                                                                 *)
Finish(run, start) ==
  LET decision == IF run.objections = <<>> THEN "ready" ELSE "not_ready"
      told     == [run EXCEPT !.audit = IF decision = "ready"
                                        THEN Append(@, "closeout_ready") ELSE @]
  IN  IF run.ended # "running" THEN run ELSE
      [told EXCEPT !.ended = IF TranscriptOK(run, start) THEN decision ELSE "bad_transcript"]

Simulate(script, start, l) ==
  IF ~ LimitsOK(l) THEN [Fresh EXCEPT !.ended = "bad_limits", !.audit = <<>>] ELSE
  Finish(FoldLeft(LAMBDA run, role : TakeTurn(run, role, script, l), Fresh, Roles),
         start)
=============================================================================
