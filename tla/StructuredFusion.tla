--------------------------- MODULE StructuredFusion ---------------------------
(***************************************************************************)
(* runStructuredFusion: a judge compares the candidate outputs, then a     *)
(* synthesis is asked for with the judge's verdict as one more output.     *)
(* Both adapters are paid for when they are called; what follows a call    *)
(* may still throw.  A run is the record of the calls it made and of how   *)
(* it ended.  A source is "provider/model"; a verdict keeps only the       *)
(* sources it mentions.                                                    *)
(***************************************************************************)
EXTENDS Integers, Sequences, FiniteSets, Functions

Distinct(s) == Cardinality(Range(s)) = Len(s)

(* StructuredJudgeResultSchema; positions[i] are the sources of the i-th   *)
(* disagreement.                                                           *)
VerdictOK(v) == \A i \in DOMAIN v.positions : Len(v.positions[i]) >= 2

(* The sources a verdict mentions.                                         *)
Mentioned(v) ==
  (UNION {Range(v.positions[i]) : i \in DOMAIN v.positions})
    \cup Range(v.strengths) \cup Range(v.rejected)

(* StructuredFusionDecisionReportSchema.                                   *)
DecisionReportOK(r) ==
  LET candidates == Range(r.candidates)
  IN  /\ Len(r.candidates) >= 2
      /\ VerdictOK(r.evidence)
      /\ Distinct(r.candidates)
      /\ r.judge \notin candidates
      /\ Mentioned(r.evidence) \subseteq candidates
      /\ \A i \in DOMAIN r.evidence.positions : Distinct(r.evidence.positions[i])
      /\ (r.evidence.positions # <<>>) = (r.outcome = "recorded_disagreement")

Stopped(calls, why) == [calls |-> calls, ended |-> why, report |-> <<>>]

(* What the judge's verdict must satisfy before anything is synthesised.   *)
WrongGrounded(v, labels) == Mentioned(v) \subseteq labels

Grounded(v, labels) ==
  /\ \A i \in DOMAIN v.positions : Distinct(v.positions[i])
  /\ Mentioned(v) \subseteq labels

DecisionReport(labels, judgeSource, v) ==
  [outcome    |-> IF v.positions # <<>> THEN "recorded_disagreement" ELSE "no_disagreement",
   candidates |-> labels, judge |-> judgeSource, evidence |-> v]

(* finalSources is what the synthesis cites, <<>> when its answer does not *)
(* parse.                                                                  *)
Run(labels, verdict, judgeSource, finalSources) ==
  IF Len(labels) < 2 \/ ~ Distinct(labels) THEN Stopped(<<>>, "candidates") ELSE
  IF ~ VerdictOK(verdict) \/ ~ Grounded(verdict, Range(labels))
                          \/ judgeSource \in Range(labels)
  THEN Stopped(<<"judge">>, "verdict") ELSE
  IF finalSources = <<>> \/ ~ (Range(finalSources) \subseteq Range(labels) \cup {judgeSource})
  THEN Stopped(<<"judge", "synthesis">>, "final") ELSE
  LET report == DecisionReport(labels, judgeSource, verdict)
  IN  IF DecisionReportOK(report)
      THEN [calls |-> <<"judge", "synthesis">>, ended |-> "fused", report |-> <<report>>]
      ELSE Stopped(<<"judge", "synthesis">>, "report")
=============================================================================
