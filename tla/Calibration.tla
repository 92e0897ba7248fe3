----------------------------- MODULE Calibration -----------------------------
(***************************************************************************)
(* Calibration reports and the selection of a calibration group: what the  *)
(* producers (aggregate..., resolve...) build, and what the schemas that   *)
(* guard every report, selection and decision accept.  The producers       *)
(* parse their own results with these schemas, so a result its schema      *)
(* refuses is an exception for a caller whose observations were valid.     *)
(*                                                                         *)
(* Metrics are exact.  A group carries totals in units of 1/Unit, Unit the *)
(* square of ConfidenceSteps: an accuracy of acc / (count * Unit), and so  *)
(* on; what binary floating point adds is the subject of DriftRounding.    *)
(* A nullable field is <<>> or <<value>>.                                  *)
(***************************************************************************)
EXTENDS Integers, Sequences, FiniteSets, SequencesExt, FiniteSetsExt

CONSTANTS
  ConfidenceSteps,  \* confidences are multiples of 1/ConfidenceSteps
  None              \* an absent label

ASSUME CalibrationAssumption == ConfidenceSteps \in Nat \ {0}

Unit == ConfidenceSteps * ConfidenceSteps

Scopes == {"task_type", "task_subtype", "prompt_pattern"}

(* The labels of an observation or a query: no pattern without a subtype.  *)
LabelsOK(x) == x.pattern # None => x.subtype # None

(* TaskCalibrationObservationListSchema and its hierarchical counterpart.  *)
ObservationsOK(obs) ==
  /\ \A i \in DOMAIN obs : LabelsOK(obs[i])
  /\ \A i, j \in DOMAIN obs : i # j => obs[i].id # obs[j].id

-----------------------------------------------------------------------------
(* Aggregation.                                                            *)

SampleStatus(count, minimum) == IF count < minimum THEN "insufficient" ELSE "sufficient"

Outcome(o)   == IF o.correct THEN ConfidenceSteps ELSE 0
BrierTerm(o) == (o.confidence - Outcome(o)) * (o.confidence - Outcome(o))

Summary(O, minimum) ==
  LET acc  == MapThenSumSet(LAMBDA o : Outcome(o) * ConfidenceSteps, O)
      conf == MapThenSumSet(LAMBDA o : o.confidence * ConfidenceSteps, O)
  IN  [count |-> Cardinality(O), acc |-> acc, conf |-> conf,
       brier |-> MapThenSumSet(BrierTerm, O), bias |-> conf - acc,
       status |-> SampleStatus(Cardinality(O), minimum)]

(* A record with the fields of another besides its own.                    *)
With(record, more) ==
  [f \in DOMAIN record \cup DOMAIN more |-> IF f \in DOMAIN record THEN record[f] ELSE more[f]]

(* The elements of a set in a fixed order.  The code sorts groups by their *)
(* labels; their keys are distinct, so nothing below depends on the order. *)
Listed(S) == FoldSet(LAMBDA x, list : Append(list, x), <<>>, S)

(* aggregateTaskCalibration: one group per task type and source.           *)
FlatKey(o) == [type |-> o.type, source |-> o.source]

FlatAggregate(obs, minimum) ==
  LET O == Range(obs)
  IN  [minimum |-> minimum,
       groups  |-> Listed({With(FlatKey(o), Summary({p \in O : FlatKey(p) = FlatKey(o)}, minimum))
                              : o \in O})]

WrongScopesOf(o) ==
  IF o.pattern # None THEN {"prompt_pattern", "task_type"} ELSE
  {"task_type"} \cup (IF o.subtype # None THEN {"task_subtype"} ELSE {})

(* An observation is added at each scope whose label it has, each time     *)
(* without the labels below that scope.                                    *)
ScopesOf(o) ==
  {"task_type"} \cup (IF o.subtype # None THEN {"task_subtype"} ELSE {})
                \cup (IF o.pattern # None THEN {"prompt_pattern"} ELSE {})

Key(o, scope) ==
  [scope   |-> scope, type |-> o.type, source |-> o.source,
   subtype |-> IF scope = "task_type" THEN None ELSE o.subtype,
   pattern |-> IF scope = "prompt_pattern" THEN o.pattern ELSE None]

Seeds(O) == UNION {{<<o, scope>> : scope \in ScopesOf(o)} : o \in O}

Aggregate(obs, minimum) ==
  LET seeds  == Seeds(Range(obs))
      keys   == {Key(s[1], s[2]) : s \in seeds}
      of(k)  == {s[1] : s \in {t \in seeds : Key(t[1], t[2]) = k}}
  IN  [minimum |-> minimum,
       groups  |-> Listed({With(k, Summary(of(k), minimum)) : k \in keys})]

-----------------------------------------------------------------------------
(* The report schemas.                                                     *)

Metrics == {"acc", "conf", "brier"}

SummaryOK(g, minimum) ==
  /\ g.count > 0
  /\ \A m \in Metrics : g[m] \in 0..(g.count * Unit)
  /\ g.status = SampleStatus(g.count, minimum)
  /\ g.bias = g.conf - g.acc

FlatReportOK(r) ==
  /\ \A i, j \in DOMAIN r.groups : i # j => FlatKey(r.groups[i]) # FlatKey(r.groups[j])
  /\ \A i \in DOMAIN r.groups : SummaryOK(r.groups[i], r.minimum)

GroupOK(g) ==
  /\ g.scope \in Scopes
  /\ (g.subtype # None) = (g.scope # "task_type")
  /\ (g.pattern # None) = (g.scope = "prompt_pattern")

ReportOK(r) ==
  /\ \A i, j \in DOMAIN r.groups :
       i # j => Key(r.groups[i], r.groups[i].scope) # Key(r.groups[j], r.groups[j].scope)
  /\ \A i \in DOMAIN r.groups : GroupOK(r.groups[i]) /\ SummaryOK(r.groups[i], r.minimum)

(* Accuracy is a ratio of whole observations.                              *)
CanonicalAccuracy(g) == g.acc % Unit = 0

ChildScope(scope) == IF scope = "task_type" THEN "task_subtype" ELSE "prompt_pattern"

Children(r, parent) ==
  {i \in DOMAIN r.groups :
     LET child == r.groups[i] IN
     /\ parent.scope # "prompt_pattern"
     /\ child.scope = ChildScope(parent.scope)
     /\ child.type = parent.type /\ child.source = parent.source
     /\ parent.scope # "task_type" => child.subtype = parent.subtype}

(* What the children leave of a total must be a total that the parent's    *)
(* other observations can have.                                            *)
RollsUp(r, parent) ==
  LET kids         == Children(r, parent)
      sum(f)       == MapThenSumSet(LAMBDA i : r.groups[i][f], kids)
      others       == parent.count - sum("count")
  IN  kids # {} => /\ others >= 0
                   /\ \A m \in Metrics : parent[m] - sum(m) \in 0..(others * Unit)

GuardedReportOK(r) ==
  /\ ReportOK(r)
  /\ \A i \in DOMAIN r.groups : CanonicalAccuracy(r.groups[i]) /\ RollsUp(r, r.groups[i])

-----------------------------------------------------------------------------
(* Resolution.                                                             *)

RequestedScope(q) ==
  IF q.pattern # None THEN "prompt_pattern" ELSE
  IF q.subtype # None THEN "task_subtype" ELSE "task_type"

FallbackOrder(scope) ==
  CASE scope = "prompt_pattern" -> <<"prompt_pattern", "task_subtype", "task_type">>
    [] scope = "task_subtype"   -> <<"task_subtype", "task_type">>
    [] scope = "task_type"      -> <<"task_type">>

Matches(g, q, scope) == g.scope = scope /\ Key(g, scope) = Key(q, scope)

(* find(): the first group of the report for this scope, as <<>> or <<g>>. *)
GroupFor(r, q, scope) ==
  LET at == {i \in DOMAIN r.groups : Matches(r.groups[i], q, scope)}
  IN  IF at = {} THEN <<>> ELSE <<r.groups[Min(at)]>>

GroupsFor(r, q) ==
  LET order == FallbackOrder(RequestedScope(q))
  IN  [i \in DOMAIN order |-> GroupFor(r, q, order[i])]

Sufficient(found) == found # <<>> /\ found[1].status = "sufficient"

Candidate(scope, found) ==
  [scope  |-> scope,
   count  |-> IF found = <<>> THEN <<>> ELSE <<found[1].count>>,
   status |-> IF found = <<>> THEN "missing" ELSE found[1].status]

(* The first index of a list whose element satisfies Test, or 0.           *)
FirstThat(list, Test(_)) ==
  LET at == {i \in DOMAIN list : Test(list[i])} IN IF at = {} THEN 0 ELSE Min(at)

Resolve(r, q) ==
  LET order  == FallbackOrder(RequestedScope(q))
      found  == GroupsFor(r, q)
      first  == FirstThat(found, Sufficient)
  IN  [query      |-> q,
       requested  |-> RequestedScope(q),
       selected   |-> IF first = 0 THEN None ELSE order[first],
       candidates |-> [i \in DOMAIN order |-> Candidate(order[i], found[i])],
       group      |-> IF first = 0 THEN <<>> ELSE found[first]]

-----------------------------------------------------------------------------
(* The selection and decision schemas.                                     *)

CandidatesFollowQuery(s) ==
  /\ s.requested = RequestedScope(s.query)
  /\ [i \in DOMAIN s.candidates |-> s.candidates[i].scope] = FallbackOrder(s.requested)

(* The selected group is the one the chosen candidate stands for.          *)
Stands(g, c, q) ==
  /\ Matches(g, q, c.scope)
  /\ c.count = <<g.count>>
  /\ g.status = "sufficient"

SelectionOK(s) ==
  LET first == FirstThat(s.candidates, LAMBDA c : c.status = "sufficient")
  IN  /\ LabelsOK(s.query)
      /\ CandidatesFollowQuery(s)
      /\ \A i \in DOMAIN s.candidates :
           (s.candidates[i].status = "missing") = (s.candidates[i].count = <<>>)
      /\ IF first = 0
         THEN s.selected = None /\ s.group = <<>>
         ELSE /\ s.selected = s.candidates[first].scope
              /\ s.group # <<>> /\ GroupOK(s.group[1])
              /\ Stands(s.group[1], s.candidates[first], s.query)

WrongDecisionOK(r, s) ==
  /\ ReportOK(r) /\ SelectionOK(s)
  /\ \A i \in DOMAIN s.candidates :
       s.candidates[i].status = Candidate(s.candidates[i].scope, GroupFor(r, s.query, s.candidates[i].scope)).status

(* HierarchicalTaskCalibrationDecisionSchema binds a selection to a report. *)
DecisionOK(r, s) ==
  LET found == [i \in DOMAIN s.candidates |-> GroupFor(r, s.query, s.candidates[i].scope)]
      first == FirstThat(found, Sufficient)
  IN  /\ ReportOK(r) /\ SelectionOK(s)
      /\ \A i \in DOMAIN s.candidates :
           s.candidates[i] = Candidate(s.candidates[i].scope, found[i])
      /\ s.group = IF first = 0 THEN <<>> ELSE found[first]

-----------------------------------------------------------------------------
(* The drift guard: a child is compared with its immediate parent.         *)

(* The difference of two Brier scores, over a.count * b.count * Unit.      *)
Delta(a, b) == a.brier * b.count - b.brier * a.count

(* rawDelta > maximum_child_parent_brier_score_delta (most / Unit).        *)
Exceeds(a, b, most) == Delta(a, b) > most * a.count * b.count

Drift(found, i, most) ==
  LET child == found[i] IN
  IF i = Len(found) THEN "not_applicable" ELSE
  IF ~ Sufficient(child) THEN "not_evaluated" ELSE
  IF ~ Sufficient(found[i + 1]) THEN "parent_unavailable" ELSE
  IF Exceeds(child[1], found[i + 1][1], most) THEN "quarantined" ELSE "within_threshold"

GuardedCandidate(order, found, i, most) ==
  LET drift == Drift(found, i, most) IN
  With(Candidate(order[i], found[i]),
       [group  |-> found[i],   \* accuracy, mean_confidence, bias and brier_score, or nulls
        drift  |-> drift,
        parent |-> IF i = Len(order) THEN None ELSE order[i + 1],
        delta  |-> IF drift \in {"quarantined", "within_threshold"}
                   THEN <<Delta(found[i][1], found[i + 1][1])>> ELSE <<>>])

Eligible(c) == c.status = "sufficient" /\ c.drift \in {"within_threshold", "not_applicable"}

GuardedResolve(r, q, most) ==
  LET order      == FallbackOrder(RequestedScope(q))
      found      == GroupsFor(r, q)
      candidates == [i \in DOMAIN order |-> GuardedCandidate(order, found, i, most)]
      first      == FirstThat(candidates, Eligible)
  IN  [query      |-> q,
       requested  |-> RequestedScope(q),
       minimum    |-> r.minimum,
       most       |-> most,
       selected   |-> IF first = 0 THEN None ELSE order[first],
       candidates |-> candidates,
       group      |-> IF first = 0 THEN <<>> ELSE found[first]]

(* HierarchicalGuardedCalibrationCandidateSchema.                          *)
GuardedCandidateOK(c) ==
  /\ (c.status = "missing") = (c.count = <<>>)
  /\ (c.status = "missing") = (c.group = <<>>)
  /\ c.group # <<>> => /\ c.group[1].bias = c.group[1].conf - c.group[1].acc
                       /\ CanonicalAccuracy(c.group[1])

(* What the schema expects of the drift fields of candidate i.             *)
DriftOK(s, i) ==
  LET c == s.candidates[i]
      p == s.candidates[i + 1]
      unevaluated(status) == c.drift = status /\ c.delta = <<>>
  IN  IF c.scope = "task_type" THEN unevaluated("not_applicable") /\ c.parent = None ELSE
      /\ i < Len(s.candidates)
      /\ c.parent = p.scope
      /\ IF c.status # "sufficient" THEN unevaluated("not_evaluated") ELSE
         IF p.status # "sufficient" THEN unevaluated("parent_unavailable") ELSE
         /\ c.group # <<>> /\ p.group # <<>>
         /\ c.delta = <<Delta(c.group[1], p.group[1])>>
         /\ c.drift = IF Exceeds(c.group[1], p.group[1], s.most)
                      THEN "quarantined" ELSE "within_threshold"

GuardedSelectionOK(s) ==
  LET first == FirstThat(s.candidates, Eligible)
  IN  /\ LabelsOK(s.query)
      /\ CandidatesFollowQuery(s)
      /\ \A i \in DOMAIN s.candidates :
           LET c == s.candidates[i] IN
           /\ GuardedCandidateOK(c)
           /\ c.status = IF c.count = <<>> THEN "missing" ELSE SampleStatus(c.count[1], s.minimum)
           /\ DriftOK(s, i)
      /\ IF first = 0
         THEN s.selected = None /\ s.group = <<>>
         ELSE /\ s.selected = s.candidates[first].scope
              /\ s.group # <<>> /\ GroupOK(s.group[1])
              /\ Stands(s.group[1], s.candidates[first], s.query)
              /\ \A f \in Metrics \cup {"bias"} :
                   s.group[1][f] = s.candidates[first].group[1][f]

GuardedDecisionOK(r, s) ==
  /\ GuardedReportOK(r) /\ GuardedSelectionOK(s)
  /\ s = GuardedResolve(r, s.query, s.most)
=============================================================================
