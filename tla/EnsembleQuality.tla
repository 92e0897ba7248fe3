--------------------------- MODULE EnsembleQuality ---------------------------
(***************************************************************************)
(* aggregateEnsembleQuality: how a panel of models did on observations a   *)
(* caller has labelled.  An observation gives every source of the panel a  *)
(* candidate; the report has four sections computed apart from each other, *)
(* and a schema that the producer parses its own report with.              *)
(*                                                                         *)
(* A number is a fraction <<n, d>>, null is <<>>.  The rates of the regret *)
(* are rounded to Digits significant digits, and compared as the code does *)
(* with what is recomputed from the counts and one rounded rate.  The      *)
(* other rates are rounded once, from a count: they are kept exact.        *)
(* Embeddings are there or not; their cosines and effective rank are real  *)
(* arithmetic and are left out.                                            *)
(***************************************************************************)
EXTENDS Integers, Sequences, FiniteSets, Functions, FiniteSetsExt

CONSTANTS
  None,      \* no selected source, no majority
  Digits,    \* of a rounded rate: 15
  Tolerance  \* two rates are equal if they differ by 1 / Tolerance or less: 10^12

-----------------------------------------------------------------------------
(* The input schemas.                                                      *)

Panel(o) == DOMAIN o.candidates

ObservationOK(o) ==
  /\ Cardinality(Panel(o)) >= 2
  /\ o.selected \in Panel(o) \cup {None}

(* One list: distinct ids, one panel, one task type.                       *)
ObservationsOK(obs) ==
  /\ obs # <<>>
  /\ \A i \in DOMAIN obs : ObservationOK(obs[i])
  /\ \A i, j \in DOMAIN obs :
       /\ i # j => obs[i].id # obs[j].id
       /\ Panel(obs[i]) = Panel(obs[j])
       /\ obs[i].type = obs[j].type

-----------------------------------------------------------------------------
(* How often the observations satisfy a test.                              *)
Count(obs, Test(_)) == Cardinality({i \in DOMAIN obs : Test(obs[i])})

Correct(o, s) == o.candidates[s].correct

(* A share that is null when there is nothing to take it of.               *)
ShareOf(n, d) == IF d = 0 THEN <<>> ELSE <<n, d>>

Pair(obs, a, b) ==
  LET bFailed == Count(obs, LAMBDA o : ~ Correct(o, b))
      aFailed == Count(obs, LAMBDA o : ~ Correct(o, a))
  IN  [samples   |-> Len(obs),
       cofailed  |-> Count(obs, LAMBDA o : ~ Correct(o, a) /\ ~ Correct(o, b)),
       disagreed |-> Count(obs, LAMBDA o : Correct(o, a) # Correct(o, b)),
       aGivenB   |-> ShareOf(Count(obs, LAMBDA o : Correct(o, a) /\ ~ Correct(o, b)), bFailed),
       bGivenA   |-> ShareOf(Count(obs, LAMBDA o : Correct(o, b) /\ ~ Correct(o, a)), aFailed)]

(* Each unordered pair once, by the sources' order.                        *)
Cofailure(obs, panel) ==
  [panel     |-> panel,
   sources   |-> [i \in DOMAIN panel |-> Count(obs, LAMBDA o : Correct(o, panel[i]))],
   pairs     |-> [p \in {q \in (DOMAIN panel) \X (DOMAIN panel) : q[1] < q[2]} |->
                    Pair(obs, panel[p[1]], panel[p[2]])],
   samples   |-> Len(obs),
   allFailed |-> Count(obs, LAMBDA o : \A s \in Panel(o) : ~ Correct(o, s))]

Minus(x, y)   == <<x[1] * y[2] - y[1] * x[2], x[2] * y[2]>>
Quotient(x, y) == <<x[1] * y[2], x[2] * y[1]>>

Magnitude(n) == IF n < 0 THEN -n ELSE n

Near(x, y) == Tolerance * Magnitude(Minus(x, y)[1]) <= x[2] * y[2]

(* stableMetric, of a fraction with a positive denominator: its magnitude  *)
(* is scaled to Digits digits, rounded, a half upwards, and scaled back.   *)
(* No rate is that large or small that the scale is out of these bounds.   *)
Stable(x) ==
  IF x[1] = 0 THEN <<0, 1>> ELSE
  LET n     == Magnitude(x[1])
      scale == CHOOSE e \in 0..(2 * Digits) :
                 10^(Digits - 1) * x[2] <= n * 10^e /\ n * 10^e < 10^Digits * x[2]
      whole == (2 * n * 10^scale + x[2]) \div (2 * x[2])
  IN  <<IF x[1] < 0 THEN -whole ELSE whole, 10^scale>>

(* What the selector won, what the best single source would have, and what *)
(* an oracle that always picks a correct candidate would have.             *)
SelectionRegret(obs, panel) ==
  LET oracle   == Count(obs, LAMBDA o : \E s \in Panel(o) : Correct(o, s))
      selected == Count(obs, LAMBDA o : o.selected # None)
      success  == Count(obs, LAMBDA o : o.selected # None /\ Correct(o, o.selected))
      wins     == [i \in DOMAIN panel |-> Count(obs, LAMBDA o : Correct(o, panel[i]))]
      best     == Max(Range(wins))
      rate(n)  == Stable(<<n, Len(obs)>>)
      uplift   == rate(oracle - best)
      captured == rate(success - best)
  IN  [observations |-> Len(obs), oracle |-> oracle, selected |-> selected, success |-> success,
       oracleRate |-> rate(oracle), selectedRate |-> rate(success), bestRate |-> rate(best),
       bestSources |-> {panel[i] : i \in {j \in DOMAIN panel : wins[j] = best}},
       uplift |-> uplift, captured |-> captured,
       captureRate |-> IF uplift[1] = 0 THEN <<>> ELSE Stable(Quotient(captured, uplift)),
       givenOracle |-> IF oracle = 0 THEN <<>> ELSE Stable(<<success, oracle>>),
       regret |-> Stable(Minus(rate(oracle), rate(success)))]

Backers(o, c) == {s \in Panel(o) : o.candidates[s].conclusion = c}
Conclusions(o) == {o.candidates[s].conclusion : s \in Panel(o)}

WrongMajority(o) ==
  LET most == {c \in Conclusions(o) : 2 * Cardinality(Backers(o, c)) >= Cardinality(Panel(o))}
  IN  IF most = {} THEN None ELSE CHOOSE c \in most : TRUE

(* A conclusion with more than half of the panel behind it.                *)
Majority(o) ==
  LET most == {c \in Conclusions(o) : 2 * Cardinality(Backers(o, c)) > Cardinality(Panel(o))}
  IN  IF most = {} THEN None ELSE CHOOSE c \in most : TRUE

(* Without a majority every candidate is reported.                         *)
MinorityReport(o) ==
  LET majority == Majority(o)
      minority == Panel(o) \ Backers(o, majority)
  IN  [id         |-> o.id,
       majority   |-> majority,
       backers    |-> Backers(o, majority),
       minority   |-> minority,
       evidence   |-> UNION {o.candidates[s].evidence : s \in minority},
       overturned |-> majority # None /\ o.selected \in minority,
       unresolved |-> IF Cardinality(Conclusions(o)) > 1 THEN Conclusions(o) ELSE {}]

Pairs(S) == {{a, b} : a, b \in S} \ {{s} : s \in S}

(* 1 - |A n B| / |A u B| of two evidence sets, as <<n, d>>; 0 if both are  *)
(* empty.                                                                  *)
Jaccard(A, B) ==
  IF A \cup B = {} THEN <<0, 1>>
  ELSE <<Cardinality(A \cup B) - Cardinality(A \cap B), Cardinality(A \cup B)>>

Diversity(o) ==
  LET n        == Cardinality(Panel(o))
      squares  == MapThenSumSet(LAMBDA c : Cardinality(Backers(o, c)) * Cardinality(Backers(o, c)),
                                Conclusions(o))
      embedded == {s \in Panel(o) : o.candidates[s].embedded}
  IN  [id         |-> o.id,
       \* the Gini-Simpson index over its greatest value for n candidates
       normalized |-> <<n * n - squares, n * n - n>>,
       jaccard    |-> [p \in Pairs(Panel(o)) |->
                         LET a == CHOOSE s \in p : TRUE
                             b == CHOOSE s \in p : s # a
                         IN  Jaccard(o.candidates[a].evidence, o.candidates[b].evidence)],
       embedded   |-> Cardinality(embedded),
       cosines    |-> Cardinality(Pairs(embedded)),
       signatures |-> Cardinality({<<o.candidates[s].conclusion, o.candidates[s].evidence>>
                                    : s \in Panel(o)}),
       basis      |-> IF Cardinality(embedded) < 2 THEN "signatures" ELSE "rank"]

(* The panel in the order of its sources; sources are numbers here.        *)
SortedPanel(o) == [i \in 1..Cardinality(Panel(o)) |->
                    CHOOSE s \in Panel(o) : Cardinality({t \in Panel(o) : t <= s}) = i]

(* The observations in the order of their identifiers.                     *)
ById(obs) == [i \in DOMAIN obs |->
               CHOOSE o \in Range(obs) : Cardinality({p \in Range(obs) : p.id <= o.id}) = i]

Aggregate(obs) ==
  LET ordered == ById(obs)
      panel   == SortedPanel(ordered[1])
      times   == {ordered[i].at : i \in DOMAIN ordered}
  IN  [type       |-> ordered[1].type,
       started    |-> Min(times),
       ended      |-> Max(times),
       count      |-> Len(ordered),
       panel      |-> panel,
       cofailure  |-> Cofailure(ordered, panel),
       regret     |-> SelectionRegret(ordered, panel),
       minorities |-> [i \in DOMAIN ordered |-> MinorityReport(ordered[i])],
       diversity  |-> [i \in DOMAIN ordered |-> Diversity(ordered[i])]]

-----------------------------------------------------------------------------
(* The report schema.                                                      *)

IsRate(x) == x[1] \in 0..x[2]
IsShare(x) == x # <<>> => IsRate(x)

PairOK(p) ==
  /\ p.cofailed \in 0..p.samples /\ p.disagreed \in 0..p.samples
  /\ IsShare(p.aGivenB) /\ IsShare(p.bGivenA)

(* The schema of the selection regret: its counts, its rates, and the      *)
(* share of the uplift that was captured, which it recomputes from the     *)
(* rounded rate of the best source.                                        *)
CountsOK(r) ==
  /\ r.oracle \in 0..r.observations
  /\ r.selected \in 0..r.observations
  /\ r.success \in 0..r.selected /\ r.success <= r.oracle
  /\ r.bestSources # {}

SameOrNull(x, y) == IF x = <<>> \/ y = <<>> THEN x = y ELSE Near(x, y)

Recomputed(r) ==
  LET oracle == <<r.oracle, r.observations>>
      success == <<r.success, r.observations>>
  IN  [oracleRate |-> oracle, selectedRate |-> success,
       uplift |-> Minus(oracle, r.bestRate), captured |-> Minus(success, r.bestRate),
       regret |-> Minus(oracle, success)]

RatesOK(r) ==
  /\ \A f \in {"oracleRate", "selectedRate", "uplift", "captured", "regret"} :
       Near(r[f], Recomputed(r)[f])
  /\ \A f \in {"oracleRate", "selectedRate", "bestRate", "uplift", "regret"} : IsRate(r[f])
  /\ r.captured[1] \in (-r.captured[2])..r.captured[2]
  /\ SameOrNull(r.givenOracle, IF r.oracle = 0 THEN <<>> ELSE <<r.success, r.oracle>>)

CaptureOK(r) ==
  LET again == Recomputed(r) IN
  /\ r.captureRate # <<>> => r.captureRate[1] <= r.captureRate[2]
  /\ SameOrNull(r.captureRate, IF Near(again.uplift, <<0, 1>>) THEN <<>>
                               ELSE Quotient(again.captured, again.uplift))

MinorityOK(m) == m.majority # None => m.backers # {}

DiversityOK(d) ==
  /\ IsShare(d.normalized)
  /\ \A p \in DOMAIN d.jaccard : IsShare(d.jaccard[p])
  /\ d.embedded \in 0..16 /\ d.cosines \in 0..120 /\ d.signatures \in 1..16

(* All that the schema asks but of the regret's rates.                     *)
ShapeOK(r) ==
  /\ Len(r.panel) \in 2..16
  /\ r.cofailure.panel = r.panel
  /\ \A p \in DOMAIN r.cofailure.pairs : PairOK(r.cofailure.pairs[p])
  /\ r.cofailure.allFailed \in 0..r.cofailure.samples
  /\ CountsOK(r.regret)
  /\ r.count = r.regret.observations
  /\ r.count = Len(r.minorities) /\ r.count = Len(r.diversity)
  /\ \A i \in DOMAIN r.minorities : MinorityOK(r.minorities[i])
  /\ \A i \in DOMAIN r.diversity : DiversityOK(r.diversity[i])
  /\ r.started <= r.ended

ReportOK(r) == ShapeOK(r) /\ RatesOK(r.regret) /\ CaptureOK(r.regret)
=============================================================================
