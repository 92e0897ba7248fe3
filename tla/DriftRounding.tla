----------------------------- MODULE DriftRounding -----------------------------
(***************************************************************************)
(* The drift guard in binary floating point.  Calibration compares exact   *)
(* differences; the code subtracts two Brier scores that are doubles and   *)
(* compares the difference with a threshold that is one, too.              *)
(*                                                                         *)
(* Observations come one at a time, each certain of its answer, so a Brier *)
(* score is the share of wrong ones; those of the child group count for    *)
(* the parent group as well.  stableMetric makes of such a share the       *)
(* number nearest to it, for shares that have at most fifteen decimals.    *)
(*                                                                         *)
(* A binary number of Precision bits, between 1/16 and 1 or zero, is kept  *)
(* as an integer in units of One / 2^Grid, for which a double's 53 bits    *)
(* are too many; the expansions of tenths repeat every four bits, so that  *)
(* precisions which differ by a multiple of four round them alike.         *)
(***************************************************************************)
EXTENDS Integers

CONSTANTS
  Precision,  \* bits of a number: at most 21 and, like 53, one more than a multiple of 4
  MostChild,  \* bound: observations of the child group
  MostParent  \* bound: observations of the parent group

VARIABLES
  child,      \* observations of the child group: [count, wrong]
  parent,     \* those of its parent, the child's among them
  threshold   \* maximum_child_parent_brier_score_delta, in tenths

vars == <<child, parent, threshold>>

Grid == Precision + 3
One  == 2^Grid

(* n / d rounded to an integer, a half to the even one.                    *)
Nearest(n, d) ==
  LET below == n \div d
      rest  == 2 * (n % d)
  IN  IF rest < d \/ (rest = d /\ below % 2 = 0) THEN below ELSE below + 1

(* The distance of the numbers of this precision near z / One.             *)
Ulp(z) == IF 2 * z < 1 THEN 1 ELSE
          LET j == CHOOSE j \in 0..4 : /\ z * 2^j >= One \/ j = 4
                                       /\ \A i \in 0..(j - 1) : z * 2^i < One
          IN  2^(4 - j)

(* The numbers nearest to n / d, and to the difference of two numbers.     *)
Binary(n, d) ==
  LET ulp == Ulp((n * One) \div d) IN ulp * Nearest(n * (One \div ulp), d)
Minus(x, y) == LET ulp == Ulp(x - y) IN ulp * Nearest(x - y, ulp)

Init ==
  /\ child = [count |-> 0, wrong |-> 0] /\ parent = child
  /\ threshold \in 1..5

Plus(group, wrong) == [count |-> group.count + 1, wrong |-> group.wrong + wrong]

Observe ==
  \E wrong \in 0..1, inChild \in BOOLEAN :
    /\ parent.count < MostParent /\ (inChild => child.count < MostChild)
    /\ parent' = Plus(parent, wrong)
    /\ child' = IF inChild THEN Plus(child, wrong) ELSE child
    /\ UNCHANGED threshold

Spec == Init /\ [][Observe]_vars

-----------------------------------------------------------------------------
Brier(group) == Binary(group.wrong, group.count)

(* rawDelta > maximum_child_parent_brier_score_delta.                      *)
Quarantined == Minus(Brier(child), Brier(parent)) > Binary(threshold, 10)

(* Counts whose shares have few decimals.                                  *)
Decimal == {1, 2, 4, 5, 8, 10}

(* A child that is worse than its parent by exactly the threshold is not   *)
(* quarantined: "Equality remains within threshold" (docs/calibration.md). *)
EqualityIsWithin ==
  /\ child.count \in Decimal /\ parent.count \in Decimal
  /\ 10 * (child.wrong * parent.count - parent.wrong * child.count)
       = threshold * child.count * parent.count
  => ~ Quarantined
=============================================================================
