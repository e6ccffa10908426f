----------------------------- MODULE SpcEngine -----------------------------
(***************************************************************************)
(* Statistical process control.  A sample is [lot, wafer, at, z], where z  *)
(* is its distance from the centre line in sigmas, a number the model      *)
(* takes as given: the mean and the standard deviation of a baseline are   *)
(* floating-point arithmetic.  z is doubled so that whole sigmas can be    *)
(* told from what lies between them, and may be negative.                  *)
(***************************************************************************)
EXTENDS Integers, FiniteSets, Sequences, SequencesExt, FiniteSetsExt

CONSTANTS
  NelsonLength,    \* the windows of the eight rules (1, 9, 6, 14, 3, 5, 15, 8)
  ChartPoints,     \* the points of a baseline that a chart needs (20)
  ChartGroups      \* the subgroups that an Xbar chart needs (10)

ASSUME NelsonAssumption == NelsonLength \in [1 .. 8 -> Nat \ {0}]

Above(z, sigma) == z > 2 * sigma
Below(z, sigma) == z < -2 * sigma
Inside(z, sigma) == ~Above(z, sigma) /\ ~Below(z, sigma)
Steps(w) == 1 .. Len(w) - 1
Rising(w) == \A i \in Steps(w) : w[i] < w[i + 1]
Falling(w) == \A i \in Steps(w) : w[i] > w[i + 1]

-----------------------------------------------------------------------------
(* The Nelson rules, each over the windows of its length.                  *)

Many(w, P(_), n) == Cardinality({i \in DOMAIN w : P(w[i])}) >= n
All(w, P(_)) == \A i \in DOMAIN w : P(w[i])

\* The direction in which a window breaks a rule, or "none".
Breaks(rule, w) ==
  LET side(n, sigma) == IF Many(w, LAMBDA z : Above(z, sigma), n) THEN "high"
                        ELSE IF Many(w, LAMBDA z : Below(z, sigma), n) THEN "low" ELSE "none"
      steps == [i \in Steps(w) |-> w[i + 1] - w[i]]
  IN CASE rule = 1 -> side(1, 3)
       [] rule = 2 -> side(Len(w), 0)
       [] rule = 3 -> IF Rising(w) THEN "increasing" ELSE IF Falling(w) THEN "decreasing" ELSE "none"
       [] rule = 4 -> IF \A i \in Steps(steps) : steps[i] * steps[i + 1] < 0 THEN "alternating" ELSE "none"
       [] rule = 5 -> side(2, 2)
       [] rule = 6 -> side(4, 1)
       [] rule = 7 -> IF All(w, LAMBDA z : z < 2 /\ z > -2) THEN "center" ELSE "none"
       [] rule = 8 -> IF /\ All(w, LAMBDA z : Above(z, 1) \/ Below(z, 1))
                         /\ Many(w, LAMBDA z : Above(z, 1), 1) /\ Many(w, LAMBDA z : Below(z, 1), 1)
                      THEN "both_sides" ELSE "none"

\* The windows of a rule that break it, as the index of their last sample.
RuleEnds(samples, rule) ==
  {e \in NelsonLength[rule] .. Len(samples) :
     Breaks(rule, [i \in 1 .. NelsonLength[rule] |-> samples[e - NelsonLength[rule] + i].z]) # "none"}

Violation(samples, rule, e) ==
  LET w == SubSeq(samples, e - NelsonLength[rule] + 1, e)
  IN [rule |-> rule, direction |-> Breaks(rule, [i \in DOMAIN w |-> w[i].z]), end |-> Last(w).at,
      lots |-> {w[i].lot : i \in DOMAIN w}]

\* One violation is kept of a rule and an end time: the later of two samples of
\* one time replaces the earlier.
NelsonViolations(samples) ==
  UNION {{Violation(samples, rule, e) :
            e \in {e \in RuleEnds(samples, rule) : \A f \in RuleEnds(samples, rule) : samples[f].at = samples[e].at => f <= e}}
         : rule \in 1 .. 8}

-----------------------------------------------------------------------------
(* The charts: what they need, beyond the baseline that a profile asks for.*)

\* shape: the baseline's number of points or subgroups, whether its subgroups
\* are equal and of a supported size, and whether it varies.
ChartNeeds(chart, shape) ==
  /\ shape.count >= (IF chart \in {"XBAR_S", "XBAR_R"} THEN ChartGroups ELSE ChartPoints)
  /\ shape.varies
  /\ chart \in {"XBAR_S", "XBAR_R"} => shape.regular

\* Capability is for decisions only when it can be computed and is stable.
Capability(hasLimits, analysisVaries, violations) ==
  IF ~hasLimits THEN "none" ELSE IF analysisVaries /\ violations = {} THEN "valid" ELSE "informational"

ChartStatus(violations) == IF violations = {} THEN "IN_CONTROL" ELSE "OOC"

-----------------------------------------------------------------------------
(* The two run rules of the basic analysis.                                *)

Side(z) == IF z > 0 THEN "above" ELSE IF z < 0 THEN "below" ELSE "none"

\* The length of the run that ends at each sample, and the longest of them.
SameSideRun(w) ==
  LET run[i \in 0 .. Len(w)] ==
        IF i = 0 \/ Side(w[i]) = "none" THEN 0
        ELSE IF i > 1 /\ Side(w[i - 1]) = Side(w[i]) THEN run[i - 1] + 1 ELSE 1
  IN Max({run[i] : i \in 0 .. Len(w)})

MonotonicTrend(w, length) ==
  \E s \in 0 .. Len(w) - length : LET v == SubSeq(w, s + 1, s + length) IN Rising(v) \/ Falling(v)
=============================================================================
