---------------------------- MODULE SignalScores ----------------------------
(***************************************************************************)
(* How the information agents turn scored rows into a signal               *)
(* (information_agents/agents.py): a row is a score with a weight, a       *)
(* signal is their weighted mean, a confidence and a direction.  Scores    *)
(* are in basis points (10000 is the code's 1.0), weights in percent (100  *)
(* is 1.0); the code keeps six decimals, the model cuts off after four.    *)
(***************************************************************************)
EXTENDS Integers, Sequences, FiniteSets, SequencesExt

Missing == 1000000     \* pandas' NA in a numeric cell

Numeric(v, default) == IF v = Missing THEN default ELSE v

Clamp(v, low, high) == IF v < low THEN low ELSE IF v > high THEN high ELSE v

Bounded(v) == Clamp(v, -10000, 10000)

Magnitude(v) == IF v < 0 THEN -v ELSE v

\* Division of a score: the same cut for a positive and a negative one.
Quot(n, d) == IF n < 0 THEN -((-n) \div d) ELSE n \div d

Total(f(_), s) == MapThenSumSet(LAMBDA i : f(s[i]), DOMAIN s)

Row(score, weight) == [score |-> score, weight |-> weight]

\* The weights of the rows, or their number when no row has any.
TotalWeight(rows) ==
    LET w == Total(LAMBDA r : Max({r.weight, 0}), rows)
    IN  IF w = 0 THEN 100 * Len(rows) ELSE w

WeightedScore(rows) ==
    IF rows = <<>> THEN 0
    ELSE Bounded(Quot(Total(LAMBDA r : r.score * Max({r.weight, 0}), rows), TotalWeight(rows)))

WeightedConfidence(rows) ==
    IF rows = <<>> THEN 0
    ELSE Clamp(Quot(TotalWeight(rows) * 100 * Min({Len(rows), 3}), 3 * Len(rows)), 0, 10000)

\* pandas' sort_values(kind="stable"): rows of equal keys keep their order.
StableSort(s, Before(_, _)) ==
    LET ahead(i) == {j \in DOMAIN s : \/ Before(s[j], s[i])
                                      \/ ~Before(s[i], s[j]) /\ j < i}
    IN  [k \in DOMAIN s |-> s[CHOOSE i \in DOMAIN s : Cardinality(ahead(i)) = k - 1]]

SignedDirection(score, positive, negative) ==
    IF score > 1000 THEN positive ELSE IF score < -1000 THEN negative ELSE "neutral"

Opposing(rows) ==
    /\ \E i \in DOMAIN rows : rows[i].score > 1000
    /\ \E i \in DOMAIN rows : rows[i].score < -1000

MixedOrSigned(rows, score) ==
    IF Opposing(rows) /\ Magnitude(score) < 2500 THEN "mixed"
    ELSE SignedDirection(score, "positive", "negative")

=============================================================================
