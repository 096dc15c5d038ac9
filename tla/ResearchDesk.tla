---------------------------- MODULE ResearchDesk ----------------------------
(***************************************************************************)
(* From information signals to execution candidates: the decision report  *)
(* over the agents' signals (information_agents/agents.py,                 *)
(* build_information_decision_report), the research committee that sets it *)
(* against replay metrics and ranks its reports (research_committee/       *)
(* committee.py), and the builder that turns signals, reports and model    *)
(* scores into candidates (execution_candidate/builder.py).                *)
(* Scores and confidences are in basis points, metrics in percent; symbols *)
(* are positive numbers, 0 is "no target given", -1 "multi_target".        *)
(***************************************************************************)
EXTENDS SignalScores, TLC

CONSTANTS
    Signals,       \* the signals agents may emit: role, target, direction, score, confidence
    Metrics,       \* the replay metrics a candidate may come with
    Quotes,        \* the model scores a builder may be given: symbol -> score or Missing
    TopN,          \* candidates a report keeps
    MaxSignals,    \* bound: signals of one report
    MaxReports     \* bound: reports filed

VARIABLES
    desk,          \* the signals collected for the next report
    read,          \* all signals reported on, in order
    filed,         \* the committee's reports, in order
    ranking,       \* the committee's ranking of them
    candidates,    \* the execution candidates, best first
    quoted         \* the model scores they were built with

vars == <<desk, read, filed, ranking, candidates, quoted>>

For == {"positive", "accumulation", "expansion"}
Against == {"negative", "distribution", "contraction"}

Elements(s) == {s[i] : i \in DOMAIN s}

-----------------------------------------------------------------------------
(* The information decision report. *)

Weight(signals) ==
    LET w == Total(LAMBDA s : Max({s.confidence, 0}), signals)
    IN  IF w = 0 THEN 10000 * Len(signals) ELSE w

AggregateScore(signals) ==
    Bounded(Quot(Total(LAMBDA s : s.score * Max({s.confidence, 0}), signals), Weight(signals)))

SignalConflicts(signals) ==
    LET directions == {s.direction : s \in Elements(signals)}
    IN  IF \E s, t \in Elements(signals) : s.score > 1000 /\ t.score < -1000 THEN {"agents"}
        ELSE IF {"accumulation", "contraction"} \subseteq directions THEN {"accumulation"}
        ELSE IF {"distribution", "expansion"} \subseteq directions THEN {"distribution"}
        ELSE {}

CommonTarget(signals) ==
    LET targets == {s.target : s \in Elements(signals)}
    IN  IF Cardinality(targets) = 1 THEN CHOOSE t \in targets : TRUE ELSE -1

InformationReport(signals, target) ==
    LET score == AggregateScore(signals)
        conflicts == SignalConflicts(signals)
    IN  [ target |-> IF target # 0 THEN target ELSE CommonTarget(signals),
          score |-> score,
          confidence |-> Clamp(Quot(Weight(signals), Len(signals)), 0, 10000),
          conflicts |-> conflicts,
          bias |-> IF conflicts # {} /\ Magnitude(score) < 2500 THEN "mixed"
                   ELSE SignedDirection(score, "positive", "negative") ]

-----------------------------------------------------------------------------
(* The research committee. *)

\* A missing or NaN metric is its default; the older names stand in for the newer.
Sharpe(m) == Numeric(m.sharpe, Numeric(m.sharpe_ratio, 0))
Trades(m) == Numeric(m.trades, Numeric(m.trade_count, 0))
Return(m) == Numeric(m.total_return, 0)
Drawdown(m) == Magnitude(Numeric(m.max_drawdown, 0))
WinRate(m) == Numeric(m.win_rate, 50)
Turnover(m) == Numeric(m.turnover, 0)

Share(value, full, low, weight) == Quot(Clamp(Quot(value * 10000, full), low, 10000) * weight, 100)

ReplayScore(m) ==
    Bounded(Share(Return(m), 20, -10000, 35) + Share(Sharpe(m), 200, -10000, 25)
              + Share(WinRate(m) - 50, 25, -10000, 15) - Share(Drawdown(m), 20, 0, 15)
              - Share(Turnover(m), 200, 0, 5) - (IF Trades(m) <= 0 THEN 500 ELSE 0))

ReplayConfidence(m) ==
    LET has(v) == IF v # Missing THEN 1 ELSE 0
        known == has(m.total_return) + has(m.max_drawdown) + has(m.win_rate) + has(m.turnover)
                   + Max({has(m.sharpe), has(m.sharpe_ratio)}) + Max({has(m.trades), has(m.trade_count)})
    IN  Clamp(Quot(known * 7500, 6) + Share(Trades(m), 5, 0, 25), 0, 10000)

Bucket(source, score, confidence) == [source |-> source, score |-> score, confidence |-> confidence]

InformationBuckets(signals, directions) ==
    LET chosen == SelectSeq(signals, LAMBDA s : s.direction \in directions)
    IN  [i \in DOMAIN chosen |-> Bucket(chosen[i].role, Bounded(chosen[i].score),
                                        Clamp(chosen[i].confidence, 0, 10000))]

ReplayBucket(m) == <<Bucket("replay", ReplayScore(m), ReplayConfidence(m))>>

PositiveReplay(m) ==
    IF Return(m) > 0 \/ Sharpe(m) > 50 \/ WinRate(m) > 55 THEN ReplayBucket(m) ELSE <<>>

WeakReplay(m) ==
    IF \/ Return(m) < 0 \/ Sharpe(m) < 0 \/ Drawdown(m) > 12
       \/ Turnover(m) > 150 \/ Trades(m) <= 0
    THEN ReplayBucket(m) ELSE <<>>

CommitteeConflicts(signals, information, replay) ==
    information.conflicts
      \union {c \in {"opposing", "supportive", "pressured"} :
                CASE c = "opposing" -> \E s, t \in Elements(signals) :
                                          s.direction \in For /\ t.direction \in Against
                  [] c = "supportive" -> information.score > 2000 /\ replay < -1000
                  [] c = "pressured" -> information.score < -2000 /\ replay > 1000}

StanceFromScore(score, conflicts) ==
    IF conflicts # {} /\ Magnitude(score) < 3500 THEN "mixed"
    ELSE IF score > 1500 THEN "bull" ELSE IF score < -1500 THEN "bear" ELSE "neutral"

StanceFromBias(bias) ==
    IF bias \in For THEN "bull" ELSE IF bias \in Against THEN "bear"
    ELSE IF bias = "mixed" THEN "mixed" ELSE "neutral"

Strength(buckets) == Quot(Total(LAMBDA b : Magnitude(b.score) * b.confidence, buckets), 10000)

DominantThesis(bull, bear, neutral) ==
    IF Strength(bull) > Max({Strength(bear), Strength(neutral)}) THEN "supportive"
    ELSE IF Strength(bear) > Max({Strength(bull), Strength(neutral)}) THEN "pressure"
    ELSE IF neutral # <<>> THEN "neutral" ELSE "none"

RiskThesis(m, confidence, conflicts, bear) ==
    LET named == {r \in {"drawdown", "turnover", "confidence", "conflicts"} :
                    CASE r = "drawdown" -> Drawdown(m) > 12
                      [] r = "turnover" -> Turnover(m) > 150
                      [] r = "confidence" -> confidence < 5000
                      [] r = "conflicts" -> conflicts # {}}
    IN  IF named = {} /\ bear # <<>> THEN {"pressure"} ELSE named

\* The committee's own bucket, when nothing neutral was supplied and little is known.
NeutralEvidence(signals, confidence) ==
    LET supplied == InformationBuckets(signals, {"neutral", "mixed"})
    IN  IF supplied = <<>> /\ confidence < 4500 THEN <<Bucket("committee", 0, confidence)>> ELSE supplied

CommitteeReport(signals, m, target) ==
    LET information == InformationReport(signals, target)
        replay == ReplayScore(m)
        score == Bounded(Quot(6 * information.score + 4 * replay, 10))
        confidence == Clamp(Quot(6 * information.confidence + 4 * ReplayConfidence(m), 10), 0, 10000)
        conflicts == CommitteeConflicts(signals, information, replay)
        bull == InformationBuckets(signals, For) \o PositiveReplay(m)
        bear == InformationBuckets(signals, Against) \o WeakReplay(m)
        neutral == NeutralEvidence(signals, confidence)
    IN  [ target |-> IF target # 0 THEN target
                     ELSE IF m.target # 0 THEN m.target ELSE information.target,
          score |-> score, confidence |-> confidence, conflicts |-> conflicts,
          stance |-> StanceFromScore(score, conflicts),
          views |-> [information |-> StanceFromBias(information.bias),
                     replay |-> StanceFromScore(replay, {})],
          strengths |-> [supportive |-> Strength(bull), pressure |-> Strength(bear),
                         neutral |-> Strength(neutral)],
          thesis |-> DominantThesis(bull, bear, neutral),
          risks |-> RiskThesis(m, confidence, conflicts, bear) ]

\* Mutant: ties stay in the order of arrival.
RanksBefore_Score(a, b) == a.score > b.score

RanksBefore(a, b) ==
    \/ a.score > b.score
    \/ a.score = b.score /\ a.confidence > b.confidence
    \/ a.score = b.score /\ a.confidence = b.confidence /\ a.target < b.target

RankResearchCandidates(reports) == StableSort(reports, RanksBefore)

-----------------------------------------------------------------------------
(* The execution candidates. *)

DirectionSign(direction) ==
    IF direction \in Against \union {"bear", "short"} THEN -1
    ELSE IF direction \in {"neutral", "mixed", "flat"} THEN 0 ELSE 1

\* The score the rows give a symbol: the last row's, signed by its direction.
Extracted(rows, sym, direction(_)) ==
    LET own == SelectSeq(rows, LAMBDA r : r.target = sym)
        last == own[Len(own)]
    IN  IF own = <<>> THEN 0 ELSE Magnitude(Bounded(last.score)) * DirectionSign(direction(last))

Combined(sym, quotes, signals, reports) ==
    Quot(Numeric(quotes[sym], 0) + Extracted(signals, sym, LAMBDA r : r.direction)
           + Extracted(reports, sym, LAMBDA r : r.stance), 3)

Candidate(sym, score) ==
    [symbol |-> sym, score |-> score,
     direction |-> IF score > 0 THEN "long" ELSE IF score < 0 THEN "short" ELSE "flat"]

CandidateBefore(a, b) ==
    \/ Magnitude(a.score) > Magnitude(b.score)
    \/ Magnitude(a.score) = Magnitude(b.score) /\ a.score > b.score
    \/ a.score = b.score /\ a.symbol < b.symbol

Covered(quotes, signals, reports) ==
    {s \in DOMAIN quotes : quotes[s] # Missing}
      \union {r.target : r \in Elements(signals)} \union {r.target : r \in Elements(reports)}

Scored(quotes, signals, reports) ==
    LET known(sym) == IF sym \in DOMAIN quotes THEN quotes ELSE quotes @@ (sym :> Missing)
    IN  {Candidate(sym, Combined(sym, known(sym), signals, reports))
            : sym \in Covered(quotes, signals, reports)}

Build(quotes, signals, reports) ==
    LET ranked == StableSort(SetToSeq(Scored(quotes, signals, reports)), CandidateBefore)
    IN  SubSeq(ranked, 1, Min({TopN, Len(ranked)}))

-----------------------------------------------------------------------------

Init ==
    /\ desk = <<>> /\ read = <<>> /\ filed = <<>>
    /\ ranking = <<>> /\ candidates = <<>>
    /\ quoted \in Quotes

Receive(s) ==
    /\ candidates = <<>> /\ Len(filed) < MaxReports /\ Len(desk) < MaxSignals
    /\ desk' = Append(desk, s)
    /\ UNCHANGED <<read, filed, ranking, candidates, quoted>>

\* One candidate goes through build_research_committee_report.
File(m, target) ==
    /\ candidates = <<>> /\ desk # <<>> /\ Len(filed) < MaxReports
    /\ filed' = Append(filed, CommitteeReport(desk, m, target))
    /\ read' = read \o desk
    /\ desk' = <<>>
    /\ UNCHANGED <<ranking, candidates, quoted>>

Rank ==
    /\ filed # <<>> /\ Len(ranking) < Len(filed)
    /\ ranking' = RankResearchCandidates(filed)
    /\ UNCHANGED <<desk, read, filed, candidates, quoted>>

\* The builder runs once, over all that was read and filed.
BuildCandidates ==
    /\ filed # <<>> /\ desk = <<>> /\ candidates = <<>>
    /\ candidates' = Build(quoted, read, filed)
    /\ UNCHANGED <<desk, read, filed, ranking, quoted>>

Next == \/ \E s \in Signals : Receive(s)
        \/ \E m \in Metrics, target \in {0} \union DOMAIN quoted : File(m, target)
        \/ Rank
        \/ BuildCandidates

Spec == Init /\ [][Next]_vars

-----------------------------------------------------------------------------

Stances == {"bull", "bear", "neutral", "mixed"}

\* Scores and confidences stay on their scales, whatever the metrics are.
TypeOK ==
    /\ Len(desk) <= MaxSignals /\ Len(filed) <= MaxReports
    /\ \A r \in Elements(filed) \union Elements(ranking) :
          /\ r.score \in -10000..10000 /\ r.confidence \in 0..10000
          /\ r.stance \in Stances /\ {r.views.information, r.views.replay} \subseteq Stances
          /\ r.thesis \in {"supportive", "pressure", "neutral", "none"}
    /\ Len(candidates) <= TopN
    /\ \A c \in Elements(candidates) : c.score \in -10000..10000

\* The ranking does not depend on the order in which the candidates were handed in, as long as
\* their targets differ (rank_research_candidates sorts by score, confidence and target).
RankingOrderFree ==
    (\A i, j \in DOMAIN filed : filed[i].target = filed[j].target => i = j) =>
        \A p \in Permutations(DOMAIN filed) :
            RankResearchCandidates([i \in DOMAIN filed |-> filed[p[i]]]) = RankResearchCandidates(filed)

\* Along the whole chain, a long candidate has somebody who spoke for it, and a short one
\* somebody who spoke against it: a model score, a signal or a committee stance.
NobodyTradesAlone ==
    \A c \in Elements(candidates) :
        LET signals == {r \in Elements(read) : r.target = c.symbol}
            reports == {r \in Elements(filed) : r.target = c.symbol}
            quote == IF c.symbol \in DOMAIN quoted THEN Numeric(quoted[c.symbol], 0) ELSE 0
        IN  /\ c.direction = "long" => \/ quote > 0
                                       \/ \E r \in signals : r.direction \in For
                                       \/ \E r \in reports : r.stance = "bull"
            /\ c.direction = "short" => \/ quote < 0
                                        \/ \E r \in signals : r.direction \in Against
                                        \/ \E r \in reports : r.stance = "bear"

\* Of the symbols somebody scored, none that was left out had a stronger score than one kept.
StrongestKept ==
    candidates # <<>> =>
        \A c \in Elements(candidates), d \in Scored(quoted, read, filed) \ Elements(candidates) :
            Magnitude(c.score) >= Magnitude(d.score)

\* A conflict weakens a stance: opposing signals leave a report mixed unless its score is
\* pronounced, and a mixed report moves no candidate.
ConflictsAreHedged ==
    \A i \in DOMAIN filed :
        (filed[i].conflicts # {} /\ Magnitude(filed[i].score) < 3500) =>
            /\ "conflicts" \in filed[i].risks
            /\ Extracted(<<filed[i]>>, filed[i].target, LAMBDA r : r.stance) = 0

=============================================================================
