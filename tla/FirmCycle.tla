---- MODULE FirmCycle ----
(* The quant firm's decision cycle (quant_firm/orchestrator.py, agents.py,
   committee.py, learning.py) and the advisory calls that may follow it
   (deepseek_advisory.py).  The deterministic agents score the cycle, the committee
   averages them, and the learning desk attributes, names failures and recommends
   parameters; an analyst may adopt these for the next cycle.  Scores and weights
   are in hundredths, severities and costs in thousandths. *)
EXTENDS Integers, Sequences, FiniteSets, SequencesExt, FiniteSetsExt, TLC

CONSTANTS
  Reports,     \* of execution candidates: sequences of candidates, <<>> included
  Plans,       \* of allocations: NoPlan among them
  Replays,     \* metrics of the replay
  FlashModels, \* what DEEPSEEK_MODEL_FLASH may name
  ProModels,   \* what DEEPSEEK_MODEL_PRO may name
  Explicit,    \* models a caller may name; "default": none
  Roles,       \* the roles asked for advice, in order
  Live,        \* live calls are enabled
  MaxCycles

CycleAssumption == MaxCycles \in Nat /\ Live \in BOOLEAN /\ \A p \in Plans : p.gross \in 0..100

NoReport == <<>>

VARIABLES
  cycle,     \* cycles begun
  params,    \* the parameters the next cycle is told
  stage,     \* "idle", "deciding", "advising", "returned" or "raised"
  input,     \* of the running cycle: report, plan, replay, risk-off regime, its models
  desk,      \* the learning desk's output: attribution, causes, recommendations
  decision,  \* the committee's action
  advice     \* the models asked so far, one per role
vars == <<cycle, params, stage, input, desk, decision, advice>>

(* ------------------------------------------------ attribution *)

Symbols(report) == {report[i].symbol : i \in DOMAIN report}
Weight(plan, s) == IF s \in DOMAIN plan.weights THEN plan.weights[s] ELSE 0
CostDrag(plan, s) == IF s \in DOMAIN plan.costs THEN plan.costs[s] ELSE 0
Contribution(c, plan) ==
  25 * c.confidence + 35 * c.expected + 15 * c.liquidity - 20 * c.risk
    + 20 * Weight(plan, c.symbol) - 40 * CostDrag(plan, c.symbol)
RanksByScore(a, b, plan) == Contribution(a, plan) > Contribution(b, plan)
Ranks(a, b, plan) == \/ Contribution(a, plan) > Contribution(b, plan)
                     \/ Contribution(a, plan) = Contribution(b, plan) /\ a.symbol < b.symbol
Attribution(report, plan) ==
  LET ranked == SortSeq(report, LAMBDA a, b : Ranks(a, b, plan))
  IN [i \in DOMAIN ranked |-> ranked[i].symbol]

(* ------------------------------------------------ failures *)

Lowest(S, default) == IF S = {} THEN default ELSE Min(S)
Highest(S, default) == IF S = {} THEN default ELSE Max(S)
Clamp(x) == Max({0, Min({1000, x})})

TotalCost(plan) == MapThenSumSet(LAMBDA s : plan.costs[s], DOMAIN plan.costs)
\* The sum of the expected returns, which the causes compare with a mean of 3.
Expected(report) == MapThenSumSet(LAMBDA i : report[i].expected, DOMAIN report)

\* The causes of a failure and their severities.
Severities(in) ==
  LET n == Len(in.report)
      weight == Highest({in.plan.weights[s] : s \in DOMAIN in.plan.weights}, 0)
      liquidity == Lowest({in.report[i].liquidity : i \in DOMAIN in.report}, 100)
      cost == IF in.plan.planned THEN TotalCost(in.plan) ELSE in.replay.cost
      found == {p \in {
        <<"high_cost_drag", cost, cost > 5>>,
        <<"high_turnover", 10 * in.replay.turnover, in.replay.turnover > 75>>,
        <<"weak_expected_return", IF n = 0 THEN 0 ELSE 30 - (10 * Expected(in.report)) \div n,
          n > 0 /\ Expected(in.report) < 3 * n>>,
        <<"concentration_risk", 10 * weight, weight > 60>>,
        <<"low_liquidity", 10 * (100 - liquidity), liquidity < 40>>,
        <<"drawdown_problem", 10 * in.replay.drawdown, in.replay.drawdown > 8>>,
        <<"volatility_problem", 10 * in.replay.volatility, in.replay.volatility > 20>>,
        <<"regime_mismatch", 750, in.riskoff /\ in.plan.planned /\ in.plan.gross > 50>>} : p[3]}
  IN [c \in {p[1] : p \in found} |-> Clamp((CHOOSE p \in found : p[1] = c)[2])]

\* The names of the causes in alphabetic order, as the sort breaks ties.
Alphabetic == <<"concentration_risk", "drawdown_problem", "high_cost_drag", "high_turnover",
                "low_liquidity", "regime_mismatch", "volatility_problem", "weak_expected_return">>
Primary(severity) ==
  IF DOMAIN severity = {} THEN "none"
  ELSE SelectSeq(Alphabetic, LAMBDA c : /\ c \in DOMAIN severity
                                        /\ \A d \in DOMAIN severity : severity[d] <= severity[c])[1]

(* ------------------------------------------------ recommendations *)

TopN(in, told) == IF in.report = NoReport THEN told.top_n ELSE Len(in.report)

\* The parameters the plan recommends and their values; "keep" when it has none.
Recommendations(in, told, causes) ==
  LET n == TopN(in, told)
      broaden == causes \cap {"concentration_risk", "low_liquidity"} # {}
      churn == causes \cap {"high_turnover", "high_cost_drag"} # {}
      risky == causes \cap {"drawdown_problem", "volatility_problem", "regime_mismatch",
                         "concentration_risk"} # {}
      rate == IF in.plan.planned THEN in.plan.rate ELSE told.turnover_penalty
      moves == {p \in {
        <<"top_n", IF broaden THEN Max({n + 1, 2}) ELSE n - 1,
          broaden \/ ("weak_expected_return" \in causes /\ n > 1)>>,
        <<"holding_period", told.holding_period + 2, churn>>,
        <<"risk_penalty", told.risk_penalty + 25, risky>>,
        <<"turnover_penalty", (3 * rate) \div 2, churn>>,
        <<"low_liquidity_allocation_multiplier", 50, "low_liquidity" \in causes>>,
        <<"max_symbol_weight", 45, "concentration_risk" \in causes>>} : p[3]}
  IN IF moves = {} THEN [p \in {"keep"} |-> 0]
     ELSE [p \in {m[1] : m \in moves} |-> (CHOOSE m \in moves : m[1] = p)[2]]

(* ------------------------------------------------ agents and committee *)

\* The base scores of the 21 agents that are not disabled; the broker adapter's is.
Plain == {"regime", "statistical", "behavioral", "generation", "data", "features",
          "qlib", "opensource", "rqalpha"}
OfReport == {"factor", "tradability", "order"}
OfPlan == {"allocation", "budget", "cost"}
Learners == {"attribution", "experiment", "failure", "mutation"}
Active == Plain \cup OfReport \cup OfPlan \cup Learners \cup {"committee", "vectorbt"}

Score(a, in, causes, moves) ==
  CASE a \in Plain -> 70
    [] a = "committee" -> 84
    [] a = "vectorbt" -> IF in.replay.supplied THEN 78 ELSE 70
    [] a \in OfReport -> IF in.report # NoReport THEN 78 ELSE 70
    [] a \in OfPlan -> (IF a = "allocation" THEN 74 ELSE 70) + (IF in.plan.planned THEN 8 ELSE 0)
    [] a = "attribution" -> IF in.report # NoReport THEN 86 ELSE 78
    [] a = "experiment" -> 86
    [] a = "failure" -> IF causes # {} THEN 82 ELSE 74
    [] a = "mutation" -> 76 + Min({12, 2 * moves})

Confident(in, causes, moves) ==
  MapThenSumSet(LAMBDA a : Score(a, in, causes, moves), Active) >= 65 * Cardinality(Active)
Committee(in, causes, moves) ==
  IF Confident(in, causes, moves) THEN "approve_offline_shadow_cycle" ELSE "request_more_offline_evidence"

(* ------------------------------------------------ the models of the advice *)

Deprecated == {"deepseek-chat", "deepseek-reasoner"}
\* A deprecated name stands for what the environment names in its place, whatever
\* that is.
ModelOf(m, in) == CASE m = "deepseek-chat" -> in.flash
                    [] m = "deepseek-reasoner" -> in.pro
                    [] OTHER -> m
FlashRoles == {"information_desk", "backtest_desk", "execution_simulation_desk"}
\* A caller's model is normalized by the configuration and again by the selection.
Selected(role, in) ==
  ModelOf(IF in.explicit # "default" THEN ModelOf(in.explicit, in)
          ELSE IF role \in FlashRoles THEN in.flash ELSE in.pro, in)

(* ------------------------------------------------ the cycle *)

Init == /\ cycle = 0 /\ stage = "idle"
        /\ params = [top_n |-> 0, holding_period |-> 5, risk_penalty |-> 100, turnover_penalty |-> 8]
        /\ input = <<>> /\ desk = <<>> /\ decision = "" /\ advice = <<>>

Begin == /\ stage = "idle" /\ cycle < MaxCycles
         /\ \E report \in Reports, plan \in Plans, replay \in Replays, riskoff \in BOOLEAN,
               flash \in FlashModels, pro \in ProModels, explicit \in Explicit :
              input' = [report |-> report, plan |-> plan, replay |-> replay, riskoff |-> riskoff,
                        flash |-> flash, pro |-> pro, explicit |-> explicit]
         /\ cycle' = cycle + 1 /\ stage' = "deciding"
         /\ UNCHANGED <<params, desk, decision, advice>>

\* The agents run in order, the learning desk takes their outputs, the committee
\* decides.
Decide == /\ stage = "deciding"
          /\ LET severity == Severities(input)
                 moves == Recommendations(input, params, DOMAIN severity)
                 count == IF DOMAIN moves = {"keep"} THEN 1 ELSE Cardinality(DOMAIN moves)
             IN /\ desk' = [attribution |-> Attribution(input.report, input.plan),
                            causes |-> severity, primary |-> Primary(severity),
                            recommended |-> moves]
                /\ decision' = Committee(input, DOMAIN severity, count)
          /\ stage' = IF Roles = <<>> THEN "returned" ELSE "advising"
          /\ advice' = <<>>
          /\ UNCHANGED <<cycle, params, input>>

Advise == /\ stage = "advising"
          /\ \/ /\ ~Live
                /\ advice' = Append(advice, "fallback")
             \/ /\ Live
                /\ advice' = Append(advice, Selected(Roles[Len(advice) + 1], input))
          /\ stage' = IF Len(advice') = Len(Roles) THEN "returned" ELSE "advising"
          /\ UNCHANGED <<cycle, params, input, desk, decision>>
CallFails == /\ stage = "advising" /\ Live
             /\ stage' = "raised" /\ decision' = "" /\ desk' = <<>>
             /\ UNCHANGED <<cycle, params, input, advice>>

\* The analyst adopts the recommendations for the next cycle, or keeps what was.
AdoptAll == /\ stage = "returned"
            /\ params' = desk.recommended @@ params /\ stage' = "idle"
            /\ UNCHANGED <<cycle, input, desk, decision, advice>>
Adopt == /\ stage = "returned"
         /\ params' = [p \in DOMAIN params |->
                         IF p \in DOMAIN desk.recommended THEN desk.recommended[p] ELSE params[p]]
         /\ stage' = "idle"
         /\ UNCHANGED <<cycle, input, desk, decision, advice>>
Keep == /\ stage \in {"returned", "raised"} /\ stage' = "idle"
        /\ UNCHANGED <<cycle, params, input, desk, decision, advice>>

Next == Begin \/ Decide \/ Advise \/ CallFails \/ Adopt \/ Keep
Spec == Init /\ [][Next]_vars /\ WF_vars(Decide) /\ WF_vars(Advise)

(* ------------------------------------------------ properties *)

\* The type invariant.
TypeOK ==
  /\ cycle \in 0..MaxCycles
  /\ stage \in {"idle", "deciding", "advising", "returned", "raised"}
  /\ decision \in {"", "approve_offline_shadow_cycle", "request_more_offline_evidence"}
  /\ params \in [{"top_n", "holding_period", "risk_penalty", "turnover_penalty"} -> Nat]
  /\ Len(advice) <= Len(Roles)

Decided == stage \in {"advising", "returned"}

\* The default agents approve every cycle, with no report, no plan, and whatever
\* failed: the orders the daily loop submits to this committee are never held back
\* by it (is_quant_firm_approved).
NeverHoldsBack == Decided => decision = "approve_offline_shadow_cycle"

\* The rank of a symbol does not depend on the order of the candidates.
AttributionIsStable ==
  Decided => desk.attribution = Attribution(Reverse(input.report), input.plan)

\* The primary cause is a worst one, and there is one exactly when there is a cause.
PrimaryIsWorst ==
  Decided => IF DOMAIN desk.causes = {} THEN desk.primary = "none"
             ELSE /\ desk.primary \in DOMAIN desk.causes
                  /\ \A c \in DOMAIN desk.causes : desk.causes[c] <= desk.causes[desk.primary]

\* A request names a deprecated model only where the environment names that model:
\* none a caller named gets through by itself (_normalize_deepseek_model, whose
\* replacements are the environment's and are not normalized in turn).
AsksCurrentModels ==
  \A i \in DOMAIN advice : advice[i] \in Deprecated => advice[i] \in {input.flash, input.pro}

====
