---- MODULE CandidateDecision ----
(* From a ranking to the orders of a session: the candidate pipeline           *)
(* (real_candidate_pipeline/pipeline.py), the account filter                   *)
(* (runtime_account/policy.py), the final decision, the sizing and the         *)
(* proposal (daily_paper_loop/runner.py), session after session.               *)
(* Quantities are board lots; a price is that of a lot.                        *)
EXTENDS Naturals, Sequences, FiniteSets, SequencesExt, TLC

CONSTANTS Symbols,
          Days,             \* what a session may be given
          MaxExecution, TargetSymbols, TargetPositions,
          AccountAware,     \* are account capabilities configured?
          Permitted,        \* what such an account may buy
          Fee,              \* the minimum commission, of every order
          ReservePercent, MaxWeightPercent,
          InitialCash, MaxSessions,
          Nil

\* A day is [ranked, hard, row, price, ask, open, absent]: the scored symbols, best
\* first; those with missing factors or a failed filter; what D's row says of a
\* symbol; its close, its executable price (0: unavailable) and its open on D+1;
\* the symbols without a row on D+1.
Rows == {"none", "suspended", "no_volume", "traded"}

ModeAssumption == AccountAware \in BOOLEAN /\ Permitted \subseteq Symbols
CapAssumption ==
    MaxExecution \in 1..6 /\ TargetSymbols \in 1..MaxExecution /\ TargetPositions \in Nat \ {0}
DaysAssumption == \A d \in Days :
    /\ \A s \in Symbols : d.row[s] \in Rows /\ d.price[s] \in Nat \ {0} /\ d.ask[s] \in Nat
    /\ IsInjective(d.ranked) /\ d.hard \subseteq Symbols /\ d.absent \subseteq Symbols

VARIABLES cash, held,   \* the account: held[s] board lots of s
          day,          \* the session being decided, or Nil
          plan,         \* its final decision
          orders,       \* its proposal, Nil until there is one
          sessions      \* sessions completed

vars == <<cash, held, day, plan, orders, sessions>>

Holdings == {s \in Symbols : held[s] > 0}

\* Mutant: a holding takes no slot.
SlotsOfAll == MaxExecution
Slots == MaxExecution - Cardinality(Holdings)

-----------------------------------------------------------------------------
(* The pipeline. *)

IsEligible(d, s) == s \notin d.hard
Eligible(d) == SelectSeq(d.ranked, LAMBDA s : IsEligible(d, s))
Place(seq, s) == CHOOSE i \in DOMAIN seq : seq[i] = s
FirstOf(seq, n) == SubSeq(seq, 1, IF n < Len(seq) THEN n ELSE Len(seq))

\* run_factor_ranking_baseline_v1: the best that nothing rejects.
Selected(d) == FirstOf(Eligible(d), TargetSymbols)

\* _capacity_limited_account_pool: every ranked holding, and new ones for the slots.
Pool(d) ==
    SelectSeq(Eligible(d), LAMBDA s :
        \/ s \in Holdings
        \/ Cardinality({i \in 1..Place(Eligible(d), s) - 1 : Eligible(d)[i] \notin Holdings}) < Slots)

Forwarded(d) == IF AccountAware THEN Pool(d) ELSE Selected(d)
Standbys(d) ==
    IF AccountAware THEN ToSet(Pool(d)) \ (ToSet(Selected(d)) \cup Holdings) ELSE {}

\* _valid_factor_and_market_evidence.
Valid(d, s) == s \in ToSet(d.ranked) /\ s \notin d.hard /\ d.row[s] = "traded"

\* A symbol without evidence takes no slot.
Entries(d) ==
    FirstOf(SelectSeq(Forwarded(d), LAMBDA s : s \notin Holdings /\ Valid(d, s)), Slots)

\* With an account a forwarded holding is a candidate, on whatever evidence.
Kept(d) == IF AccountAware THEN ToSet(Forwarded(d)) \cap Holdings ELSE {}

Longs(d) == SelectSeq(Forwarded(d), LAMBDA s : s \in ToSet(Entries(d)) \cup Kept(d))

\* Mutant: whatever is not selected goes.
ExitsOnAnyEvidence(d) == Holdings \ ToSet(Forwarded(d))

\* rank_dropout; without evidence it is a hold.
Exits(d) == {s \in Holdings : Valid(d, s) /\ s \notin ToSet(Forwarded(d))}

-----------------------------------------------------------------------------
(* The account. *)

SumOver(S, f(_)) == FoldSet(LAMBDA s, acc : f(s) + acc, 0, S)
Cost(lots, price) == IF lots = 0 THEN 0 ELSE lots * price + Fee
Equity(d) == cash + SumOver(Holdings, LAMBDA s : held[s] * d.price[s])
Minus(x, y) == IF x > y THEN x - y ELSE 0
Spendable(d) == Minus(cash, (Equity(d) * ReservePercent) \div 100)

MayBuy(s) == AccountAware => s \in Permitted

\* account_executable_candidate_report: what is held stays, a new one must be
\* permitted, have a price to buy at and cost no more than there is.
Executable(d, s) ==
    s \in Holdings \/ (MayBuy(s) /\ d.ask[s] > 0 /\ Cost(1, d.ask[s]) <= Spendable(d))

\* Room is made by the selected entries the account excludes, by nothing else.
Vacancies(d) ==
    Cardinality({s \in ToSet(Selected(d)) \cap ToSet(Entries(d)) : ~Executable(d, s)})

Backfills(d) ==
    FirstOf(SelectSeq(Longs(d), LAMBDA s : s \in Standbys(d) /\ Executable(d, s)), Vacancies(d))

\* _resolve_final_account_decision.
FinalLongs(d) ==
    SelectSeq(Longs(d), LAMBDA s :
        Executable(d, s) /\ (s \in Standbys(d) => s \in ToSet(Backfills(d))))

-----------------------------------------------------------------------------
(* Sizing. *)

Greater(x, y) == IF x > y THEN x ELSE y
Smaller(x, y) == IF x < y THEN x ELSE y
SizingPrice(d, s) == IF d.ask[s] > 0 THEN d.ask[s] ELSE d.price[s]

\* _allocation_plan: some split of the equity over the first longs; the optimizer's
\* scores and costs decide which.
Allocated(d, longs) == ToSet(FirstOf(longs, TargetPositions))
Splits(d, longs) ==
    {t \in [Allocated(d, longs) -> 0..Equity(d)] :
        SumOver(DOMAIN t, LAMBDA s : t[s] * SizingPrice(d, s)) <= Equity(d)}

\* _dynamic_position_budget, without the accommodation of one lot.
Budget(d, s, participants) ==
    LET static == (Equity(d) * MaxWeightPercent) \div 100
        count == Greater(TargetPositions, participants)
    IN Greater(static, Equity(d) \div count) \div SizingPrice(d, s)

OneLotAllowed(d, s, target) ==
    /\ held[s] = 0 /\ target > 0
    /\ Cost(1, SizingPrice(d, s)) <= Spendable(d)
    /\ SizingPrice(d, s) <= Greater(Equity(d), Spendable(d))

\* An increment needs a price, a permission and cash.  The rules are built of the
\* candidate's metadata, to which the pipeline adds no suspension.
Restricted(d, s) ==
    held[s] > 0 /\ (d.ask[s] = 0 \/ ~MayBuy(s) \/ Cost(1, SizingPrice(d, s)) > Spendable(d))

\* The lots to hold.
Target(d, s, target, participants) ==
    LET capped == Smaller(target, Budget(d, s, participants))
    IN IF Restricted(d, s) THEN Smaller(capped, held[s])
       ELSE IF OneLotAllowed(d, s, target) THEN Greater(capped, 1)
       ELSE capped

\* _max_affordable_buy_quantity: every order is sized as if it were the only one.
Affordable(d, s) ==
    CHOOSE n \in 0..cash :
        /\ Cost(n, SizingPrice(d, s)) <= Spendable(d)
        /\ Cost(n + 1, SizingPrice(d, s)) > Spendable(d)

\* _resize_buy_intent: the lots of the order, 0 for none.
BuyLots(d, s, target, participants) ==
    IF target = 0 THEN 0
    ELSE Smaller(Minus(Target(d, s, target, participants), held[s]), Affordable(d, s))

-----------------------------------------------------------------------------
(* Sessions. *)

Init ==
    /\ cash = InitialCash
    /\ held = [s \in Symbols |-> 0]
    /\ day = Nil /\ plan = Nil /\ orders = Nil
    /\ sessions = 0

\* The pipeline and the filter.  A holding without a row on D or D+1 stops the session.
Decide(d) ==
    /\ day = Nil
    /\ sessions < MaxSessions
    /\ \A s \in Holdings : d.row[s] # "none" /\ s \notin d.absent
    /\ day' = d
    /\ plan' = [candidates |-> Longs(d), exits |-> Exits(d), longs |-> FinalLongs(d)]
    /\ UNCHANGED <<cash, held, orders, sessions>>

Relevant == Holdings \cup ToSet(plan.candidates) \cup plan.exits

\* run_quant_firm_decision_cycle and _build_order_proposal.
Propose ==
    /\ day # Nil /\ orders = Nil
    /\ Cardinality(Relevant) <= MaxExecution
    /\ \E authorized \in BOOLEAN, split \in Splits(day, plan.longs) :
         LET participants == Cardinality({s \in DOMAIN split : split[s] > 0})
         IN orders' = [authorized |-> authorized,
                       buys |-> [s \in DOMAIN split |->
                           IF authorized THEN BuyLots(day, s, split[s], participants) ELSE 0],
                       sells |-> IF authorized THEN plan.exits ELSE {}]
    /\ UNCHANGED <<cash, held, day, plan, sessions>>

\* execute_a_share_reality_proposal: the buys come first, each is filled as far as
\* the volume goes and the cash there is then, or not at all.
Fills ==
    {f \in [DOMAIN orders.buys -> 0..Equity(day)] :
        /\ \A s \in DOMAIN f : f[s] <= orders.buys[s] /\ (s \in day.absent => f[s] = 0)
        /\ SumOver(DOMAIN f, LAMBDA s : Cost(f[s], day.open[s])) <= cash}

Execute ==
    /\ orders # Nil
    /\ \E f \in Fills, sold \in SUBSET orders.sells :
         /\ held' = [s \in Symbols |->
                CASE s \in sold -> 0
                  [] s \in DOMAIN f -> held[s] + f[s]
                  [] OTHER -> held[s]]
         /\ cash' = Minus(cash + SumOver(sold, LAMBDA s : Minus(held[s] * day.open[s], Fee)),
                          SumOver(DOMAIN f, LAMBDA s : Cost(f[s], day.open[s])))
    /\ day' = Nil /\ plan' = Nil /\ orders' = Nil
    /\ sessions' = sessions + 1

Next == (\E d \in Days : Decide(d)) \/ Propose \/ Execute

Spec == Init /\ [][Next]_vars

-----------------------------------------------------------------------------
(* Properties. *)

TypeOK ==
    /\ cash \in Nat /\ sessions \in 0..MaxSessions
    /\ held \in [Symbols -> Nat]
    /\ day \in Days \cup {Nil} /\ (day = Nil <=> plan = Nil)
    /\ (plan # Nil => ToSet(plan.longs) \subseteq ToSet(plan.candidates))
    /\ (orders # Nil => DOMAIN orders.buys \subseteq Symbols /\ orders.sells \subseteq Symbols)

\* The pipeline never hands the loop more symbols than the cap it raises at: what is
\* held and what it proposes fit, whatever became of earlier sessions' orders
\* (_capacity_limited_account_pool, available_entry_slots in _build_candidates).
NeverTooMany == day # Nil => Cardinality(Relevant) <= MaxExecution

NewIn(longs) == ToSet(longs) \ Holdings

\* The account may replace selected entries but never adds to them: no session
\* decides to enter more symbols than the strategy selected, and a holding, kept
\* or restricted, makes room for none (_resolve_final_account_decision).
NoMoreThanSelected ==
    day # Nil => Cardinality(NewIn(plan.longs)) <= Cardinality(ToSet(Selected(day)) \ Holdings)

\* What is entered is the best that could be: no symbol left out that is new, has
\* evidence, may be bought and is affordable ranks above one that is entered.
NoBetterLeftOut ==
    day # Nil =>
        \A s \in NewIn(plan.longs), x \in NewIn(day.ranked) \ NewIn(plan.longs) :
            Place(day.ranked, x) < Place(day.ranked, s) =>
                ~(Valid(day, x) /\ Executable(day, x))

\* An order to buy, of a new symbol or an increment, has D's evidence of a price to
\* buy at, the account's permission and the cash after the reserve for all of it.
BuysAreAllowed ==
    orders # Nil => \A s \in DOMAIN orders.buys : orders.buys[s] > 0 =>
        /\ day.ask[s] > 0 /\ MayBuy(s)
        /\ (s \notin Holdings => day.row[s] = "traded")
        /\ Cost(orders.buys[s], day.ask[s]) <= Minus(cash, (Equity(day) * ReservePercent) \div 100)

\* No order takes a position beyond its share of the equity, the larger of the
\* maximum weight and an equal share, except a first lot (_dynamic_position_budget).
Diversified ==
    orders # Nil => \A s \in DOMAIN orders.buys : orders.buys[s] > 0 =>
        LET after == (held[s] + orders.buys[s]) * day.ask[s]
        IN \/ held[s] + orders.buys[s] = 1
           \/ after * 100 <= Equity(day) * MaxWeightPercent
           \/ after * TargetPositions <= Equity(day)

\* A position shrinks only as the exit of a symbol that has its evidence that day
\* and has dropped out of the selection; missing evidence is a hold
\* (test_insufficient_holding_factor_evidence_is_hold_not_forced_exit).
SoldOnlyDropouts ==
    \A s \in Symbols : held'[s] < held[s] =>
          Valid(day, s) /\ s \notin ToSet(Selected(day))

\* A holding with its evidence becomes an exit candidate when and only when it has
\* dropped out of what is forwarded (test_current_holding_rank_dropout_becomes_exit_candidate...):
\* of the selection, or, with account capabilities, of the eligible symbols, which
\* leaves such an account no exit by rank (_capacity_limited_account_pool).
DropoutsExit ==
    day # Nil => \A s \in Holdings : Valid(day, s) =>
        (s \in plan.exits <=> s \notin ToSet(IF AccountAware THEN Eligible(day) ELSE Selected(day)))

====
