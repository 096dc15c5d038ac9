---- MODULE SizingRows ----
(* How the orders of a session are explained: _build_order_proposal and the    *)
(* sizing decisions of daily_paper_loop/runner.py, one row for every           *)
(* allocation and exit, and the compression the evaluation reads off the rows  *)
(* (_daily_sizing_compression).  Quantities are shares: a partial fill may     *)
(* leave a part of a board lot, which the next session sizes from.             *)
EXTENDS Naturals, FiniteSets, FiniteSetsExt, TLC

CONSTANTS Symbols,
          Prices,          \* of a share
          Notionals,       \* what the optimizer may want to hold of a symbol
          Lot,             \* shares per board lot
          Fee,             \* the minimum commission
          ReservePercent, MaxWeightPercent, TargetPositions,
          InitialCash, MaxSessions,
          Nil

SizingAssumption ==
    /\ Lot \in Nat \ {0} /\ TargetPositions \in Nat \ {0}
    /\ ReservePercent \in 0..99 /\ MaxWeightPercent \in 1..100
    /\ Prices \subseteq Nat \ {0} /\ Notionals \subseteq Nat

VARIABLES cash, held,  \* the account
          day,         \* the session being decided: [close, ask, wanted, exits, authorized]
          rows,        \* its sizing decisions, by symbol
          sessions

vars == <<cash, held, day, rows, sessions>>

Minus(x, y) == IF x > y THEN x - y ELSE 0
Smaller(x, y) == IF x < y THEN x ELSE y
Larger(x, y) == IF x > y THEN x ELSE y
Whole(n) == (n \div Lot) * Lot
SumOver(S, f(_)) == FoldSet(LAMBDA s, acc : f(s) + acc, 0, S)

-----------------------------------------------------------------------------
(* What a symbol is sized with. *)

\* The close, when D's row offers no price to buy at (_resolve_buy_reference_state).
SizingPrice(s) == IF day.ask[s] > 0 THEN day.ask[s] ELSE day.close[s]
Equity == cash + SumOver(Symbols, LAMBDA s : held[s] * day.close[s])
Spendable == Minus(cash, (Equity * ReservePercent) \div 100)
CostOf(quantity, price) == quantity * price + Fee
LotCost(s) == CostOf(Lot, SizingPrice(s))

\* _intent_with_rule_lot_target.
Optimizer(s) == Whole(day.wanted[s] \div SizingPrice(s))

\* _dynamic_position_budget.  The plan has no more allocations than target positions,
\* so the participants never lower the budget.
Cap(s) ==
    Whole(Larger((Equity * MaxWeightPercent) \div 100, Equity \div TargetPositions) \div SizingPrice(s))

OneLotAllowed(s) ==
    /\ held[s] = 0 /\ Optimizer(s) >= Lot
    /\ LotCost(s) <= Spendable
    /\ SizingPrice(s) * Lot <= Larger(Equity, Spendable)
Accommodated(s) == OneLotAllowed(s) /\ Cap(s) < Lot

\* An increment needs a price and the cash for a lot.
Restriction(s) ==
    IF held[s] = 0 \/ Optimizer(s) <= held[s] THEN {}
    ELSE IF day.ask[s] = 0 THEN {"missing_price"}
    ELSE IF LotCost(s) > Spendable THEN {"unaffordable"} ELSE {}

\* The shares to hold.
TargetAfter(s) ==
    LET capped == Smaller(Optimizer(s), IF Accommodated(s) THEN Lot ELSE Cap(s))
    IN IF Restriction(s) # {} THEN Smaller(capped, held[s])
       ELSE IF capped < held[s] + Lot /\ OneLotAllowed(s) THEN held[s] + Lot ELSE capped

Desired(s) == Minus(TargetAfter(s), held[s])

\* Mutant: a lot too many, whatever its fee.
AffordableWithoutFee(s) == Whole(Spendable \div SizingPrice(s))

\* _max_affordable_buy_quantity: down from what the cash would buy, to what it pays.
Affordable(s) ==
    Max({0} \cup {n * Lot : n \in {m \in 0..(Spendable \div (SizingPrice(s) * Lot)) :
                                      CostOf(m * Lot, SizingPrice(s)) <= Spendable}})

Sized(s) == Smaller(Whole(Desired(s)), Affordable(s))

-----------------------------------------------------------------------------
(* Rows. *)

Row(side, optimizer, final, reasons) ==
    [side |-> side, optimizer |-> optimizer, final |-> final, reasons |-> reasons]

\* Mutant: what is held is held.
SkipReasonOfHeld(s) ==
    IF held[s] > 0 THEN {"at_or_above_target"}
    ELSE IF Whole(Desired(s)) < Lot THEN {"budget_below_one_lot"}
    ELSE IF Sized(s) < Lot THEN {"insufficient_cash"} ELSE {}

\* Why nothing is bought, in the order the code asks.
SkipReason(s) ==
    IF held[s] > 0 /\ held[s] >= TargetAfter(s)
    THEN IF Restriction(s) # {} THEN Restriction(s) ELSE {"at_or_above_target"}
    ELSE IF Whole(Desired(s)) < Lot
         THEN IF held[s] > 0 THEN {"no_duplicate_entry"} ELSE {"budget_below_one_lot"}
    ELSE IF Sized(s) < Lot THEN {"insufficient_cash"} ELSE {}

\* Why less is bought than the optimizer wants.
Reductions(s) ==
    {r \in {"budget", "one_lot", "board_lot", "cash"} :
        CASE r = "budget" -> TargetAfter(s) < Optimizer(s)
          [] r = "one_lot" -> Accommodated(s)
          [] r = "board_lot" -> Whole(Desired(s)) < Desired(s)
          [] r = "cash" -> Sized(s) < Whole(Desired(s))}

\* _resize_buy_intent.
BuyRow(s) ==
    IF Optimizer(s) = 0 THEN Row("buy", 0, 0, {"no_positive_allocation"})
    ELSE IF ~day.authorized THEN Row("buy", Optimizer(s), 0, {"non_actionable"})
    ELSE IF SkipReason(s) # {} THEN Row("buy", Optimizer(s), 0, SkipReason(s))
    ELSE Row("buy", Optimizer(s), Sized(s), Reductions(s))

\* Mutant: all of it.
SellRowOfAll(s) ==
    IF ~day.authorized THEN Row("sell", held[s], 0, {"non_actionable"})
    ELSE Row("sell", held[s], held[s], {})

\* _sell_sizing_decision: whole lots of what is held.
SellRow(s) ==
    IF ~day.authorized THEN Row("sell", held[s], 0, {"non_actionable"})
    ELSE IF Whole(held[s]) = 0 THEN Row("sell", held[s], 0, {"no_sellable_position"})
    ELSE Row("sell", held[s], Whole(held[s]), {})

Rowed == DOMAIN day.wanted \cup day.exits

-----------------------------------------------------------------------------
Init ==
    /\ cash = InitialCash /\ held = [s \in Symbols |-> 0]
    /\ day = Nil /\ rows = Nil /\ sessions = 0

\* The pipeline's decision: what is allocated and what is an exit.  A symbol without
\* a price to buy at is a candidate only if it is held.
Decide ==
    /\ day = Nil /\ sessions < MaxSessions
    /\ \E close \in [Symbols -> Prices], ask \in [Symbols -> Prices \cup {0}],
         longs \in SUBSET Symbols, authorized \in BOOLEAN :
         /\ Cardinality(longs) <= TargetPositions
         /\ \A s \in longs : ask[s] > 0 \/ held[s] > 0
         /\ \E wanted \in [longs -> Notionals], exits \in SUBSET {s \in Symbols \ longs : held[s] > 0} :
              day' = [close |-> close, ask |-> ask, wanted |-> wanted, exits |-> exits,
                      authorized |-> authorized]
    /\ UNCHANGED <<cash, held, rows, sessions>>

\* _build_order_proposal.
Propose ==
    /\ day # Nil /\ rows = Nil
    /\ rows' = [s \in Rowed |-> IF s \in day.exits THEN SellRow(s) ELSE BuyRow(s)]
    /\ UNCHANGED <<cash, held, day, sessions>>

\* execute_a_share_reality_proposal: any part of an order, as far as the cash goes.
Execute ==
    /\ rows # Nil
    /\ \E open \in Prices, filled \in [DOMAIN rows -> 0..Max({rows[s].final : s \in DOMAIN rows} \cup {0})] :
         LET bought == {s \in DOMAIN rows : rows[s].side = "buy" /\ filled[s] > 0}
             sold == {s \in DOMAIN rows : rows[s].side = "sell" /\ filled[s] > 0}
         IN /\ \A s \in DOMAIN rows : filled[s] <= rows[s].final
            /\ SumOver(bought, LAMBDA s : CostOf(filled[s], open)) <= cash
            /\ cash' = cash - SumOver(bought, LAMBDA s : CostOf(filled[s], open))
                            + SumOver(sold, LAMBDA s : Minus(filled[s] * open, Fee))
            /\ held' = [s \in Symbols |->
                  CASE s \in bought -> held[s] + filled[s]
                    [] s \in sold -> held[s] - filled[s]
                    [] OTHER -> held[s]]
    /\ day' = Nil /\ rows' = Nil /\ sessions' = sessions + 1

Next == Decide \/ Propose \/ Execute

Spec == Init /\ [][Next]_vars

-----------------------------------------------------------------------------
(* Properties. *)

TypeOK ==
    /\ cash \in Nat /\ held \in [Symbols -> Nat] /\ sessions \in 0..MaxSessions
    /\ (day = Nil => rows = Nil)
    /\ (rows # Nil => \A s \in DOMAIN rows : rows[s].final % Lot = 0)

Buys == {s \in DOMAIN rows : rows[s].side = "buy"}

\* A buy that is less than the step from what is held to what the optimizer wants
\* says why, and one that is the whole step says nothing (but that it is one lot):
\* every reduction on the way has a reason of its own.
ReductionsAreExplained ==
    rows # Nil => \A s \in Buys : rows[s].final > 0 =>
        (rows[s].final = Minus(Optimizer(s), held[s]) <=> rows[s].reasons \subseteq {"one_lot"})

\* An authorised buy is skipped only where the budget, the cash or the position
\* leave no lot to buy at D's price to buy at.
NothingIsMissed ==
    rows # Nil => \A s \in Buys :
        (day.authorized /\ rows[s].final = 0 /\ day.ask[s] > 0) =>
            \/ LotCost(s) > Spendable
            \/ Minus(Smaller(Optimizer(s), Cap(s)), held[s]) < Lot /\ ~OneLotAllowed(s)

\* All the buys of a session are paid for by what is affordable to each: none takes
\* more than there is after the reserve.
WithinTheReserve ==
    rows # Nil => \A s \in Buys : rows[s].final > 0 =>
        CostOf(rows[s].final, SizingPrice(s)) <= Minus(cash, (Equity * ReservePercent) \div 100)

====
