--------------------------- MODULE RebalanceWindows ---------------------------
(***************************************************************************)
(* The cash-aware rebalance of the scale-up evaluation: one account goes   *)
(* through a sequence of test windows.  In each the symbols are ranked,    *)
(* the turnover controls keep or replace positions, orders are built from  *)
(* target weights, filtered, and executed by the paper simulator, all at   *)
(* the first close the window has of a symbol.                             *)
(*                                                                         *)
(* A window's rows are closes[s] = <<c1, ..., cn>>, one close per session, *)
(* 0 where the symbol has no row.  Money is in whole units.                *)
(***************************************************************************)
EXTENDS Integers, Sequences, FiniteSets, SequencesExt, TLC

CONSTANTS
    Symbols,      \* a sequence: the symbols in the order of their names
    Frames,       \* rows a window may have: functions of symbol to closes
    Scores,       \* scores a ranking may give
    NoScore,      \* a symbol the ranking has no score for
    RanksUnscored,\* the ML ranking lists an unscored symbol last, a factor ranking drops it
    Windows,      \* windows of the run
    Accounts,     \* accounts a run may start from: [cash, held]
    Lot,
    TargetCount,
    MaxWeight,    \* percent of equity a position may get
    ReserveWeight,\* percent of equity kept in cash
    MinFee,
    SellTax,      \* percent of a sale
    Policy        \* turnover controls: [enabled, entry, exit, gain, band, minimum, holding]

Names == Range(Symbols)

RebalanceAssumption ==
    /\ Windows \in Nat \ {0} /\ Lot \in Nat \ {0} /\ TargetCount \in Nat \ {0}
    /\ MaxWeight \in 1 .. 100 /\ ReserveWeight \in 0 .. 99
    /\ MinFee \in Nat /\ SellTax \in 0 .. 100 /\ RanksUnscored \in BOOLEAN
    /\ Scores \subseteq Int /\ NoScore \notin Scores
    /\ Policy.exit >= Policy.entry
    /\ \A f \in Frames : f \in [Names -> Seq(Nat)]
    /\ \A a \in Accounts : a.cash \in Nat /\ a.held \in [Names -> Nat]

VARIABLES
    phase,     \* "rank", "select", "build", "execute"; "done" after the last window
    window,    \* windows completed
    closes,    \* rows of the window at work
    score,     \* what the ranking scored
    cash, held,
    since,     \* window a holding is dated from, 0 for none
    selected,  \* symbols the window wants to hold
    notes,     \* counters of the selection and the order construction
    orders,    \* the proposal: <<[symbol, side, quantity], ...>>
    rejected   \* orders the simulator refused in the last window

vars == <<phase, window, closes, score, cash, held, since, selected, notes, orders, rejected>>

-----------------------------------------------------------------------------
(* Prices and values.                                                      *)

Traded(s) == {d \in DOMAIN closes[s] : closes[s][d] > 0}
FirstDay(s) == CHOOSE d \in Traded(s) : \A e \in Traded(s) : d <= e

\* _first_prices_for_window: the first close the window has; 0 when none.
Price(s) == IF Traded(s) = {} THEN 0 ELSE closes[s][FirstDay(s)]

Total(f) == FoldSeq(LAMBDA s, sum : sum + f[s], 0, Symbols)

\* _account_equity: a holding without a row counts nothing.
Equity == cash + Total([s \in Names |-> held[s] * Price(s)])

FloorLot(shares) == (shares \div Lot) * Lot
Lower(a, b) == IF a < b THEN a ELSE b

BuyCash(quantity, price) == quantity * price + MinFee
SellCash(quantity, price) == quantity * price - MinFee - (quantity * price * SellTax) \div 100

-----------------------------------------------------------------------------
(* Ranking and the controls on candidates.                                 *)

Ranked == {s \in Names : Price(s) > 0 /\ (RanksUnscored \/ score[s] # NoScore)}

Position(s) == CHOOSE i \in DOMAIN Symbols : Symbols[i] = s

\* Higher scores first, the unscored last, then by name.
Before(s, t) ==
    \/ score[s] # NoScore /\ score[t] = NoScore
    \/ score[s] # NoScore /\ score[t] # NoScore /\ score[s] > score[t]
    \/ score[s] = score[t] /\ Position(s) < Position(t)

Rank(s) == 1 + Cardinality({t \in Ranked : Before(t, s)})

\* _rank_scaleup_candidates.
Candidates == SetToSortSeq(Ranked, LAMBDA s, t : Rank(s) < Rank(t))

Top(k) == SubSeq(Candidates, 1, Lower(k, Len(Candidates)))

Current == SelectSeq(Symbols, LAMBDA s : held[s] > 0)

Young(s) == since[s] # 0 /\ window + 1 - since[s] < Policy.holding

KeptByRank(s) == s \in Ranked /\ Rank(s) <= Policy.exit

Retained == SelectSeq(Current, LAMBDA s : KeptByRank(s) \/ Young(s))

Outgoing == Range(Current) \ Range(Retained)
OutgoingScores == {score[s] : s \in {t \in Outgoing : t \in Ranked /\ score[t] # NoScore}}

\* A replacement has to beat the weakest position that leaves.
Blocked(s) ==
    /\ OutgoingScores # {}
    /\ \/ score[s] = NoScore
       \/ score[s] # NoScore /\ \E weakest \in OutgoingScores :
              /\ \A other \in OutgoingScores : weakest <= other
              /\ score[s] - weakest < Policy.gain

Admit(chosen, s) ==
    IF Len(chosen) >= TargetCount \/ Rank(s) > Policy.entry \/ Contains(chosen, s) \/ Blocked(s)
    THEN chosen ELSE Append(chosen, s)

\* _apply_turnover_aware_candidate_controls: what is retained, then the
\* admitted candidates, cut at the target.
Controlled ==
    LET chosen == FoldLeft(Admit, Retained, Candidates)
    IN  SubSeq(chosen, 1, Lower(TargetCount, Len(chosen)))

Selection == IF Policy.enabled THEN Controlled ELSE Top(TargetCount)

-----------------------------------------------------------------------------
(* Order construction: sells first, then buys while cash lasts.            *)

\* _target_weights, as value.
TargetValue(s) ==
    IF ~Contains(selected, s) THEN 0
    ELSE (Equity * Lower(MaxWeight, (100 - ReserveWeight) \div Len(selected))) \div 100

Delta(s) == TargetValue(s) - held[s] * Price(s)
OneLot(s) == Price(s) * Lot

SellQuantity(s) ==
    IF Price(s) > 0 /\ held[s] > 0 /\ -Delta(s) >= OneLot(s)
    THEN Lower(held[s], FloorLot((-Delta(s)) \div Price(s))) ELSE 0

Universe == SelectSeq(Symbols, LAMBDA s : held[s] > 0 \/ Contains(selected, s))

Order(s, side, quantity) == [symbol |-> s, side |-> side, quantity |-> quantity]

Sells ==
    LET sold == SelectSeq(Universe, LAMBDA s : SellQuantity(s) >= Lot)
    IN  [i \in DOMAIN sold |-> Order(sold[i], "sell", SellQuantity(sold[i]))]

Reserve == (Equity * ReserveWeight) \div 100

\* _max_affordable_buy_quantity.
Affordable(money, s) ==
    LET fits == {q \in 0 .. (money \div Price(s)) : q % Lot = 0 /\ (q > 0 => BuyCash(q, Price(s)) <= money)}
    IN  IF money <= 0 THEN 0 ELSE CHOOSE q \in fits : \A r \in fits : r <= q

Wanted(s) == Price(s) > 0 /\ Delta(s) >= OneLot(s)

BuyQuantity(money, s) ==
    IF ~Wanted(s) THEN 0 ELSE Lower(FloorLot(Delta(s) \div Price(s)), Affordable(money - Reserve, s))

Plan(plan, s) ==
    LET quantity == BuyQuantity(plan.money, s)
    IN  IF quantity >= Lot
        THEN [plan EXCEPT !.money = @ - BuyCash(quantity, Price(s)),
                          !.orders = Append(@, Order(s, "buy", quantity))]
        ELSE [plan EXCEPT !.short = @ + (IF Wanted(s) THEN 1 ELSE 0)]

Proceeds(order) == SellCash(order.quantity, Price(order.symbol))

Planned ==
    FoldLeft(Plan,
             [money |-> FoldLeft(LAMBDA m, order : m + Proceeds(order), cash, Sells),
              orders |-> Sells, short |-> 0],
             selected)

Count(P(_)) == Cardinality({s \in Range(Universe) : P(s)})

Missing(s) == Price(s) = 0 /\ (held[s] > 0 \/ TargetValue(s) > 0)
Raw(s) == held[s] > 0 \/ TargetValue(s) > 0
Unchanged(s) == Price(s) > 0 /\ Delta(s) = 0 /\ Raw(s)

BelowLot(s) == Price(s) > 0 /\ Delta(s) # 0 /\ Delta(s) < OneLot(s) /\ -Delta(s) < OneLot(s)

-----------------------------------------------------------------------------
(* The controls on orders.                                                 *)

Value(order) == order.quantity * Price(order.symbol)
Liquidation(order) == order.side = "sell" /\ ~Contains(selected, order.symbol)

Apart(s) == IF Delta(s) < 0 THEN -Delta(s) ELSE Delta(s)
InBand(order) == Apart(order.symbol) * 100 < Policy.band * Equity
TooSmall(order) == Value(order) < Policy.minimum

Filtered(order) == Policy.enabled /\ ~Liquidation(order) /\ (InBand(order) \/ TooSmall(order))

Counts(order) == 1

Removed == FoldLeft(LAMBDA n, order : n + (IF Filtered(order) THEN Counts(order) ELSE 0), 0, Planned.orders)

\* What the removed sells would have brought: the buys were sized with it.
Withheld ==
    FoldLeft(LAMBDA n, order : n + (IF Filtered(order) /\ order.side = "sell" THEN Proceeds(order) ELSE 0),
             0, Planned.orders)

-----------------------------------------------------------------------------
(* Execution by the paper simulator.                                       *)

Refused(state, order) ==
    \/ order.quantity % Lot # 0
    \/ order.side = "buy" /\ BuyCash(order.quantity, Price(order.symbol)) > state.cash
    \/ order.side = "sell" /\ state.held[order.symbol] < order.quantity

Filled(state, order) ==
    IF Refused(state, order) THEN [state EXCEPT !.rejected = Append(@, order)]
    ELSE IF order.side = "buy"
    THEN [state EXCEPT !.cash = @ - BuyCash(order.quantity, Price(order.symbol)),
                       !.held[order.symbol] = @ + order.quantity]
    ELSE [state EXCEPT !.cash = @ + SellCash(order.quantity, Price(order.symbol)),
                       !.held[order.symbol] = @ - order.quantity]

Executed == FoldLeft(Filled, [cash |-> cash, held |-> held, rejected |-> <<>>], orders)

\* Mutant: a top-up restarts the holding period.
DatedAgain(s, quantity) == IF quantity = 0 THEN 0 ELSE IF quantity > held[s] THEN window + 1 ELSE since[s]

\* _update_holding_start_dates.
Dated(s, quantity) == IF quantity = 0 THEN 0 ELSE IF since[s] # 0 THEN since[s] ELSE window + 1

-----------------------------------------------------------------------------

NoNotes == [deltas |-> 0, zero |-> 0, below |-> 0, missing |-> 0, short |-> 0, filtered |-> 0,
            withheld |-> 0, young |-> {}]

Init ==
    /\ \E a \in Accounts :
          /\ cash = a.cash /\ held = a.held
          /\ since = [s \in Names |-> IF a.held[s] > 0 THEN 1 ELSE 0]
    /\ phase = "rank" /\ window = 0 /\ closes \in Frames /\ score = [s \in Names |-> NoScore]
    /\ selected = <<>> /\ notes = NoNotes /\ orders = <<>> /\ rejected = <<>>

\* The rows of the window and the scores its training slice gives.
Rate ==
    /\ phase = "rank"
    /\ closes' \in Frames
    /\ score' \in [Names -> Scores \cup {NoScore}]
    /\ phase' = "select" /\ orders' = <<>> /\ rejected' = <<>>
    /\ UNCHANGED <<window, cash, held, since, selected, notes>>

Select ==
    /\ phase = "select"
    /\ selected' = Selection
    /\ notes' = [NoNotes EXCEPT !.young =
                   IF Policy.enabled THEN {s \in Range(Current) : Young(s) /\ ~KeptByRank(s)} ELSE {}]
    /\ phase' = "build"
    /\ UNCHANGED <<window, closes, score, cash, held, since, orders, rejected>>

\* _build_rebalance_proposal.
Build ==
    /\ phase = "build"
    /\ orders' = SelectSeq(Planned.orders, LAMBDA order : ~Filtered(order))
    /\ notes' = [notes EXCEPT !.deltas = Count(Raw), !.zero = Count(Unchanged), !.below = Count(BelowLot),
                              !.missing = Count(Missing), !.short = Planned.short, !.filtered = Removed,
                              !.withheld = Withheld]
    /\ phase' = "execute"
    /\ UNCHANGED <<window, closes, score, cash, held, since, selected, rejected>>

Execute ==
    /\ phase = "execute"
    /\ cash' = Executed.cash /\ held' = Executed.held /\ rejected' = Executed.rejected
    /\ since' = [s \in Names |-> Dated(s, Executed.held[s])]
    /\ window' = window + 1
    /\ phase' = IF window + 1 = Windows THEN "done" ELSE "rank"
    /\ UNCHANGED <<closes, score, selected, notes, orders>>

Next == Rate \/ Select \/ Build \/ Execute

Spec == Init /\ [][Next]_vars

-----------------------------------------------------------------------------
(* Properties.                                                             *)

\* Types: cash never goes below zero and no more is sold than held.
TypeOK ==
    /\ phase \in {"rank", "select", "build", "execute", "done"} /\ window \in 0 .. Windows
    /\ cash \in Nat /\ held \in [Names -> Nat] /\ since \in [Names -> 0 .. Windows]
    /\ selected \in Seq(Names) /\ Len(selected) <= TargetCount
    /\ \A i \in DOMAIN orders : orders[i].quantity \in Nat \ {0}

\* Every position that was to change is accounted for: it became an order or
\* one named reason removed it (the reconciliation the optimisation runs over
\* its reports, orders_removed_* of _order_construction_counts).
OrdersReconcile ==
    phase = "execute" =>
        notes.deltas = Len(orders) + notes.zero + notes.below + notes.missing + notes.short + notes.filtered

AfterFills == phase \in {"rank", "done"} /\ window > 0

Bought == \E i \in DOMAIN orders : orders[i].side = "buy" /\ ~Contains(rejected, orders[i])

\* Buys are sized from the cash the sells bring, costs of both included, so
\* the simulator has nothing to refuse, but for one case: the controls on orders
\* remove a sell after the buys were sized with its proceeds, and a buy is
\* refused then.  A sell never is.
NothingRejected ==
    AfterFills /\ rejected # <<>> =>
        notes.withheld > 0 /\ \A i \in DOMAIN rejected : rejected[i].side = "buy"

\* A window that bought still has its cash reserve when the fills are in, less
\* what removed sells would have brought, at the prices and the equity the orders
\* were sized with (the equity of the moment is no more than that, costs only
\* lower it).
ReserveKept == AfterFills /\ Bought => cash + notes.withheld >= Reserve

\* What the selection dropped and the window has a price for is sold to the
\* last lot, whatever the controls filter.
ExitsComplete ==
    AfterFills => \A s \in Names : Price(s) > 0 /\ ~Contains(selected, s) => held[s] < Lot

\* The same while no more positions are retained than the target admits.
RoomFor == phase = "build" => (Len(Retained) <= TargetCount => notes.young \subseteq Range(selected))

\* A holding is dated from the window that opened it: the date only changes
\* when the position opens or closes, so the holding period of a topped-up
\* position is not restarted and a reopened one does not inherit the old one.
DatedOnce == \A s \in Names : since'[s] # since[s] => (held[s] = 0 /\ held'[s] > 0) \/ held'[s] = 0
SinceHeld == AfterFills => \A s \in Names : since[s] # 0 <=> held[s] > 0

=============================================================================
