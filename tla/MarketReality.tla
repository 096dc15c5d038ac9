---------------------------- MODULE MarketReality ----------------------------
(***************************************************************************)
(* The two reviews of an order on one A-share: the rules of the market     *)
(* profile (market_rules) and the sandbox (market_reality), which sees     *)
(* the account, its limits and a scenario of assumptions.                  *)
(*                                                                         *)
(* The caller is external: it submits the orders of a day one by one, and  *)
(* books an order at its limit, with the costs of the cost model, when no  *)
(* review of its Gate objects.  It sells no more than it holds.            *)
(***************************************************************************)
EXTENDS Integers, FiniteSets, FiniteSetsExt, TLC

CONSTANTS
    Gate,                      \* the reviews the caller asks: {"rules", "sandbox"} or one of them
    Boards, Quantities, Limits,\* of an order; Limits are its prices
    PreviousClose,
    LotSizes, LotSwitches,     \* of the scenario: 0 is a lot size nobody gave
    Withheld,                  \* the assumptions a scenario may lack
    MaxOrderNotional, UsageRatio, Reserve,  \* the capital constraint; the ratio is UsageRatio of Tenths
    Fee,                       \* the costs of an order
    InitialCash, MaxOrders, MaxDays

Tenths == 10
Lot == 2                       \* of the profile
Sides == {"buy", "sell"}
Orders == [side : Sides, quantity : Quantities, limit : Limits]

\* What a scenario has to state; "cash" is an amount, "cash_explicit" its flag.
Assumptions == {"cash", "cash_explicit", "limits", "instrument_limits", "risk_flags", "horizon", "rejections",
                "latency", "provider", "audit", "boundaries", "no_live", "permission", "costs", "slippage"}

RealityAssumption ==
    /\ Gate \subseteq {"rules", "sandbox"} /\ Withheld \subseteq Assumptions
    /\ LotSizes \subseteq Nat /\ LotSwitches \subseteq BOOLEAN /\ PreviousClose \in Nat
    /\ Reserve \in Nat /\ Fee \in Nat /\ UsageRatio \in 1..Tenths
    /\ InitialCash \in Nat /\ MaxOrders \in Nat /\ MaxDays \in Nat

Scenarios ==
    [stated : {Assumptions \ {a} : a \in Withheld} \cup {Assumptions},
     lot : LotSizes, lotRequired : LotSwitches, suspended : BOOLEAN, board : Boards]

VARIABLES
    cash, held,     \* the account
    acquired,       \* the shares bought today
    scenario,       \* of the day
    review,         \* what the last order met: [order, errors, issues, cash], <<>> at first
    made, day       \* count the orders and the days

vars == <<cash, held, acquired, scenario, review, made, day>>

Where(condition, reason) == IF condition THEN {reason} ELSE {}

-----------------------------------------------------------------------------
(* The rules of the profile.  Only its errors stop an order: the warnings   *)
(* and the placeholder notes are left out.                                  *)

\* The daily limit of a board, in tenths; 0: not configured.  The profile has no limit for a risk flag.
BoardLimit(board) ==
    CASE board = "main" -> 1 [] board \in {"star", "chinext"} -> 2 [] board = "bse" -> 3 [] OTHER -> 0

QuantityErrors(o) ==
    IF o.quantity <= 0 THEN {"quantity_non_positive"}
    ELSE Where(o.side = "buy" /\ o.quantity < Lot, "buy_quantity_below_lot_size")
         \cup Where(o.side = "buy" /\ o.quantity % Lot # 0, "buy_quantity_not_lot_increment")

\* _validate_t_plus
TPlusErrors(o, bought) == Where(o.side = "sell" /\ bought > 0, "t_plus_same_day_sell_forbidden")

\* _validate_price_limit, with the sanity of the prices.
PriceErrors(o, board) ==
    LET limit == BoardLimit(board)
    IN  Where(o.limit <= 0, "price_non_positive")
        \cup Where(PreviousClose <= 0, "previous_close_non_positive")
        \cup Where(limit > 0 /\ o.limit * Tenths > PreviousClose * (Tenths + limit), "price_above_limit")
        \cup Where(limit > 0 /\ o.limit * Tenths < PreviousClose * (Tenths - limit), "price_below_limit")

\* validate_order_intent: the errors of an order.
Errors(o, s, bought) ==
    QuantityErrors(o) \cup TPlusErrors(o, bought) \cup PriceErrors(o, s.board)
    \cup Where(s.suspended, "symbol_suspended")

-----------------------------------------------------------------------------
(* The sandbox.  An issue is named by its rejection reason, which is what   *)
(* rejection_reasons makes of the list.                                     *)

\* The daily limits of the scenario, those of the main board.
PriceUp == (PreviousClose * (Tenths + 1)) \div Tenths
PriceDown == (PreviousClose * (Tenths - 1)) \div Tenths

\* SandboxRejectionReason, and the code of the reserve.
Reasons == {"invalid_lot_size", "suspended_instrument", "st_or_delisting_risk", "price_limit_violation",
            "t_plus_one_violation", "cash_constraint_missing", "insufficient_cash", "capital_constraint_violation",
            "min_cash_reserve", "account_permission_blocked", "cost_model_missing", "slippage_model_missing",
            "provider_failure_assumption_missing", "data_latency_assumption_missing", "live_execution_forbidden",
            "adapter_boundary_missing"}

\* validate_instrument_profile
InstrumentIssues(s) ==
    Where(s.suspended, "suspended_instrument")
    \cup Where("risk_flags" \notin s.stated, "st_or_delisting_risk")
    \cup Where("instrument_limits" \notin s.stated, "price_limit_violation")
    \cup Where(s.lot <= 0, "invalid_lot_size")

CashKnown(s) == {"cash", "cash_explicit"} \subseteq s.stated

\* validate_account_constraint
AccountIssues(s) == Where(~CashKnown(s), "cash_constraint_missing")

\* validate_capital_constraint
CapitalIssues ==
    Where(MaxOrderNotional <= 0 \/ ~(UsageRatio > 0 /\ UsageRatio <= Tenths) \/ Reserve < 0, "capital_constraint_violation")

\* validate_cost_model and validate_slippage_model
ModelIssues(s) ==
    Where("costs" \notin s.stated, "cost_model_missing") \cup Where("slippage" \notin s.stated, "slippage_model_missing")

\* validate_sandbox_scenario
ScenarioIssues(s) ==
    InstrumentIssues(s) \cup AccountIssues(s) \cup CapitalIssues \cup ModelIssues(s)
    \cup Where(s.lotRequired /\ s.lot <= 0, "invalid_lot_size")
    \cup Where("horizon" \notin s.stated, "t_plus_one_violation")
    \cup Where(~({"limits", "rejections"} \subseteq s.stated), "price_limit_violation")
    \cup Where("provider" \notin s.stated, "provider_failure_assumption_missing")
    \cup Where(~({"latency", "audit"} \subseteq s.stated), "data_latency_assumption_missing")
    \cup Where("no_live" \notin s.stated, "live_execution_forbidden")
    \cup Where("boundaries" \notin s.stated, "adapter_boundary_missing")

Notional(o) == o.quantity * o.limit

\* Mutant: the reserve is compared with the cash before the order.
ReserveBreached_Before(o, money) == money < Reserve

\* post_order_cash < min_cash_reserve, for a sale as for a purchase
ReserveBreached(o, money) == money - Notional(o) < Reserve

\* The checks of an order against the account's cash and its limits.
CashIssues(o, s, money) ==
    Where(CashKnown(s) /\ Notional(o) > money, "insufficient_cash")
    \cup Where(Notional(o) > MaxOrderNotional, "capital_constraint_violation")
    \cup Where(CashKnown(s) /\ ReserveBreached(o, money), "min_cash_reserve")
    \cup Where(CashKnown(s) /\ money > 0 /\ Notional(o) * Tenths > UsageRatio * money, "capital_constraint_violation")

\* quantity % lot_size raises when nobody gave a lot size.
Raises(s) == s.lotRequired /\ s.lot = 0

\* validate_order_draft; "min_cash_reserve" keeps its code.
Issues(o, s, money) ==
    ScenarioIssues(s) \cup CashIssues(o, s, money) \cup AccountIssues(s)
    \cup Where(s.lotRequired /\ o.quantity % s.lot # 0, "invalid_lot_size")
    \cup Where(o.quantity <= 0, "invalid_lot_size")
    \cup Where(s.suspended, "suspended_instrument")
    \cup Where("permission" \notin s.stated, "account_permission_blocked")
    \cup Where("limits" \in s.stated /\ (o.limit > PriceUp \/ o.limit < PriceDown), "price_limit_violation")

-----------------------------------------------------------------------------
Init ==
    /\ cash = InitialCash /\ held = 0 /\ acquired = 0
    /\ scenario \in Scenarios
    /\ review = <<>> /\ made = 0 /\ day = 0

Passes(o) ==
    /\ "rules" \in Gate => Errors(o, scenario, acquired) = {}
    /\ "sandbox" \in Gate => Issues(o, scenario, cash) = {}

\* The reviews of an order, and its booking by the caller.
Submit(o) ==
    /\ made < MaxOrders /\ made' = made + 1
    /\ o.side = "sell" => o.quantity <= held
    /\ review' = [order |-> o, cash |-> cash,
                  answered |-> ~Raises(scenario),
                  issues |-> IF Raises(scenario) THEN {} ELSE Issues(o, scenario, cash)]
    /\ IF Raises(scenario) \/ ~Passes(o) THEN UNCHANGED <<cash, held, acquired>>
       ELSE IF o.side = "buy"
       THEN cash' = cash - Notional(o) - Fee /\ held' = held + o.quantity /\ acquired' = acquired + o.quantity
       ELSE cash' = cash + Notional(o) - Fee /\ held' = held - o.quantity /\ UNCHANGED acquired
    /\ UNCHANGED <<scenario, day>>

\* The next trading day, with a scenario of its own.
NextDay ==
    /\ day < MaxDays /\ day' = day + 1
    /\ acquired' = 0 /\ scenario' \in Scenarios /\ review' = <<>>
    /\ UNCHANGED <<cash, held, made>>

Next == NextDay \/ \E o \in Orders : Submit(o)

Spec == Init /\ [][Next]_vars

-----------------------------------------------------------------------------
TypeOK ==
    /\ cash \in Int /\ held \in Nat /\ acquired \in Nat
    /\ scenario \in Scenarios /\ made \in 0..MaxOrders /\ day \in 0..MaxDays
    /\ review # <<>> => (review.order \in Orders /\ review.answered \in BOOLEAN /\ review.issues \subseteq Reasons)

\* Whatever sequence of orders the sandbox lets through, sales and purchases, the
\* account is never short of its reserve by more than the costs of one order,
\* which the sandbox does not count.
ReserveKept == cash >= Reserve - Fee

\* Nothing a scenario leaves out makes an order pass that the complete scenario
\* refuses: each skipped check (cash, price limits) is replaced by an issue.
MissingNeverHelps ==
    scenario.lot > 0 =>
        \A o \in Orders, a \in scenario.stated :
            Issues(o, scenario, cash) # {} => Issues(o, [scenario EXCEPT !.stated = @ \ {a}], cash) # {}

\* An order that both reviews let through may also be made smaller, by whole lots:
\* a strategy that is asked to buy or sell less is not refused for it.
SmallerNeverWorse ==
    scenario.lot > 0 =>
        \A o \in Orders, q \in Quantities :
            (q \in Lot..o.quantity /\ q % Lot = 0 /\ Passes(o)) => Passes([o EXCEPT !.quantity = q])

\* What was bought today is still held: in a day of purchases and sales nothing of it
\* is sold.  (Behind the sandbox alone it is what the architecture asks for, "must model
\* or explicitly block on: T+1 for ordinary A-shares".)
BoughtTodayIsKept == acquired <= held

=============================================================================
