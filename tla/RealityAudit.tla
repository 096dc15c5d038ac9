----------------------------- MODULE RealityAudit -----------------------------
(***************************************************************************)
(* The comparison of two executions of one strategy: the test windows of   *)
(* the ML ranking folds are run once with the base paper fills and once    *)
(* with the A-share execution rules, and a report says which orders the    *)
(* rules changed and which rules the data could not decide.                *)
(*                                                                         *)
(* Ranking, targets and orders of a window are those of RebalanceWindows,  *)
(* for each run on its own account.  The runs share nothing but the data,  *)
(* so a step of the model takes one window of both.  Each order ends in an *)
(* outcome; a rule's diagnostics are the flags that outcome carries for it.*)
(***************************************************************************)
EXTENDS Integers, Sequences, FiniteSets, SequencesExt, TLC

CONSTANTS
    Symbols, Scores, NoScore, RanksUnscored, Windows, Accounts, Lot, TargetCount,
    MaxWeight, ReserveWeight, MinFee, SellTax, Policy, \* as in RebalanceWindows
    Rows,          \* market rows a symbol may have: [close, suspended, pinned, volume, known]
    SharedFrame,   \* the caller gives the price frame; else each run loads its own
    BuyLot,        \* lot of the A-share configuration
    Participation, \* percent of the volume one order may take
    Frozen         \* cash the A-share state holds back

Names == Range(Symbols)
Runs == {"base", "reality"}
\* pinned: the row's one price is the upper limit ("buy"), the lower ("sell") or neither.
Fields == {"suspension", "limits", "volume"}

RealityAssumption ==
    /\ Lot \in Nat \ {0} /\ BuyLot \in Nat \ {0} /\ Participation \in 0 .. 100 /\ Frozen \in Nat
    /\ SharedFrame \in BOOLEAN
    /\ \A row \in Rows : row.close \in Nat /\ row.volume \in Nat /\ row.suspended \in BOOLEAN
                         /\ row.pinned \in {"buy", "sell", "no"} /\ row.known \subseteq Fields
    /\ \A a \in Accounts : a.cash >= Frozen /\ a.held \in [Names -> Nat]

VARIABLES
    phase,     \* "rank", "select", "trade"; "done" after the last window; "told"
    window,    \* windows completed
    rows,      \* rows[run][symbol]: first market row of the window
    alike,     \* both runs have seen the same rows in every window
    score,     \* what the ranking scored
    selected,  \* selected[run]
    book,      \* book[run]: [cash, held]
    outcomes,  \* outcomes[run]: one sequence of outcomes per window
    report     \* the comparison, NoReport before

vars == <<phase, window, rows, alike, score, selected, book, outcomes, report>>

Plan(run) == INSTANCE RebalanceWindows WITH
    closes <- [s \in Names |-> <<rows[run][s].close>>], Frames <- {},
    cash <- book[run].cash, held <- book[run].held, selected <- selected[run],
    since <- [s \in Names |-> 0], notes <- 0, orders <- <<>>, rejected <- <<>>

Lower(a, b) == IF a < b THEN a ELSE b
Least(a, b) == IF a > b THEN a ELSE b
Flat == [s \in Names |-> 0]

-----------------------------------------------------------------------------
(* What a row tells the execution.                                         *)

Suspended(row) == "suspension" \in row.known /\ row.suspended
\* _is_one_price_limit: without the limits nothing is recognised.
Pinned(order, row) == "limits" \in row.known /\ row.pinned = order.side
Cap(row) == (row.volume * Participation) \div 100

\* _normalize_quantity: a buy is cut to the lot; sells come whole.
Normalized(order) ==
    IF order.side = "buy" THEN (order.quantity \div BuyLot) * BuyLot ELSE order.quantity

\* Lots exist once an execution has left a position; before, and whenever
\* the account is flat, the availability says "approximated".
HasLots == window > 0 /\ book["reality"].held # Flat

ReserveFits(account, order, row) ==
    order.side = "buy" => Plan("reality")!BuyCash(Normalized(order), row.close) <= account.cash - Frozen

NoFill(order, row) == "volume" \in row.known /\ Lower(Normalized(order), Cap(row)) = 0

\* The rule an unfilled order is blamed on, first reason first (_mark_reason),
\* "no" when it fills.
Blamed(account, order, row) ==
    IF order.side = "buy" /\ order.quantity < BuyLot THEN "lot"
    ELSE IF row.close = 0 THEN "price"
    ELSE IF Suspended(row) THEN "suspension"
    ELSE IF "volume" \in row.known /\ row.volume = 0 THEN "volume"
    ELSE IF Pinned(order, row) THEN "one_price"
    ELSE IF order.side = "sell" /\ Normalized(order) > account.held[order.symbol] THEN "t_plus"
    ELSE IF ~ReserveFits(account, order, row) THEN "cash"
    ELSE IF NoFill(order, row) THEN "volume" ELSE "no"

FillSize(order, row) ==
    IF "volume" \in row.known THEN Lower(Normalized(order), Cap(row)) ELSE Normalized(order)

Fee(order, size, price) ==
    IF order.side = "buy" THEN Plan("base")!BuyCash(size, price) - size * price
    ELSE size * price - Plan("base")!SellCash(size, price)

Paid(account, order, size, price) ==
    IF order.side = "buy"
    THEN [cash |-> account.cash - Plan("base")!BuyCash(size, price),
          held |-> [account.held EXCEPT ![order.symbol] = @ + size]]
    ELSE [cash |-> account.cash + Plan("base")!SellCash(size, price),
          held |-> [account.held EXCEPT ![order.symbol] = @ - size]]

-----------------------------------------------------------------------------
(* The rules of an order, as the sets of rules that carry each flag.       *)

Evaluated(order, row, size) ==
    {"price"} \cup (IF order.side = "sell" THEN {"t_plus"} ELSE {"lot", "cash"})
    \cup (IF "suspension" \in row.known THEN {"suspension"} ELSE {})
    \cup (IF "limits" \in row.known THEN {"one_price"} ELSE {})
    \cup (IF "volume" \in row.known THEN {"volume"} ELSE {})
    \cup (IF size > 0 THEN {"partial", "fee"} ELSE {})

Unavailable(row) ==
    (IF HasLots THEN {} ELSE {"t_plus"})
    \cup (IF "suspension" \in row.known THEN {} ELSE {"suspension"})
    \cup (IF "limits" \in row.known THEN {} ELSE {"one_price"})
    \cup (IF "volume" \in row.known THEN {} ELSE {"volume"})

Skipped(order, size) ==
    (IF order.side = "buy" THEN {"t_plus"} ELSE {"lot", "cash"})
    \cup (IF size > 0 THEN {} ELSE {"partial", "fee"})

\* _mark_fill_rules.
ChangedByFill(order, size, blamed) ==
    IF blamed = "no" /\ size < Normalized(order) THEN {"partial", "volume"} ELSE {}

Changed(order, row, size, blamed) ==
    ({blamed} \cap {"lot", "price", "suspension", "volume", "one_price", "t_plus", "cash"})
    \cup (IF Normalized(order) # order.quantity THEN {"lot"} ELSE {})
    \cup (IF row.close = 0 THEN {"price"} ELSE {})
    \cup (IF Pinned(order, row) THEN {"one_price"} ELSE {})
    \cup ChangedByFill(order, size, blamed)
    \cup (IF size > 0 /\ Fee(order, size, row.close) > 0 THEN {"fee"} ELSE {})

Triggered(order, row, size, blamed) ==
    Changed(order, row, size, blamed)
    \cup (IF Suspended(row) THEN {"suspension"} ELSE {})
    \cup (IF "volume" \in row.known /\ Normalized(order) > Cap(row) THEN {"volume"} ELSE {})
    \cup (IF Frozen > 0 /\ order.side = "buy" THEN {"cash"} ELSE {})

-----------------------------------------------------------------------------
(* Execution of a proposal.                                                *)

Status(order, size, blamed) ==
    IF blamed = "t_plus" THEN "deferred" ELSE IF blamed # "no" THEN "rejected"
    ELSE IF size = Normalized(order) THEN "filled" ELSE "partial"

\* execute_a_share_reality_proposal, one order.
RealityOrder(state, order) ==
    LET row == rows["reality"][order.symbol]
        blamed == Blamed(state.account, order, row)
        size == IF blamed = "no" THEN FillSize(order, row) ELSE 0
        account == IF size = 0 THEN state.account ELSE Paid(state.account, order, size, row.close)
    IN  [account |-> account,
         told |-> Append(state.told,
             [symbol |-> order.symbol, side |-> order.side, requested |-> order.quantity,
              normalized |-> Normalized(order), filled |-> size,
              price |-> IF size = 0 THEN 0 ELSE row.close,
              fee |-> IF size = 0 THEN 0 ELSE Fee(order, size, row.close),
              status |-> Status(order, size, blamed),
              before |-> state.account.cash - Frozen, after |-> account.cash - Frozen,
              evaluated |-> Evaluated(order, row, size), unavailable |-> Unavailable(row),
              skipped |-> Skipped(order, size), changed |-> Changed(order, row, size, blamed),
              triggered |-> Triggered(order, row, size, blamed)])]

\* The paper simulator fills an order whole or not at all and knows no row;
\* _base_execution_outcomes.
BaseOrder(state, order) ==
    LET price == rows["base"][order.symbol].close
        fits == /\ order.side = "buy" => Plan("base")!BuyCash(order.quantity, price) <= state.account.cash
                /\ order.side = "sell" => state.account.held[order.symbol] >= order.quantity
        account == IF fits THEN Paid(state.account, order, order.quantity, price) ELSE state.account
    IN  [account |-> account,
         told |-> Append(state.told,
             [symbol |-> order.symbol, side |-> order.side, requested |-> order.quantity,
              normalized |-> order.quantity, filled |-> IF fits THEN order.quantity ELSE 0,
              price |-> IF fits THEN price ELSE 0,
              fee |-> IF fits THEN Fee(order, order.quantity, price) ELSE 0,
              status |-> IF fits THEN "filled" ELSE "rejected", after |-> account.cash])]

Executed(run) ==
    FoldLeft(LAMBDA state, order : IF run = "base" THEN BaseOrder(state, order) ELSE RealityOrder(state, order),
             [account |-> book[run], told |-> <<>>], Plan(run)!Planned.orders)

-----------------------------------------------------------------------------
(* The report.                                                             *)

All(run) == FoldLeft(LAMBDA list, told : list \o told, <<>>, outcomes[run])

\* _order_alignment_passed: the number of orders of each window.
Aligned == [w \in DOMAIN outcomes["base"] |-> Len(outcomes["base"][w])]
           = [w \in DOMAIN outcomes["reality"] |-> Len(outcomes["reality"][w])]

Compared(o) == <<o.status, o.normalized, o.filled, o.price, o.after>>

\* Orders of the reality run that differ from the base order of their index.
Differ(base, told) ==
    {i \in DOMAIN told : i > Len(base) \/ (i <= Len(base) /\ Compared(base[i]) # Compared(told[i]))}

\* zero_trigger_conclusion.
Silent(told) == told # <<>> /\ \A i \in DOMAIN told : told[i].triggered = {}

Undecided(told) == UNION {told[i].unavailable : i \in DOMAIN told}

NoReport == [written |-> FALSE]

\* _build_report.
Report ==
    [written |-> TRUE, aligned |-> Aligned, quiet |-> Differ(All("base"), All("reality")) = {},
     silent |-> Silent(All("reality")), undecided |-> Undecided(All("reality")),
     identical |-> TRUE]  \* symbols, dates and fold counts come from one configuration

-----------------------------------------------------------------------------

Init ==
    /\ \E a \in Accounts : book = [run \in Runs |-> [cash |-> a.cash, held |-> a.held]]
    /\ phase = "rank" /\ window = 0 /\ alike = TRUE /\ report = NoReport
    /\ rows = [run \in Runs |-> [s \in Names |-> CHOOSE row \in Rows : TRUE]]
    /\ score = [s \in Names |-> NoScore]
    /\ selected = [run \in Runs |-> <<>>] /\ outcomes = [run \in Runs |-> <<>>]

Rate ==
    /\ phase = "rank"
    /\ \E seen \in [Names -> Rows] : \E again \in (IF SharedFrame THEN {seen} ELSE [Names -> Rows]) :
          /\ rows' = [run \in Runs |-> IF run = "base" THEN seen ELSE again]
          /\ alike' = (alike /\ seen = again)
    /\ score' \in [Names -> Scores]
    /\ phase' = "select"
    /\ UNCHANGED <<window, selected, book, outcomes, report>>

Select ==
    /\ phase = "select"
    /\ selected' = [run \in Runs |-> Plan(run)!Selection]
    /\ phase' = "trade"
    /\ UNCHANGED <<window, rows, alike, score, book, outcomes, report>>

\* Mutant: the A-share account is not carried to the next window.
TradeStale ==
    /\ phase = "trade"
    /\ outcomes' = [run \in Runs |-> Append(outcomes[run], Executed(run).told)]
    /\ book' = [book EXCEPT !["base"] = Executed("base").account]
    /\ window' = window + 1
    /\ phase' = IF window + 1 = Windows THEN "done" ELSE "rank"
    /\ UNCHANGED <<rows, alike, score, selected, report>>

\* One window of _run_scaleup_rebalance_windows, in both runs.
Trade ==
    /\ phase = "trade"
    /\ outcomes' = [run \in Runs |-> Append(outcomes[run], Executed(run).told)]
    /\ book' = [run \in Runs |-> Executed(run).account]
    /\ window' = window + 1
    /\ phase' = IF window + 1 = Windows THEN "done" ELSE "rank"
    /\ UNCHANGED <<rows, alike, score, selected, report>>

Compare ==
    /\ phase = "done"
    /\ report' = Report
    /\ phase' = "told"
    /\ UNCHANGED <<window, rows, alike, score, selected, book, outcomes>>

Next == Rate \/ Select \/ Trade \/ Compare

Spec == Init /\ [][Next]_vars

-----------------------------------------------------------------------------
(* Properties.                                                             *)

\* Types; the A-share execution never spends the cash it holds back.
TypeOK ==
    /\ phase \in {"rank", "select", "trade", "done", "told"} /\ window \in 0 .. Windows
    /\ \A run \in Runs : book[run].cash \in Nat /\ book[run].held \in [Names -> Nat]
                         /\ Len(outcomes[run]) = window
    /\ book["reality"].cash >= Frozen

\* The cash the outcomes report is one chain: an order starts with what the
\* order before it left, across windows, and the last leaves the account's.
CashChains ==
    LET told == All("reality")
    IN  \A i \in DOMAIN told :
            told[i].after = IF i < Len(told) THEN told[i + 1].before ELSE book["reality"].cash - Frozen

\* The coverage table explains the fills: an order that did not get what was
\* asked for carries a rule that changed it, and one that did carries none but
\* its fee (changed_order of the rule diagnostics).
ChangesExplained ==
    \A i \in DOMAIN All("reality") :
        LET o == All("reality")[i] IN o.filled < o.requested <=> o.changed \ {"fee"} # {}

\* "all evaluated orders were compliant" is said only when every order was
\* filled in full.
SilentMeansFilled ==
    report.written /\ report.silent =>
        \A i \in DOMAIN All("reality") : All("reality")[i].filled = All("reality")[i].requested

\* "all non-fee execution deltas were zero" means that the two accounts ended
\* alike, although only index-aligned orders were compared.
QuietMeansSame == report.written /\ report.quiet => book["base"] = book["reality"]

=============================================================================
