--------------------------- MODULE AShareExecution --------------------------
(***************************************************************************)
(* The account behind the daily paper state: cash, positions, settlement   *)
(* lots and the ids of the orders already executed.                        *)
(*                                                                         *)
(* A session executes the proposal of run_daily_paper_loop order by order  *)
(* on a working copy (execute_a_share_reality_proposal), reconciles it and *)
(* saves it; an inconsistency anywhere throws the whole session away.      *)
(* Between sessions a clerk books fills that happened at a broker          *)
(* (record_manual_fill_v1.py).  Money and prices are whole units.          *)
(***************************************************************************)
EXTENDS Integers, Sequences, FiniteSets, SequencesExt

CONSTANTS
    Symbols,      \* tradable symbols
    Lot,          \* shares per board lot
    MaxLots,      \* bound on the board lots of one order
    Prices,       \* prices a session or a fill can have
    Caps,         \* shares a session's volume lets one order fill (10% of it)
    MinFee,       \* minimum commission
    FeeDivisor,   \* the commission rate is 1 / FeeDivisor
    TaxDivisor,   \* the stamp tax rate on sells is 1 / TaxDivisor
    InitialCash,
    LastDay,      \* the calendar's sessions are 1 .. LastDay
    MaxFills      \* bound on the number of manual fills

ASSUME ExecutionAssumption ==
    /\ IsFiniteSet(Symbols)
    /\ \A n \in {Lot, MaxLots, FeeDivisor, TaxDivisor} : n \in Nat \ {0}
    /\ \A n \in {MinFee, InitialCash, LastDay, MaxFills} : n \in Nat
    /\ Prices \subseteq Nat \ {0}
    /\ Caps \subseteq Nat

VARIABLES
    today,    \* execution session of the running session
    book,     \* the saved account
    work,     \* the working copy of the running session, else book
    orders,   \* orders of the running session that are not executed yet
    running,  \* a session is running
    fills     \* number of manual fills

vars == <<today, book, work, orders, running, fills>>

SettlementLot == [symbol : Symbols, quantity : Nat, date : Nat]

Account == [cash : Int, position : [Symbols -> Int], lots : Seq(SettlementLot),
            seen : SUBSET (Nat \X Symbols \X {"buy", "sell"} \X Nat),
            last : Nat]  \* last_execution_session, 0 before the first

Order == [symbol : Symbols, side : {"buy", "sell"}, quantity : Nat \ {0}]

TypeOK ==
    /\ today \in 0 .. LastDay
    /\ book \in Account
    /\ work \in Account
    /\ orders \in Seq(Order)
    /\ running \in BOOLEAN
    /\ fills \in 0 .. MaxFills
    /\ ~ running => orders = <<>> /\ work = book

Init ==
    /\ today = 0
    /\ book = [cash |-> InitialCash, position |-> [s \in Symbols |-> 0],
               lots |-> <<>>, seen |-> {}, last |-> 0]
    /\ work = book
    /\ orders = <<>>
    /\ running = FALSE
    /\ fills = 0

-----------------------------------------------------------------------------
(***************************************************************************)
(* Money.                                                                  *)
(***************************************************************************)
Larger(m, n) == IF m >= n THEN m ELSE n
Smaller(m, n) == IF m <= n THEN m ELSE n

Commission(gross) == Larger(gross \div FeeDivisor, MinFee)

\* estimate_buy_cash_required.
Reserve(quantity, price) == quantity * price + Commission(quantity * price)

\* What a buy of that quantity then takes.
BuyCost(quantity, price) == quantity * price + Commission(quantity * price)

SellProceeds(quantity, price) ==
    quantity * price - Commission(quantity * price)
                     - (quantity * price) \div TaxDivisor

-----------------------------------------------------------------------------
(***************************************************************************)
(* Settlement lots.                                                        *)
(***************************************************************************)
\* Shares of s in the lots that were bought on one of the dates.
Shares(lots, s, dates) ==
    LET sum[k \in 0 .. Len(lots)] ==
            IF k = 0 THEN 0
            ELSE sum[k - 1] + (IF lots[k].symbol = s /\ lots[k].date \in dates
                               THEN lots[k].quantity ELSE 0)
    IN  sum[Len(lots)]

SharesIn(lots, s) == Shares(lots, s, Nat)

\* Mutant: lots bought on the trade date count as sellable.
SellableSameDay(lots, s, t) == Shares(lots, s, 0 .. t)

\* _sellable_quantity: lots bought before the trade date.
Sellable(lots, s, t) == Shares(lots, s, 0 .. t - 1)

\* Mutant: what one lot gave is not taken off what the next one has to give.
AfterSellEveryLot(lots, s, quantity) ==
    SelectSeq(
        [k \in 1 .. Len(lots) |->
            IF lots[k].symbol # s THEN lots[k]
            ELSE [lots[k] EXCEPT !.quantity = IF @ > quantity THEN @ - quantity ELSE 0]],
        LAMBDA lot : lot.quantity > 0)

\* _apply_settlement_lot_update of a sell: the lots of s give what is left to
\* sell in the order of the list, and a lot that gave all it had is dropped.
AfterSell(lots, s, quantity) ==
    LET sell[k \in 0 .. Len(lots)] ==
            IF k = 0 THEN [left |-> quantity, kept |-> <<>>]
            ELSE LET left == sell[k - 1].left
                     kept == sell[k - 1].kept
                     consumed == Smaller(left, lots[k].quantity)
                 IN  IF lots[k].symbol # s \/ left <= 0
                     THEN [left |-> left, kept |-> Append(kept, lots[k])]
                     ELSE [left |-> left - consumed,
                           kept |-> IF lots[k].quantity > consumed
                                    THEN Append(kept, [lots[k] EXCEPT !.quantity = @ - consumed])
                                    ELSE kept]
    IN  sell[Len(lots)].kept

\* An account after a fill on day t.
Bought(a, s, quantity, price, t) ==
    [a EXCEPT !.cash = @ - BuyCost(quantity, price),
              !.position[s] = @ + quantity,
              !.lots = Append(@, [symbol |-> s, quantity |-> quantity,
                                  date |-> t])]

Sold(a, s, quantity, price, t) ==
    [a EXCEPT !.cash = @ + SellProceeds(quantity, price),
              !.position[s] = @ - quantity,
              !.lots = AfterSell(@, s, quantity)]

-----------------------------------------------------------------------------
(***************************************************************************)
(* A session.                                                              *)
(***************************************************************************)

\* _build_order_proposal: buys of whole lots, each affordable on its own at
\* the decision price, then one sell of all whole lots of every exit
\* candidate.  A symbol is bought, sold or neither.
SellOrder(s) == [symbol |-> s, side |-> "sell",
                 quantity |-> (book.position[s] \div Lot) * Lot]

BuyOrders ==
    {[symbol |-> s, side |-> "buy", quantity |-> n * Lot] :
        s \in Symbols, n \in 1 .. MaxLots}

Proposable(buys, exits) ==
    /\ \A o1, o2 \in buys : o1.symbol = o2.symbol => o1 = o2
    /\ \A o \in buys : /\ o.symbol \notin exits
                       /\ \E price \in Prices :
                             Reserve(o.quantity, price) <= book.cash
    /\ \A s \in exits : book.position[s] >= Lot

StartSession(t) ==
    /\ ~ running
    /\ t > book.last
    /\ \E buys \in SUBSET BuyOrders, exits \in SUBSET Symbols :
          /\ Proposable(buys, exits)
          /\ \E b \in SetToSeqs(buys), x \in SetToSeqs({SellOrder(s) : s \in exits}) :
                orders' = b \o x
    /\ today' = t
    /\ running' = TRUE
    /\ UNCHANGED <<book, work, fills>>

OrderId(o) == <<today, o.symbol, o.side, o.quantity>>

\* No price, no volume, suspended, or locked at the limit of its side.
Untradable(cap) == cap = 0

\* The head order is rejected (not tradable, repeated, beyond the cash) or
\* deferred (T+1).
Unfillable(o, price, cap) ==
    \/ Untradable(cap)
    \/ OrderId(o) \in work.seen
    \/ o.side = "buy" /\ Reserve(o.quantity, price) > work.cash
    \/ o.side = "sell" /\ o.quantity > Sellable(work.lots, o.symbol, today)

\* The account after the head order met this price and this much volume.
AfterOrder(o, price, cap) ==
    LET quantity == Smaller(o.quantity, cap)
    IN  IF Unfillable(o, price, cap) THEN work
        ELSE IF o.side = "buy" THEN Bought(work, o.symbol, quantity, price, today)
        ELSE Sold(work, o.symbol, quantity, price, today)

\* Mutant: the rest of the orders stays for the next session.
ThrowAwayAccountOnly ==
    /\ work' = book
    /\ running' = FALSE
    /\ UNCHANGED <<today, book, orders, fills>>

\* An exception anywhere in the session: nothing of it is saved.
ThrowAway ==
    /\ work' = book
    /\ orders' = <<>>
    /\ running' = FALSE
    /\ UNCHANGED <<today, book, fills>>

\* Mutant: only positions are looked at.
ConsistentPositions(a) == \A s \in Symbols : a.position[s] >= 0

\* _assert_account_consistent raises when a fill left negative cash or a
\* negative position.
Consistent(a) == a.cash >= 0 /\ \A s \in Symbols : a.position[s] >= 0

ExecuteOrder(price, cap) ==
    /\ running
    /\ orders # <<>>
    /\ LET a == AfterOrder(Head(orders), price, cap)
       IN  IF Consistent(a)
           THEN /\ work' = [a EXCEPT !.seen = @ \cup {OrderId(Head(orders))}]
                /\ orders' = Tail(orders)
                /\ UNCHANGED <<today, book, running, fills>>
           ELSE ThrowAway

\* The part of _reconcile_execution_state and _reconciliation_audit that
\* relates lots, positions and cash.
LotsMatch(a) ==
    /\ \A s \in Symbols : SharesIn(a.lots, s) = a.position[s]
    /\ \A k \in 1 .. Len(a.lots) : a.lots[k].quantity > 0

EndSession ==
    /\ running
    /\ orders = <<>>
    /\ IF LotsMatch(work) /\ Consistent(work)
       THEN /\ book' = [work EXCEPT !.last = today]
            /\ work' = book'
            /\ running' = FALSE
            /\ UNCHANGED <<today, orders, fills>>
       ELSE ThrowAway

-----------------------------------------------------------------------------
(***************************************************************************)
(* record_manual_fill_v1.py, between two sessions: a fill of whole lots at *)
(* its actual price, on a date no earlier than the last execution session. *)
(***************************************************************************)
Save(a, t) ==
    /\ book' = [a EXCEPT !.last = t]
    /\ work' = book'
    /\ fills' = fills + 1
    /\ UNCHANGED <<today, orders, running>>

\* Mutant: a fill of any date is booked.
FillPossibleAnyDate(t) == ~ running /\ fills < MaxFills

FillPossible(t) == ~ running /\ fills < MaxFills /\ t >= book.last

ManualBuy(t, s, quantity, price) ==
    /\ FillPossible(t)
    /\ BuyCost(quantity, price) <= book.cash
    /\ Save(Bought(book, s, quantity, price, t), t)

ManualSell(t, s, quantity, price) ==
    /\ FillPossible(t)
    /\ quantity <= book.position[s]
    /\ quantity <= Sellable(book.lots, s, t)
    /\ Save(Sold(book, s, quantity, price, t), t)

-----------------------------------------------------------------------------
BoardLots == {n * Lot : n \in 1 .. MaxLots}

\* A sale of whole lots pays for its fees.  The clerk's script does not look at the
\* cash after a sell; 100 shares and a minimum fee of 5 need a price of 0.06 only.
ASSUME LotsPayTheirFees ==
    \A q \in BoardLots, price \in Prices : SellProceeds(q, price) >= 0

Next ==
    \/ \E t \in 1 .. LastDay : StartSession(t)
    \/ \E price \in Prices, cap \in Caps : ExecuteOrder(price, cap)
    \/ EndSession
    \/ \E t \in 1 .. LastDay, s \in Symbols, q \in BoardLots, price \in Prices :
          ManualBuy(t, s, q, price) \/ ManualSell(t, s, q, price)

Spec == Init /\ [][Next]_vars

-----------------------------------------------------------------------------
(***************************************************************************)
(* Properties.                                                             *)
(***************************************************************************)

\* The lots and the positions are two books of the same shares: through
\* partial fills, FIFO consumption over several lots, manual fills and thrown
\* away sessions they agree, so the reconciliation of a session, which would
\* throw the session away, never finds a difference.
BooksAgree == LotsMatch(book) /\ LotsMatch(work)

\* The saved cash is never negative: an order is never booked for more than
\* there is, whatever else the session bought or sold before it.
CashNeverNegative == book.cash >= 0

\* The lots of a symbol are in date order, so that consuming them from the
\* front of the list sells what is settled and leaves what is not.
OldestFirst ==
    \A j, k \in 1 .. Len(work.lots) :
        j < k /\ work.lots[j].symbol = work.lots[k].symbol
            => work.lots[j].date <= work.lots[k].date

BoughtOn(a, s, t) == Shares(a.lots, s, {t})

\* T+1: no step of a session, and no manual fill, sells shares bought on its
\* own trade date.
NoSameDaySale ==
    [][/\ running /\ running' =>
              \A s \in Symbols : BoughtOn(work, s, today) <= BoughtOn(work', s, today)
       /\ fills' > fills =>
              \A s \in Symbols :
                 BoughtOn(book, s, book'.last) <= BoughtOn(book', s, book'.last)]_vars

\* A session is never thrown away because of a buy: the cash reserve that is
\* checked before a fill covers what the fill takes, partial or not.  (A sell
\* whose fees exceed its proceeds can throw it away.)
OnlySellsAbort ==
    [][running /\ ~ running' /\ book' = book
          => orders # <<>> /\ Head(orders).side = "sell"]_vars
=============================================================================
