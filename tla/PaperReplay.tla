----------------------------- MODULE PaperReplay -----------------------------
(***************************************************************************)
(* The multi-day paper replay.  Each day the instructions run through the  *)
(* dry run against a profile made from the carried cash, positions and     *)
(* sellable shares; a day that is not blocked is carried over.             *)
(*                                                                         *)
(* validate_replay_inputs has seen the whole input before the first day:   *)
(* the days here are those it let pass, dates increase and an id comes     *)
(* once.  Without it (Validated = FALSE) this is one dry run alone.        *)
(***************************************************************************)
EXTENDS Integers, Sequences, FiniteSets, SequencesExt

CONSTANTS
    Symbols, Ids,
    Validated,      \* the input passed validate_replay_inputs
    Lot,            \* shares of a board lot
    Quantities,     \* of an instruction
    Price, MinCommission, StampTax,
    InitialCash,    \* the cash an account may begin with
    MaxPosition,    \* bound on the initial shares of a symbol
    MaxDays, MaxInstructions

ReplayAssumption ==
    /\ Validated \in BOOLEAN
    /\ Lot \in Nat \ {0} /\ Quantities \subseteq Nat
    /\ Price \in Nat \ {0} /\ MinCommission \in Nat /\ StampTax \in Nat
    /\ InitialCash \subseteq Nat /\ MaxPosition \in Nat
    /\ MaxDays \in Nat /\ MaxInstructions \in Nat

Sides == {"BUY", "SELL", "HOLD"}
Instructions == [id : Ids, symbol : Symbols, side : Sides, quantity : Quantities, coherent : BOOLEAN]

VARIABLES
    failFast, allowOddLot,          \* the options of the call
    cash, position,                 \* current_cash, current_positions
    sellable, pending,              \* sellable_by_symbol, pending_sellable_next_day
    profile,                        \* the day's account profile, <<>> between days
    dayCash, dayPosition,           \* current_cash and current_positions of the dry run
    results, seen, skipping,        \* of the dry run
    days, stopped,                  \* the statuses of the days; skipping of the replay
    oversold                        \* history: symbols of which a carried day sold more than the
                                    \* profile of its morning let it

options == <<failFast, allowOddLot>>
carried == <<cash, position, sellable, pending>>
dryRun == <<profile, dayCash, dayPosition, results, skipping>>
vars == <<options, carried, dryRun, seen, days, stopped, oversold>>

-----------------------------------------------------------------------------
(***************************************************************************)
(* The dry run.                                                            *)
(***************************************************************************)
Notional(instruction) == instruction.quantity * Price

\* _estimate_instruction_cost; a rate of the notional is part of the price here.
Fee(instruction) == MinCommission + IF instruction.side = "SELL" THEN StampTax ELSE 0

CashDelta(instruction) ==
    IF instruction.side = "BUY" THEN -(Notional(instruction) + Fee(instruction))
    ELSE Notional(instruction) - Fee(instruction)

PositionDelta(instruction) == IF instruction.side = "BUY" THEN instruction.quantity ELSE -instruction.quantity

\* validate_dry_run_instruction finds nothing.
Valid(instruction) ==
    /\ instruction.coherent
    /\ instruction.side \in {"BUY", "SELL"}
    /\ instruction.quantity > 0
    /\ instruction.quantity % Lot = 0 \/ allowOddLot

\* normalize_sellable_quantities of a profile.
Sellable(account, symbol) == Min({account.sellable[symbol], account.position[symbol]})

\* Mutant: the shares that are held may all be sold.
AffordableSellsAll(instruction) ==
    IF instruction.side = "BUY" THEN dayCash + CashDelta(instruction) >= 0
    ELSE instruction.quantity <= dayPosition[instruction.symbol]

\* Mutant: the fee of a purchase is not part of the check.
AffordableWithoutFee(instruction) ==
    IF instruction.side = "BUY" THEN dayCash >= Notional(instruction)
    ELSE instruction.quantity <= Min({Sellable(profile, instruction.symbol), dayPosition[instruction.symbol]})

\* simulate_instruction: the cash and the shares are there.
Affordable(instruction) ==
    IF instruction.side = "BUY" THEN dayCash + CashDelta(instruction) >= 0
    ELSE instruction.quantity <= Min({Sellable(profile, instruction.symbol), dayPosition[instruction.symbol]})

\* run_paper_ledger_dry_run, one round of its loop.
Status(instruction) ==
    IF skipping THEN "skipped"
    ELSE IF instruction.id \notin seen /\ Valid(instruction) /\ Affordable(instruction) THEN "simulated"
    ELSE "rejected"

Count(status) == Cardinality({i \in DOMAIN results : results[i].status = status})

\* Mutant: a stop at the first rejection is a partial simulation.
DecisionPartial ==
    IF Count("rejected") = 0 THEN "simulated" ELSE IF Count("simulated") = 0 THEN "blocked" ELSE "partial"

\* Its decision, as the status of the day.
Decision ==
    IF Count("rejected") = 0 THEN "simulated"
    ELSE IF failFast \/ Count("simulated") = 0 THEN "blocked" ELSE "partial"

-----------------------------------------------------------------------------
Init ==
    /\ failFast \in BOOLEAN /\ allowOddLot \in BOOLEAN
    /\ cash \in InitialCash
    /\ position \in [Symbols -> 0 .. MaxPosition]
    /\ sellable \in {held \in [Symbols -> 0 .. MaxPosition] : \A s \in Symbols : held[s] <= position[s]}
    /\ pending = [s \in Symbols |-> 0]
    /\ profile = <<>> /\ dayCash = 0 /\ dayPosition = position /\ results = <<>> /\ skipping = FALSE
    /\ seen = {}
    /\ days = <<>> /\ stopped = FALSE /\ oversold = {}

\* _release_pending_buys
Released == [s \in Symbols |-> sellable[s] + pending[s]]

\* The next day begins: the purchases of the last one may be sold.
OpenDay ==
    /\ profile = <<>> /\ Len(days) < MaxDays
    /\ sellable' = Released
    /\ pending' = [s \in Symbols |-> 0]
    /\ IF stopped
       THEN /\ days' = Append(days, "skipped")
            /\ UNCHANGED dryRun
       ELSE /\ profile' = [position |-> position, sellable |-> sellable']
            /\ dayCash' = cash /\ dayPosition' = position
            /\ results' = <<>> /\ skipping' = FALSE
            /\ UNCHANGED days
    /\ UNCHANGED <<options, cash, position, seen, stopped, oversold>>

Instruct ==
    /\ profile # <<>> /\ Len(results) < MaxInstructions
    /\ \E instruction \in Instructions :
        /\ Validated => instruction.id \notin seen
        /\ LET status == Status(instruction)
               done == status = "simulated"
           IN /\ results' = Append(results, [status |-> status] @@ instruction)
              /\ skipping' = (skipping \/ (failFast /\ status = "rejected"))
              /\ dayCash' = dayCash + IF done THEN CashDelta(instruction) ELSE 0
              /\ dayPosition' = [dayPosition EXCEPT ![instruction.symbol] =
                                    @ + IF done THEN PositionDelta(instruction) ELSE 0]
              /\ seen' = seen \cup {instruction.id}
    /\ UNCHANGED <<options, carried, profile, days, stopped, oversold>>

\* The simulated instructions of a side, and their shares of a symbol.
Simulated(side, symbol) ==
    {i \in DOMAIN results : /\ results[i].status = "simulated"
                            /\ results[i].side = side /\ results[i].symbol = symbol}
Shares(side, symbol) == MapThenSumSet(LAMBDA i : results[i].quantity, Simulated(side, symbol))

Oversold == {s \in Symbols : Shares("SELL", s) > Sellable(profile, s)}

\* _carry_successful_results
Carried ==
    /\ cash' = dayCash /\ position' = dayPosition
    /\ sellable' = [s \in Symbols |-> Max({0, sellable[s] - Shares("SELL", s)})]
    /\ pending' = [s \in Symbols |-> pending[s] + Shares("BUY", s)]

CloseDay ==
    /\ profile # <<>>
    /\ days' = Append(days, Decision)
    /\ IF Decision = "blocked"
       THEN UNCHANGED <<carried, oversold>>
       ELSE Carried /\ oversold' = oversold \cup Oversold
    /\ stopped' = (failFast /\ Decision = "blocked")
    /\ profile' = <<>> /\ results' = <<>> /\ skipping' = FALSE
    /\ UNCHANGED <<options, dayCash, dayPosition, seen>>

Next == OpenDay \/ Instruct \/ CloseDay
Spec == Init /\ [][Next]_vars

-----------------------------------------------------------------------------
TypeOK ==
    /\ cash \in Int /\ dayCash \in Int
    /\ position \in [Symbols -> Nat] /\ dayPosition \in [Symbols -> Nat]
    /\ sellable \in [Symbols -> Nat] /\ pending \in [Symbols -> Nat]
    /\ days \in Seq({"simulated", "partial", "blocked", "skipped"})

\* Shares bought on a day are not sellable on that day, as far as one sale goes:
\* a symbol sold once is sold within the profile of the morning.  The profile is
\* not reduced by a sale, so two sales of a symbol may take what was bought today.
SoldWasSellable == profile # <<>> => \A s \in Oversold : Cardinality(Simulated("SELL", s)) > 1

\* What may be sold, today and after the purchases are released, is held, of every
\* symbol no day has oversold (_carry_successful_results, _release_pending_buys).
SellableIsHeld ==
    profile = <<>> => \A s \in Symbols \ oversold : sellable[s] + pending[s] <= position[s]

\* A proposal is carried out once in a run, however often its id comes.
OnceEach ==
    \A i, j \in DOMAIN results :
        results[i].id = results[j].id /\ results[i].status = "simulated" /\ results[j].status = "simulated" => i = j

\* After a stop nothing is traded any more, and with it no day is partial.
StopsForGood ==
    failFast =>
        \A i \in DOMAIN days : /\ days[i] # "partial"
                               /\ days[i] = "blocked" => \A j \in i + 1 .. Len(days) : days[j] = "skipped"

\* No purchase overdraws the cash, whatever was bought and sold before it: only a
\* sale whose fees exceed its proceeds does, which simulate_instruction lets pass.
OnlyFeesOverdraw ==
    Len(results') > Len(results) /\ dayCash' < 0 /\ dayCash' < dayCash =>
        Last(results').side = "SELL"

\* A day that is blocked leaves the account as it was.
BlockedLeavesAccount ==
    CloseDay /\ (failFast /\ \E i \in DOMAIN results : results[i].status = "rejected") => UNCHANGED carried
===============================================================================
