-------------------------- MODULE ProviderFallback --------------------------
(***************************************************************************)
(* Loading the market rows of one decision session from the network.       *)
(*                                                                         *)
(* build_provider_market_input and load_provider_market_rows: the calendar *)
(* first, then the bars of one symbol after the other, each asked of       *)
(* Tushare and, when that fails, of BaoStock.  What the two services       *)
(* answer is chosen by the environment: a refusal, rows that cannot be     *)
(* read, a dropped connection, or a set of rows that may have holes, may   *)
(* reach beyond the requested range and may contradict itself.  Which days *)
(* are trading days, and on which of them a symbol is suspended, is a fact *)
(* the services do not disagree on.                                        *)
(***************************************************************************)
EXTENDS Integers, Sequences, FiniteSets, FiniteSetsExt, TLC

CONSTANTS
    Symbols,     \* every symbol a candidate or a holding may have
    Open,        \* the market's trading days
    Suspended,   \* Suspended[s]: trading days on which s does not trade
    LastDay,     \* days are 1 .. LastDay
    Decision,    \* the decision session
    LookAhead,   \* calendar days loaded after it (10 in the code)
    MaxSymbols   \* max_symbol_cap (6 in the code)

ProviderAssumption ==
    /\ LastDay \in Nat
    /\ Open \subseteq 1 .. LastDay
    /\ Decision \in Open
    /\ Suspended \in [Symbols -> SUBSET Open]
    /\ LookAhead \in Nat \ {0} /\ MaxSymbols \in Nat

VARIABLES
    pc,         \* "start", "calendar", "bars", "loaded" or "failed"
    held,       \* symbols the account holds
    asked,      \* symbols to load: the candidates, then the holdings
    calendar,   \* the calendar in use, with what its provider had answered
    execution,  \* the execution session
    current,    \* the symbol being fetched
    tried,      \* attempts of the chain in progress, <<provider, status>>
    source,     \* per fetched symbol: provider, attempts and its answer
    rows,       \* per fetched symbol: its rows, one per day
    why         \* why the load failed

vars == <<pc, held, asked, calendar, execution, current, tried, source, rows, why>>

-----------------------------------------------------------------------------
Days == 1 .. LastDay
Providers == {"tushare", "baostock"}

\* Tushare, then BaoStock.
Chain == <<"tushare", "baostock">>
Trying == Chain[Len(tried) + 1]

CalendarRange == {d \in Days : Decision <= d /\ d <= Decision + LookAhead}

\* A daily bar: the day, its prices (two values tell a contradiction), the
\* provider's flag that the symbol did not trade, and the provider.
Bar(p, d, price, halted) == [day |-> d, price |-> price, halted |-> halted, by |-> p]

\* Tushare has no row for a suspended day; BaoStock has one that says so.
HasRow(p, s) == IF p = "tushare" THEN Open \ Suspended[s] ELSE Open

\* What a service answers to a query of bars: any of the rows it has, one of
\* them perhaps twice with different prices.
BarRows(p, s) ==
    UNION {{{Bar(p, d, "a", d \in Suspended[s]) : d \in ds}
              \cup {Bar(p, d, "b", d \in Suspended[s]) : d \in twice} :
                twice \in {{}} \cup {{d} : d \in ds}} :
             ds \in SUBSET HasRow(p, s)}

Contradicted(bars) == {d \in Days : Cardinality({b \in bars : b.day = d}) > 1}

\* trade_cal and query_trade_dates: rows for any of the days, in the range or
\* not, each with the right flag; "unreadable": a date that is no date.
CalendarFailures == {"refused", "unreadable"}

\* An unreadable date is a ValueError.  The BaoStock adapter makes it a
\* ProviderError; in the Tushare adapter it is raised outside the try.
CalendarEscapes(p, kind) == kind = "unreadable" /\ p = "tushare"

\* Rows outside the requested range are no evidence for it.
CalendarUsable(days) == days \cap CalendarRange # {}
Sessions(days) == days \cap CalendarRange \cap Open

\* TradingCalendar.next_session.
LaterSessions(sessions) == {d \in sessions : d > Decision}

NextSession(sessions) == Min(LaterSessions(sessions))

\* The Tushare client call is wrapped; the BaoStock query of bars is not.
BarsEscape(p, kind) == kind = "dropped" /\ p = "baostock"

\* Rows the adapter keeps: normalize_tushare_daily_bars drops what is outside
\* the requested range, normalize_baostock_daily_bars keeps every row.
Kept(p, bars) ==
    IF p = "tushare"
    THEN {b \in bars : Decision <= b.day /\ b.day <= execution}
    ELSE bars

\* A contradiction is a ProviderDataError of the Tushare adapter ...
AdapterRejects(p, bars) == p = "tushare" /\ Contradicted(bars) # {}

\* ... and a ValueError of bars_by_trade_date for any other provider.
LoaderRejects(bars) == Contradicted(bars) # {}

\* Rows by date.
ByDate(bars) == {CHOOSE b \in bars : b.day = d : d \in {b.day : b \in bars}}

\* Mutant: the flag of a suspended day is not looked at.
PayloadNoFlag(b) == [b EXCEPT !.halted = FALSE]

\* bar_payload: an absent trade_status is not a suspension.
Payload(b) == [b EXCEPT !.halted = b.by = "baostock" /\ b.halted]

\* decision_rows_by_symbol and execution_rows_by_symbol.
RowOn(s, d) == {b \in rows[s] : b.day = d}
DecisionRow(s) == RowOn(s, Decision)
ExecutionRow(s) == RowOn(s, execution)

-----------------------------------------------------------------------------
Init ==
    /\ pc = "start" /\ held = {} /\ asked = {} /\ why = "none"
    /\ calendar = [by |-> "none", answered |-> {}, sessions |-> {}]
    /\ execution = 0 /\ current = {} /\ tried = <<>>
    /\ source = <<>> /\ rows = <<>>

Fail(reason) == pc' = "failed" /\ why' = reason

\* Candidates first, then holdings, each once.
SymbolsToLoad(cs, hs) == cs \cup hs

\* Inputs that carry a time after the decision cutoff, a time without a zone
\* or a forward label are refused before anything is loaded, too many symbols
\* before the network is used.
Start(cs, hs, safe) ==
    /\ pc = "start"
    /\ held' = hs /\ asked' = SymbolsToLoad(cs, hs)
    /\ IF ~safe THEN Fail("unsafe")
       ELSE IF Cardinality(asked') > MaxSymbols THEN Fail("cap")
       ELSE pc' = "calendar" /\ UNCHANGED why
    /\ UNCHANGED <<calendar, execution, current, tried, source, rows>>

\* One more provider of the chain has failed; the last one ends the load.
NextProvider(status) ==
    /\ tried' = Append(tried, <<Trying, status>>)
    /\ IF Len(tried') = Len(Chain) THEN Fail("chain of " \o pc) ELSE UNCHANGED <<pc, why>>

\* The sessions are resolved as soon as a calendar is there.
UseCalendar(days) ==
    LET sessions == Sessions(days) IN
    /\ calendar' = [by |-> Trying, answered |-> days, sessions |-> sessions]
    /\ tried' = <<>>
    /\ IF Decision \notin sessions
       THEN Fail("decision is no session") /\ UNCHANGED execution
       ELSE IF LaterSessions(sessions) = {}
       THEN Fail("no next session") /\ UNCHANGED execution
       ELSE /\ execution' = NextSession(sessions)
            /\ pc' = IF asked = {} THEN "loaded" ELSE "bars"
            /\ UNCHANGED why

CalendarAnswer(kind, days) ==
    /\ pc = "calendar"
    /\ IF kind = "rows" /\ CalendarUsable(days) THEN UseCalendar(days)
       ELSE /\ IF CalendarEscapes(Trying, kind)
               THEN Fail("escaped from calendar") /\ UNCHANGED tried
               ELSE NextProvider("failed")
            /\ UNCHANGED <<calendar, execution>>
    /\ UNCHANGED <<held, asked, current, source, rows>>

UseBars(s, bars) ==
    /\ source' = source @@ (s :> [by |-> Trying, said |-> bars,
                                  tried |-> Append(tried, <<Trying, "success">>)])
    /\ rows' = rows @@ (s :> {Payload(b) : b \in ByDate(bars)})
    /\ pc' = IF DOMAIN source' = asked THEN "loaded" ELSE "bars"
    /\ tried' = <<>> /\ current' = {} /\ UNCHANGED why

\* A provider that returns no bars is passed over, one that returns some of
\* them is not.
Usable(bars) == bars # {}

\* The answer of one provider for one symbol.
BarsAnswer(s, kind, bars) ==
    /\ pc = "bars"
    /\ s \in asked \ DOMAIN source /\ current \subseteq {s}
    /\ IF kind = "rows" /\ ~AdapterRejects(Trying, Kept(Trying, bars))
       THEN LET kept == Kept(Trying, bars) IN
            IF ~Usable(kept)
            THEN current' = {s} /\ NextProvider("empty") /\ UNCHANGED <<source, rows>>
            ELSE IF LoaderRejects(kept)
            THEN Fail("conflict") /\ UNCHANGED <<current, tried, source, rows>>
            ELSE UseBars(s, kept)
       ELSE /\ current' = {s}
            /\ IF BarsEscape(Trying, kind)
               THEN Fail("escaped from bars") /\ UNCHANGED tried
               ELSE NextProvider("failed")
            /\ UNCHANGED <<source, rows>>
    /\ UNCHANGED <<held, asked, calendar, execution>>

\* A load that has ended: the loop runs its session, or the command stops.
Ended == pc \in {"loaded", "failed"} /\ UNCHANGED vars

Next ==
    \/ \E cs, hs \in SUBSET Symbols : \E safe \in BOOLEAN : Start(cs, hs, safe)
    \/ \E days \in SUBSET Days : CalendarAnswer("rows", days)
    \/ \E kind \in CalendarFailures : CalendarAnswer(kind, {})
    \/ \E s \in Symbols : \E bars \in IF pc = "bars" THEN BarRows(Trying, s) ELSE {} :
          BarsAnswer(s, "rows", bars)
    \/ \E s \in Symbols : \E kind \in {"refused", "unreadable", "dropped"} :
          BarsAnswer(s, kind, {})
    \/ Ended

Spec == Init /\ [][Next]_vars

-----------------------------------------------------------------------------
(* Types; sessions are trading days of the requested range, and what was   *)
(* fetched had been asked for.                                             *)
TypeOK ==
    /\ pc \in {"start", "calendar", "bars", "loaded", "failed"}
    /\ held \subseteq Symbols /\ asked \subseteq Symbols
    /\ calendar.sessions \subseteq Open \cap CalendarRange
    /\ execution \in {0} \cup Open
    /\ Len(tried) <= Len(Chain)
    /\ DOMAIN rows = DOMAIN source /\ DOMAIN source \subseteq asked

(* Every row a session is decided or executed on comes from the provider   *)
(* recorded for its symbol, and a fallback is recorded with the attempt of *)
(* the primary that delivered nothing: provenance never attributes rows to *)
(* a provider that did not deliver them.                                   *)
Attributed ==
    \A s \in DOMAIN source :
      /\ rows[s] # {} /\ \A b \in rows[s] : b.by = source[s].by
      /\ source[s].by = "tushare" => Len(source[s].tried) = 1
      /\ source[s].by = "baostock" =>
           /\ Len(source[s].tried) = 2
           /\ source[s].tried[1] \in {<<"tushare", "empty">>, <<"tushare", "failed">>}

(* Orders of a session execute on the next trading day of the market: a    *)
(* session in between can be missed only when the calendar's provider left *)
(* it out of its answer.                                                   *)
ExecutionIsNext ==
    execution # 0 =>
      /\ execution \in Open /\ execution > Decision
      /\ \A d \in Open : Decision < d /\ d < execution => d \notin calendar.answered

(* A calendar that was answered in full yields the next session, unless    *)
(* the market is closed for longer than the calendar reaches ahead: around *)
(* the longest holidays a session cannot be run at all.                    *)
NextSessionFound ==
    why = "no next session" =>
      \/ \A d \in Open : d <= Decision \/ d > Decision + LookAhead
      \/ \E d \in Open : d > Decision /\ d \notin calendar.answered

(* A load succeeds only when every holding was fetched as well as every    *)
(* candidate, so a position is never valued or sold on a missing row       *)
(* because nobody asked for it.                                            *)
HoldingsLoaded == pc = "loaded" => held \subseteq DOMAIN source

(* A row of a day on which the symbol was suspended says so, whichever     *)
(* provider it came from and although Tushare's rows have no such flag:    *)
(* the execution never trades a suspended symbol.                          *)
SuspendedIsFlagged ==
    \A s \in DOMAIN rows : \A b \in DecisionRow(s) \cup ExecutionRow(s) :
      b.day \in Suspended[s] => b.halted

(* Contradictory rows are never resolved silently: no row that is used is  *)
(* one of two the provider gave for its day.                               *)
ContradictionsRefused ==
    \A s \in DOMAIN source : Contradicted(source[s].said) = {}
=============================================================================
