---- MODULE SignalBridge ----
(* The manual signal bridge: export_tdx_manual_signals_v1.py reads the latest *)
(* session report and the state file of the paper loop, one after the other,  *)
(* and writes latest.json and latest.csv; publish_tdx_signals_tq_v1.py reads  *)
(* the JSON some time later and sends one row per symbol to TDX.  The loop    *)
(* and the recorder of manual fills go on working in between; their own steps *)
(* are in DailyPaperLoop, here a save is one step.  Days are trading days; a  *)
(* session executed on day e was decided on day e - 1.                        *)
EXTENDS Naturals, FiniteSets

CONSTANTS Symbols,
          Directions,  \* a candidate's direction; "short" for every form of an exit signal
          MaxDay,      \* bound: the last day
          MaxExports,  \* bound: how often the exporter is run
          MaxAge,      \* --max-age-seconds, in days
          WithState,   \* --state-path is given
          Nil

DaysAssumption ==
    MaxDay \in Nat \ {0} /\ MaxAge \in Nat \ {0} /\ MaxExports \in Nat /\ WithState \in BOOLEAN
DirectionsAssumption == Directions \subseteq {"none", "flat", "long", "short"}

VARIABLES day,
          state,       \* state.json: its last executed session, the lots, the session records
          report,      \* latest_report.json: the record of a session
          exporter, publisher,
          exports,     \* how often the exporter was run
          json, csv,   \* latest.json, latest.csv
          shown        \* per symbol, the last row TDX has

vars == <<day, state, report, exporter, exports, publisher, json, csv, shown>>

Days == 1..MaxDay
\* The settlement lots, by the days they were acquired on.
Books == [Symbols -> SUBSET Days]
Records == [session : Days, wants : [Symbols -> Directions], book : Books]

Actions == {"NONE", "BUY", "HOLD", "SELL"}
PositionStates == {"no_position", "holding", "t1_locked"}
Signals == [action : Actions, position : PositionStates, sellable : BOOLEAN, valid : BOOLEAN,
            stale : BOOLEAN, candidate : BOOLEAN, lots : SUBSET Days]
Rows == [fresh : BOOLEAN, buy : BOOLEAN, sell : BOOLEAN, flag : BOOLEAN]

\* Signals as written: for a session, computed on a day, from a book that
\* had seen the sessions up to seen.
IsFile(f) == /\ f.session \in Days /\ f.seen \in 0..MaxDay /\ f.generated \in Days
             /\ DOMAIN f.signals \subseteq Symbols
             /\ \A s \in DOMAIN f.signals : f.signals[s] \in Signals

TypeOK ==
    /\ day \in Days
    /\ state.session \in 0..MaxDay /\ state.book \in Books
    /\ \A d \in Days : state.records[d] = Nil \/ state.records[d] \in Records
    /\ report = Nil \/ report \in Records
    /\ exporter.next \in 1..4 /\ exports \in 0..MaxExports
    /\ publisher.todo \subseteq Symbols
    /\ \A f \in {json, csv, exporter.file, publisher.file} : f = Nil \/ IsFile(f)
    /\ \A s \in Symbols : shown[s] = Nil
                          \/ /\ shown[s].row \in Rows /\ shown[s].signal \in Signals
                             /\ {shown[s].generated, shown[s].sent} \subseteq Days

NoBook == [s \in Symbols |-> {}]
IdleExporter == [next |-> 1, report |-> Nil, book |-> NoBook, seen |-> 0, file |-> Nil]
IdlePublisher == [file |-> Nil, todo |-> {}]

Init ==
    /\ day = 1
    /\ state = [session |-> 0, book |-> NoBook, records |-> [d \in Days |-> Nil]]
    /\ report = Nil /\ json = Nil /\ csv = Nil
    /\ exporter = IdleExporter /\ publisher = IdlePublisher /\ exports = 0
    /\ shown = [s \in Symbols |-> Nil]

-----------------------------------------------------------------------------
(* The paper loop, the recorder, the calendar. *)

Tick == /\ day < MaxDay /\ day' = day + 1
        /\ UNCHANGED <<exports, state, report, exporter, publisher, json, csv, shown>>

\* What is left of the lots when the oldest that may be sold are.
AfterSale(lots) == {{a \in lots : a >= day} \cup {a \in lots : a > m} : m \in 0..(day - 1)}

\* A session buys what it does not hold, sells what is to be exited, or neither.
AfterSession(wanted, lots) ==
    {lots} \cup (IF wanted = "long" /\ lots = {} THEN {{day}} ELSE {})
           \cup (IF wanted = "short" THEN AfterSale(lots) ELSE {})

SaveState ==
    /\ state.session < day
    /\ \E wants \in [Symbols -> Directions] : \E book \in Books :
          /\ \A s \in Symbols : book[s] \in AfterSession(wants[s], state.book[s])
          /\ state' = [session |-> day, book |-> book,
                       records |-> [state.records EXCEPT ![day] =
                                       [session |-> day, wants |-> wants, book |-> book]]]
    /\ UNCHANGED <<exports, day, report, exporter, publisher, json, csv, shown>>

\* After its save, or in a later replay of that session.
WriteReport ==
    /\ \E d \in Days : state.records[d] # Nil /\ report' = state.records[d]
    /\ UNCHANGED <<exports, day, state, exporter, publisher, json, csv, shown>>

ManualFill ==
    /\ \E s \in Symbols :
          \E lots \in {state.book[s] \cup {day}} \cup AfterSale(state.book[s]) :
             state' = [state EXCEPT !.book[s] = lots]
    /\ UNCHANGED <<exports, day, report, exporter, publisher, json, csv, shown>>

-----------------------------------------------------------------------------
(* The exporter. *)

ReadOrder == <<"report", "state">>

ReadReport ==
    /\ exporter.next \in DOMAIN ReadOrder /\ ReadOrder[exporter.next] = "report"
    /\ report # Nil /\ exports < MaxExports /\ exports' = exports + 1
    /\ exporter' = [exporter EXCEPT !.next = @ + 1, !.report = report]
    /\ UNCHANGED <<day, state, report, publisher, json, csv, shown>>

ReadState ==
    /\ exporter.next \in DOMAIN ReadOrder /\ ReadOrder[exporter.next] = "state"
    /\ exporter' = [exporter EXCEPT !.next = @ + 1, !.book = state.book, !.seen = state.session]
    /\ UNCHANGED <<exports, day, state, report, publisher, json, csv, shown>>

\* Where the positions come from: state.json, or ledger_after of the report.
Holdings == IF WithState THEN exporter.book ELSE exporter.report.book
Seen == IF WithState THEN exporter.seen ELSE exporter.report.session

\* Mutant: every lot can be sold.
SellableAny(lots) == lots # {}

\* _sellable_from_state: acquired before the decision session.
\* _sellable_from_ledger: before the execution session.
Sellable(lots) ==
    \E a \in lots : a < IF WithState THEN exporter.report.session - 1 ELSE exporter.report.session

\* _resolve_action.
Action(wanted, lots) ==
    CASE lots = {} /\ wanted = "long" -> "BUY"
      [] lots = {} /\ wanted # "long" -> "NONE"
      [] lots # {} /\ wanted = "short" /\ Sellable(lots) -> "SELL"
      [] OTHER -> "HOLD"

PositionState(lots) ==
    IF lots = {} THEN "no_position" ELSE IF Sellable(lots) THEN "holding" ELSE "t1_locked"

\* _is_stale, of signals generated on a day.
Stale(generated) == day - generated > MaxAge

Signal(wanted, lots) ==
    [action |-> Action(wanted, lots), position |-> PositionState(lots),
     sellable |-> Sellable(lots), valid |-> wanted # "none" \/ lots # {},
     stale |-> Stale(day), candidate |-> wanted # "none", lots |-> lots]

\* export_signals: the candidates and the holdings.
Exported ==
    LET wants == exporter.report.wants
        listed == {s \in Symbols : wants[s] # "none" \/ Holdings[s] # {}}
    IN [session |-> exporter.report.session, seen |-> Seen, generated |-> day,
        signals |-> [s \in listed |-> Signal(wants[s], Holdings[s])]]

WriteJson ==
    /\ exporter.next = 3
    /\ json' = Exported
    /\ exporter' = [exporter EXCEPT !.next = 4, !.file = Exported]
    /\ UNCHANGED <<exports, day, state, report, publisher, csv, shown>>

WriteCsv ==
    /\ exporter.next = 4
    /\ csv' = exporter.file
    /\ exporter' = IdleExporter
    /\ UNCHANGED <<exports, day, state, report, publisher, json, shown>>

\* A write fails, or the process ends.
ExporterFails ==
    /\ exporter.next > 1
    /\ exporter' = IdleExporter
    /\ UNCHANGED <<exports, day, state, report, publisher, json, csv, shown>>

-----------------------------------------------------------------------------
(* The publisher. *)

ReadSignals ==
    /\ publisher.todo = {} /\ json # Nil
    /\ publisher' = [file |-> json, todo |-> DOMAIN json.signals]
    /\ UNCHANGED <<exports, day, state, report, exporter, json, csv, shown>>

\* signal_to_tq_row.
Row(g) ==
    [fresh |-> ~ g.stale, buy |-> g.action = "BUY" /\ g.valid /\ ~ g.stale,
     sell |-> g.action = "SELL" /\ g.valid /\ ~ g.stale /\ g.sellable,
     flag |-> g.action \in {"BUY", "HOLD", "SELL"}]

\* send_bt_data: one row, at the time its signal was generated; the last
\* time's row is shown.
Send ==
    /\ \E s \in publisher.todo :
          LET f == publisher.file
              older == shown[s] # Nil /\ f.generated < shown[s].generated
              row == [row |-> Row(f.signals[s]), signal |-> f.signals[s], session |-> f.session,
                      seen |-> f.seen, generated |-> f.generated, sent |-> day]
          IN /\ publisher' = IF publisher.todo = {s} THEN IdlePublisher
                             ELSE [publisher EXCEPT !.todo = @ \ {s}]
             /\ shown' = IF older THEN shown ELSE [shown EXCEPT ![s] = row]
    /\ UNCHANGED <<exports, day, state, report, exporter, json, csv>>

\* A send raises: the symbols after it are not sent.
PublisherFails ==
    /\ publisher.todo # {}
    /\ publisher' = IdlePublisher
    /\ UNCHANGED <<exports, day, state, report, exporter, json, csv, shown>>

-----------------------------------------------------------------------------
Next == \/ Tick \/ SaveState \/ WriteReport \/ ManualFill
        \/ ReadReport \/ ReadState \/ WriteJson \/ WriteCsv \/ ExporterFails
        \/ ReadSignals \/ Send \/ PublisherFails

Spec == Init /\ [][Next]_vars

-----------------------------------------------------------------------------
(* Properties. *)

\* A sell signal is for shares that T+1 lets go on the day it was computed,
\* whatever sessions, replays and manual fills came between the reads
\* (_sellable_from_state; sell_signal of signal_to_tq_row).
SellIsLegal ==
    \A s \in Symbols : shown[s] # Nil /\ shown[s].row.sell =>
        \E a \in shown[s].signal.lots : a < shown[s].generated

====
