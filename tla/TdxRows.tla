------------------------------- MODULE TdxRows --------------------------------
(***************************************************************************)
(* What TDXLevel1Provider makes of the rows TDX sends: the snapshots of a  *)
(* call, one symbol after the other, with the time each row states; and    *)
(* the minute bars of a historical call, field by field.                   *)
(*                                                                         *)
(* Time is counted in blocks of eight hours of Shanghai, three to a day:   *)
(* UTC is one block behind.  A row states the time of its quote in a form:  *)
(* in one field or in a date and a time field, with or without a date, to  *)
(* some precision, in some zone.                                           *)
(***************************************************************************)
EXTENDS Naturals, Sequences, FiniteSets, TLC

CONSTANTS
    Asked,       \* the symbols of the call, in order
    Other,       \* a symbol that was not asked for
    Zones,       \* zones that are written: "", "Z", "+00", "+0800"
    Precisions,  \* "minute", "second", "milli", "micro"
    Dated,       \* every stated time has its date
    Last,        \* bound on time
    Minutes      \* minutes of the history

RowsAssumption ==
    /\ Zones \subseteq {"", "Z", "+00", "+0800"}
    /\ Precisions \subseteq {"minute", "second", "milli", "micro"}
    /\ Dated \in BOOLEAN /\ Last \in Nat

Requested == {Asked[k] : k \in DOMAIN Asked}
Symbols == Requested \cup {Other}

VARIABLES
    now,       \* the clock
    received,  \* received_at of the call
    done,      \* symbols whose row was read
    events,    \* what the call has so far
    stage,     \* where the call is, or the stage of its error
    history    \* rows of the historical fields, and the bars made of them

vars == <<now, received, done, events, stage, history>>

-----------------------------------------------------------------------------
(***************************************************************************)
(* The texts of a time, and _parse_datetime.                               *)
(***************************************************************************)
Forms == [split : BOOLEAN, dated : IF Dated THEN {TRUE} ELSE BOOLEAN,
          precision : Precisions, zone : Zones]

Day(i) == i \div 3

\* Mutant: what is UTC is moved twice.
ShiftTwice(zone) == IF zone \in {"Z", "+00"} THEN 2 ELSE 0

\* Blocks from a zone's clock to Shanghai's.
Shift(zone) == IF zone \in {"Z", "+00"} THEN 1 ELSE 0

\* The text that states instant i in this form.
TextOf(i, form) ==
    LET local == IF form.zone \in {"Z", "+00"} THEN i - 1 ELSE i
    IN [form |-> form, day |-> Day(local), block |-> local % 3]

\* The digits of a text: a date has eight, hours and minutes four.
Digits(form) ==
    (IF form.dated THEN 8 ELSE 0) + 4
    + ("minute" :> 0 @@ "second" :> 2 @@ "milli" :> 5 @@ "micro" :> 8)[form.precision]
    + ("" :> 0 @@ "Z" :> 0 @@ "+00" :> 2 @@ "+0800" :> 4)[form.zone]

\* <<instant>>, or <<>> if the text is none that _parse_datetime knows.
\*   - 14, 17 or 20 digits are read as a local time, whatever zone they name;
\*   - up to six digits are a time of the fallback day, padded on the left, so
\*     that hours and minutes become minutes and seconds;
\*   - the rest is an ISO time if it has a date.
ParseDatetime(text, fallback) ==
    LET form == text.form
        day == IF form.dated THEN text.day ELSE fallback
    IN IF form.dated /\ Digits(form) \in {14, 17, 20} THEN <<3 * day + text.block>>
       ELSE IF Digits(form) <= 6
            THEN <<3 * day + IF form.precision = "minute" THEN 0 ELSE text.block>>
       ELSE IF form.dated THEN <<3 * day + text.block + Shift(form.zone)>>
       ELSE <<>>

\* _snapshot_timestamp.  A split row has its date in a field of its own.
Stamp(row, at) ==
    IF row.time = <<>> THEN [time |-> at, source |-> "collector"]
    ELSE LET text == row.time[1]
             form == text.form
             parsed == IF form.split /\ form.dated
                       THEN ParseDatetime([text EXCEPT !.form.dated = FALSE], text.day)
                       ELSE ParseDatetime(text, Day(at))
         IN IF parsed = <<>> THEN [time |-> at, source |-> "collector"]
            ELSE [time |-> parsed[1], source |-> "provider"]

-----------------------------------------------------------------------------
(***************************************************************************)
(* get_market_snapshot.                                                    *)
(***************************************************************************)
Init ==
    /\ now \in 1 .. Last
    /\ received = now
    /\ done = 0
    /\ events = {}
    /\ stage = "idle"
    /\ history = <<>>

Wait ==
    /\ now < Last
    /\ now' = now + 1
    /\ UNCHANGED <<received, done, events, stage, history>>

\* The clock is read once, before the first symbol is asked for.
Begin ==
    /\ stage = "idle"
    /\ received' = now
    /\ stage' = "fetch"
    /\ UNCHANGED <<now, done, events, history>>

\* What TDX may answer for symbol s: one row or not, an ErrorId, the symbol in
\* the row or none, a price, and the time of the quote or none.
Rows(s, sent) ==
    [rows : {1, 2}, error : {"", "0", "0.0", "1"}, symbol : Symbols \cup {""}, price : {0, 1},
     sent : {sent}, time : {<<>>} \cup {<<TextOf(sent, form)>> : form \in Forms}]

Raised(where) == stage' = where /\ UNCHANGED events

\* One row, of the symbol that was asked for if it names one.
Bound(s, row) == row.rows = 1 /\ row.symbol \in {s, ""}

\* _validate_snapshot_return.
ReturnIsGood(row) == row.error \in {"", "0"}

Event(s, row) ==
    [symbol |-> s, of |-> IF row.symbol = "" THEN s ELSE row.symbol, good |-> row.error \in {"", "0", "0.0"},
     stamp |-> Stamp(row, received), sent |-> row.sent, fetched |-> now,
     form |-> IF row.time = <<>> THEN <<>> ELSE <<row.time[1].form>>]

\* The API call, its validation, the binding and the normalisation of one row.
Fetch ==
    /\ stage = "fetch"
    /\ done < Len(Asked)
    /\ LET s == Asked[done + 1]
       IN \/ Raised("get_market_snapshot_api_call")
          \/ \E sent \in 1 .. now : \E row \in Rows(s, sent) :
                IF ~ReturnIsGood(row) THEN Raised("snapshot_return_validation")
                ELSE IF ~Bound(s, row) THEN Raised("snapshot_symbol_binding")
                ELSE IF row.price = 0 THEN Raised("snapshot_normalization")
                ELSE events' = events \cup {Event(s, row)} /\ UNCHANGED stage
    /\ done' = done + 1
    /\ UNCHANGED <<now, received, history>>

Finish ==
    /\ stage = "fetch"
    /\ done = Len(Asked)
    /\ stage' = "done"
    /\ UNCHANGED <<now, received, done, events, history>>

-----------------------------------------------------------------------------
(***************************************************************************)
(* get_historical_intraday_bars.  Each field is a table of its own: by     *)
(* symbol and minute, by minute and symbol, or by minute alone.            *)
(***************************************************************************)
Fields == {"Open", "Volume"}
Layouts == {"symbol", "minute", "series"}
Tables == [layout : Layouts, rows : SUBSET (Symbols \X Minutes)]

\* _historical_field_points: a series is of the one symbol that was asked for.
Points(table) ==
    IF table.layout = "series" THEN Requested \X {r[2] : r \in table.rows}
    ELSE {r \in table.rows : r[1] \in Requested}

Nameless(table) == table.layout = "series" /\ table.rows # {} /\ Cardinality(Requested) # 1

\* The rows that any field has.
Keys(tables) == UNION {Points(tables[f]) : f \in Fields}

\* normalize_tdx_historical_minute_bars: <<bars>>, or <<>> for an error.
Bars(tables) ==
    IF \/ \E f \in Fields : Nameless(tables[f]) \/ Points(tables[f]) = {}
       \/ \E k \in Keys(tables), f \in Fields : k \notin Points(tables[f])
    THEN <<>> ELSE <<Keys(tables)>>

History ==
    /\ stage = "idle"
    /\ \E open, volume \in Tables :
          LET tables == [f \in Fields |-> IF f = "Open" THEN open ELSE volume]
          IN history' = [tables |-> tables, bars |-> Bars(tables)]
    /\ stage' = "done"
    /\ UNCHANGED <<now, received, done, events>>

Next == Wait \/ Begin \/ Fetch \/ Finish \/ History
Spec == Init /\ [][Next]_vars

-----------------------------------------------------------------------------
Stages == {"idle", "fetch", "done", "get_market_snapshot_api_call", "snapshot_return_validation",
           "snapshot_symbol_binding", "snapshot_normalization"}

Undated(e) == \E i \in DOMAIN e.form : ~e.form[i].dated

TypeOK ==
    /\ now \in 1 .. Last /\ received \in 1 .. now
    /\ done \in 0 .. Len(Asked)
    /\ stage \in Stages
    /\ \A e \in events : /\ e.symbol \in Requested
                         /\ e.stamp.time \in 0 .. IF Undated(e) THEN Last + 2 ELSE Last
    /\ history # <<>> => \A k \in DOMAIN history.bars : history.bars[k] \subseteq Requested \X Minutes

\* A call that returns has one event for each symbol, and none of them was made
\* of a row of another symbol or of a row that reports an error.
OnePerSymbol ==
    /\ \A e \in events : e.of = e.symbol /\ e.good
    /\ stage = "done" /\ history = <<>> => /\ {e.symbol : e \in events} = Requested
                                           /\ Cardinality(events) = Cardinality(Requested)

\* The forms whose digits _parse_datetime takes for another time: without a date,
\* the day of the call is taken; hours and minutes alone are minutes and seconds;
\* and UTC is read as Shanghai's time where the digits are those of a local one,
\* before a Z, or with minutes and an offset of two digits.
Misread(form) ==
    \/ ~form.dated
    \/ form.split /\ form.precision = "minute"
    \/ form.zone = "Z" /\ (form.split \/ form.precision # "minute")
    \/ form.zone = "+00" /\ form.precision = "minute"

\* What is stamped by the provider is stamped with the time of the quote in every
\* other form; the rest with the time of the call (_snapshot_timestamp).
StampIsSent ==
    \A e \in events :
        IF e.stamp.source = "provider"
        THEN (\A i \in DOMAIN e.form : ~Misread(e.form[i])) => e.stamp.time = e.sent
        ELSE e.stamp.time = received

\* No event is from the future, unless its time came without its date.
NotInFuture == \A e \in events : e.stamp.time > e.fetched => Undated(e)

\* History gives exactly the rows that the fields have of the symbols, or an
\* error: a row that only some fields have is never dropped or made up.
BarsAreTheRows ==
    history # <<>> => \A k \in DOMAIN history.bars :
        \A f \in Fields : LET table == history.tables[f]
                          IN IF table.layout = "series"
                             THEN {b[2] : b \in history.bars[k]} = {r[2] : r \in table.rows}
                             ELSE history.bars[k] = {r \in table.rows : r[1] \in Requested}
===============================================================================
