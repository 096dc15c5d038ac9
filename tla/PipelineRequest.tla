---- MODULE PipelineRequest ----
(* When two calls of the real candidate pipeline ask for the same thing
   (real_candidate_pipeline/pipeline.py).  A call names a decision session, a
   strategy, symbols, daily bars and information signals.  The first call of a
   session is applied and kept in the state; a later one is a replay of what is
   stored when its canonical payload is the stored one, and is refused
   otherwise.  What the calls decide and trade is modelled in CandidateDecision
   and DailyPaperLoop; here a session keeps the request it was applied with and
   what the run made of it. *)
EXTENDS Naturals, Sequences, FiniteSets, SequencesExt, TLC

CONSTANTS
  Requests,    \* the calls that may be made
  Default,     \* the sequence of symbols of the offline fixture
  MaxCalls

RequestsAssumption ==
  /\ MaxCalls \in Nat
  /\ \A r \in Requests :
       DOMAIN r = {"strategy", "day", "capital", "symbols", "bars", "signals", "sizing", "shadow"}

VARIABLES state, report, outcome, calls
vars == <<state, report, outcome, calls>>

(* ---------------------------------------------------------------- requests *)

\* A symbol is written in one of several forms of its name; a blank one is
\* dropped and a malformed one refused.
IsBlank(symbol) == symbol.form = "blank"
WellFormed(symbols) == \A i \in DOMAIN symbols : symbols[i].form # "malformed"
Without(order, names) == SelectSeq(order, LAMBDA n : n \notin names)
UniqueSymbols(symbols) ==
  FoldLeft(LAMBDA order, s : IF IsBlank(s) THEN order
                             ELSE order \o Without(<<s.name>>, ToSet(order)),
           <<>>, symbols)

\* A bar holds the decision close, its provider and the price it can be bought at.
Row(bar) == [close |-> bar.close, provider |-> bar.provider, buy |-> bar.buy]
Conflicting(bars) ==
  \E i, j \in DOMAIN bars : /\ bars[i].symbol.name = bars[j].symbol.name
                            /\ Row(bars[i]) # Row(bars[j])
BarNames(bars) == UniqueSymbols([i \in DOMAIN bars |-> bars[i].symbol])
PriceRows(bars) ==
  [n \in ToSet(BarNames(bars)) |->
     Row(CHOOSE b \in ToSet(bars) : b.symbol.name = n)]

\* The signals are ordered by their identities, unless one of them has none.
CanonicalSignals(signals) ==
  LET ids == { signals[i].id : i \in DOMAIN signals }
  IN IF 0 \in ids THEN signals
     ELSE FoldLeft(LAMBDA order, id : order \o SelectSeq(signals, LAMBDA s : s.id = id),
                   <<>>, SetToSortSeq(ids, <))

\* The payload whose digest identifies a request.
Payload(r, symbols, bars, signals) ==
  [strategy |-> r.strategy.name, day |-> r.day, capital |-> r.capital,
   symbols |-> symbols, bars |-> bars, signals |-> signals]
RequestBars(r) == [n \in DOMAIN PriceRows(r.bars) |-> PriceRows(r.bars)[n].close]
RequestSymbols(r) == ToSet(UniqueSymbols(r.symbols))
RequestPayloadOfRows(r) ==         \* the bars in the order they are given
  Payload(r, RequestSymbols(r), r.bars, CanonicalSignals(r.signals))
RequestPayload(r) ==
  Payload(r, RequestSymbols(r), RequestBars(r), CanonicalSignals(r.signals))

ValidRequest(r) ==
  /\ WellFormed(r.symbols) /\ WellFormed([i \in DOMAIN r.bars |-> r.bars[i].symbol])
  /\ ~Conflicting(r.bars)

\* The symbols a session works on, when the account holds nothing.
Universe(r) ==
  IF UniqueSymbols(r.symbols) # <<>> THEN UniqueSymbols(r.symbols)
  ELSE IF r.bars # <<>> THEN BarNames(r.bars) ELSE Default
Rows(r) ==
  LET kept == ToSet(Universe(r)) \cap DOMAIN PriceRows(r.bars)
  IN [n \in kept |-> PriceRows(r.bars)[n]]

RowsReadable(r) == \A n \in DOMAIN Rows(r) : Rows(r)[n].buy.kind # "malformed"

\* What the session of a request is built from.
Pipeline(r) == [supplied |-> r.symbols, universe |-> Universe(r), rows |-> Rows(r)]

(* --------------------------------------------------------------- the state *)

\* The sessions by the strategy's id as the caller wrote it, and the day.
Key(r) == <<r.strategy, r.day>>
NewState == [capital |-> 0, sessions |-> <<>>, last |-> 0]
Applied(r) == { k \in DOMAIN state.sessions : k = Key(r) }
Chronological(r) == r.day > state.last
WithSessionUntilExecution(r) ==    \* the last day is that of the execution
  [capital |-> IF state.capital = 0 THEN r.capital ELSE state.capital,
   sessions |-> Key(r) :> [request |-> r, payload |-> RequestPayload(r),
                           pipeline |-> Pipeline(r)] @@ state.sessions,
   last |-> r.day + 1]
WithSession(r) ==
  [capital |-> IF state.capital = 0 THEN r.capital ELSE state.capital,
   sessions |-> Key(r) :> [request |-> r, payload |-> RequestPayload(r),
                           pipeline |-> Pipeline(r)] @@ state.sessions,
   last |-> r.day]
CapitalMatches(r) == state.capital \in {0, r.capital}

Combined(pipeline, r, status) == [pipeline |-> pipeline, status |-> status, key |-> Key(r)]
\* The report of a replay shows what the session was applied with.
ReplayReport(r) == Combined(state.sessions[Key(r)].pipeline, r, "replay")

(* ------------------------------------------------------------------- steps *)

\* The report is written or the write fails, after the state was saved.
Written(new) == \E ok \in BOOLEAN : report' = IF ok THEN <<new>> ELSE report
Result(kind, r) == outcome' = [kind |-> kind, request |-> r,
                               of |-> IF Applied(r) = {} THEN r ELSE state.sessions[Key(r)].request]

Init == /\ state = NewState /\ report = <<>>
        /\ outcome = <<>> /\ calls = 0

Refuse(r) ==
  /\ ~(ValidRequest(r) /\ CapitalMatches(r))
  /\ Result("invalid", r)
  /\ UNCHANGED <<state, report>>

Replay(r) ==
  /\ ValidRequest(r) /\ CapitalMatches(r) /\ Applied(r) # {}
  /\ state.sessions[Key(r)].payload = RequestPayload(r)
  /\ Written(ReplayReport(r))
  /\ Result("replay", r)
  /\ UNCHANGED state

Conflict(r) ==
  /\ ValidRequest(r) /\ CapitalMatches(r) /\ Applied(r) # {}
  /\ state.sessions[Key(r)].payload # RequestPayload(r)
  /\ Result("conflict", r)
  /\ UNCHANGED <<state, report>>

Apply(r) ==
  /\ ValidRequest(r) /\ CapitalMatches(r) /\ Applied(r) = {}
  /\ RowsReadable(r) /\ Chronological(r)
  /\ state' = WithSession(r)
  /\ Written(Combined(Pipeline(r), r, "completed"))
  /\ Result("completed", r)

Reject(r) ==
  /\ ValidRequest(r) /\ CapitalMatches(r) /\ Applied(r) = {}
  /\ ~(RowsReadable(r) /\ Chronological(r))
  /\ Result("rejected", r)
  /\ UNCHANGED <<state, report>>

Next ==
  /\ calls < MaxCalls /\ calls' = calls + 1
  /\ \E r \in Requests : Refuse(r) \/ Replay(r) \/ Conflict(r) \/ Apply(r) \/ Reject(r)

Spec == Init /\ [][Next]_vars

(* -------------------------------------------------------------- properties *)

TypeOK ==
  /\ calls \in 0..MaxCalls
  /\ \A k \in DOMAIN state.sessions :
       LET s == state.sessions[k]
       IN s.request \in Requests /\ Key(s.request) = k /\ s.payload = RequestPayload(s.request)
  /\ state.last \in {0} \cup { k[2] : k \in DOMAIN state.sessions }
  /\ report # <<>> => report[1].status \in {"completed", "replay"}

\* Two valid requests say the same: the same names in any order, number and
\* form, the same bars in any order and number, the same identified signals.
Names(symbols) == { symbols[i].name : i \in { j \in DOMAIN symbols : ~IsBlank(symbols[j]) } }
BarsSaid(bars) == { <<bars[i].symbol.name, Row(bars[i])>> : i \in DOMAIN bars }
DistinctIds(signals) ==
  /\ \A i \in DOMAIN signals : signals[i].id # 0
  /\ \A i, j \in DOMAIN signals : signals[i].id = signals[j].id => i = j
SameSignals(s, t) ==
  \/ s = t
  \/ DistinctIds(s) /\ DistinctIds(t) /\ ToSet(s) = ToSet(t)
SayTheSame(r, q) ==
  /\ r.strategy = q.strategy /\ r.day = q.day /\ r.capital = q.capital
  /\ Names(r.symbols) = Names(q.symbols)
  /\ BarsSaid(r.bars) = BarsSaid(q.bars)
  /\ SameSignals(r.signals, q.signals)

(* A second call that says the same as the one a session was applied with is a
   replay, however its symbols, bars and identified signals are ordered,
   repeated or spelled, and whatever advisory shadow evidence it carries. *)
EquivalentReplays ==
  outcome # <<>> =>
    LET r == outcome.request
    IN (ValidRequest(r) /\ CapitalMatches(r) /\ SayTheSame(r, outcome.of)) =>
         outcome.kind \notin {"conflict", "invalid"}

(* A replay never stands for a call of another strategy, day or capital, with
   other names, other closes or other signals than the session it shows.  The
   sizing parameters, the price a bar can be bought at and its provider are no part
   of _canonical_request_payload, and another call that differs in them is
   answered with the session's report. *)
ClosesSaid(bars) == { <<bars[i].symbol.name, bars[i].close>> : i \in DOMAIN bars }
ReplaysSaidTheSame ==
  (outcome # <<>> /\ outcome.kind = "replay") =>
    LET r == outcome.request
        q == outcome.of
    IN /\ r.strategy = q.strategy /\ r.day = q.day /\ r.capital = q.capital
       /\ Names(r.symbols) = Names(q.symbols)
       /\ ClosesSaid(r.bars) = ClosesSaid(q.bars)
       /\ ToSet(r.signals) = ToSet(q.signals)

(* A decision session is traded once, also when a caller spells the strategy
   with blanks around it and so names another session. *)
OneSessionADay == \A k, l \in DOMAIN state.sessions : k[2] = l[2] => k = l

(* The combined report on disk is that of an applied session: a replay, also the
   one that recovers a report whose write failed, shows the symbols, universe
   and rows the session was applied with and not those of the new call. *)
ReportIsTheSessions ==
  report # <<>> => /\ report[1].key \in DOMAIN state.sessions
                   /\ report[1].pipeline = state.sessions[report[1].key].pipeline

====
