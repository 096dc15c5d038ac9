-------------------------- MODULE InformationAgents --------------------------
(***************************************************************************)
(* The information layer and its deterministic agents                      *)
(* (information_layer/normalization.py, information_agents/agents.py).     *)
(* Providers fill tables in any order and under their own column names;    *)
(* a normalizer takes each contract column from the first alias the table  *)
(* has, refuses a table with a required cell missing, and sorts the rows;  *)
(* an agent turns the normalized frames into one signal.  A row carries    *)
(* only the facts its agents read; a text is the set of terms it contains  *)
(* as substrings, a symbol is a positive number, 0 is "market" and -1 is   *)
(* "multi_symbol".  Amounts are small integers, ratios and scores percent. *)
(***************************************************************************)
EXTENDS SignalScores, TLC

CONSTANTS
    Rows,          \* the rows providers may supply, each with its kind and cells
    Headers,       \* the sets of date columns a table may have
    Targets,       \* the targets an agent is called for; 0 is "no target given"
    MaxRows        \* bound: rows of one table

VARIABLES
    table,         \* kind -> the rows as supplied
    header,        \* the date columns the tables have
    frame,         \* kind -> the normalized rows; <<>> before
    outcome,       \* kind -> "open", "normalized" or "refused"
    signal         \* the last signal an agent emitted

vars == <<table, header, frame, outcome, signal>>

Kinds == {r.kind : r \in Rows}

-----------------------------------------------------------------------------
(* The normalizer. *)

\* COMMON_ALIASES["date"]: the order in which the columns are looked for.
DateAliases == <<"date", "trade_date", "report_date", "publish_date">>

ResolveInputColumn(columns) ==
    IF \E i \in DOMAIN DateAliases : DateAliases[i] \in columns
    THEN DateAliases[Min({i \in DOMAIN DateAliases : DateAliases[i] \in columns})]
    ELSE "none"

\* The columns the contracts name; a normalizer emits no other.
ContractColumns ==
    [ news |-> {"sent", "imp"}, announcement |-> {"imp", "text"},
      northbound |-> {"shares", "value", "ratio", "net"},
      macro |-> {"impact", "imp"}, margin |-> {"balance", "buys", "repay"},
      moneyflow |-> {"main", "large", "retail", "turnover"},
      stabilization |-> {"flow", "impact", "conf"},
      fund |-> {"fund", "value", "weight"},
      valuation |-> {"pe", "pb", "ps", "text"}, dividend |-> {"cash", "stock", "text"},
      concept |-> {"active", "weight"}, social |-> {"sent", "mentions"},
      shareholder |-> {"holder", "shares", "ratio", "text"} ]

KeepColumns(r) == {"kind", "sym", "source"} \union ContractColumns[r.kind]

Cell(r, column) == IF column = "none" THEN Missing ELSE r.cells[column]

NormalRow(r, column) ==
    [f \in KeepColumns(r) \union {"date"} |-> IF f = "date" THEN Cell(r, column) ELSE r[f]]

SortKeyBefore(a, b) ==
    \/ a.sym < b.sym
    \/ a.sym = b.sym /\ a.date < b.date
    \/ a.sym = b.sym /\ a.date = b.date /\ a.source < b.source

Refused(s, column) == \/ column = "none"
                      \/ s = <<>>
                      \/ \E i \in DOMAIN s : Cell(s[i], column) = Missing

NormalizeFrame(s, column) ==
    StableSort([i \in DOMAIN s |-> NormalRow(s[i], column)], SortKeyBefore)

-----------------------------------------------------------------------------
(* Helpers of the agents. *)

Positive == {"contract", "support", "growth"}
Negative == {"loss", "fine", "risk"}

KeywordDirection(text) ==
    LET balance == Cardinality(text \intersect Positive) - Cardinality(text \intersect Negative)
    IN  IF balance > 0 THEN 1 ELSE IF balance < 0 THEN -1 ELSE 0

\* A word is {"easing"} or {"tightening"}; any other text goes by its terms.
PolicyDirection(text) ==
    IF text = {"easing"} THEN 1 ELSE IF text = {"tightening"} THEN -1 ELSE KeywordDirection(text)

Symbols(s) == {s[i].sym : i \in DOMAIN s}

ResolveTarget(target, s) ==
    IF target # 0 THEN target
    ELSE IF Cardinality(Symbols(s)) = 1 THEN CHOOSE x \in Symbols(s) : TRUE
    ELSE IF s = <<>> THEN 0 ELSE -1

OfTarget(s, target) == IF target = 0 THEN s ELSE SelectSeq(s, LAMBDA r : r.sym = target)

Each(s, f(_)) == [i \in DOMAIN s |-> f(s[i])]

ByDate_AsGiven(s) == s

ByDate(s) == StableSort(s, LAMBDA a, b : a.date < b.date)

\* One row per group of equal keys, in the order of the keys: f is given the group by date.
PerGroup(s, key(_), f(_)) ==
    LET keys == {key(s[i]) : i \in DOMAIN s}
        group(k) == ByDate(SelectSeq(s, LAMBDA r : key(r) = k))
    IN  Each(SetToSeq(keys), LAMBDA k : f(group(k)))

Scale(a, b, c) == Max({Magnitude(a), Magnitude(b), Magnitude(c), 1})

GroupWeight(base, g) == Min({100, base + 10 * Len(g)})

Signal(role, target, rows, direction) ==
    [role |-> role, target |-> target, direction |-> direction,
     score |-> WeightedScore(rows), confidence |-> WeightedConfidence(rows)]

-----------------------------------------------------------------------------
(* The agents: each is given the frames of its kinds. *)

\* Mutant: a row's weight is how loud its sentiment is.
NewsRow_Loudness(r) ==
    LET sentiment == Clamp(Numeric(r.sent, 0), -100, 100)
    IN  Row(sentiment * Clamp(Numeric(r.imp, 50), 0, 100), Magnitude(sentiment))

NewsRow(r) ==
    LET importance == Numeric(r.imp, 50)
    IN  Row(Clamp(Numeric(r.sent, 0), -100, 100) * Clamp(importance, 0, 100), importance)

AnnouncementRow(r) ==
    LET importance == Numeric(r.imp, 50)
    IN  Row(KeywordDirection(r.text) * Clamp(importance, 0, 100) * 100, importance)

NewsImpact(f, target) ==
    LET rows == Each(f.news, NewsRow) \o Each(f.announcement, AnnouncementRow)
    IN  Signal("news", ResolveTarget(target, f.news \o f.announcement), rows,
               MixedOrSigned(rows, WeightedScore(rows)))

NorthboundRow(g) ==
    LET first == g[1]
        last == g[Len(g)]
        value == last.value - first.value
        denominator == Scale(first.value, last.value, 1)
        net == Total(LAMBDA r : Numeric(r.net, 0), g)
        raw == Quot(value * 10000, denominator) + (last.ratio - first.ratio) * 400
                 + Quot(Bounded(Quot(net * 10000, denominator)), 2)
        nudge == IF value # 0 THEN 0
                 ELSE IF last.shares > first.shares THEN 2000
                 ELSE IF last.shares < first.shares THEN -2000 ELSE 0
    IN  Row(Bounded(raw + nudge), GroupWeight(45, g))

NorthboundFlow(f, target) ==
    LET rows == PerGroup(OfTarget(f.northbound, target), LAMBDA r : r.sym, NorthboundRow)
    IN  Signal("northbound", ResolveTarget(target, f.northbound), rows,
               SignedDirection(WeightedScore(rows), "accumulation", "distribution"))

MacroRow(r) ==
    LET importance == Numeric(r.imp, 50)
    IN  Row(PolicyDirection(r.impact) * Clamp(importance, 0, 100) * 100, importance)

MarginRow(g) ==
    LET first == g[1]
        last == g[Len(g)]
        active == last.balance - first.balance + Total(LAMBDA r : r.buys - r.repay, g)
    IN  Row(Bounded(Quot(active * 10000, Scale(first.balance, last.balance, 1))), GroupWeight(50, g))

FlowRow(r) ==
    Row(Bounded(Quot((10 * r.main + 7 * r.large - 2 * r.retail) * 1000,
                     Scale(r.main, r.large, r.retail))), 65)

StabilizationRow(r) ==
    LET confidence == Clamp(Numeric(r.conf, 50), 0, 100)
        direction == PolicyDirection(r.impact)
    IN  Row((IF r.flow >= 0 THEN direction ELSE -direction) * confidence * 100, confidence)

LiquidityRegime(f, target) ==
    LET rows == Each(f.macro, MacroRow) \o PerGroup(f.margin, LAMBDA r : r.sym, MarginRow)
                  \o Each(f.moneyflow, FlowRow) \o Each(f.stabilization, StabilizationRow)
    IN  Signal("liquidity", target, rows,
               SignedDirection(WeightedScore(rows), "expansion", "contraction"))

FundRow(g) ==
    LET first == g[1]
        last == g[Len(g)]
    IN  Row(Bounded(Quot((last.value - first.value) * 10000, Scale(first.value, last.value, 1))
                      + (last.weight - first.weight) * 300), GroupWeight(50, g))

CrowdingRow(s) ==
    LET latest == PerGroup(s, LAMBDA r : <<r.sym, r.fund>>, LAMBDA g : g[Len(g)])
        total == Total(LAMBDA r : Numeric(r.weight, 0), latest)
    IN  IF total >= 35 THEN <<Row(-3500, 65)>> ELSE IF total >= 20 THEN <<Row(-1500, 55)>> ELSE <<>>

FundPositioning(f, target) ==
    LET s == OfTarget(f.fund, target)
        rows == PerGroup(s, LAMBDA r : <<r.sym, r.fund>>, FundRow) \o CrowdingRow(s)
    IN  Signal("fund", ResolveTarget(target, f.fund), rows, MixedOrSigned(rows, WeightedScore(rows)))

\* A multiple above 0 speaks for the share up to its low mark, against it from its high mark.
Level(multiple, low, high, score) ==
    IF multiple <= 0 THEN 0 ELSE IF multiple <= low THEN score ELSE IF multiple >= high THEN -score ELSE 0

\* An optional field a normalized frame may not have; above 1 it counts in percent.
PercentileScore(r) ==
    IF "percentile" \notin DOMAIN r THEN 0
    ELSE IF r.percentile <= 25 THEN 2500 ELSE IF r.percentile >= 75 THEN -2500 ELSE 0

\* Multiples are in tenths: 120 is a price of 12 times the earnings.
ValuationRow(r) ==
    Row(Bounded(Level(Numeric(r.pe, 0), 120, 450, 3500) + Level(Numeric(r.pb, 0), 12, 60, 3000)
                  + Level(Numeric(r.ps, 0), 15, 120, 2000) + PercentileScore(r)
                  + KeywordDirection(r.text) * 1500), 70)

Paid(r, cash, stock) ==
    (IF Numeric(r.cash, 0) > 0 THEN cash ELSE 0) + (IF Numeric(r.stock, 0) > 0 THEN stock ELSE 0)

DividendRow(r) == Row(Bounded(Paid(r, 2500, 1000) + KeywordDirection(r.text) * 1500), 55)

Valuation(f, target) ==
    LET rows == Each(f.valuation, ValuationRow) \o Each(f.dividend, DividendRow)
    IN  Signal("valuation", ResolveTarget(target, f.valuation \o f.dividend), rows,
               MixedOrSigned(rows, WeightedScore(rows)))

\* is_active is "yes", "no" or "blank"; bool() of a blank raises, and the agent with it.
ConceptRow(r) ==
    LET weight == Numeric(r.weight, 0)
        score == IF r.active = "yes" THEN weight ELSE -Max({weight, 20})
    IN  Row(Bounded(score * 100), Clamp(weight, 40, 100))

ConceptNewsRow(r) ==
    LET importance == Clamp(Numeric(r.imp, 50), 0, 100)
    IN  Row(Bounded(Numeric(r.sent, 0) * importance), importance)

SocialRow(r) ==
    Row(Bounded(Numeric(r.sent, 0) * 100), Clamp(Max({Numeric(r.mentions, 0), 0}), 25, 100))

ConceptRotation(f, target) ==
    LET rows == Each(f.concept, ConceptRow) \o Each(f.news, ConceptNewsRow) \o Each(f.social, SocialRow)
    IN  Signal("concept", ResolveTarget(target, f.concept \o f.news \o f.social), rows,
               MixedOrSigned(rows, WeightedScore(rows)))

HolderRow(g) ==
    LET first == g[1]
        last == g[Len(g)]
        moved == Quot((last.shares - first.shares) * 10000, Scale(first.shares, last.shares, 1))
    IN  Row(Bounded(Bounded(moved + (last.ratio - first.ratio) * 500)
                      + KeywordDirection(first.text \union last.text) * 2500), GroupWeight(50, g))

HolderNoticeRow(r) ==
    LET importance == Clamp(Numeric(r.imp, 50), 0, 100)
    IN  Row(KeywordDirection(r.text) * importance * 100, importance)

ShareholderDividend(f, target) ==
    LET rows == PerGroup(f.shareholder, LAMBDA r : <<r.sym, r.holder>>, HolderRow)
                  \o Each(f.dividend, LAMBDA r : Row(Paid(r, 3000, 1000), 55))
                  \o Each(f.announcement, HolderNoticeRow)
    IN  Signal("shareholder", ResolveTarget(target, f.shareholder \o f.dividend \o f.announcement),
               rows, MixedOrSigned(rows, WeightedScore(rows)))

StructureRow(r) ==
    LET scale == Scale(r.main, r.large, r.retail)
        score == Bounded(Quot((2 * (r.main + r.large) - Max({r.retail, 0})) * 5000, scale))
        turnover == Max({Numeric(r.turnover, 0), 0})
    IN  Row(IF turnover >= 12 /\ score < 0 THEN Bounded(score - 1500) ELSE score,
            Clamp(45 + turnover * 4, 45, 100))

MoneyflowStructure(f, target) ==
    LET rows == Each(f.moneyflow, StructureRow)
    IN  Signal("structure", ResolveTarget(target, f.moneyflow), rows,
               MixedOrSigned(rows, WeightedScore(rows)))

\* Which kinds each agent reads.
Reads == [ news |-> {"news", "announcement"}, northbound |-> {"northbound"},
           liquidity |-> {"macro", "margin", "moneyflow", "stabilization"}, fund |-> {"fund"},
           valuation |-> {"valuation", "dividend"}, concept |-> {"concept", "news", "social"},
           shareholder |-> {"shareholder", "dividend", "announcement"}, structure |-> {"moneyflow"} ]

Roles == DOMAIN Reads

Frames(f) == [k \in DOMAIN ContractColumns |-> IF k \in Kinds THEN f[k] ELSE <<>>]

Emit(role, f, target) ==
    CASE role = "news"        -> NewsImpact(Frames(f), target)
      [] role = "northbound"  -> NorthboundFlow(Frames(f), target)
      [] role = "liquidity"   -> LiquidityRegime(Frames(f), target)
      [] role = "fund"        -> FundPositioning(Frames(f), target)
      [] role = "valuation"   -> Valuation(Frames(f), target)
      [] role = "concept"     -> ConceptRotation(Frames(f), target)
      [] role = "shareholder" -> ShareholderDividend(Frames(f), target)
      [] role = "structure"   -> MoneyflowStructure(Frames(f), target)

NoSignal == [role |-> "none", target |-> 0, direction |-> "neutral", score |-> 0, confidence |-> 0]

\* bool() of a missing is_active raises: the agent gives no signal.
Raises(role, f) ==
    role = "concept" /\ "concept" \in Kinds /\ \E i \in DOMAIN f.concept : f.concept[i].active = "blank"

-----------------------------------------------------------------------------

Init ==
    /\ header \in Headers
    /\ table = [k \in Kinds |-> <<>>]
    /\ frame = [k \in Kinds |-> <<>>]
    /\ outcome = [k \in Kinds |-> "open"]
    /\ signal = NoSignal

\* A provider adds a row to one of the tables, in whatever order it has them.
Supply(r) ==
    /\ outcome[r.kind] = "open"
    /\ Len(table[r.kind]) < MaxRows
    /\ table' = [table EXCEPT ![r.kind] = Append(@, r)]
    /\ UNCHANGED <<header, frame, outcome, signal>>

Normalize(k) ==
    LET column == ResolveInputColumn(header)
    IN  /\ outcome[k] = "open"
        /\ IF Refused(table[k], column)
           THEN outcome' = [outcome EXCEPT ![k] = "refused"] /\ UNCHANGED frame
           ELSE /\ outcome' = [outcome EXCEPT ![k] = "normalized"]
                /\ frame' = [frame EXCEPT ![k] = NormalizeFrame(table[k], column)]
        /\ UNCHANGED <<table, header, signal>>

\* An agent runs over the frames the normalizers have emitted.
RunAgent(role, target) ==
    /\ \E k \in Reads[role] \intersect Kinds : outcome[k] = "normalized"
    /\ ~Raises(role, frame)
    /\ signal' = Emit(role, frame, target)
    /\ UNCHANGED <<table, header, frame, outcome>>

Next == \/ \E r \in Rows : Supply(r)
        \/ \E k \in Kinds : Normalize(k)
        \/ \E role \in Roles, target \in Targets : RunAgent(role, target)

Spec == Init /\ [][Next]_vars

-----------------------------------------------------------------------------

\* A frame is there once its table is normalized, and a signal stays within its scales.
TypeOK ==
    /\ header \in Headers
    /\ \A k \in Kinds : /\ table[k] \in Seq(Rows) /\ Len(table[k]) <= MaxRows
                        /\ outcome[k] \in {"open", "normalized", "refused"}
                        /\ outcome[k] # "normalized" => frame[k] = <<>>
    /\ signal.role \in Roles \union {"none"}
    /\ signal.score \in -10000..10000
    /\ signal.confidence \in 0..10000

Reordered(s) == {[i \in DOMAIN s |-> s[p[i]]] : p \in Permutations(DOMAIN s)}

Distinct(s, key(_)) == \A i, j \in DOMAIN s : key(s[i]) = key(s[j]) => i = j

\* The order in which a provider lists its rows does not reach the frame, as long as no two rows
\* share symbol, date and source (_normalize_information_frame sorts).
TablesOrderFree ==
    \A k \in Kinds :
        (outcome[k] = "normalized" /\ Distinct(frame[k], LAMBDA r : <<r.sym, r.date, r.source>>))
            => \A s \in Reordered(table[k]) : NormalizeFrame(s, ResolveInputColumn(header)) = frame[k]

\* Nor does the order of a frame's rows reach a signal, as long as no two rows share symbol and
\* date: what grew between a first and a last row is read by date (the agents sort before groupby).
SignalsOrderFree ==
    \A k \in {x \in Kinds : outcome[x] = "normalized"} :
        Distinct(frame[k], LAMBDA r : <<r.sym, r.date>>) =>
            \A role \in {x \in Roles : k \in Reads[x] /\ ~Raises(x, frame)}, s \in Reordered(frame[k]) :
                Emit(role, [frame EXCEPT ![k] = s], 0) = Emit(role, frame, 0)

\* A table is refused as a whole or kept as a whole: no row is dropped, none is left without a
\* date, and none is given a date its table does not have (_require_non_missing).
RefusedOrWhole ==
    \A k \in Kinds : outcome[k] = "normalized" =>
        /\ Len(frame[k]) = Len(table[k])
        /\ \A i \in DOMAIN frame[k] : \E j \in DOMAIN table[k] :
              \E c \in header : frame[k][i].date = table[k][j].cells[c] /\ frame[k][i].date # Missing

\* What is said of one symbol rests on that symbol's rows only, in the two agents that filter.
TargetsRowsOnly ==
    \A k \in {"northbound", "fund"} \intersect Kinds, t \in Targets \ {0} :
        Emit(k, [frame EXCEPT ![k] = SelectSeq(@, LAMBDA r : r.sym = t)], t) = Emit(k, frame, t)

\* Better news never lowers a score: raising the sentiment of one row, all else equal.
BetterNewsNeverLowers ==
    "news" \in Kinds => \A i \in DOMAIN frame.news, better \in {0, 50, 100} :
        better >= frame.news[i].sent =>
            \A role \in {x \in {"news", "concept"} : ~Raises(x, frame)} :
                Emit(role, [frame EXCEPT !.news[i].sent = better], 0).score >= Emit(role, frame, 0).score

\* The crowding row is a penalty: it never lifts a signal that is not below its own mark.
CrowdingNeverLifts ==
    "fund" \in Kinds =>
        LET rows == PerGroup(frame.fund, LAMBDA r : <<r.sym, r.fund>>, FundRow)
        IN  WeightedScore(rows) >= -1500
                => Emit("fund", frame, 0).score <= WeightedScore(rows)

=============================================================================
