---- MODULE MCAgents ----
(***************************************************************************)
(* Small instances of the agents' side: announcements, what the model says *)
(* of them and the event study, the agents that read tables, the research  *)
(* desk, the cycles of the firm.  They share no state: in a behaviour one  *)
(* of them, chosen at the start, is at work.                               *)
(***************************************************************************)
EXTENDS AnnouncementTimes, SignalScores, FiniteSets, SequencesExt, TLC

CONSTANTS Nil, Unknown, Unset

VARIABLES
    active,     \* the component at work in this behaviour
    \* AnnouncementIngestion
    ingestionCache, ingestionFiles, ingestionRun, ingestionRuns, ingestionCrashes,
    ingestionNow, ingestionBodies,
    \* AnnouncementAssessment
    assessmentCache, assessmentRun, assessmentRuns, assessmentCrashes, assessmentCalls,
    assessmentAsked,
    \* EventStudy
    studyInput, studyTodo, studyRecords,
    \* FirmCycle
    firmCycle, firmParams, firmStage, firmInput, firmDesk, firmDecision, firmAdvice,
    \* InformationAgents
    agentsTable, agentsHeader, agentsFrame, agentsOutcome, agentsSignal,
    \* ResearchDesk
    deskDesk, deskRead, deskFiled, deskRanking, deskCandidates, deskQuoted

-----------------------------------------------------------------------------
\* Announcements and the pages of their details.
Announcement(s, d, t, title, id, body) ==
    [sym |-> s, day |-> d, slot |-> t, title |-> title, id |-> id, body |-> body]

\* a: a date on a Friday, the same notice with another body, another of that title
\* after the close of that day; b: one before the opening of a Saturday, one of the day after Last.
\* The provider of b sends a row of c along.
RowsOfA == <<Announcement("a", 4, Unknown, "x", 1, 1), Announcement("a", 4, Unknown, "x", 1, 2),
             Announcement("a", 4, 31, "x", 2, 1)>>
RowsOfB == <<Announcement("c", 4, 20, "x", 3, 1), Announcement("b", 5, 17, "x", 4, 1),
             Announcement("b", 6, 20, "y", 5, 1)>>
AnswersFor(s) == IF s = "a" THEN {RowsOfA, SubSeq(RowsOfA, 3, 3)} ELSE {RowsOfB}

GoodText == [titleOnly |-> FALSE, boilerplate |-> FALSE, length |-> "long", bodyLike |-> TRUE]
ShortText == [titleOnly |-> FALSE, boilerplate |-> FALSE, length |-> "line", bodyLike |-> FALSE]
DetailPage(source, raw, kept) == [source |-> source, raw |-> raw, kept |-> kept]
DetailPages == {DetailPage("full_text", GoodText, GoodText), DetailPage("full_text", GoodText, ShortText),
            DetailPage("provider_summary", ShortText, ShortText)}

\* Rows an assessment is asked for, and what the agent returns.
SourceRow(id, source) == [id |-> id, source |-> source, full |-> source = "full_text", text |-> TRUE]
\* Rows without a source, one of a title alone.
TitleRow(id) == [id |-> id, source |-> Unset, full |-> FALSE, text |-> FALSE]
\* Rows of the ingestion: the text of the first is lost or found between two runs.
RowBatches == {<<SourceRow(1, "full_text"), SourceRow(2, "provider_summary")>>,
              <<SourceRow(1, "title_fallback"), SourceRow(3, "unavailable")>>,
              <<TitleRow(4), SourceRow(2, Unset)>>}
AgentOutput(valid, fallback, shape, confidence) ==
    [valid |-> valid, fallback |-> fallback, shape |-> shape, confidence |-> confidence]
AgentOutputs == {AgentOutput(TRUE, FALSE, "structured", 90), AgentOutput(TRUE, FALSE, "text", 70),
              AgentOutput(FALSE, FALSE, "structured", 101), AgentOutput(TRUE, TRUE, "nothing", 20),
              AgentOutput(TRUE, TRUE, "values", 60)}
SourceCap == [s \in {"full_text", "provider_summary", "title_fallback", "unavailable"} |-> CASE s = "full_text" -> 80 [] s = "provider_summary" -> 55
                              [] s = "title_fallback" -> 30 [] OTHER -> 0]

\* Events, their assessments and bars.
Announced(sym, title, publish, precision, key, id, url, hash, keywords) ==
    [sym |-> sym, title |-> title, publish |-> publish, precision |-> precision, key |-> key,
     id |-> id, lineage |-> {url, hash}, text |-> key, keywords |-> keywords]
Normalized(e) == IF e.precision = "raw" THEN e.publish ELSE FirstAvailable(e.publish, e.precision, {})
Judged(e, url, direction) ==
    [of |-> e, sym |-> e.sym, title |-> e.title, pit |-> Normalized(e), key |-> e.key,
     lineage |-> e.lineage, url |-> url, direction |-> direction, usable |-> TRUE]

\* A date on a Friday and a copy of it; a second notice of that title and day, with
\* another text; one on a Thursday after the close, one
\* a raw one after the close; one of a stock without bars; one that has no identity.
E1 == Announced("a", "x", At(4, 0), "date", "k1", "i1", "u1", "c1", "positive")
E1Copy == [E1 EXCEPT !.id = "i2", !.lineage = {"u1"}]
E2 == Announced("a", "x", At(4, 0), "date", "k2", "i3", "u2", "c2", "neutral")
\* The same, but neither has a text; and E1 with a title of its own.
E2Alike == [E2 EXCEPT !.lineage = {"u2", "c1"}]
E1Retitled == [E1 EXCEPT !.title = "w"]
E3 == Announced("a", "y", At(3, 31), "datetime", "k3", "i4", "u3", "c3", "negative")
E4 == Announced("b", "y", At(7, 31), "raw", "k4", "i5", "u4", "c4", "positive")
E5 == Announced("c", "z", At(8, 2), "datetime", "k5", "i6", "u5", "c5", "positive")
Bare == [sym |-> "a", title |-> "w", publish |-> At(5, 20), precision |-> "datetime", key |-> Nil,
         id |-> Nil, lineage |-> {}, text |-> Nil, keywords |-> "positive"]

Judgements == {Judged(E1, "u1", "negative"), Judged(E1, "u1", "positive"), Judged(E2, "u2", "neutral"),
               [Judged(E3, "u3", "negative") EXCEPT !.key = Nil, !.lineage = {}],
               [Judged(E4, "u4", "positive") EXCEPT !.usable = FALSE],
               [Judged(Bare, "u1", "negative") EXCEPT !.lineage = {}]}
EventLists == {<<E1, E1Copy, E2>>, <<E1Copy, E3, E1>>, <<E4, E3, E5, Bare>>, <<Bare, E2, E1>>, <<E2Alike, E1, E1Retitled>>}
StudyInputs == [events : EventLists, assessments : UNION {[1..n -> Judgements] : n \in 0..3}]
\* The Wednesday is a holiday; b is suspended on the Thursday.
StudyDays == {3, 4, 7, 8, 10, 11}
Traded(ret) == [close |-> TRUE, traded |-> TRUE, ret |-> ret]
BarsOf == [s \in {"a", "b", "bench"} |->
    [d \in StudyDays |->
        CASE s = "b" /\ d = 10 -> [close |-> TRUE, traded |-> FALSE, ret |-> Nil]
          [] s = "a" -> Traded(IF d \in {7, 10} THEN 3 ELSE -2)
          [] s = "bench" -> Traded(IF d = 8 THEN 2 ELSE -1)
          [] OTHER -> Traded(1)]]

\* Candidates, allocations and replays of a cycle.
NoAllocation == [weights |-> <<>>, costs |-> <<>>, gross |-> 0, rate |-> 0, planned |-> FALSE]
CandidateOf(s, e, r, l) == [symbol |-> s, confidence |-> 80, expected |-> e, risk |-> r, liquidity |-> l]
GoodCandidate(s) == CandidateOf(s, 12, 20, 90)
WeakCandidate(s) == CandidateOf(s, 1, 20, 90)
ThinCandidate(s) == CandidateOf(s, 12, 65, 30)
CandidateReports == {<<>>} \cup {<<c>> : c \in {GoodCandidate(1), WeakCandidate(1), ThinCandidate(1)}}
             \cup {<<c, d>> : c \in {GoodCandidate(1), WeakCandidate(1), ThinCandidate(1)}, d \in {GoodCandidate(2), WeakCandidate(2), ThinCandidate(2)}}
PlanOf(w, c, g) == [weights |-> w, costs |-> c, gross |-> g, rate |-> 10, planned |-> TRUE]
AllPlans == {NoAllocation, PlanOf((1 :> 70), (1 :> 6), 70), PlanOf((1 :> 40) @@ (2 :> 40), (1 :> 2) @@ (2 :> 0), 80)}
ReplayOf(t, d, v, s) == [turnover |-> t, drawdown |-> d, volatility |-> v, cost |-> 0, supplied |-> s]
AllReplays == {ReplayOf(0, 0, 0, FALSE), ReplayOf(80, 4, 25, TRUE), ReplayOf(10, 12, 12, TRUE)}

\* Rows of the agents' tables.
Dated(d) == [date |-> d, trade_date |-> d, report_date |-> d, publish_date |-> d]

\* A fund report of period 1 that was published on day 3; and one whose period is not filled in.
PublishedLate == [date |-> Missing, trade_date |-> Missing, report_date |-> 1, publish_date |-> 3]
Unfilled == [date |-> Missing, trade_date |-> Missing, report_date |-> Missing, publish_date |-> 2]

TableRow(kind, sym, cells) == [kind |-> kind, sym |-> sym, source |-> 1, cells |-> cells]

News(sym, d, sent, imp) == TableRow("news", sym, Dated(d)) @@ [sent |-> sent, imp |-> imp]
Notice(sym, d, text, imp) == TableRow("announcement", sym, Dated(d)) @@ [text |-> text, imp |-> imp]

NewsRows ==
    {News(1, 1, 80, 100), News(1, 2, -60, 50), News(2, 1, 0, 0), News(1, 3, 30, Missing),
     Notice(1, 1, {"support"}, 80), Notice(1, 2, {"contract", "loss", "fine"}, 500)}

ConceptRows ==
    {TableRow("concept", 1, Dated(1)) @@ [active |-> "yes", weight |-> 60],
     TableRow("concept", 1, Dated(2)) @@ [active |-> "no", weight |-> 10],
     TableRow("concept", 2, Dated(1)) @@ [active |-> "blank", weight |-> Missing],
     News(1, 1, -80, 100), News(1, 2, 40, 50),
     TableRow("social", 1, Dated(1)) @@ [sent |-> 50, mentions |-> 10],
     TableRow("social", 1, Dated(2)) @@ [sent |-> -120, mentions |-> 500]}

Northbound(sym, d, shares, value, ratio, net) ==
    TableRow("northbound", sym, Dated(d)) @@ [shares |-> shares, value |-> value, ratio |-> ratio, net |-> net]

NorthboundRows ==
    {Northbound(1, 1, 10, 100, 2, 0), Northbound(1, 2, 20, 100, 2, 0), Northbound(1, 3, 5, 40, 1, -30),
     Northbound(2, 1, 10, 80, 3, Missing), Northbound(2, 2, 12, 90, 4, 50)}

Fund(fund, cells, sym, value, weight) ==
    TableRow("fund", sym, cells) @@ [fund |-> fund, value |-> value, weight |-> weight]

FundRows ==
    {Fund(1, Dated(1), 1, 100, 10), Fund(1, Dated(2), 1, 120, 22), Fund(2, PublishedLate, 1, 50, 15),
     Fund(2, Unfilled, 1, 10, 30), Fund(1, Dated(3), 2, 60, 5)}

FlowOf(sym, d, main, large, retail, turnover) ==
    TableRow("moneyflow", sym, Dated(d)) @@
        [main |-> main, large |-> large, retail |-> retail, turnover |-> turnover]

LiquidityRows ==
    {TableRow("macro", 0, Dated(1)) @@ [impact |-> {"easing"}, imp |-> 80],
     TableRow("macro", 0, Dated(2)) @@ [impact |-> {"tightening"}, imp |-> Missing],
     TableRow("margin", 1, Dated(1)) @@ [balance |-> 100, buys |-> 10, repay |-> 30],
     TableRow("margin", 1, Dated(2)) @@ [balance |-> 130, buys |-> 20, repay |-> 10],
     FlowOf(1, 2, -4, -6, 9, 15),
     TableRow("stabilization", 0, Dated(1)) @@ [flow |-> -5, impact |-> {"easing"}, conf |-> 90]}

Holder(holder, d, shares, ratio, text) ==
    TableRow("shareholder", 1, Dated(d)) @@
        [holder |-> holder, shares |-> shares, ratio |-> ratio, text |-> text]

HolderRows ==
    {Holder(1, 1, 100, 5, {}), Holder(1, 2, 60, 3, {"risk"}), Holder(2, 1, 10, 1, {"support"}),
     Holder(2, 3, 30, 2, {}), TableRow("dividend", 1, Dated(1)) @@ [cash |-> 5, stock |-> 1, text |-> {}],
     Notice(1, 1, {"loss"}, 70)}

\* Signals, metrics and model scores.
Emitted(role, target, direction, score, confidence) ==
    [role |-> role, target |-> target, direction |-> direction, score |-> score, confidence |-> confidence]

AgentSignals ==
    {Emitted("news", 1, "positive", 9000, 6000), Emitted("news", 1, "mixed", -1200, 4000),
     Emitted("northbound", 1, "distribution", -8000, 5500), Emitted("liquidity", 1, "expansion", 1600, 9000),
     Emitted("valuation", 1, "neutral", 0, 0),
     Emitted("fund", 1, "positive", 6000, 1000)}

SignalsOfTwo ==
    {Emitted("news", 1, "positive", 6000, 6000), Emitted("news", 2, "negative", -6000, 6000),
     Emitted("northbound", 2, "distribution", -9000, 5000), Emitted("structure", 1, "neutral", 500, 7000)}

MetricOf(target, return, sharpe, drawdown, win, turnover, trades) ==
    [target |-> target, total_return |-> return, sharpe |-> sharpe, sharpe_ratio |-> Missing,
     max_drawdown |-> drawdown, win_rate |-> win, turnover |-> turnover, trades |-> trades,
     trade_count |-> Missing]

GoodMetric == MetricOf(0, 18, 160, -5, 60, 80, 9)
PoorMetric == MetricOf(0, -15, -100, -30, 40, 200, 4)
UnknownMetric == MetricOf(0, Missing, Missing, Missing, Missing, Missing, Missing)
OlderMetric == [UnknownMetric EXCEPT !.sharpe_ratio = 300, !.trade_count = 2, !.total_return = 95]
MetricOfTwo == MetricOf(2, 5, 40, -8, 52, 100, 5)
AnyMetrics == {GoodMetric, PoorMetric, UnknownMetric, OlderMetric, MetricOfTwo}

ModelQuotes == {1 :> 3000 @@ 2 :> -2000 @@ 3 :> Missing, 1 :> -6000 @@ 2 :> 500 @@ 3 :> 4000}

-----------------------------------------------------------------------------
\* Two runs over two symbols, one of them interrupted.
ingestionVars ==
    <<ingestionCache, ingestionFiles, ingestionRun, ingestionRuns, ingestionCrashes,
    ingestionNow, ingestionBodies>>

Ingestion == INSTANCE AnnouncementIngestion WITH
    Symbols <- <<"a", "b">>,
    Answers <- AnswersFor,
    Pages <- DetailPages,
    Zone <- 16,
    Clock <- {At(8, 20)},
    FirstDay <- 4,
    LastDay <- 5,
    MaxRuns <- 2,
    MaxCrashes <- 1,
    Unknown <- Unknown,
    cache <- ingestionCache, files <- ingestionFiles, run <- ingestionRun,
    runs <- ingestionRuns, crashes <- ingestionCrashes, now <- ingestionNow,
    bodies <- ingestionBodies

ASSUME Ingestion!TimesAssumption
ASSUME Ingestion!DaysAssumption
ASSUME Ingestion!PagesAssumption

-----------------------------------------------------------------------------
\* Up to three runs, one of them interrupted, with two models.
assessmentVars ==
    <<assessmentCache, assessmentRun, assessmentRuns, assessmentCrashes,
    assessmentCalls, assessmentAsked>>

Assessment == INSTANCE AnnouncementAssessment WITH
    Batches <- RowBatches,
    Outputs <- AgentOutputs,
    Models <- {"flash", "pro"},
    Cap <- SourceCap,
    MaxRuns <- 3,
    MaxCrashes <- 1,
    Unset <- Unset,
    cache <- assessmentCache, run <- assessmentRun, runs <- assessmentRuns,
    crashes <- assessmentCrashes, calls <- assessmentCalls, asked <- assessmentAsked

ASSUME Assessment!OutputsAssumption

-----------------------------------------------------------------------------
\* Five lists of events with up to three assessments.
studyVars ==
    <<studyInput, studyTodo, studyRecords>>

Study == INSTANCE EventStudy WITH
    Inputs <- StudyInputs,
    Sessions <- StudyDays,
    Horizons <- {1, 2, 3},
    Bars <- BarsOf,
    Benchmark <- "bench",
    Names <- <<"a", "b", "c", "w", "x", "y", "z">>,
    Nil <- Nil,
    input <- studyInput, todo <- studyTodo, records <- studyRecords

ASSUME Study!CalendarAssumption
ASSUME Study!HorizonsAssumption
ASSUME Study!BarsAssumption

-----------------------------------------------------------------------------
\* Two cycles that learn, one that asks for advice with live calls.
firmVars ==
    <<firmCycle, firmParams, firmStage, firmInput, firmDesk, firmDecision, firmAdvice>>

Learning == INSTANCE FirmCycle WITH
    Reports <- CandidateReports,
    Plans <- AllPlans,
    Replays <- AllReplays,
    FlashModels <- {"flash"},
    ProModels <- {"pro"},
    Explicit <- {"default"},
    Roles <- <<>>,
    Live <- FALSE,
    MaxCycles <- 2,
    cycle <- firmCycle, params <- firmParams, stage <- firmStage, input <- firmInput,
    desk <- firmDesk, decision <- firmDecision, advice <- firmAdvice

WithAdvice == INSTANCE FirmCycle WITH
    Reports <- CandidateReports,
    Plans <- {NoAllocation},
    Replays <- {ReplayOf(0, 0, 0, TRUE)},
    FlashModels <- {"flash", "deepseek-chat", "deepseek-reasoner"},
    ProModels <- {"pro", "deepseek-chat", "deepseek-reasoner"},
    Explicit <- {"default", "deepseek-chat", "deepseek-reasoner", "named"},
    Roles <- <<"investment_committee", "information_desk">>,
    Live <- TRUE,
    MaxCycles <- 1,
    cycle <- firmCycle, params <- firmParams, stage <- firmStage, input <- firmInput,
    desk <- firmDesk, decision <- firmDecision, advice <- firmAdvice

ASSUME Learning!CycleAssumption
ASSUME WithAdvice!CycleAssumption

-----------------------------------------------------------------------------
\* One or two agents' tables each.
agentsVars ==
    <<agentsTable, agentsHeader, agentsFrame, agentsOutcome, agentsSignal>>

OnNews == INSTANCE InformationAgents WITH
    Rows <- NewsRows,
    Headers <- {{"date"}},
    Targets <- {0, 1},
    MaxRows <- 2,
    table <- agentsTable, header <- agentsHeader, frame <- agentsFrame,
    outcome <- agentsOutcome, signal <- agentsSignal

OnConcepts == INSTANCE InformationAgents WITH
    Rows <- ConceptRows,
    Headers <- {{"date"}},
    Targets <- {0},
    MaxRows <- 2,
    table <- agentsTable, header <- agentsHeader, frame <- agentsFrame,
    outcome <- agentsOutcome, signal <- agentsSignal

OnNorthbound == INSTANCE InformationAgents WITH
    Rows <- NorthboundRows,
    Headers <- {{"date"}},
    Targets <- {0, 1, 2},
    MaxRows <- 3,
    table <- agentsTable, header <- agentsHeader, frame <- agentsFrame,
    outcome <- agentsOutcome, signal <- agentsSignal

OnFunds == INSTANCE InformationAgents WITH
    Rows <- FundRows,
    Headers <- {{"date"}, {"report_date", "publish_date"}, {"publish_date"}, {}},
    Targets <- {0, 1},
    MaxRows <- 3,
    table <- agentsTable, header <- agentsHeader, frame <- agentsFrame,
    outcome <- agentsOutcome, signal <- agentsSignal

OnLiquidity == INSTANCE InformationAgents WITH
    Rows <- LiquidityRows,
    Headers <- {{"date"}},
    Targets <- {0},
    MaxRows <- 2,
    table <- agentsTable, header <- agentsHeader, frame <- agentsFrame,
    outcome <- agentsOutcome, signal <- agentsSignal

OnHolders == INSTANCE InformationAgents WITH
    Rows <- HolderRows,
    Headers <- {{"date"}},
    Targets <- {0},
    MaxRows <- 2,
    table <- agentsTable, header <- agentsHeader, frame <- agentsFrame,
    outcome <- agentsOutcome, signal <- agentsSignal


-----------------------------------------------------------------------------
\* One report of up to three signals; two reports of two symbols.
deskVars ==
    <<deskDesk, deskRead, deskFiled, deskRanking, deskCandidates, deskQuoted>>

OneReport == INSTANCE ResearchDesk WITH
    Signals <- AgentSignals,
    Metrics <- AnyMetrics,
    Quotes <- {1 :> Missing},
    TopN <- 5,
    MaxSignals <- 3,
    MaxReports <- 1,
    desk <- deskDesk, read <- deskRead, filed <- deskFiled, ranking <- deskRanking,
    candidates <- deskCandidates, quoted <- deskQuoted

TwoReports == INSTANCE ResearchDesk WITH
    Signals <- SignalsOfTwo,
    Metrics <- {GoodMetric},
    Quotes <- ModelQuotes,
    TopN <- 2,
    MaxSignals <- 2,
    MaxReports <- 2,
    desk <- deskDesk, read <- deskRead, filed <- deskFiled, ranking <- deskRanking,
    candidates <- deskCandidates, quoted <- deskQuoted


-----------------------------------------------------------------------------
\* The variables of the components that are not at work.

ingestionIdle ==
    /\ ingestionCache = 0 /\ ingestionFiles = 0 /\ ingestionRun = 0 /\ ingestionRuns = 0
    /\ ingestionCrashes = 0 /\ ingestionNow = 0 /\ ingestionBodies = 0
assessmentIdle ==
    /\ assessmentCache = 0 /\ assessmentRun = 0 /\ assessmentRuns = 0
    /\ assessmentCrashes = 0 /\ assessmentCalls = 0 /\ assessmentAsked = 0
studyIdle ==
    /\ studyInput = 0 /\ studyTodo = 0 /\ studyRecords = 0
firmIdle ==
    /\ firmCycle = 0 /\ firmParams = 0 /\ firmStage = 0 /\ firmInput = 0 /\ firmDesk = 0
    /\ firmDecision = 0 /\ firmAdvice = 0
agentsIdle ==
    /\ agentsTable = 0 /\ agentsHeader = 0 /\ agentsFrame = 0 /\ agentsOutcome = 0
    /\ agentsSignal = 0
deskIdle ==
    /\ deskDesk = 0 /\ deskRead = 0 /\ deskFiled = 0 /\ deskRanking = 0
    /\ deskCandidates = 0 /\ deskQuoted = 0

Init ==
    /\ active \in
        {"ingestion", "assessment", "study", "learning", "models", "news", "concepts",
        "northbound", "funds", "liquidity", "holders", "reports", "candidates"}
    /\ IF active = "ingestion" THEN Ingestion!Init
       ELSE ingestionIdle
    /\ IF active = "assessment" THEN Assessment!Init
       ELSE assessmentIdle
    /\ IF active = "study" THEN Study!Init
       ELSE studyIdle
    /\ IF active = "learning" THEN Learning!Init
       ELSE IF active = "models" THEN WithAdvice!Init
       ELSE firmIdle
    /\ IF active = "news" THEN OnNews!Init
       ELSE IF active = "concepts" THEN OnConcepts!Init
       ELSE IF active = "northbound" THEN OnNorthbound!Init
       ELSE IF active = "funds" THEN OnFunds!Init
       ELSE IF active = "liquidity" THEN OnLiquidity!Init
       ELSE IF active = "holders" THEN OnHolders!Init
       ELSE agentsIdle
    /\ IF active = "reports" THEN OneReport!Init
       ELSE IF active = "candidates" THEN TwoReports!Init
       ELSE deskIdle

\* A step of one component changes no variable of another.
Only(component) ==
    /\ UNCHANGED active
    /\ IF component = "ingestion" THEN TRUE ELSE UNCHANGED ingestionVars
    /\ IF component = "assessment" THEN TRUE ELSE UNCHANGED assessmentVars
    /\ IF component = "study" THEN TRUE ELSE UNCHANGED studyVars
    /\ IF component = "firm" THEN TRUE ELSE UNCHANGED firmVars
    /\ IF component = "agents" THEN TRUE ELSE UNCHANGED agentsVars
    /\ IF component = "desk" THEN TRUE ELSE UNCHANGED deskVars

Next ==
    \/ active = "ingestion" /\ Ingestion!Next /\ Only("ingestion")
    \/ active = "assessment" /\ Assessment!Next /\ Only("assessment")
    \/ active = "study" /\ Study!Next /\ Only("study")
    \/ active = "learning" /\ Learning!Next /\ Only("firm")
    \/ active = "models" /\ WithAdvice!Next /\ Only("firm")
    \/ active = "news" /\ OnNews!Next /\ Only("agents")
    \/ active = "concepts" /\ OnConcepts!Next /\ Only("agents")
    \/ active = "northbound" /\ OnNorthbound!Next /\ Only("agents")
    \/ active = "funds" /\ OnFunds!Next /\ Only("agents")
    \/ active = "liquidity" /\ OnLiquidity!Next /\ Only("agents")
    \/ active = "holders" /\ OnHolders!Next /\ Only("agents")
    \/ active = "reports" /\ OneReport!Next /\ Only("desk")
    \/ active = "candidates" /\ TwoReports!Next /\ Only("desk")

vars == <<active, ingestionVars, assessmentVars, studyVars, firmVars, agentsVars, deskVars>>
Spec == Init /\ [][Next]_vars

-----------------------------------------------------------------------------
TypesOK ==
    /\ active = "ingestion" => Ingestion!TypeOK
    /\ active = "assessment" => Assessment!TypeOK
    /\ active = "study" => Study!TypeOK
    /\ active = "learning" => Learning!TypeOK
    /\ active = "models" => WithAdvice!TypeOK
    /\ active = "news" => OnNews!TypeOK
    /\ active = "concepts" => OnConcepts!TypeOK
    /\ active = "northbound" => OnNorthbound!TypeOK
    /\ active = "funds" => OnFunds!TypeOK
    /\ active = "liquidity" => OnLiquidity!TypeOK
    /\ active = "holders" => OnHolders!TypeOK
    /\ active = "reports" => OneReport!TypeOK
    /\ active = "candidates" => TwoReports!TypeOK

\* What a label or an assessment says of an announcement is from after its publication
\* and about it: a completed run has every event with its full text, published no later
\* than it was available (ingestion.py), an assessment is of its row and its attempts
\* add up (assessment.py), no label uses a bar from before or after its window and the
\* order of the inputs changes none (event_study.py).
PublicWhenUsed ==
    /\ active = "ingestion" => (Ingestion!CompletedIsComplete /\ Ingestion!NotBeforePublication /\ Ingestion!FullTextIsKept /\ Ingestion!ContentIsStable /\ Ingestion!ReportNotAhead)
    /\ active = "assessment" => (Assessment!AttemptsAddUp /\ Assessment!AttemptsAreCalls /\ Assessment!AssessmentIsOfTheRow /\ Assessment!OnlyAnswersAreKept /\ Assessment!RaisesOnlyAfterCrash)
    /\ active = "study" => (Study!NoLookAhead /\ Study!NoStalePrices /\ Study!OrderIndependent /\ Study!EventSafe /\ Study!ArmsReconcile)

\* A judgement does not turn with what should not turn it: better news never lowers
\* a score, the order of rows and reports changes nothing, a table is refused or read
\* whole, conflicts are hedged, and the causes a cycle names are its own.
JudgementsAreSteady ==
    /\ active = "learning" => (Learning!NeverHoldsBack /\ Learning!AttributionIsStable /\ Learning!PrimaryIsWorst)
    /\ active = "models" => WithAdvice!AsksCurrentModels
    /\ active = "news" => OnNews!BetterNewsNeverLowers
    /\ active = "concepts" => OnConcepts!BetterNewsNeverLowers
    /\ active = "northbound" => (OnNorthbound!TablesOrderFree /\ OnNorthbound!SignalsOrderFree /\ OnNorthbound!TargetsRowsOnly)
    /\ active = "funds" => (OnFunds!RefusedOrWhole /\ OnFunds!TargetsRowsOnly /\ OnFunds!CrowdingNeverLifts)
    /\ active = "liquidity" => OnLiquidity!SignalsOrderFree
    /\ active = "holders" => (OnHolders!TablesOrderFree /\ OnHolders!SignalsOrderFree)
    /\ active = "reports" => OneReport!ConflictsAreHedged
    /\ active = "candidates" => (TwoReports!RankingOrderFree /\ TwoReports!NobodyTradesAlone /\ TwoReports!StrongestKept)
====
