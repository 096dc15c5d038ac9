---- MODULE MCPaper ----
(***************************************************************************)
(* Small instances of the components around the paper account: the request *)
(* of the candidate pipeline, the production manifest, the candidates, the *)
(* sizing, the market-reality review, the replay, the signals handed to    *)
(* another trader, the active shadow and the daily evaluation.  They share *)
(* no state: in a behaviour one of them, chosen at the start, is at work.  *)
(***************************************************************************)
EXTENDS Integers, Sequences, FiniteSets, SequencesExt, TLC

CONSTANTS Nil, Abstain, Empty, Torn

VARIABLES
    active,     \* the component at work in this behaviour
    \* PipelineRequest
    requestState, requestReport, requestOutcome, requestCalls,
    \* ProductionBinding
    bindingFiles, bindingTemporary, bindingTarget, bindingBuilder, bindingPassed,
    bindingEdits, bindingOverlapped, bindingAttempt, bindingTries, bindingAccount,
    bindingBook,
    bindingArchive,
    \* CandidateDecision
    decisionCash, decisionHeld, decisionDay, decisionPlan, decisionOrders,
    decisionSessions,
    \* SizingRows
    sizingCash, sizingHeld, sizingDay, sizingRows, sizingSessions,
    \* MarketReality
    realityCash, realityHeld, realityAcquired, realityScenario, realityReview,
    realityMade, realityDay,
    \* PaperReplay
    replayFailFast, replayAllowOddLot, replayCash, replayPosition, replaySellable,
    replayPending, replayProfile, replayDayCash, replayDayPosition, replayResults,
    replaySeen, replaySkipping, replayDays, replayStopped, replayOversold,
    \* SignalBridge
    signalsDay, signalsState, signalsReport, signalsExporter, signalsExports,
    signalsPublisher, signalsJson, signalsCsv, signalsShown,
    \* ActiveShadow
    shadowFinal, shadowTemporary, shadowContent, shadowRun, shadowAttempts, shadowAsked,
    shadowPaid,
    \* DailyEvaluation
    evaluationRevised, evaluationManifest, evaluationLedger, evaluationReport,
    evaluationFinal, evaluationRun, evaluationEdits, evaluationStops

-----------------------------------------------------------------------------
\* Calls of the pipeline: tokens of symbols as they may be spelled, bars, signals.
Tokens == [name : {"s", "t"}, form : {"plain", "short", "blank", "malformed"}]
Price3 == [kind |-> "unspecified", price |-> 3]
Price4 == [kind |-> "unspecified", price |-> 4]
BarOf(name, form, close, provider, buy) ==
    [symbol |-> [name |-> name, form |-> form], close |-> close, provider |-> provider, buy |-> buy]
Bars ==
    {BarOf("s", f, c, p, b) : f \in {"plain", "short"}, c \in {1, 2}, p \in {"p", "q"}, b \in {Price3, Price4}}
    \cup {BarOf("t", "plain", 1, "p", Price3), BarOf("s", "plain", 1, "p", [Price3 EXCEPT !.kind = "malformed"])}
Calls(strategies, days, capitals, symbols, bars, signals, sizings, shadows) ==
    [strategy : strategies, day : days, capital : capitals, symbols : symbols, bars : bars,
     signals : signals, sizing : sizings, shadow : shadows]
Strategy == [name : {"a"}, padded : {FALSE}]
CallsOfSymbols == Calls(Strategy, {1}, {1}, BoundedSeq(Tokens, 2), {<<>>}, {<<>>}, {1}, {1, 2})
CallsOfBars == Calls(Strategy, {1}, {1}, {<<>>}, BoundedSeq(Bars, 2), {<<>>}, {1}, {1})
CallsOfSignals ==
    Calls(Strategy, {1}, {1}, {<<>>, <<[name |-> "s", form |-> "plain"]>>}, {<<>>},
          BoundedSeq([id : {0, 1, 2}, value : {1, 2}], 2), {1, 2}, {1})
CallsOfSessions ==
    Calls([name : {"a"}, padded : BOOLEAN], {1, 2}, {1, 2},
          BoundedSeq([name : {"s"}, form : {"plain", "short"}], 1), {<<>>}, {<<>>}, {1}, {1})

\* Manifests: of another code revision, of more capital, with more positions than
\* symbols executed, with more symbols than the bridge takes.
Plain == [capital |-> 10, symbols |-> 1, positions |-> 1, limit |-> 2,
          profile |-> "paper", terms |-> "low", revision |-> 1]
Patched == [Plain EXCEPT !.revision = 2]
Richer == [Plain EXCEPT !.capital = 20]
Crowded == [Plain EXCEPT !.positions = 3]
Wide == [Plain EXCEPT !.symbols = 3]
Lengths == [m \in {Plain, Patched, Richer, Crowded, Wide} |-> IF m = Richer THEN 2 ELSE 1]
Config(m) == [capital |-> m.capital, symbols |-> m.symbols, positions |-> m.positions,
              limit |-> m.limit, profile |-> m.profile]

\* Sessions of the candidates; c is of a board the account may not trade.
Price == [a |-> 3, b |-> 2, c |-> 2, d |-> 4]
Rankings == {<<"a", "b", "c", "d">>, <<"c", "b", "a", "d">>, <<"d", "a", "b">>, <<"c", "d", "a">>, <<"b", "c", "a">>}
Traded == [s \in DOMAIN Price |-> "traded"]
RowsOfD == {Traded, [Traded EXCEPT !["a"] = "suspended"], [Traded EXCEPT !["b"] = "none"],
            [Traded EXCEPT !["c"] = "no_volume", !["b"] = "suspended"]}
Asks == {Price, [Price EXCEPT !["b"] = 0], [Price EXCEPT !["a"] = 4]}
DayOf(ranked, hard, row, ask) ==
    [ranked |-> ranked, hard |-> hard, row |-> row, price |-> Price, ask |-> ask,
     open |-> [Price EXCEPT !["b"] = 3], absent |-> IF row["b"] = "none" THEN {"c"} ELSE {}]
ManyDays == {DayOf(r, h, w, k) : r \in Rankings, h \in {{}, {"b"}}, w \in RowsOfD, k \in Asks}
FewDays == {DayOf(r, {}, w, Price) : r \in Rankings, w \in RowsOfD}

Assumed == {"cash", "cash_explicit", "limits", "instrument_limits", "risk_flags", "horizon", "rejections",
            "latency", "provider", "audit", "boundaries", "no_live", "permission", "costs", "slippage"}

-----------------------------------------------------------------------------
\* Calls that differ in their symbols, in their bars (also in what the digest leaves
\* out of a bar), in their signals and sizing parameters, or in everything else.
requestVars ==
    <<requestState, requestReport, requestOutcome, requestCalls>>

BySymbols == INSTANCE PipelineRequest WITH
    Requests <- CallsOfSymbols,
    Default <- <<"s">>,
    MaxCalls <- 2,
    state <- requestState, report <- requestReport, outcome <- requestOutcome,
    calls <- requestCalls

ByBars == INSTANCE PipelineRequest WITH
    Requests <- CallsOfBars,
    Default <- <<"s">>,
    MaxCalls <- 2,
    state <- requestState, report <- requestReport, outcome <- requestOutcome,
    calls <- requestCalls

BySignals == INSTANCE PipelineRequest WITH
    Requests <- CallsOfSignals,
    Default <- <<"s">>,
    MaxCalls <- 2,
    state <- requestState, report <- requestReport, outcome <- requestOutcome,
    calls <- requestCalls

BySession == INSTANCE PipelineRequest WITH
    Requests <- CallsOfSessions,
    Default <- <<"s">>,
    MaxCalls <- 4,
    state <- requestState, report <- requestReport, outcome <- requestOutcome,
    calls <- requestCalls

ASSUME BySymbols!RequestsAssumption
ASSUME ByBars!RequestsAssumption
ASSUME BySignals!RequestsAssumption
ASSUME BySession!RequestsAssumption

-----------------------------------------------------------------------------
\* Two attempts at each of two sessions; one attempt and an edited manifest; two
\* builders at once.
bindingVars ==
    <<bindingFiles, bindingTemporary, bindingTarget, bindingBuilder, bindingPassed,
    bindingEdits, bindingOverlapped, bindingAttempt, bindingTries, bindingAccount,
    bindingBook,
    bindingArchive>>

Attempts == INSTANCE ProductionBinding WITH
    Builders <- {"b1"},
    Sessions <- {1, 2},
    Arguments <- {Plain, Patched, Richer},
    Lengths <- Lengths,
    Terms <- {"low", "high"},
    Direct <- {Config(Plain), [Config(Plain) EXCEPT !.symbols = 2], Config(Richer)},
    LiveLimit <- 6,
    MaxTries <- 2,
    MaxEdits <- 0,
    MaxFiles <- 2,
    files <- bindingFiles, temporary <- bindingTemporary, target <- bindingTarget,
    builder <- bindingBuilder, passed <- bindingPassed, edits <- bindingEdits,
    overlapped <- bindingOverlapped,
    attempt <- bindingAttempt, tries <- bindingTries, account <- bindingAccount,
    book <- bindingBook, archive <- bindingArchive

Edited == INSTANCE ProductionBinding WITH
    Builders <- {"b1"},
    Sessions <- {1},
    Arguments <- {Plain, Richer, Crowded, Wide},
    Lengths <- Lengths,
    Terms <- {"low", "high"},
    Direct <- {Config(Plain), [Config(Plain) EXCEPT !.symbols = 2], Config(Richer)},
    LiveLimit <- 6,
    MaxTries <- 1,
    MaxEdits <- 1,
    MaxFiles <- 2,
    files <- bindingFiles, temporary <- bindingTemporary, target <- bindingTarget,
    builder <- bindingBuilder, passed <- bindingPassed, edits <- bindingEdits,
    overlapped <- bindingOverlapped,
    attempt <- bindingAttempt, tries <- bindingTries, account <- bindingAccount,
    book <- bindingBook, archive <- bindingArchive

Rival == INSTANCE ProductionBinding WITH
    Builders <- {"b1", "b2"},
    Sessions <- {1},
    Arguments <- {Plain, Richer},
    Lengths <- Lengths,
    Terms <- {"low"},
    Direct <- {Config(Plain), [Config(Plain) EXCEPT !.symbols = 2], Config(Richer)},
    LiveLimit <- 6,
    MaxTries <- 1,
    MaxEdits <- 0,
    MaxFiles <- 2,
    files <- bindingFiles, temporary <- bindingTemporary, target <- bindingTarget,
    builder <- bindingBuilder, passed <- bindingPassed, edits <- bindingEdits,
    overlapped <- bindingOverlapped,
    attempt <- bindingAttempt, tries <- bindingTries, account <- bindingAccount,
    book <- bindingBook, archive <- bindingArchive

ASSUME Attempts!BindingAssumption
ASSUME Edited!BindingAssumption
ASSUME Rival!BindingAssumption

-----------------------------------------------------------------------------
\* Four symbols of which an account may buy three; two selected of four.
decisionVars ==
    <<decisionCash, decisionHeld, decisionDay, decisionPlan, decisionOrders,
    decisionSessions>>

ForAccount == INSTANCE CandidateDecision WITH
    Symbols <- {"a", "b", "c", "d"},
    Days <- ManyDays,
    MaxExecution <- 3,
    TargetSymbols <- 1,
    TargetPositions <- 2,
    AccountAware <- TRUE,
    Permitted <- {"a", "b", "d"},
    Fee <- 1,
    ReservePercent <- 10,
    MaxWeightPercent <- 40,
    InitialCash <- 14,
    MaxSessions <- 3,
    Nil <- Nil,
    cash <- decisionCash, held <- decisionHeld, day <- decisionDay,
    plan <- decisionPlan, orders <- decisionOrders, sessions <- decisionSessions

ForStrategy == INSTANCE CandidateDecision WITH
    Symbols <- {"a", "b", "c", "d"},
    Days <- FewDays,
    MaxExecution <- 2,
    TargetSymbols <- 2,
    TargetPositions <- 2,
    AccountAware <- FALSE,
    Permitted <- {"a", "b", "d"},
    Fee <- 1,
    ReservePercent <- 10,
    MaxWeightPercent <- 40,
    InitialCash <- 14,
    MaxSessions <- 3,
    Nil <- Nil,
    cash <- decisionCash, held <- decisionHeld, day <- decisionDay,
    plan <- decisionPlan, orders <- decisionOrders, sessions <- decisionSessions

ASSUME ForAccount!ModeAssumption
ASSUME ForStrategy!ModeAssumption
ASSUME ForAccount!CapAssumption
ASSUME ForStrategy!CapAssumption
ASSUME ForAccount!DaysAssumption
ASSUME ForStrategy!DaysAssumption

-----------------------------------------------------------------------------
\* Two symbols, two sessions.
sizingVars ==
    <<sizingCash, sizingHeld, sizingDay, sizingRows, sizingSessions>>

Sizing == INSTANCE SizingRows WITH
    Symbols <- {"s1", "s2"},
    Prices <- {1, 2},
    Notionals <- {5, 9},
    Lot <- 2,
    Fee <- 1,
    ReservePercent <- 10,
    MaxWeightPercent <- 40,
    TargetPositions <- 2,
    InitialCash <- 14,
    MaxSessions <- 2,
    Nil <- Nil,
    cash <- sizingCash, held <- sizingHeld, day <- sizingDay, rows <- sizingRows,
    sessions <- sizingSessions

ASSUME Sizing!SizingAssumption

-----------------------------------------------------------------------------
\* Orders over two days; a scenario that lacks some of its assumptions.
realityVars ==
    <<realityCash, realityHeld, realityAcquired, realityScenario, realityReview,
    realityMade, realityDay>>

Orders == INSTANCE MarketReality WITH
    Gate <- {"rules", "sandbox"},
    Boards <- {"main", "star"},
    Quantities <- {0, 1, 2, 4},
    Limits <- {0, 8, 9, 11, 12},
    PreviousClose <- 10,
    LotSizes <- {2},
    LotSwitches <- {TRUE},
    Withheld <- {},
    MaxOrderNotional <- 60,
    UsageRatio <- 8,
    Reserve <- 15,
    Fee <- 2,
    InitialCash <- 90,
    MaxOrders <- 4,
    MaxDays <- 1,
    cash <- realityCash, held <- realityHeld, acquired <- realityAcquired,
    scenario <- realityScenario, review <- realityReview, made <- realityMade,
    day <- realityDay

Assumptions == INSTANCE MarketReality WITH
    Gate <- {"sandbox"},
    Boards <- {"main", "unknown"},
    Quantities <- {2, 3, 6},
    Limits <- {9, 11},
    PreviousClose <- 10,
    LotSizes <- {0, 2},
    LotSwitches <- {TRUE, FALSE},
    Withheld <- Assumed,
    MaxOrderNotional <- 60,
    UsageRatio <- 8,
    Reserve <- 15,
    Fee <- 2,
    InitialCash <- 90,
    MaxOrders <- 1,
    MaxDays <- 1,
    cash <- realityCash, held <- realityHeld, acquired <- realityAcquired,
    scenario <- realityScenario, review <- realityReview, made <- realityMade,
    day <- realityDay

ASSUME Orders!RealityAssumption
ASSUME Assumptions!RealityAssumption

-----------------------------------------------------------------------------
\* Two days of up to three instructions, a sale whose fees exceed its proceeds
\* among them; one day whose ids repeat.
replayVars ==
    <<replayFailFast, replayAllowOddLot, replayCash, replayPosition, replaySellable,
    replayPending, replayProfile, replayDayCash, replayDayPosition, replayResults,
    replaySeen, replaySkipping, replayDays, replayStopped, replayOversold>>

Replay == INSTANCE PaperReplay WITH
    Symbols <- {"s"},
    Ids <- {"i1", "i2", "i3"},
    Validated <- TRUE,
    Lot <- 2,
    Quantities <- {1, 2},
    Price <- 2,
    MinCommission <- 2,
    StampTax <- 1,
    InitialCash <- {6},
    MaxPosition <- 1,
    MaxDays <- 2,
    MaxInstructions <- 3,
    failFast <- replayFailFast, allowOddLot <- replayAllowOddLot, cash <- replayCash,
    position <- replayPosition, sellable <- replaySellable, pending <- replayPending,
    profile <- replayProfile, dayCash <- replayDayCash,
    dayPosition <- replayDayPosition, results <- replayResults, seen <- replaySeen,
    skipping <- replaySkipping, days <- replayDays, stopped <- replayStopped,
    oversold <- replayOversold

Repeated == INSTANCE PaperReplay WITH
    Symbols <- {"s"},
    Ids <- {"i1", "i2"},
    Validated <- FALSE,
    Lot <- 2,
    Quantities <- {2},
    Price <- 2,
    MinCommission <- 1,
    StampTax <- 1,
    InitialCash <- {9},
    MaxPosition <- 1,
    MaxDays <- 1,
    MaxInstructions <- 3,
    failFast <- replayFailFast, allowOddLot <- replayAllowOddLot, cash <- replayCash,
    position <- replayPosition, sellable <- replaySellable, pending <- replayPending,
    profile <- replayProfile, dayCash <- replayDayCash,
    dayPosition <- replayDayPosition, results <- replayResults, seen <- replaySeen,
    skipping <- replaySkipping, days <- replayDays, stopped <- replayStopped,
    oversold <- replayOversold

ASSUME Replay!ReplayAssumption
ASSUME Repeated!ReplayAssumption

-----------------------------------------------------------------------------
\* One symbol, two days; the positions from the report, or from the state file.
signalsVars ==
    <<signalsDay, signalsState, signalsReport, signalsExporter, signalsExports,
    signalsPublisher, signalsJson, signalsCsv, signalsShown>>

Bridge == INSTANCE SignalBridge WITH
    Symbols <- {"s1"},
    Directions <- {"none", "long", "short"},
    MaxDay <- 2,
    MaxExports <- 2,
    MaxAge <- 1,
    WithState <- FALSE,
    Nil <- Nil,
    day <- signalsDay, state <- signalsState, report <- signalsReport,
    exporter <- signalsExporter, exports <- signalsExports,
    publisher <- signalsPublisher, json <- signalsJson,
    csv <- signalsCsv, shown <- signalsShown

StateBridge == INSTANCE SignalBridge WITH
    Symbols <- {"s1"},
    Directions <- {"short"},
    MaxDay <- 3,
    MaxExports <- 1,
    MaxAge <- 1,
    WithState <- TRUE,
    Nil <- Nil,
    day <- signalsDay, state <- signalsState, report <- signalsReport,
    exporter <- signalsExporter, exports <- signalsExports,
    publisher <- signalsPublisher, json <- signalsJson,
    csv <- signalsCsv, shown <- signalsShown

ASSUME Bridge!DaysAssumption
ASSUME StateBridge!DaysAssumption
ASSUME Bridge!DirectionsAssumption

-----------------------------------------------------------------------------
\* One run that is repeated, two runs at the same time.
shadowVars ==
    <<shadowFinal, shadowTemporary, shadowContent, shadowRun, shadowAttempts,
    shadowAsked, shadowPaid>>

Repeats == INSTANCE ActiveShadow WITH
    AllowedRoles <- <<"research_desk", "investment_committee", "risk_desk">>,
    Committee <- "investment_committee",
    Evidences <- {"v1", "v2"},
    Runs <- {"r1"},
    Live <- TRUE,
    MaxCalls <- 3,
    MaxCost <- 4,
    CallCost <- 2,
    PromptFits <- TRUE,
    MaxAttempts <- 3,
    Nil <- Nil,
    Abstain <- Abstain,
    Empty <- Empty,
    Torn <- Torn,
    final <- shadowFinal, temporary <- shadowTemporary, content <- shadowContent,
    run <- shadowRun, attempts <- shadowAttempts, asked <- shadowAsked,
    paid <- shadowPaid

Overlap == INSTANCE ActiveShadow WITH
    AllowedRoles <- <<"investment_committee">>,
    Committee <- "investment_committee",
    Evidences <- {"v1", "v2"},
    Runs <- {"r1", "r2"},
    Live <- TRUE,
    MaxCalls <- 1,
    MaxCost <- 2,
    CallCost <- 1,
    PromptFits <- TRUE,
    MaxAttempts <- 2,
    Nil <- Nil,
    Abstain <- Abstain,
    Empty <- Empty,
    Torn <- Torn,
    final <- shadowFinal, temporary <- shadowTemporary, content <- shadowContent,
    run <- shadowRun, attempts <- shadowAttempts, asked <- shadowAsked,
    paid <- shadowPaid

ASSUME Repeats!ShadowAssumption
ASSUME Repeats!Alone
ASSUME Overlap!ShadowAssumption

-----------------------------------------------------------------------------
\* Two requests, two capitals, two sessions.
evaluationVars ==
    <<evaluationRevised, evaluationManifest, evaluationLedger, evaluationReport,
    evaluationFinal, evaluationRun, evaluationEdits, evaluationStops>>

Evaluation == INSTANCE DailyEvaluation WITH
    Requests <- {"q1", "q2"},
    NCapitals <- 2,
    LastDay <- 2,
    Live <- TRUE,
    Edits <- {"lost", "cut", "altered"},
    MaxEdits <- 1,
    MaxStops <- 2,
    revised <- evaluationRevised, manifest <- evaluationManifest,
    ledger <- evaluationLedger, report <- evaluationReport, final <- evaluationFinal,
    run <- evaluationRun, edits <- evaluationEdits, stops <- evaluationStops

ASSUME Evaluation!EvaluationAssumption

-----------------------------------------------------------------------------
\* The variables of the components that are not at work.

requestIdle ==
    /\ requestState = 0 /\ requestReport = 0 /\ requestOutcome = 0 /\ requestCalls = 0
bindingIdle ==
    /\ bindingFiles = 0 /\ bindingTemporary = 0 /\ bindingTarget = 0
    /\ bindingBuilder = 0 /\ bindingPassed = 0 /\ bindingEdits = 0 /\ bindingAttempt = 0
    /\ bindingOverlapped = 0
    /\ bindingTries = 0 /\ bindingAccount = 0 /\ bindingBook = 0 /\ bindingArchive = 0
decisionIdle ==
    /\ decisionCash = 0 /\ decisionHeld = 0 /\ decisionDay = 0 /\ decisionPlan = 0
    /\ decisionOrders = 0 /\ decisionSessions = 0
sizingIdle ==
    /\ sizingCash = 0 /\ sizingHeld = 0 /\ sizingDay = 0 /\ sizingRows = 0
    /\ sizingSessions = 0
realityIdle ==
    /\ realityCash = 0 /\ realityHeld = 0 /\ realityAcquired = 0 /\ realityScenario = 0
    /\ realityReview = 0 /\ realityMade = 0 /\ realityDay = 0
replayIdle ==
    /\ replayFailFast = 0 /\ replayAllowOddLot = 0 /\ replayCash = 0
    /\ replayPosition = 0 /\ replaySellable = 0 /\ replayPending = 0
    /\ replayProfile = 0 /\ replayDayCash = 0 /\ replayDayPosition = 0
    /\ replayResults = 0 /\ replaySeen = 0 /\ replaySkipping = 0 /\ replayDays = 0
    /\ replayStopped = 0 /\ replayOversold = 0
signalsIdle ==
    /\ signalsDay = 0 /\ signalsState = 0 /\ signalsReport = 0 /\ signalsExporter = 0
    /\ signalsExports = 0 /\ signalsPublisher = 0 /\ signalsJson = 0 /\ signalsCsv = 0 /\ signalsShown = 0
shadowIdle ==
    /\ shadowFinal = 0 /\ shadowTemporary = 0 /\ shadowContent = 0 /\ shadowRun = 0
    /\ shadowAttempts = 0 /\ shadowAsked = 0 /\ shadowPaid = 0
evaluationIdle ==
    /\ evaluationRevised = 0 /\ evaluationManifest = 0 /\ evaluationLedger = 0
    /\ evaluationReport = 0 /\ evaluationFinal = 0 /\ evaluationRun = 0
    /\ evaluationEdits = 0 /\ evaluationStops = 0

Init ==
    /\ active \in
        {"symbols", "bars", "signals", "sessions", "attempts", "edited", "rival", "account",
        "strategy", "sizing", "orders", "assumptions", "replay", "repeated", "bridge", "states",
        "repeats", "overlap", "evaluation"}
    /\ IF active = "symbols" THEN BySymbols!Init
       ELSE IF active = "bars" THEN ByBars!Init
       ELSE IF active = "signals" THEN BySignals!Init
       ELSE IF active = "sessions" THEN BySession!Init
       ELSE requestIdle
    /\ IF active = "attempts" THEN Attempts!Init
       ELSE IF active = "edited" THEN Edited!Init
       ELSE IF active = "rival" THEN Rival!Init
       ELSE bindingIdle
    /\ IF active = "account" THEN ForAccount!Init
       ELSE IF active = "strategy" THEN ForStrategy!Init
       ELSE decisionIdle
    /\ IF active = "sizing" THEN Sizing!Init
       ELSE sizingIdle
    /\ IF active = "orders" THEN Orders!Init
       ELSE IF active = "assumptions" THEN Assumptions!Init
       ELSE realityIdle
    /\ IF active = "replay" THEN Replay!Init
       ELSE IF active = "repeated" THEN Repeated!Init
       ELSE replayIdle
    /\ IF active = "bridge" THEN Bridge!Init
       ELSE IF active = "states" THEN StateBridge!Init
       ELSE signalsIdle
    /\ IF active = "repeats" THEN Repeats!Init
       ELSE IF active = "overlap" THEN Overlap!Init
       ELSE shadowIdle
    /\ IF active = "evaluation" THEN Evaluation!Init
       ELSE evaluationIdle

\* A step of one component changes no variable of another.
Only(component) ==
    /\ UNCHANGED active
    /\ IF component = "request" THEN TRUE ELSE UNCHANGED requestVars
    /\ IF component = "binding" THEN TRUE ELSE UNCHANGED bindingVars
    /\ IF component = "decision" THEN TRUE ELSE UNCHANGED decisionVars
    /\ IF component = "sizing" THEN TRUE ELSE UNCHANGED sizingVars
    /\ IF component = "reality" THEN TRUE ELSE UNCHANGED realityVars
    /\ IF component = "replay" THEN TRUE ELSE UNCHANGED replayVars
    /\ IF component = "signals" THEN TRUE ELSE UNCHANGED signalsVars
    /\ IF component = "shadow" THEN TRUE ELSE UNCHANGED shadowVars
    /\ IF component = "evaluation" THEN TRUE ELSE UNCHANGED evaluationVars

Next ==
    \/ active = "symbols" /\ BySymbols!Next /\ Only("request")
    \/ active = "bars" /\ ByBars!Next /\ Only("request")
    \/ active = "signals" /\ BySignals!Next /\ Only("request")
    \/ active = "sessions" /\ BySession!Next /\ Only("request")
    \/ active = "attempts" /\ Attempts!Next /\ Only("binding")
    \/ active = "edited" /\ Edited!Next /\ Only("binding")
    \/ active = "rival" /\ Rival!Next /\ Only("binding")
    \/ active = "account" /\ ForAccount!Next /\ Only("decision")
    \/ active = "strategy" /\ ForStrategy!Next /\ Only("decision")
    \/ active = "sizing" /\ Sizing!Next /\ Only("sizing")
    \/ active = "orders" /\ Orders!Next /\ Only("reality")
    \/ active = "assumptions" /\ Assumptions!Next /\ Only("reality")
    \/ active = "replay" /\ Replay!Next /\ Only("replay")
    \/ active = "repeated" /\ Repeated!Next /\ Only("replay")
    \/ active = "bridge" /\ Bridge!Next /\ Only("signals")
    \/ active = "states" /\ StateBridge!Next /\ Only("signals")
    \/ active = "repeats" /\ Repeats!Next /\ Only("shadow")
    \/ active = "overlap" /\ Overlap!Next /\ Only("shadow")
    \/ active = "evaluation" /\ Evaluation!Next /\ Only("evaluation")

vars == <<active, requestVars, bindingVars, decisionVars, sizingVars, realityVars, replayVars,
signalsVars, shadowVars, evaluationVars>>
Spec == Init /\ [][Next]_vars

-----------------------------------------------------------------------------
TypesOK ==
    /\ active = "symbols" => BySymbols!TypeOK
    /\ active = "bars" => ByBars!TypeOK
    /\ active = "signals" => BySignals!TypeOK
    /\ active = "sessions" => BySession!TypeOK
    /\ active = "attempts" => Attempts!TypeOK
    /\ active = "edited" => Edited!TypeOK
    /\ active = "rival" => Rival!TypeOK
    /\ active = "account" => ForAccount!TypeOK
    /\ active = "strategy" => ForStrategy!TypeOK
    /\ active = "sizing" => Sizing!TypeOK
    /\ active = "orders" => Orders!TypeOK
    /\ active = "assumptions" => Assumptions!TypeOK
    /\ active = "replay" => Replay!TypeOK
    /\ active = "repeated" => Repeated!TypeOK
    /\ active = "bridge" => Bridge!TypeOK
    /\ active = "states" => StateBridge!TypeOK
    /\ active = "repeats" => Repeats!TypeOK
    /\ active = "overlap" => Overlap!TypeOK
    /\ active = "evaluation" => Evaluation!TypeOK

\* What is asked for again gives what it gave: an equivalent request replays its
\* session and says the same (_config_hash, _session_for), an attempt runs the
\* manifest as it was built, unless two builders overlapped in it, and archives the
\* one it ran, an advice is paid for once and is about its evidence, an evaluation
\* goes on in the chain it began.
RepeatsAgree ==
    /\ active = "symbols" => BySymbols!EquivalentReplays
    /\ active = "bars" => (ByBars!EquivalentReplays /\ ByBars!ReplaysSaidTheSame)
    /\ active = "signals" => (BySignals!EquivalentReplays /\ BySignals!ReplaysSaidTheSame)
    /\ active = "sessions" => (BySession!OneSessionADay /\ BySession!ReportIsTheSessions)
    /\ active = "attempts" => (Attempts!RunsAsBuilt /\ Attempts!CapitalIsTheAccounts /\ Attempts!ArchivedAsRun /\ Attempts!PublishedIsWhole)
    /\ active = "edited" => Edited!RunsAsBuilt
    /\ active = "rival" => (Rival!RunsAsBuilt /\ Rival!ArchivedAsRun /\ Rival!PublishedIsWhole)
    /\ active = "repeats" => (Repeats!AdviceIsOfItsEvidence /\ Repeats!BudgetKept /\ Repeats!OutcomesExplained /\ Repeats!PaidOnce)
    /\ active = "overlap" => (Overlap!AdviceIsOfItsEvidence /\ Overlap!BudgetKept /\ Overlap!OutcomesExplained)
    /\ active = "evaluation" => (Evaluation!StartIsBeforeFirst /\ Evaluation!ChainUnbroken /\ Evaluation!UniformEvidence /\ Evaluation!OneRequest)

\* No decision asks for more than the account of that day has: what is sold was
\* sellable (a second sale of a symbol in the replay apart), what is bought is paid
\* for and leaves the reserve, an instruction is carried out once, and every position
\* given up or made smaller has its reason.
AccountsAreHonest ==
    /\ active = "account" => (ForAccount!NeverTooMany /\ ForAccount!NoMoreThanSelected /\ ForAccount!NoBetterLeftOut /\ ForAccount!BuysAreAllowed /\ ForAccount!Diversified /\ ForAccount!DropoutsExit)
    /\ active = "strategy" => (ForStrategy!NeverTooMany /\ ForStrategy!BuysAreAllowed /\ ForStrategy!DropoutsExit)
    /\ active = "sizing" => (Sizing!ReductionsAreExplained /\ Sizing!NothingIsMissed /\ Sizing!WithinTheReserve)
    /\ active = "orders" => (Orders!ReserveKept /\ Orders!BoughtTodayIsKept /\ Orders!SmallerNeverWorse)
    /\ active = "assumptions" => Assumptions!MissingNeverHelps
    /\ active = "replay" => (Replay!SoldWasSellable /\ Replay!SellableIsHeld /\ Replay!StopsForGood)
    /\ active = "repeated" => Repeated!OnceEach
    /\ active = "bridge" => Bridge!SellIsLegal
    /\ active = "states" => StateBridge!SellIsLegal

\* Steps: a blocked day leaves the account (replay_day), a position shrinks only as
\* the exit of a dropout with its evidence (_decide), the final summary repeats the
\* session reports and a readable report is never written again (evaluator).
StepsAreHonest ==
    [][/\ active = "replay" => Replay!BlockedLeavesAccount /\ Replay!OnlyFeesOverdraw
       /\ active = "strategy" => ForStrategy!SoldOnlyDropouts
       /\ active = "account" => ForAccount!SoldOnlyDropouts
       /\ active = "evaluation" => Evaluation!FinalIsCertified /\ Evaluation!ReadableIsKept]_vars
====
