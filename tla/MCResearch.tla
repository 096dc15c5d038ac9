---- MODULE MCResearch ----
(***************************************************************************)
(* Small instances of the research side: the canonical snapshot, the       *)
(* walk-forward harness, the rebalancing windows, the training folds, the  *)
(* parameter sweeps and the A-share reality audit.  They share no state:   *)
(* in a behaviour one of them, chosen at the start, is at work.            *)
(***************************************************************************)
EXTENDS Integers, Sequences, FiniteSets, SequencesExt, TLC

CONSTANTS Raised, None

VARIABLES
    active,     \* the component at work in this behaviour
    \* CanonicalSnapshot
    snapshotFile, snapshotTemp, snapshotJob, snapshotLoaded, snapshotHadGood,
    snapshotBuilds,
    \* WalkForward
    forwardInput, forwardWindows, forwardCurrent, forwardNext, forwardAccount,
    forwardOpening, forwardTopN, forwardLearned, forwardLog, forwardResults,
    forwardStatus,
    \* RebalanceWindows
    rebalancePhase, rebalanceWindow, rebalanceCloses, rebalanceScore, rebalanceCash,
    rebalanceHeld, rebalanceSince, rebalanceSelected, rebalanceNotes, rebalanceOrders,
    rebalanceRejected,
    \* FoldTraining
    foldsPhase, foldsInput, foldsFolds, foldsAt, foldsKept, foldsAudit, foldsFit,
    foldsScenario, foldsBase, foldsResults, foldsReason,
    \* ParameterSweep
    sweepMarket, sweepFrame, sweepRows, sweepResult,
    \* RealityAudit
    auditPhase, auditWindow, auditRows, auditAlike, auditScore, auditSelected,
    auditBook, auditOutcomes, auditReport

-----------------------------------------------------------------------------
CanonOfName == [n \in {"a", "A", "b"} |-> IF n = "A" THEN "a" ELSE n]

\* Rows and evidence a caller hands to the harness, with or without a date.
SomeSignals ==
    {{}, {[day |-> 1, dated |-> TRUE], [day |-> 3, dated |-> TRUE]}, {[day |-> 3, dated |-> FALSE]}}
SomeEvidence == {{}, {[day |-> 3, dated |-> TRUE]}, {[day |-> 3, dated |-> FALSE]}}

\* Windows over three sessions a caller may hand over: any, or those in order.
AnyWindow == [trainStart : 1..3, trainEnd : 1..3, testStart : 1..3, testEnd : 1..3]
InOrder == {w \in AnyWindow : w.trainStart <= w.trainEnd /\ w.trainEnd < w.testStart /\ w.testStart <= w.testEnd}

\* Windows of one session, accounts and turnover controls.
Whole(symbols, prices) == {[s \in symbols |-> <<p[s]>>] : p \in [symbols -> prices]}
Nothing == [s \in {"a", "b"} |-> 0]
Cash == [cash |-> 100, held |-> Nothing]
Odd == {Cash, [cash |-> 60, held |-> [Nothing EXCEPT !["a"] = 7]], [cash |-> 90, held |-> [Nothing EXCEPT !["b"] = 4]]}
Tight == {[cash |-> 20, held |-> [Nothing EXCEPT !["a"] = 10]]}
Full == {[cash |-> 40, held |-> [s \in {"a", "b", "c"} |-> q]] : q \in {0, 4}}
Holding == {Cash, [cash |-> 60, held |-> [Nothing EXCEPT !["a"] = 10]]}
Off == [enabled |-> FALSE, entry |-> 1, exit |-> 1, gain |-> 0, band |-> 0, minimum |-> 0, holding |-> 0]
Switch == [enabled |-> TRUE, entry |-> 1, exit |-> 1, gain |-> 1, band |-> 15, minimum |-> 16, holding |-> 1]
Filter == [enabled |-> TRUE, entry |-> 2, exit |-> 2, gain |-> 0, band |-> 0, minimum |-> 16, holding |-> 1]
Hold == [enabled |-> TRUE, entry |-> 1, exit |-> 1, gain |-> 0, band |-> 0, minimum |-> 0, holding |-> 2]

\* Histories: symbols listed late, taken off early, there throughout, or suspended
\* for a session or two.
Listings(n) == {1 .. n, 4 .. n, 1 .. n - 3}
ListingsOf(n, patterns) == {h \in [{"a", "b", "c"} -> patterns] : UNION {h[s] : s \in DOMAIN h} = 1 .. n}
Regular == UNION {ListingsOf(n, Listings(n) \cup {{}}) : n \in {9, 12, 13}}
Brief == UNION {ListingsOf(n, Listings(n)) : n \in {8, 10, 11}}
Suspended(n, gaps) ==
    {[s \in {"a", "b", "c"} |-> IF s = "c" THEN (1 .. n) \ gap ELSE 1 .. n] : gap \in gaps}
FoldFits == {f \in [{"a", "b", "c"} -> 0 .. 3] : f["a"] = 1 /\ f["b"] \in {0, 2} /\ f["c"] # 2}

\* Closes of a sweep, one symbol with a gap or without any; its grids.
Closes == {[d \in 1..4 |-> 1 + (d % 2)], [d \in 1..4 |-> IF d = 3 THEN 4 ELSE 2], [d \in 1..4 |-> 0]}
ClosesOf == {("a" :> f) @@ ("b" :> g) : f \in Closes, g \in [1..4 -> {0, 1, 2}]}
TwoSets == <<[target |-> 10, weight |-> 10], [target |-> 20, weight |-> 5]>>
LooseSets == <<[target |-> 10, weight |-> 10], [target |-> 0, weight |-> 5]>>

\* Market rows: traded, thin, at a limit, suspended, with fields left out.
Every == {"suspension", "limits", "volume"}
MarketRow(close, volume, pinned, suspended, known) ==
    [close |-> close, volume |-> volume, pinned |-> pinned, suspended |-> suspended, known |-> known]
MarketRows ==
    {MarketRow(2, 200, "no", FALSE, Every), MarketRow(3, 60, "no", FALSE, Every), MarketRow(3, 10, "buy", FALSE, Every),
     MarketRow(2, 90, "sell", FALSE, Every), MarketRow(2, 0, "no", TRUE, Every),
     MarketRow(5, 200, "buy", TRUE, {"volume"}), MarketRow(0, 200, "no", FALSE, {"volume"})}
FewRows == {r \in MarketRows : r.close # 0 /\ r.volume > 50}

-----------------------------------------------------------------------------
\* "A" is another name of "a".
snapshotVars ==
    <<snapshotFile, snapshotTemp, snapshotJob, snapshotLoaded, snapshotHadGood,
    snapshotBuilds>>

Builds == INSTANCE CanonicalSnapshot WITH
    Requests <- {<<"a">>, <<"A">>, <<"a", "b">>, <<"a", "a">>},
    CanonOf <- CanonOfName,
    Benchmarks <- {"index", "other"},
    Default <- "index",
    MaxBuilds <- 1,
    file <- snapshotFile, temp <- snapshotTemp, job <- snapshotJob,
    loaded <- snapshotLoaded, hadGood <- snapshotHadGood, builds <- snapshotBuilds

ASSUME Builds!SnapshotAssumption

-----------------------------------------------------------------------------
\* Windows of a calendar, of a frame, of a caller with the evidence it hands over.
forwardVars ==
    <<forwardInput, forwardWindows, forwardCurrent, forwardNext, forwardAccount,
    forwardOpening, forwardTopN, forwardLearned, forwardLog, forwardResults,
    forwardStatus>>

OfCalendar == INSTANCE WalkForward WITH
    LastDay <- 7,
    Source <- "calendar",
    Given <- {},
    TrainSizes <- {1, 2},
    TestSizes <- {1, 2},
    WindowCounts <- {1, 2, 3},
    SignalSets <- {{}},
    EvidenceSets <- {{}},
    Gains <- {-1, 2},
    Capital <- 5,
    input <- forwardInput, windows <- forwardWindows, current <- forwardCurrent,
    next <- forwardNext, account <- forwardAccount, opening <- forwardOpening,
    topN <- forwardTopN, learned <- forwardLearned, log <- forwardLog,
    results <- forwardResults, status <- forwardStatus

OfFrame == INSTANCE WalkForward WITH
    LastDay <- 7,
    Source <- "frame",
    Given <- {},
    TrainSizes <- {1, 2},
    TestSizes <- {1, 2},
    WindowCounts <- {1, 2, 3},
    SignalSets <- SomeSignals,
    EvidenceSets <- {{}},
    Gains <- {-1, 2},
    Capital <- 5,
    input <- forwardInput, windows <- forwardWindows, current <- forwardCurrent,
    next <- forwardNext, account <- forwardAccount, opening <- forwardOpening,
    topN <- forwardTopN, learned <- forwardLearned, log <- forwardLog,
    results <- forwardResults, status <- forwardStatus

OfCaller == INSTANCE WalkForward WITH
    LastDay <- 3,
    Source <- "caller",
    Given <- AnyWindow,
    TrainSizes <- {1, 2},
    TestSizes <- {1, 2},
    WindowCounts <- {1},
    SignalSets <- SomeSignals,
    EvidenceSets <- SomeEvidence,
    Gains <- {-1, 2},
    Capital <- 5,
    input <- forwardInput, windows <- forwardWindows, current <- forwardCurrent,
    next <- forwardNext, account <- forwardAccount, opening <- forwardOpening,
    topN <- forwardTopN, learned <- forwardLearned, log <- forwardLog,
    results <- forwardResults, status <- forwardStatus

Overlapping == INSTANCE WalkForward WITH
    LastDay <- 3,
    Source <- "caller",
    Given <- InOrder,
    TrainSizes <- {1, 2},
    TestSizes <- {1, 2},
    WindowCounts <- {2},
    SignalSets <- {{}, {[day |-> 3, dated |-> FALSE]}},
    EvidenceSets <- {{}},
    Gains <- {-1},
    Capital <- 5,
    input <- forwardInput, windows <- forwardWindows, current <- forwardCurrent,
    next <- forwardNext, account <- forwardAccount, opening <- forwardOpening,
    topN <- forwardTopN, learned <- forwardLearned, log <- forwardLog,
    results <- forwardResults, status <- forwardStatus

ASSUME OfCalendar!WalkForwardAssumption
ASSUME OfFrame!WalkForwardAssumption
ASSUME OfCaller!WalkForwardAssumption
ASSUME Overlapping!WalkForwardAssumption

-----------------------------------------------------------------------------
\* Two symbols from cash, two with turnover controls and a holding, two whose sells
\* are too small for the controls, three with a holding period.
rebalanceVars ==
    <<rebalancePhase, rebalanceWindow, rebalanceCloses, rebalanceScore, rebalanceCash,
    rebalanceHeld, rebalanceSince, rebalanceSelected, rebalanceNotes, rebalanceOrders,
    rebalanceRejected>>

FromCash == INSTANCE RebalanceWindows WITH
    Symbols <- <<"a", "b">>,
    Frames <- Whole({"a", "b"}, {0, 2, 5}),
    Scores <- {1, 3},
    NoScore <- 0,
    RanksUnscored <- TRUE,
    Windows <- 3,
    Accounts <- {Cash},
    Lot <- 2,
    TargetCount <- 2,
    MaxWeight <- 60,
    ReserveWeight <- 4,
    MinFee <- 1,
    SellTax <- 10,
    Policy <- Off,
    phase <- rebalancePhase, window <- rebalanceWindow, closes <- rebalanceCloses,
    score <- rebalanceScore, cash <- rebalanceCash, held <- rebalanceHeld,
    since <- rebalanceSince, selected <- rebalanceSelected, notes <- rebalanceNotes,
    orders <- rebalanceOrders, rejected <- rebalanceRejected

Controlled == INSTANCE RebalanceWindows WITH
    Symbols <- <<"a", "b">>,
    Frames <- Whole({"a", "b"}, {0, 2, 5}),
    Scores <- {1, 3},
    NoScore <- 0,
    RanksUnscored <- TRUE,
    Windows <- 3,
    Accounts <- Odd,
    Lot <- 2,
    TargetCount <- 1,
    MaxWeight <- 60,
    ReserveWeight <- 10,
    MinFee <- 1,
    SellTax <- 10,
    Policy <- Switch,
    phase <- rebalancePhase, window <- rebalanceWindow, closes <- rebalanceCloses,
    score <- rebalanceScore, cash <- rebalanceCash, held <- rebalanceHeld,
    since <- rebalanceSince, selected <- rebalanceSelected, notes <- rebalanceNotes,
    orders <- rebalanceOrders, rejected <- rebalanceRejected

Withheld == INSTANCE RebalanceWindows WITH
    Symbols <- <<"a", "b">>,
    Frames <- Whole({"a", "b"}, {0, 2, 5}),
    Scores <- {1, 3},
    NoScore <- 0,
    RanksUnscored <- TRUE,
    Windows <- 2,
    Accounts <- Tight,
    Lot <- 2,
    TargetCount <- 2,
    MaxWeight <- 60,
    ReserveWeight <- 10,
    MinFee <- 1,
    SellTax <- 10,
    Policy <- Filter,
    phase <- rebalancePhase, window <- rebalanceWindow, closes <- rebalanceCloses,
    score <- rebalanceScore, cash <- rebalanceCash, held <- rebalanceHeld,
    since <- rebalanceSince, selected <- rebalanceSelected, notes <- rebalanceNotes,
    orders <- rebalanceOrders, rejected <- rebalanceRejected

Kept == INSTANCE RebalanceWindows WITH
    Symbols <- <<"a", "b", "c">>,
    Frames <- Whole({"a", "b", "c"}, {0, 3}),
    Scores <- {1, 3},
    NoScore <- 0,
    RanksUnscored <- TRUE,
    Windows <- 3,
    Accounts <- Full,
    Lot <- 2,
    TargetCount <- 2,
    MaxWeight <- 60,
    ReserveWeight <- 10,
    MinFee <- 1,
    SellTax <- 10,
    Policy <- Hold,
    phase <- rebalancePhase, window <- rebalanceWindow, closes <- rebalanceCloses,
    score <- rebalanceScore, cash <- rebalanceCash, held <- rebalanceHeld,
    since <- rebalanceSince, selected <- rebalanceSelected, notes <- rebalanceNotes,
    orders <- rebalanceOrders, rejected <- rebalanceRejected

ASSUME FromCash!RebalanceAssumption
ASSUME Controlled!RebalanceAssumption
ASSUME Withheld!RebalanceAssumption
ASSUME Kept!RebalanceAssumption

-----------------------------------------------------------------------------
\* Three symbols, listed late, taken off early, suspended for a while or there throughout.
foldsVars ==
    <<foldsPhase, foldsInput, foldsFolds, foldsAt, foldsKept, foldsAudit, foldsFit,
    foldsScenario, foldsBase, foldsResults, foldsReason>>

Folds == INSTANCE FoldTraining WITH
    Symbols <- {"a", "b", "c"},
    Histories <- Regular \cup Suspended(9, {{4}, {3, 4}, {6}}),
    Plan <- "folds",
    Horizon <- 2,
    TrainWindow <- 2,
    ValidationWindow <- 1,
    TestWindow <- 2,
    FoldCount <- 2,
    MinFolds <- 2,
    MaxWindows <- 2,
    Shares <- {<<6, 2>>},
    Positions <- 2,
    MinSymbols <- 2,
    Fits <- FoldFits,
    Scenarios <- {<<1>>, <<2, 1>>, <<1, 2>>, <<2>>},
    phase <- foldsPhase, input <- foldsInput, folds <- foldsFolds, at <- foldsAt,
    kept <- foldsKept, audit <- foldsAudit, fit <- foldsFit, scenario <- foldsScenario,
    base <- foldsBase, results <- foldsResults, reason <- foldsReason

OneSplit == INSTANCE FoldTraining WITH
    Symbols <- {"a", "b", "c"},
    Histories <- Brief \cup Suspended(10, {{6}, {5, 6}, {8}}),
    Plan <- "single",
    Horizon <- 2,
    TrainWindow <- 2,
    ValidationWindow <- 1,
    TestWindow <- 2,
    FoldCount <- 1,
    MinFolds <- 1,
    MaxWindows <- 2,
    Shares <- {<<6, 2>>, <<5, 3>>},
    Positions <- 2,
    MinSymbols <- 2,
    Fits <- FoldFits,
    Scenarios <- {<<1>>},
    phase <- foldsPhase, input <- foldsInput, folds <- foldsFolds, at <- foldsAt,
    kept <- foldsKept, audit <- foldsAudit, fit <- foldsFit, scenario <- foldsScenario,
    base <- foldsBase, results <- foldsResults, reason <- foldsReason

ASSUME Folds!FoldAssumption
ASSUME OneSplit!FoldAssumption

-----------------------------------------------------------------------------
\* Two symbols over four days, at most two windows of one day of training and one
\* of testing.
sweepVars ==
    <<sweepMarket, sweepFrame, sweepRows, sweepResult>>

Cached == INSTANCE ParameterSweep WITH
    Kind <- "cached",
    Symbols <- {"a", "b"},
    Days <- 4,
    Markets <- ClosesOf,
    Sets <- TwoSets,
    Equities <- {9, 16},
    Initial <- 12,
    TrainDays <- 1,
    TestDays <- 1,
    MaxWindows <- 2,
    MinSymbols <- 1,
    TopN <- 1,
    Raised <- Raised,
    None <- None,
    market <- sweepMarket, frame <- sweepFrame, rows <- sweepRows, result <- sweepResult

Refused == INSTANCE ParameterSweep WITH
    Kind <- "sweep",
    Symbols <- {"a", "b"},
    Days <- 4,
    Markets <- ClosesOf,
    Sets <- LooseSets,
    Equities <- {9, 16},
    Initial <- 12,
    TrainDays <- 1,
    TestDays <- 1,
    MaxWindows <- 2,
    MinSymbols <- 1,
    TopN <- 1,
    Raised <- Raised,
    None <- None,
    market <- sweepMarket, frame <- sweepFrame, rows <- sweepRows, result <- sweepResult

ASSUME Cached!SizesAssumption
ASSUME Refused!SizesAssumption

-----------------------------------------------------------------------------
\* With costs, with cash the account holds back, without costs.
auditVars ==
    <<auditPhase, auditWindow, auditRows, auditAlike, auditScore, auditSelected,
    auditBook, auditOutcomes, auditReport>>

WithCosts == INSTANCE RealityAudit WITH
    Symbols <- <<"a", "b">>,
    Scores <- {1, 3},
    NoScore <- 0,
    RanksUnscored <- TRUE,
    Windows <- 2,
    Accounts <- Holding,
    Lot <- 2,
    TargetCount <- 1,
    MaxWeight <- 60,
    ReserveWeight <- 4,
    MinFee <- 1,
    SellTax <- 10,
    Policy <- Off,
    Rows <- MarketRows,
    SharedFrame <- TRUE,
    BuyLot <- 4,
    Participation <- 10,
    Frozen <- 0,
    phase <- auditPhase, window <- auditWindow, rows <- auditRows, alike <- auditAlike,
    score <- auditScore, selected <- auditSelected, book <- auditBook,
    outcomes <- auditOutcomes, report <- auditReport

HeldBack == INSTANCE RealityAudit WITH
    Symbols <- <<"a", "b">>,
    Scores <- {1, 3},
    NoScore <- 0,
    RanksUnscored <- TRUE,
    Windows <- 2,
    Accounts <- Holding,
    Lot <- 2,
    TargetCount <- 2,
    MaxWeight <- 60,
    ReserveWeight <- 4,
    MinFee <- 1,
    SellTax <- 10,
    Policy <- Off,
    Rows <- FewRows,
    SharedFrame <- TRUE,
    BuyLot <- 4,
    Participation <- 10,
    Frozen <- 50,
    phase <- auditPhase, window <- auditWindow, rows <- auditRows, alike <- auditAlike,
    score <- auditScore, selected <- auditSelected, book <- auditBook,
    outcomes <- auditOutcomes, report <- auditReport

WithoutCosts == INSTANCE RealityAudit WITH
    Symbols <- <<"a", "b">>,
    Scores <- {1, 3},
    NoScore <- 0,
    RanksUnscored <- TRUE,
    Windows <- 2,
    Accounts <- Holding,
    Lot <- 2,
    TargetCount <- 1,
    MaxWeight <- 60,
    ReserveWeight <- 4,
    MinFee <- 0,
    SellTax <- 0,
    Policy <- Off,
    Rows <- MarketRows,
    SharedFrame <- TRUE,
    BuyLot <- 2,
    Participation <- 10,
    Frozen <- 0,
    phase <- auditPhase, window <- auditWindow, rows <- auditRows, alike <- auditAlike,
    score <- auditScore, selected <- auditSelected, book <- auditBook,
    outcomes <- auditOutcomes, report <- auditReport

ASSUME WithCosts!RealityAssumption
ASSUME HeldBack!RealityAssumption
ASSUME WithoutCosts!RealityAssumption

-----------------------------------------------------------------------------
\* The variables of the components that are not at work.

snapshotIdle ==
    /\ snapshotFile = 0 /\ snapshotTemp = 0 /\ snapshotJob = 0 /\ snapshotLoaded = 0
    /\ snapshotHadGood = 0 /\ snapshotBuilds = 0
forwardIdle ==
    /\ forwardInput = 0 /\ forwardWindows = 0 /\ forwardCurrent = 0 /\ forwardNext = 0
    /\ forwardAccount = 0 /\ forwardOpening = 0 /\ forwardTopN = 0 /\ forwardLearned = 0
    /\ forwardLog = 0 /\ forwardResults = 0 /\ forwardStatus = 0
rebalanceIdle ==
    /\ rebalancePhase = 0 /\ rebalanceWindow = 0 /\ rebalanceCloses = 0
    /\ rebalanceScore = 0 /\ rebalanceCash = 0 /\ rebalanceHeld = 0
    /\ rebalanceSince = 0 /\ rebalanceSelected = 0 /\ rebalanceNotes = 0
    /\ rebalanceOrders = 0 /\ rebalanceRejected = 0
foldsIdle ==
    /\ foldsPhase = 0 /\ foldsInput = 0 /\ foldsFolds = 0 /\ foldsAt = 0
    /\ foldsKept = 0 /\ foldsAudit = 0 /\ foldsFit = 0 /\ foldsScenario = 0
    /\ foldsBase = 0 /\ foldsResults = 0 /\ foldsReason = 0
sweepIdle ==
    /\ sweepMarket = 0 /\ sweepFrame = 0 /\ sweepRows = 0 /\ sweepResult = 0
auditIdle ==
    /\ auditPhase = 0 /\ auditWindow = 0 /\ auditRows = 0 /\ auditAlike = 0
    /\ auditScore = 0 /\ auditSelected = 0 /\ auditBook = 0 /\ auditOutcomes = 0
    /\ auditReport = 0

Init ==
    /\ active \in
        {"builds", "calendar", "frame", "caller", "overlapping", "plain", "controls",
        "withheld", "holding",
        "folds", "single", "cached", "refused", "costs", "frozen", "free"}
    /\ IF active = "builds" THEN Builds!Init
       ELSE snapshotIdle
    /\ IF active = "calendar" THEN OfCalendar!Init
       ELSE IF active = "frame" THEN OfFrame!Init
       ELSE IF active = "caller" THEN OfCaller!Init
       ELSE IF active = "overlapping" THEN Overlapping!Init
       ELSE forwardIdle
    /\ IF active = "plain" THEN FromCash!Init
       ELSE IF active = "controls" THEN Controlled!Init
       ELSE IF active = "withheld" THEN Withheld!Init
       ELSE IF active = "holding" THEN Kept!Init
       ELSE rebalanceIdle
    /\ IF active = "folds" THEN Folds!Init
       ELSE IF active = "single" THEN OneSplit!Init
       ELSE foldsIdle
    /\ IF active = "cached" THEN Cached!Init
       ELSE IF active = "refused" THEN Refused!Init
       ELSE sweepIdle
    /\ IF active = "costs" THEN WithCosts!Init
       ELSE IF active = "frozen" THEN HeldBack!Init
       ELSE IF active = "free" THEN WithoutCosts!Init
       ELSE auditIdle

\* A step of one component changes no variable of another.
Only(component) ==
    /\ UNCHANGED active
    /\ IF component = "snapshot" THEN TRUE ELSE UNCHANGED snapshotVars
    /\ IF component = "forward" THEN TRUE ELSE UNCHANGED forwardVars
    /\ IF component = "rebalance" THEN TRUE ELSE UNCHANGED rebalanceVars
    /\ IF component = "folds" THEN TRUE ELSE UNCHANGED foldsVars
    /\ IF component = "sweep" THEN TRUE ELSE UNCHANGED sweepVars
    /\ IF component = "audit" THEN TRUE ELSE UNCHANGED auditVars

Next ==
    \/ active = "builds" /\ Builds!Next /\ Only("snapshot")
    \/ active = "calendar" /\ OfCalendar!Next /\ Only("forward")
    \/ active = "frame" /\ OfFrame!Next /\ Only("forward")
    \/ active = "caller" /\ OfCaller!Next /\ Only("forward")
    \/ active = "overlapping" /\ Overlapping!Next /\ Only("forward")
    \/ active = "plain" /\ FromCash!Next /\ Only("rebalance")
    \/ active = "controls" /\ Controlled!Next /\ Only("rebalance")
    \/ active = "withheld" /\ Withheld!Next /\ Only("rebalance")
    \/ active = "holding" /\ Kept!Next /\ Only("rebalance")
    \/ active = "folds" /\ Folds!Next /\ Only("folds")
    \/ active = "single" /\ OneSplit!Next /\ Only("folds")
    \/ active = "cached" /\ Cached!Next /\ Only("sweep")
    \/ active = "refused" /\ Refused!Next /\ Only("sweep")
    \/ active = "costs" /\ WithCosts!Next /\ Only("audit")
    \/ active = "frozen" /\ HeldBack!Next /\ Only("audit")
    \/ active = "free" /\ WithoutCosts!Next /\ Only("audit")

vars == <<active, snapshotVars, forwardVars, rebalanceVars, foldsVars, sweepVars, auditVars>>
Spec == Init /\ [][Next]_vars

-----------------------------------------------------------------------------
TypesOK ==
    /\ active = "builds" => Builds!TypeOK
    /\ active = "calendar" => OfCalendar!TypeOK
    /\ active = "frame" => OfFrame!TypeOK
    /\ active = "caller" => OfCaller!TypeOK
    /\ active = "overlapping" => Overlapping!TypeOK
    /\ active = "plain" => FromCash!TypeOK
    /\ active = "controls" => Controlled!TypeOK
    /\ active = "withheld" => Withheld!TypeOK
    /\ active = "holding" => Kept!TypeOK
    /\ active = "folds" => Folds!TypeOK
    /\ active = "single" => OneSplit!TypeOK
    /\ active = "cached" => Cached!TypeOK
    /\ active = "refused" => Refused!TypeOK
    /\ active = "costs" => WithCosts!TypeOK
    /\ active = "frozen" => HeldBack!TypeOK
    /\ active = "free" => WithoutCosts!TypeOK

\* Nothing is decided with what comes later: a decision sees no dated row of a later
\* session, and an account and parameters of the sessions before it unless a caller
\* hands over overlapping windows (WalkForwardEngine.run); no label of a training or
\* validation row reaches past its split by more than the sessions its symbol was
\* suspended for (apply_label_boundary_purge), and the selector's validation is over
\* before the test block.
NothingIsSeenEarly ==
    /\ active = "calendar" => (OfCalendar!DecidedInTurn /\ OfCalendar!KnownWhenDecided)
    /\ active = "frame" => OfFrame!KnownWhenDecided
    /\ active = "caller" => (OfCaller!AdvisedFromTraining /\ OfCaller!KnownWhenDecided)
    /\ active = "overlapping" => Overlapping!KnownWhenDecided
    /\ active = "folds" => (Folds!FoldsTile /\ Folds!NoLabelCrosses /\ Folds!RankedByModel /\ Folds!ValidationPretest /\ Folds!CompletedHasWindows)
    /\ active = "single" => OneSplit!TestUnseen

\* A reported result is what was traded: the canonical file has the sessions of its
\* index, the windows chain into the whole run, orders lead from the holdings to the
\* target within cash and reserve, less what sells the turnover controls removed would
\* have brought, the lists of a sweep are its best runs, and the audit explains every
\* difference between the plain and the A-share account.
ResultsAreExplained ==
    /\ active = "builds" => (Builds!CanonicalIsPrimary /\ Builds!OkIsLoadable /\ Builds!VerdictStands)
    /\ active = "calendar" => (OfCalendar!FailsOnlyBuilding /\ OfCalendar!Telescopes)
    /\ active = "plain" => (FromCash!OrdersReconcile /\ FromCash!NothingRejected /\ FromCash!ReserveKept)
    /\ active = "controls" => (Controlled!OrdersReconcile /\ Controlled!ExitsComplete /\ Controlled!SinceHeld)
    /\ active = "withheld" => (Withheld!OrdersReconcile /\ Withheld!NothingRejected /\ Withheld!ReserveKept)
    /\ active = "holding" => Kept!RoomFor
    /\ active = "cached" => (Cached!RowsComparable /\ Cached!TopIsTop /\ Cached!DrawdownCoversLoss /\ Cached!BenchmarkHoldsTheRange)
    /\ active = "refused" => (Refused!DrawdownCoversLoss /\ Refused!BenchmarkHoldsTheRange)
    /\ active = "costs" => (WithCosts!CashChains /\ WithCosts!ChangesExplained /\ WithCosts!QuietMeansSame)
    /\ active = "frozen" => HeldBack!ChangesExplained
    /\ active = "free" => WithoutCosts!SilentMeansFilled

\* Steps: a build never leaves a partial file in place of a snapshot
\* (_atomic_write_json), and the date of a holding changes only when the
\* position opens or closes (rebalance, entry dates).
StepsAreHonest ==
    [][/\ active = "builds" => Builds!NeverPartial
       /\ active = "plain" => FromCash!DatedOnce
       /\ active = "controls" => Controlled!DatedOnce
       /\ active = "holding" => Kept!DatedOnce]_vars
====
