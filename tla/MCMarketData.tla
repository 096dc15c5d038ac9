---- MODULE MCMarketData ----
(***************************************************************************)
(* Small instances of the components that bring market data in: the TDX    *)
(* adapter and its rows, the records of the QMT exporter and its reader,   *)
(* the provider chain of the daily loop, the snapshot build.  They share   *)
(* no state: in a behaviour one of them, chosen at the start, is at work.  *)
(***************************************************************************)
EXTENDS Integers, Sequences, FiniteSets, TLC

CONSTANTS Nil, Partial

VARIABLES
    active,     \* the component at work in this behaviour
    \* TdxAdapter
    adapterPath, adapterFound, adapterPrepended, adapterStep, adapterOpen,
    adapterClosing, adapterSubs, adapterAsked, adapterOwner, adapterRegistered,
    adapterAt, adapterFeed, adapterStray, adapterStarved, adapterNotice, adapterCounts,
    adapterNotices,
    \* TdxRows
    rowsNow, rowsReceived, rowsDone, rowsEvents, rowsStage, rowsHistory,
    \* QmtRecords
    recordsKind, recordsRaw, recordsSequence, recordsFile, recordsRead, recordsReread,
    \* QmtExporter
    bridgeSnapshot, bridgeTemporary, bridgeLockFile, bridgeLockOwner, bridgeUp, bridgeG,
    bridgeAt, bridgeDraft, bridgeBroker, bridgeReader, bridgeAsked, bridgeCrashes,
    bridgeFailures,
    \* ProviderFallback
    providerPc, providerHeld, providerAsked, providerCalendar, providerExecution,
    providerCurrent, providerTried, providerSource, providerRows, providerWhy,
    \* SnapshotBuild
    buildDisk, buildManifest, buildBuild, buildBuilds, buildFaults, buildFiled,
    buildAgain

-----------------------------------------------------------------------------
AllValues == {"none", "true", "zero", "minus", "one", "whole", "fraction", "minus fraction", "infinite",
              "huge", "blank", "text", "long", "compact date", "dashed date", "other date", "date number"}
\* b is listed after the first session; on that one a provider may call a h.
ListedOn == [c \in {"a", "b"} |-> IF c = "a" THEN 1 ELSE 2]
Listed(d) == {c \in {"a", "b"} : ListedOn[c] <= d}
WholeRows(dataset, d) == {Listed(d)}
RenamedRows(dataset, d) == IF d = 1 THEN {{"h"}} ELSE {Listed(d)}

-----------------------------------------------------------------------------
\* Three providers that import tqcenter, two that subscribe to the same symbols
\* or to others, one that TDX calls back on two threads.
adapterVars ==
    <<adapterPath, adapterFound, adapterPrepended, adapterStep, adapterOpen,
    adapterClosing, adapterSubs, adapterAsked, adapterOwner, adapterRegistered,
    adapterAt, adapterFeed, adapterStray, adapterStarved, adapterNotice, adapterCounts,
    adapterNotices>>

Loading == INSTANCE TdxAdapter WITH
    Providers <- {"main", "second", "third"},
    DirectoryOf <- [p \in {"main", "second", "third"} |-> IF p = "main" THEN "one" ELSE "two"],
    Paths <- {<<"one", "elsewhere">>, <<"elsewhere", "two">>},
    Symbols <- {},
    Callbacks <- {},
    MaxSubscriptions <- 0,
    MaxNotices <- 0,
    path <- adapterPath, found <- adapterFound, prepended <- adapterPrepended,
    step <- adapterStep, open <- adapterOpen, closing <- adapterClosing,
    subs <- adapterSubs, asked <- adapterAsked, owner <- adapterOwner,
    registered <- adapterRegistered, at <- adapterAt, feed <- adapterFeed,
    stray <- adapterStray, starved <- adapterStarved,
    notice <- adapterNotice, counts <- adapterCounts, notices <- adapterNotices

Subscribing == INSTANCE TdxAdapter WITH
    Providers <- {"main", "second"},
    DirectoryOf <- [p \in {"main", "second"} |-> "one"],
    Paths <- {<<"elsewhere">>},
    Symbols <- {"a", "b"},
    Callbacks <- {},
    MaxSubscriptions <- 2,
    MaxNotices <- 0,
    path <- adapterPath, found <- adapterFound, prepended <- adapterPrepended,
    step <- adapterStep, open <- adapterOpen, closing <- adapterClosing,
    subs <- adapterSubs, asked <- adapterAsked, owner <- adapterOwner,
    registered <- adapterRegistered, at <- adapterAt, feed <- adapterFeed,
    stray <- adapterStray, starved <- adapterStarved,
    notice <- adapterNotice, counts <- adapterCounts, notices <- adapterNotices

Notices == INSTANCE TdxAdapter WITH
    Providers <- {"main"},
    DirectoryOf <- [p \in {"main"} |-> "one"],
    Paths <- {<<"elsewhere">>},
    Symbols <- {"a"},
    Callbacks <- {"t", "u"},
    MaxSubscriptions <- 2,
    MaxNotices <- 3,
    path <- adapterPath, found <- adapterFound, prepended <- adapterPrepended,
    step <- adapterStep, open <- adapterOpen, closing <- adapterClosing,
    subs <- adapterSubs, asked <- adapterAsked, owner <- adapterOwner,
    registered <- adapterRegistered, at <- adapterAt, feed <- adapterFeed,
    stray <- adapterStray, starved <- adapterStarved,
    notice <- adapterNotice, counts <- adapterCounts, notices <- adapterNotices

ASSUME Loading!AdapterAssumption
ASSUME Subscribing!AdapterAssumption
ASSUME Notices!AdapterAssumption

-----------------------------------------------------------------------------
\* One symbol with every form of time; two symbols; the bars of one symbol.
rowsVars ==
    <<rowsNow, rowsReceived, rowsDone, rowsEvents, rowsStage, rowsHistory>>

Forms == INSTANCE TdxRows WITH
    Asked <- <<"a">>,
    Other <- "c",
    Zones <- {"", "Z", "+00", "+0800"},
    Precisions <- {"minute", "second", "milli", "micro"},
    Dated <- FALSE,
    Last <- 4,
    Minutes <- {},
    now <- rowsNow, received <- rowsReceived, done <- rowsDone, events <- rowsEvents,
    stage <- rowsStage, history <- rowsHistory

Times == INSTANCE TdxRows WITH
    Asked <- <<"a", "b">>,
    Other <- "c",
    Zones <- {"Z", "+00"},
    Precisions <- {"second"},
    Dated <- TRUE,
    Last <- 3,
    Minutes <- {},
    now <- rowsNow, received <- rowsReceived, done <- rowsDone, events <- rowsEvents,
    stage <- rowsStage, history <- rowsHistory

History == INSTANCE TdxRows WITH
    Asked <- <<"a">>,
    Other <- "c",
    Zones <- {""},
    Precisions <- {"second"},
    Dated <- TRUE,
    Last <- 1,
    Minutes <- {1, 2},
    now <- rowsNow, received <- rowsReceived, done <- rowsDone, events <- rowsEvents,
    stage <- rowsStage, history <- rowsHistory

ASSUME Forms!RowsAssumption
ASSUME Times!RowsAssumption
ASSUME History!RowsAssumption

-----------------------------------------------------------------------------
\* Every value on one record; up to three records where two are the most.
recordsVars ==
    <<recordsKind, recordsRaw, recordsSequence, recordsFile, recordsRead,
    recordsReread>>

OneRecord == INSTANCE QmtRecords WITH
    Values <- AllValues,
    MaxRaw <- 1,
    MaxRecords <- 1,
    MaxBytes <- 9,
    MaxSequence <- 2,
    kind <- recordsKind, raw <- recordsRaw, sequence <- recordsSequence,
    file <- recordsFile, read <- recordsRead, reread <- recordsReread

ManyRecords == INSTANCE QmtRecords WITH
    Values <- {"none", "one", "text"},
    MaxRaw <- 3,
    MaxRecords <- 2,
    MaxBytes <- 9,
    MaxSequence <- 1,
    kind <- recordsKind, raw <- recordsRaw, sequence <- recordsSequence,
    file <- recordsFile, read <- recordsRead, reread <- recordsReread

ASSUME OneRecord!RecordsAssumption
ASSUME ManyRecords!RecordsAssumption

-----------------------------------------------------------------------------
\* One exporter whose records may be refused, and a reader that polls it.
bridgeVars ==
    <<bridgeSnapshot, bridgeTemporary, bridgeLockFile, bridgeLockOwner, bridgeUp,
    bridgeG, bridgeAt, bridgeDraft, bridgeBroker, bridgeReader, bridgeAsked,
    bridgeCrashes, bridgeFailures>>

Bridge == INSTANCE QmtExporter WITH
    Exporters <- {"e1"},
    NSections <- 1,
    Normalized <- {"plain", "odd"},
    OsLock <- FALSE,
    Polled <- TRUE,
    Heartbeat <- 1,
    MaxSequence <- 2,
    MaxBroker <- 0,
    MaxCrashes <- 1,
    MaxFailures <- 1,
    Nil <- Nil,
    Partial <- Partial,
    snapshot <- bridgeSnapshot, temporary <- bridgeTemporary,
    lockFile <- bridgeLockFile, lockOwner <- bridgeLockOwner, up <- bridgeUp,
    G <- bridgeG, at <- bridgeAt, draft <- bridgeDraft, broker <- bridgeBroker,
    reader <- bridgeReader, asked <- bridgeAsked, crashes <- bridgeCrashes,
    failures <- bridgeFailures


-----------------------------------------------------------------------------
\* Two symbols, the second suspended from the execution session on; days 3
\* and 4 are a weekend.
providerVars ==
    <<providerPc, providerHeld, providerAsked, providerCalendar, providerExecution,
    providerCurrent, providerTried, providerSource, providerRows, providerWhy>>

Provider == INSTANCE ProviderFallback WITH
    Symbols <- {"s1", "s2"},
    Open <- {1, 2, 5, 6},
    Suspended <- [s \in {"s1", "s2"} |-> IF s = "s1" THEN {} ELSE {5, 6}],
    LastDay <- 6,
    Decision <- 2,
    LookAhead <- 3,
    MaxSymbols <- 2,
    pc <- providerPc, held <- providerHeld, asked <- providerAsked,
    calendar <- providerCalendar, execution <- providerExecution,
    current <- providerCurrent, tried <- providerTried, source <- providerSource,
    rows <- providerRows, why <- providerWhy

ASSUME Provider!ProviderAssumption

-----------------------------------------------------------------------------
\* Two sessions, b listed on the second; a called h on the first, or not.
buildVars ==
    <<buildDisk, buildManifest, buildBuild, buildBuilds, buildFaults, buildFiled,
    buildAgain>>

Renamed == INSTANCE SnapshotBuild WITH
    StockOrder <- <<"a", "b">>,
    ListedOn <- ListedOn,
    Historic <- {"h"},
    Alias <- [c \in {"h"} |-> "a"],
    Sessions <- 1..2,
    Ends <- {1, 2},
    ShardSize <- 1,
    Responses <- RenamedRows,
    MaxBuilds <- 3,
    MaxFaults <- 2,
    Crashes <- TRUE,
    Nil <- Nil,
    Damaged <- {},
    disk <- buildDisk, manifest <- buildManifest, build <- buildBuild,
    builds <- buildBuilds, faults <- buildFaults, filed <- buildFiled,
    again <- buildAgain

Whole == INSTANCE SnapshotBuild WITH
    StockOrder <- <<"a", "b">>,
    ListedOn <- ListedOn,
    Historic <- {},
    Alias <- <<>>,
    Sessions <- 1..2,
    Ends <- {1, 2},
    ShardSize <- 1,
    Responses <- WholeRows,
    MaxBuilds <- 3,
    MaxFaults <- 2,
    Crashes <- TRUE,
    Nil <- Nil,
    Damaged <- {},
    disk <- buildDisk, manifest <- buildManifest, build <- buildBuild,
    builds <- buildBuilds, faults <- buildFaults, filed <- buildFiled,
    again <- buildAgain

ASSUME Renamed!BuildAssumption
ASSUME Whole!BuildAssumption
ASSUME Whole!CompleteAnswers

-----------------------------------------------------------------------------
\* The variables of the components that are not at work.

adapterIdle ==
    /\ adapterPath = 0 /\ adapterFound = 0 /\ adapterPrepended = 0 /\ adapterStep = 0
    /\ adapterOpen = 0 /\ adapterClosing = 0 /\ adapterSubs = 0 /\ adapterAsked = 0
    /\ adapterOwner = 0 /\ adapterRegistered = 0 /\ adapterAt = 0 /\ adapterFeed = 0
    /\ adapterStray = 0 /\ adapterStarved = 0
    /\ adapterNotice = 0 /\ adapterCounts = 0 /\ adapterNotices = 0
rowsIdle ==
    /\ rowsNow = 0 /\ rowsReceived = 0 /\ rowsDone = 0 /\ rowsEvents = 0
    /\ rowsStage = 0 /\ rowsHistory = 0
recordsIdle ==
    /\ recordsKind = 0 /\ recordsRaw = 0 /\ recordsSequence = 0 /\ recordsFile = 0
    /\ recordsRead = 0 /\ recordsReread = 0
bridgeIdle ==
    /\ bridgeSnapshot = 0 /\ bridgeTemporary = 0 /\ bridgeLockFile = 0
    /\ bridgeLockOwner = 0 /\ bridgeUp = 0 /\ bridgeG = 0 /\ bridgeAt = 0
    /\ bridgeDraft = 0 /\ bridgeBroker = 0 /\ bridgeReader = 0 /\ bridgeAsked = 0
    /\ bridgeCrashes = 0 /\ bridgeFailures = 0
providerIdle ==
    /\ providerPc = 0 /\ providerHeld = 0 /\ providerAsked = 0 /\ providerCalendar = 0
    /\ providerExecution = 0 /\ providerCurrent = 0 /\ providerTried = 0
    /\ providerSource = 0 /\ providerRows = 0 /\ providerWhy = 0
buildIdle ==
    /\ buildDisk = 0 /\ buildManifest = 0 /\ buildBuild = 0 /\ buildBuilds = 0
    /\ buildFaults = 0 /\ buildFiled = 0 /\ buildAgain = 0

Init ==
    /\ active \in
        {"loading", "subscribing", "notices", "forms", "times", "history", "values", "sections",
        "bridge", "provider", "renamed", "whole"}
    /\ IF active = "loading" THEN Loading!Init
       ELSE IF active = "subscribing" THEN Subscribing!Init
       ELSE IF active = "notices" THEN Notices!Init
       ELSE adapterIdle
    /\ IF active = "forms" THEN Forms!Init
       ELSE IF active = "times" THEN Times!Init
       ELSE IF active = "history" THEN History!Init
       ELSE rowsIdle
    /\ IF active = "values" THEN OneRecord!Init
       ELSE IF active = "sections" THEN ManyRecords!Init
       ELSE recordsIdle
    /\ IF active = "bridge" THEN Bridge!Init
       ELSE bridgeIdle
    /\ IF active = "provider" THEN Provider!Init
       ELSE providerIdle
    /\ IF active = "renamed" THEN Renamed!Init
       ELSE IF active = "whole" THEN Whole!Init
       ELSE buildIdle

\* A step of one component changes no variable of another.
Only(component) ==
    /\ UNCHANGED active
    /\ IF component = "adapter" THEN TRUE ELSE UNCHANGED adapterVars
    /\ IF component = "rows" THEN TRUE ELSE UNCHANGED rowsVars
    /\ IF component = "records" THEN TRUE ELSE UNCHANGED recordsVars
    /\ IF component = "bridge" THEN TRUE ELSE UNCHANGED bridgeVars
    /\ IF component = "provider" THEN TRUE ELSE UNCHANGED providerVars
    /\ IF component = "build" THEN TRUE ELSE UNCHANGED buildVars

Next ==
    \/ active = "loading" /\ Loading!Next /\ Only("adapter")
    \/ active = "subscribing" /\ Subscribing!Next /\ Only("adapter")
    \/ active = "notices" /\ Notices!Next /\ Only("adapter")
    \/ active = "forms" /\ Forms!Next /\ Only("rows")
    \/ active = "times" /\ Times!Next /\ Only("rows")
    \/ active = "history" /\ History!Next /\ Only("rows")
    \/ active = "values" /\ OneRecord!Next /\ Only("records")
    \/ active = "sections" /\ ManyRecords!Next /\ Only("records")
    \/ active = "bridge" /\ Bridge!Next /\ Only("bridge")
    \/ active = "provider" /\ Provider!Next /\ Only("provider")
    \/ active = "renamed" /\ Renamed!Next /\ Only("build")
    \/ active = "whole" /\ Whole!Next /\ Only("build")

vars == <<active, adapterVars, rowsVars, recordsVars, bridgeVars, providerVars, buildVars>>
Spec == Init /\ [][Next]_vars

-----------------------------------------------------------------------------
TypesOK ==
    /\ active = "loading" => Loading!TypeOK
    /\ active = "subscribing" => Subscribing!TypeOK
    /\ active = "notices" => Notices!TypeOK
    /\ active = "forms" => Forms!TypeOK
    /\ active = "times" => Times!TypeOK
    /\ active = "history" => History!TypeOK
    /\ active = "values" => OneRecord!TypeOK
    /\ active = "sections" => ManyRecords!TypeOK
    /\ active = "bridge" => Bridge!TypeOK
    /\ active = "provider" => Provider!TypeOK
    /\ active = "renamed" => Renamed!TypeOK
    /\ active = "whole" => Whole!TypeOK

\* Whatever a reader is given comes from the source it names and says what that
\* source said: one row of the asked symbol with the time it was sent, bars made
\* of the rows, records in the values the broker gave or refused for a stated
\* reason (fetch_snapshots, _normalize_*, snapshot_from_mapping); in a bundle each
\* symbol's provider and failed attempts, its suspensions, no contradiction.
DataIsAttributed ==
    /\ active = "forms" => (Forms!StampIsSent /\ Forms!NotInFuture)
    /\ active = "times" => (Times!OnePerSymbol /\ Times!StampIsSent /\ Times!NotInFuture)
    /\ active = "history" => History!BarsAreTheRows
    /\ active = "values" => (OneRecord!RefusedOnlyFor /\ OneRecord!RoundTrip)
    /\ active = "sections" => (ManyRecords!SourcesNamed /\ ManyRecords!ValueIsKept)
    /\ active = "provider" => (Provider!Attributed /\ Provider!SuspendedIsFlagged /\ Provider!ContradictionsRefused)
    /\ active = "bridge" => (Bridge!ReadableExport /\ Bridge!NeverRegresses)

\* Over interleaved initialize, subscribe, unsubscribe, close and callbacks of two
\* providers that may want the same symbols: sys.path is given back, no callback is
\* registered without its subscription and none is missing, a closed provider holds
\* none, every call is counted once.  The feed of TDX itself may differ from the
\* subscriptions, and only where a call raised or two of them shared the symbol.
NothingIsOrphaned ==
    /\ active = "loading" => (Loading!PathRestored /\ Loading!LoadedFromOwn)
    /\ active = "subscribing" => (Subscribing!NoOrphan /\ Subscribing!SubscribedIsFed
        /\ Subscribing!FeedIsAccountedFor /\ Subscribing!ClosedIsReleased)
    /\ active = "notices" => (Notices!DiagnosticsAddUp /\ Notices!NoOrphan)

\* A bundle or a build that is called complete has what it was asked for: the next
\* execution session of the calendar, every holding, and in a snapshot each planned
\* partition of rows of its day, after failures, crashes and resumed builds.
CompleteIsWhole ==
    /\ active = "provider" => (Provider!ExecutionIsNext /\ Provider!NextSessionFound /\ Provider!HoldingsLoaded)
    /\ active = "renamed" => (Renamed!RowsAreExplained /\ Renamed!CompletedCovers)
    /\ active = "whole" => (Whole!RowsAreExplained /\ Whole!CompletedCovers /\ Whole!CleanBuildCompletes)
====
