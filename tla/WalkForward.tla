----------------------------- MODULE WalkForward -----------------------------
(***************************************************************************)
(* The rolling walk-forward evaluation: windows of training and test       *)
(* sessions, run one after the other over one account.                     *)
(*                                                                         *)
(* Three callers build windows.  The canonical baseline cuts the official  *)
(* calendar ("calendar") and runs every test session through the daily     *)
(* paper loop over one state file; its parameters are frozen.  The         *)
(* real-data smoke run cuts the dates of its rows ("frame") and the engine *)
(* executes each window itself: one decision from the training rows, paper *)
(* fills over the test rows, a parameter update for the windows to come.   *)
(* Any other caller hands windows of its own ("caller") to that path.      *)
(*                                                                         *)
(* Sessions are 1 .. LastDay.  A row is [day, dated]: the session it arose in *)
(* and whether it carries a date column a slice can read.                  *)
(***************************************************************************)
EXTENDS Integers, Sequences, FiniteSets, FiniteSetsExt, SequencesExt

CONSTANTS
    LastDay,         \* sessions of the calendar
    Source,       \* "calendar", "frame" or "caller"
    Given,        \* windows a caller may hand over
    TrainSizes, TestSizes, WindowCounts,  \* configurations of the builders
    SignalSets,   \* sets of signal rows a caller hands over
    EvidenceSets, \* sets of metadata rows (adapter results) a caller hands over
    Gains,        \* what the account may gain over a session or a window
    Capital

WalkForwardAssumption ==
    /\ LastDay \in Nat \ {0} /\ Source \in {"calendar", "frame", "caller"}
    /\ TrainSizes \subseteq Nat \ {0} /\ TestSizes \subseteq Nat \ {0}
    /\ WindowCounts \subseteq Nat \ {0}
    /\ Given \subseteq [trainStart : 1 .. LastDay, trainEnd : 1 .. LastDay, testStart : 1 .. LastDay, testEnd : 1 .. LastDay]
    /\ \A rows \in SignalSets \cup EvidenceSets : rows \subseteq [day : 1 .. LastDay, dated : BOOLEAN]
    /\ Gains \subseteq Int /\ Capital \in Nat \ {0}

VARIABLES
    input,    \* what the run was given
    windows,  \* the windows it goes through
    current,  \* position of the window at work
    next,     \* next session of that window (runner), or its first test session
    account,  \* equity of the account
    opening,  \* equity when the window began
    topN,     \* the parameter the legacy path tunes
    learned,  \* last session the parameters and the account depend on
    log,      \* decisions taken
    results,  \* windows completed
    status    \* "building", "running", "failed", "done"

vars == <<input, windows, current, next, account, opening, topN, learned, log, results, status>>

Days == 1 .. LastDay
Runner == Source = "calendar"

-----------------------------------------------------------------------------
(* Windows.                                                                *)

Window(ts, te, vs, ve) == [trainStart |-> ts, trainEnd |-> te, testStart |-> vs, testEnd |-> ve]

\* First session of the k-th block of test sessions.
BlockStart(k) == input.from + (k - 1) * input.test

TrainEnd(first) == first - 1

BlockFits(k) == BlockStart(k) + input.test - 1 <= Min({input.to, LastDay})

Blocks == {k \in 1 .. input.count : BlockFits(k)}

\* _build_walk_forward_windows_from_calendar, _build_windows: consecutive
\* blocks of full length, each after the train sessions before it.
Built ==
    [k \in 1 .. Cardinality(Blocks) |->
        Window(BlockStart(k) - input.train, TrainEnd(BlockStart(k)),
               BlockStart(k), BlockStart(k) + input.test - 1)]

\* The calendar builder refuses a first block without lookback and a test
\* session without a session after it.
BuildRefused ==
    Runner /\ (input.from <= input.train \/ \E k \in DOMAIN Built : Built[k].testEnd >= LastDay)

\* LeakageGuard.check_window_order; training ends with the day trainEnd.
OrderRefused(win) ==
    \/ win.trainStart > win.trainEnd
    \/ win.testStart > win.testEnd
    \/ win.trainEnd >= win.testStart

-----------------------------------------------------------------------------
(* Slices.                                                                 *)

\* _slice_between: rows without a date are in every slice.
Slice(rows, from, to) == {r \in rows : r.dated => from <= r.day /\ r.day <= to}

\* A price frame of a caller may have no date column either.
Bars == {[day |-> d, dated |-> input.prices] : d \in Days}

Late(rows, day) == \E r \in rows : r.dated /\ r.day > day

\* assert_deepseek_advisory_input: the packet holds the sliced rows and,
\* in its train summary, the rows as they are.
EvidenceRefused(win) == input.mode # "disabled" /\ Late(input.evidence, win.trainEnd)

Train(win) == Slice(input.signals, win.trainStart, win.trainEnd)
TrainBars(win) == Slice(Bars, win.trainStart, win.trainEnd)

\* What the guard and the decision itself refuse in a window.
GuardRefused(win) ==
    \/ OrderRefused(win)
    \/ Late(Train(win) \cup TrainBars(win), win.trainEnd)
    \/ EvidenceRefused(win)

\* _signal_rows_from_prices: without signals the prices of training decide.
Evidence(win) == IF Train(win) # {} THEN Train(win) ELSE TrainBars(win)

-----------------------------------------------------------------------------
Init ==
    /\ input \in
         [from : Days, to : Days, train : TrainSizes, test : TestSizes, count : WindowCounts,
          signals : SignalSets, evidence : EvidenceSets, mode : {"disabled", "fallback_only"},
          prices : BOOLEAN]
    /\ Source # "caller" => input.prices
    /\ Source = "frame" => input.from = input.train + 1 /\ input.to = LastDay
    /\ Source = "caller" =>
         input.from = 1 /\ input.to = LastDay /\ input.train = 1 /\ input.test = 1
    /\ windows = <<>> /\ current = 1 /\ next = 0
    /\ account = Capital /\ opening = Capital
    /\ topN = 3 /\ learned = 0
    /\ log = <<>> /\ results = <<>> /\ status = "building"

\* Mutant: every window begins with the capital again.
CarriedNothing(ending) == Capital

\* What the next window begins with: one state file, one account.
Carried(ending) == ending

\* Mutant: the run ends before the last window.
EnterEarly(k, list) ==
    /\ current' = k
    /\ status' = IF k >= Len(list) THEN "done" ELSE "running"
    /\ next' = IF k >= Len(list) THEN 0 ELSE list[k].testStart

\* Begin the window at position k, or finish.
Enter(k, list) ==
    /\ current' = k
    /\ status' = IF k > Len(list) THEN "done" ELSE "running"
    /\ next' = IF k > Len(list) THEN 0 ELSE list[k].testStart

Fail ==
    /\ status' = "failed"
    /\ UNCHANGED <<input, windows, current, next, account, opening, topN, learned, log, results>>

Build ==
    /\ status = "building" /\ Source # "caller"
    /\ IF BuildRefused \/ Built = <<>> THEN Fail
       ELSE /\ windows' = Built /\ Enter(1, Built)
            /\ UNCHANGED <<input, account, opening, topN, learned, log, results>>

\* A caller may hand over any windows.
Accept(list) ==
    /\ status = "building" /\ Source = "caller"
    /\ windows' = list /\ Enter(1, list)
    /\ UNCHANGED <<input, account, opening, topN, learned, log, results>>

Working == windows[current]

Refuse ==
    /\ status = "running" /\ next = Working.testStart
    /\ GuardRefused(Working)
    /\ Fail

\* rows_through_execution: what a session of the runner is given.
BarsThrough(day) == {r \in Bars : r.day <= day}

\* _reject_rows_after_execution, in the candidate pipeline.
PipelineRefuses(day) == Late(BarsThrough(day + 1), day + 1)

\* Mutant: the rows of the execution session decide too.
DecisionBarsAll(day) == BarsThrough(day + 1)

\* The rows the pipeline keeps for its decision.
DecisionBars(day) == {r \in BarsThrough(day + 1) : r.day <= day}

Decision(day, exec, rows) ==
    [window |-> current, day |-> day, exec |-> exec, sees |-> rows, learned |-> learned]

CloseWindow(ending) ==
    /\ results' = Append(results, [net |-> ending - opening, ending |-> ending])
    /\ account' = Carried(ending) /\ opening' = Carried(ending)
    /\ Enter(current + 1, windows)

\* ProductionWindowRunner.run_window: one test session, decided after its
\* close and executed in the next session of the calendar.
Session(gain) ==
    /\ status = "running" /\ Runner
    /\ next = Working.testStart => ~GuardRefused(Working)
    /\ IF next + 1 > LastDay \/ PipelineRefuses(next) THEN Fail
       ELSE /\ log' = Append(log, Decision(next, next + 1, DecisionBars(next)))
            /\ learned' = next + 1
            /\ IF next = Working.testEnd THEN CloseWindow(account + gain)
               ELSE /\ next' = next + 1 /\ account' = account + gain
                    /\ UNCHANGED <<opening, results, current, status>>
            /\ UNCHANGED <<input, windows, topN>>

\* _parameter_update: a losing or a refused window widens the selection.
Tuned(net, rejected) == IF net < 0 \/ rejected THEN Min({topN + 1, 10}) ELSE topN

\* _legacy_default_window_execution, and the update for later windows.
Execute(gain, rejected) ==
    /\ status = "running" /\ ~Runner /\ ~GuardRefused(Working)
    /\ log' = Append(log, Decision(Working.trainEnd, Working.testStart, Evidence(Working)))
    /\ learned' = Max({learned, Working.testEnd})
    /\ topN' = Tuned(gain, rejected)
    /\ CloseWindow(account + gain)
    /\ UNCHANGED <<input, windows>>

Ended == status \in {"done", "failed"} /\ UNCHANGED vars

Next ==
    \/ Build
    \/ /\ Source = "caller"
       /\ \E n \in WindowCounts :
            \E list \in [1 .. n -> Given] :
              Accept(list)
    \/ Refuse
    \/ \E gain \in Gains : Session(gain)
    \/ \E gain \in Gains, rejected \in BOOLEAN : Execute(gain, rejected)
    \/ Ended

Spec == Init /\ [][Next]_vars

-----------------------------------------------------------------------------
Sum(list) == FoldSeq(LAMBDA r, total : r.net + total, 0, list)

TypeOK ==
    /\ status \in {"building", "running", "failed", "done"}
    /\ current \in 1 .. Len(windows) + 1
    /\ next \in 0 .. LastDay
    /\ {account, opening, topN} \subseteq Int /\ learned \in 0 .. LastDay + 1
    /\ \A i \in DOMAIN log : log[i].window \in DOMAIN windows
    /\ status = "done" => Len(results) = Len(windows)

\* The sessions of the calendar run are decided once each and in turn, over
\* the borders of windows too, and executed in the session that follows.
DecidedInTurn ==
    Runner =>
      \A i \in DOMAIN log :
        /\ log[i].day = input.from + i - 1 /\ log[i].day <= input.to
        /\ log[i].exec = log[i].day + 1 /\ log[i].exec <= LastDay

\* Every window before that of a decision was over when its training ended.
InTurn(decision) ==
    \A j \in 1 .. decision.window - 1 : windows[j].testEnd <= windows[decision.window].trainEnd

\* The dated rows that decide a window or a session were known when it was
\* decided, and so was everything its account and parameters come from.  Two
\* gaps are the code's: a row without a date is in every slice, and the guard
\* looks at one window at a time, so windows of a caller that overlap decide
\* with an account and parameters from sessions still to come.
KnownWhenDecided ==
    \A i \in DOMAIN log :
      /\ \A r \in log[i].sees : r.dated => r.day <= log[i].day
      /\ (Source = "caller" => InTurn(log[i])) => log[i].learned <= log[i].day

\* Windows of the two builders pass the guard, and their sessions run:
\* a run that fails does so while it builds them.
FailsOnlyBuilding == status = "failed" => windows = <<>>

\* The windows' profits add up to what the account gained: a window begins
\* with what the one before it left.
Telescopes ==
    results # <<>> => Sum(results) = results[Len(results)].ending - Capital

\* The advisory of a window was given no evidence from after its training,
\* in the packet or in the summary inside it.
AdvisedFromTraining ==
    \A i \in DOMAIN log :
      input.mode # "disabled" =>
        \A r \in input.evidence : r.dated => r.day <= windows[log[i].window].trainEnd
=============================================================================
