---------------------------- MODULE FoldTraining ----------------------------
(***************************************************************************)
(* Training of the ranking model and its evaluation: either once over a    *)
(* chronological split by ratios ("single"), or with a fresh model for     *)
(* each fold of a walk-forward plan ("folds").                             *)
(*                                                                         *)
(* Sessions are the dates that occur in the price frame, numbered from 1.  *)
(* A row is <<session, symbol>>.  Its label is the return of the symbol    *)
(* over Horizon rows OF THAT SYMBOL, so it ends later when the symbol was  *)
(* suspended in between, and there is none when the rows run out.  What    *)
(* the fitted model says of a symbol is a rank (0: no finite score); the   *)
(* money the evaluation makes is not modelled, RebalanceWindows does it.   *)
(***************************************************************************)
EXTENDS Integers, Sequences, FiniteSets, FiniteSetsExt, SequencesExt

CONSTANTS
    Symbols,
    Histories,     \* frames: for each symbol the sessions it has a row in
    Plan,          \* "single" or "folds"
    Horizon,       \* sessions a label looks ahead
    TrainWindow, ValidationWindow, TestWindow,
    FoldCount, MinFolds, MaxWindows,
    Shares,        \* <<train, validation>> in tenths of the sessions
    Positions,     \* target_position_count
    MinSymbols,
    Fits,          \* what a fit may say: functions from symbols to ranks
    Scenarios      \* sequences of cost multipliers

FoldAssumption ==
    /\ Plan \in {"single", "folds"}
    /\ {Horizon, TrainWindow, ValidationWindow, TestWindow, FoldCount, MinFolds,
        MaxWindows, Positions, MinSymbols} \subseteq Nat \ {0}
    /\ MinFolds <= FoldCount
    /\ \A h \in Histories : LET days == UNION {h[s] : s \in Symbols}
                             IN days # {} /\ days = 1 .. Cardinality(days)
    /\ \A share \in Shares : share[1] + share[2] <= 10
    /\ Fits \subseteq [Symbols -> Nat]
    /\ \A seq \in Scenarios : seq # <<>> /\ \A i \in DOMAIN seq : seq[i] > 0

VARIABLES
    phase,     \* "loading", "preparing", "fitting", "evaluating", "done", "unavailable"
    input,     \* the frame, the split shares, the cost scenarios, the backend
    folds,     \* the plan
    at,        \* position of the fold at work
    kept,      \* rows left to fit on and to predict, by split
    audit,     \* the leakage audit of the fold
    fit,       \* what the model of the fold says
    scenario,  \* position of the cost scenario
    base,      \* the row of the fold taken from the scenarios so far, or NoRow
    results,   \* rows of the folds completed
    reason     \* why the run is unavailable

vars == <<phase, input, folds, at, kept, audit, fit, scenario, base, results, reason>>

NoRow == [status |-> "none"]
Sessions == UNION {input.frame[s] : s \in Symbols}
Total == Cardinality(Sessions)
Rows == {r \in Sessions \X Symbols : r[1] \in input.frame[r[2]]}
Least(a, b) == IF a < b THEN a ELSE b
Most(a, b) == IF a > b THEN a ELSE b

-----------------------------------------------------------------------------
(* Labels.                                                                 *)

\* The last session the label of a row depends on, 0 when there is none.
LabelEnd(r) ==
    LET later == {d \in input.frame[r[2]] : d > r[1]}
    IN IF Cardinality(later) < Horizon THEN 0
       ELSE CHOOSE d \in later : Cardinality({e \in later : e <= d}) = Horizon

Labelled(r) == LabelEnd(r) # 0

\* What the purge takes for the end of a label: Horizon dates of the frame.
CalendarEnd(d) == IF d + Horizon > Total THEN 0 ELSE d + Horizon

-----------------------------------------------------------------------------
(* Splits and folds.                                                       *)

Split(te, ve, last) ==
    [train |-> 1 .. te, validation |-> te + 1 .. ve, test |-> ve + 1 .. last]

\* Mutant: the test range begins where the training range ends.
ByRatioNoGap(share) ==
    LET te == Most(1, Least(Total, (Total * share[1]) \div 10))
        ve == Most(te + 1, Least(Total, (Total * (share[1] + share[2])) \div 10))
    IN [train |-> 1 .. te, validation |-> te + 1 .. ve, test |-> te + 1 .. Total]
\* The chronological split of a single training.
ByRatio(share) ==
    LET te == Most(1, Least(Total, (Total * share[1]) \div 10))
        ve == Most(te + 1, Least(Total, (Total * (share[1] + share[2])) \div 10))
    IN Split(te, ve, Total)

ValidationDays == ValidationWindow + Horizon
MinTrainDays == TrainWindow + Horizon
RequestedFolds == Most(MinFolds, Least(FoldCount, 5))
ForTests == Total - MinTrainDays - ValidationDays

BlockLength(i, cursor) ==
    LET length == Most(1, (Total - cursor + 1) \div (RequestedFolds - i + 1))
    IN IF i < RequestedFolds THEN Least(length, Most(1, ForTests \div RequestedFolds)) ELSE length

\* First test session of each fold.
Cursors[i \in 1 .. RequestedFolds] ==
    IF i = 1 THEN MinTrainDays + ValidationDays + 1
    ELSE Cursors[i - 1] + BlockLength(i - 1, Cursors[i - 1])

Fold(i) ==
    LET ve == Cursors[i] - 1
        vs == Most(MinTrainDays + 1, ve - ValidationDays + 1)
    IN Split(vs - 1, ve, Least(Total, Cursors[i] + BlockLength(i, Cursors[i]) - 1))

WalkForwardFolds == IF ForTests < RequestedFolds THEN <<>> ELSE [i \in 1 .. RequestedFolds |-> Fold(i)]

PlanOf(share) == IF Plan = "single" THEN <<ByRatio(share)>> ELSE WalkForwardFolds

-----------------------------------------------------------------------------
(* The purge and its audit.                                                *)

InSplit(split) == {r \in Rows : r[1] \in split}

Crosses(r, split) == CalendarEnd(r[1]) # 0 /\ CalendarEnd(r[1]) > Max(split)

\* Mutant: only the training rows are purged.
PurgedTrainOnly(fold) ==
    [train |-> {r \in InSplit(fold.train) : ~(Crosses(r, fold.train) /\ Labelled(r))},
     validation |-> InSplit(fold.validation),
     test |-> {r \in InSplit(fold.test) : Labelled(r) \/ r[1] + Horizon <= Total}]
Purged(fold) ==
    [train |-> {r \in InSplit(fold.train) : ~(Crosses(r, fold.train) /\ Labelled(r))},
     validation |-> {r \in InSplit(fold.validation) : ~(Crosses(r, fold.validation) /\ Labelled(r))},
     test |-> {r \in InSplit(fold.test) : Labelled(r) \/ r[1] + Horizon <= Total}]

Unpurged(fold) == [name \in {"train", "validation", "test"} |-> InSplit(fold[name])]

AuditPasses(fold, rows) ==
    \A name \in {"train", "validation"} :
        \A r \in rows[name] : Labelled(r) => ~Crosses(r, fold[name])

\* The rows a fit or a prediction may use: those whose label is known.
Usable(rows) == {r \in rows : Labelled(r)}

-----------------------------------------------------------------------------
(* The evaluation of predictions through the scale-up windows.             *)

\* Rows of a split with a finite score.
Predicted(name) == {r \in Usable(kept[name]) : fit[r[2]] > 0}

WindowStarts(first, last) ==
    LET count == Least(MaxWindows, (last - first + 1 - TrainWindow) \div TestWindow)
    IN [j \in 1 .. Most(0, count) |-> first + TrainWindow + (j - 1) * TestWindow]

\* Symbols with a price somewhere in the window.
Priced(start) == {s \in Symbols : input.frame[s] \cap (start .. start + TestWindow - 1) # {}}
ScoredAt(rows, start) == {s \in Priced(start) : <<start, s>> \in rows}

\* A window has fewer scores than positions, or only one score.
InputIssue(rows, starts) ==
    \E j \in DOMAIN starts :
        \/ Cardinality(ScoredAt(rows, starts[j])) < Positions
        \/ Cardinality({fit[s] : s \in ScoredAt(rows, starts[j])}) <= 1

\* Symbols in the order of their names: ties go to the smaller.
Name(s) == CHOOSE i \in 1 .. Cardinality(Symbols) : SetToSeq(Symbols)[i] = s
Above(rows, start, s, t) ==
    LET rank(x) == IF <<start, x>> \in rows THEN fit[x] ELSE -1
    IN rank(s) > rank(t) \/ (rank(s) = rank(t) /\ Name(s) < Name(t))
Picks(rows, start) ==
    {s \in Priced(start) : Cardinality({t \in Priced(start) : Above(rows, start, t, s)}) < Positions}

\* What a run over the sessions first .. last ranks, window by window.
Evaluation(rows, first, last, limit) ==
    LET all == WindowStarts(first, last)
        starts == SubSeq(all, 1, Least(limit, Len(all)))
    IN IF \/ Cardinality({s \in Symbols : input.frame[s] \cap (first .. last) # {}}) < MinSymbols
          \/ InputIssue(rows, starts)
       THEN <<>>
       ELSE [j \in DOMAIN starts |-> [start |-> starts[j], picks |-> Picks(rows, starts[j])]]

\* First and last session of the single evaluation, from the predictions.
SingleFirst(rows) == Min({r[1] : r \in rows}) - TrainWindow + 1
SingleLast(rows) == Least(Total, Max({r[1] : r \in rows}) + TestWindow)
SingleSkipped(rows) ==
    SingleFirst(rows) < 1 \/ SingleFirst(rows) + TrainWindow + TestWindow > SingleLast(rows) + 1

TestEvaluation ==
    LET rows == Predicted("test")
    IN IF Plan = "single"
       THEN IF SingleSkipped(rows) THEN <<>>
            ELSE Evaluation(rows, SingleFirst(rows), SingleLast(rows), MaxWindows)
       ELSE Evaluation(rows, Most(1, Min(folds[at].test) - TrainWindow), Max(folds[at].test), MaxWindows)

\* Evidence for a selector, from the validation predictions: one window.
ValidationEvaluation ==
    LET rows == Predicted("validation")
    IN IF Plan = "single" \/ rows = {} THEN <<>>
       ELSE Evaluation(rows, Most(1, Min(folds[at].validation) - TrainWindow), Max(folds[at].validation), 1)

-----------------------------------------------------------------------------
(* The run.                                                                *)

Init ==
    /\ \E h \in Histories, share \in Shares, seq \in Scenarios, backend \in BOOLEAN :
            input = [frame |-> h, share |-> share, scenarios |-> seq, backend |-> backend]
    /\ phase = "loading" /\ folds = <<>> /\ at = 0 /\ kept = Unpurged([n \in {"train", "validation", "test"} |-> {}])
    /\ audit = FALSE /\ fit = [s \in Symbols |-> 0] /\ scenario = 0 /\ base = NoRow
    /\ results = <<>> /\ reason = "none"

Unavailable(why) ==
    /\ phase = "loading" /\ phase' = "unavailable" /\ reason' = why
    /\ UNCHANGED <<input, folds, at, kept, audit, fit, scenario, base, results>>

ProviderFails == Unavailable("provider")
TooFewSymbols ==
    /\ Plan = "folds" /\ Cardinality({s \in Symbols : input.frame[s] # {}}) < MinSymbols
    /\ Unavailable("symbols")
TooFewFolds ==
    /\ Plan = "folds" /\ Cardinality({s \in Symbols : input.frame[s] # {}}) >= MinSymbols
    /\ Len(WalkForwardFolds) < MinFolds /\ Unavailable("folds")

PlanFolds ==
    /\ phase = "loading"
    /\ Plan = "folds" => /\ Cardinality({s \in Symbols : input.frame[s] # {}}) >= MinSymbols
                         /\ Len(WalkForwardFolds) >= MinFolds
    /\ folds' = PlanOf(input.share) /\ at' = 1 /\ phase' = "preparing"
    /\ UNCHANGED <<input, kept, audit, fit, scenario, base, results, reason>>

\* The dataset of the fold: built anew, then purged and audited.
Prepare ==
    /\ phase = "preparing"
    /\ kept' = IF Plan = "single" THEN Unpurged(folds[at]) ELSE Purged(folds[at])
    /\ audit' = (Plan = "folds" /\ AuditPasses(folds[at], kept'))
    /\ phase' = "fitting"
    /\ UNCHANGED <<input, folds, at, fit, scenario, base, results, reason>>

Enough == \A name \in {"train", "validation", "test"} : Usable(kept[name]) # {}

Row(status, why, windows, validation, measured) ==
    [status |-> status, why |-> why, fold |-> folds[at], fitted |-> Usable(kept.train),
     scored |-> Predicted("test"), windows |-> windows, validation |-> validation,
     model |-> fit, audit |-> audit, measured |-> measured]

\* Mutant: the fold at work is evaluated again.
FileTwice(row) ==
    /\ results' = Append(results, row)
    /\ IF Len(results) < Len(folds) THEN phase' = "preparing" /\ UNCHANGED at
       ELSE phase' = "done" /\ UNCHANGED at
\* The row is filed; the next fold is prepared, or the report written.
File(row) ==
    /\ results' = Append(results, row)
    /\ IF at < Len(folds) THEN phase' = "preparing" /\ at' = at + 1
       ELSE phase' = "done" /\ UNCHANGED at

\* Without a backend, or without rows in each split, there is no model.
CannotFit ==
    /\ phase = "fitting" /\ (~input.backend \/ ~Enough)
    /\ fit' = [s \in Symbols |-> 0]
    /\ File([Row("failed", "not trained", <<>>, <<>>, FALSE) EXCEPT !.scored = {}, !.model = [s \in Symbols |-> 0]])
    /\ UNCHANGED <<input, folds, kept, audit, scenario, base, reason>>

Train ==
    /\ phase = "fitting" /\ input.backend /\ Enough
    /\ fit' \in Fits /\ phase' = "evaluating" /\ scenario' = 1 /\ base' = NoRow
    /\ UNCHANGED <<input, folds, at, kept, audit, results, reason>>

NoScores ==
    /\ phase = "evaluating" /\ Predicted("test") = {}
    /\ File(Row("failed", "no scores", <<>>, <<>>, FALSE))
    /\ UNCHANGED <<input, folds, kept, audit, fit, scenario, base, reason>>

\* The row of the fold is that of multiplier 1; the status follows its windows.
BaseOf(windows, validation) ==
    IF input.scenarios[scenario] # 1 THEN base
    ELSE IF windows = <<>> THEN Row("failed", "no windows", windows, validation, TRUE)
    ELSE Row("completed", "none", windows, validation, TRUE)

Evaluate ==
    /\ phase = "evaluating" /\ Predicted("test") # {}
    /\ LET windows == TestEvaluation
           validation == ValidationEvaluation
           row == BaseOf(windows, validation)
       IN IF scenario < Len(input.scenarios)
          THEN /\ base' = row /\ scenario' = scenario + 1
               /\ UNCHANGED <<phase, at, results>>
          ELSE \* without a multiplier 1 the first scenario becomes the row, unmeasured
               /\ File(IF row = NoRow THEN Row("completed", "scenario", windows, validation, FALSE) ELSE row)
               /\ UNCHANGED <<base, scenario>>
    /\ UNCHANGED <<input, folds, kept, audit, fit, reason>>

Next == ProviderFails \/ TooFewSymbols \/ TooFewFolds \/ PlanFolds \/ Prepare
          \/ CannotFit \/ Train \/ NoScores \/ Evaluate

Spec == Init /\ [][Next]_vars

-----------------------------------------------------------------------------
(* Properties.                                                             *)

TypeOK ==
    /\ phase \in {"loading", "preparing", "fitting", "evaluating", "done", "unavailable"}
    /\ reason \in {"none", "provider", "symbols", "folds"} /\ (phase = "unavailable") = (reason # "none")
    /\ at \in 0 .. Len(folds) /\ Len(results) \in {at - 1, at} \cup {0}
    /\ \A name \in {"train", "validation", "test"} : kept[name] \subseteq Rows
    /\ phase = "evaluating" => fit \in Fits /\ scenario \in DOMAIN input.scenarios

\* Test blocks tile the sessions from the first a model may be judged on to
\* the last of the frame, each right after its validation, which follows a
\* training range long enough to leave labelled rows after the purge.
FoldsTile ==
    (Plan = "folds" /\ folds # <<>>) =>
        /\ UNION {folds[i].test : i \in DOMAIN folds} = MinTrainDays + ValidationDays + 1 .. Total
        /\ \A i, j \in DOMAIN folds : i # j => folds[i].test \cap folds[j].test = {}
        /\ \A i \in DOMAIN folds :
              /\ folds[i].test # {} /\ Max(folds[i].validation) + 1 = Min(folds[i].test)
              /\ Cardinality(folds[i].validation) = ValidationDays
              /\ Cardinality(folds[i].train) >= MinTrainDays

\* Sessions the label of a row passes over because its symbol was suspended.
Missed(r) == Cardinality((r[1] .. LabelEnd(r)) \ input.frame[r[2]])

\* No row a model is fitted on or a selector is judged on has a label that
\* reaches beyond its own range, unless the symbol was suspended under the label:
\* the purge and its audit count dates of the frame, the label counts rows of the
\* symbol, and it reaches beyond by no more than the sessions missed.
NoLabelCrosses ==
    (Plan = "folds" /\ phase \in {"fitting", "evaluating"}) =>
        \A name \in {"train", "validation"} :
            \A r \in Usable(kept[name]) : LabelEnd(r) <= Max(folds[at][name]) + Missed(r)

\* The single split has no embargo, but as long as the validation range is
\* no shorter than the horizon no label the model is fitted on reaches a
\* session it is tested on, but for the sessions a suspension adds.
TestUnseen ==
    \A i \in DOMAIN results :
        Cardinality(results[i].fold.validation) >= Horizon =>
            \A r \in results[i].fitted : results[i].fold.test = {} \/ LabelEnd(r) < Min(results[i].fold.test) + Missed(r)

\* A completed fold ranked every window by the scores of its own model on
\* the first session of that window, and that session is a test session.
RankedByModel ==
    \A i \in DOMAIN results : \A j \in DOMAIN results[i].windows :
        LET w == results[i].windows[j]
        IN /\ w.start \in results[i].fold.test
           /\ Cardinality(w.picks) = Positions
           /\ \A s \in w.picks : <<w.start, s>> \in results[i].scored

\* Evidence for the selector is over before the test block begins.
ValidationPretest ==
    \A i \in DOMAIN results : \A j \in DOMAIN results[i].validation :
        results[i].validation[j].start + TestWindow - 1 <= Max(results[i].fold.validation)

\* A fold reported completed has windows behind it, and a measured one is
\* the scenario at the plain cost.
CompletedHasWindows ==
    \A i \in DOMAIN results :
        (results[i].status = "completed" /\ 1 \in ToSet(input.scenarios)) =>
            results[i].windows # <<>> /\ results[i].measured

=============================================================================
