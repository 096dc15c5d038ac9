---------------------------- MODULE ParameterSweep ----------------------------
(***************************************************************************)
(* The parameter sweeps over the walk-forward scale-up                     *)
(* (evaluation/real_data_walk_forward_smoke.py): the manual sweep asks the *)
(* provider again for every parameter set, the factor-ranking sweep loads  *)
(* the bars once.  Each set becomes a row with its return, the return of a *)
(* benchmark held over the test windows and the drawdown, and the rows are *)
(* ranked three ways.                                                      *)
(*                                                                         *)
(* What the rebalance windows do to the account is RebalanceWindows; here  *)
(* they end with any equity of a small set.  A frame gives each symbol a   *)
(* close for each day, 0 where it has no bar.  Returns are in units of     *)
(* 1/Initial and a drawdown is a fraction <<numerator, denominator>>.      *)
(***************************************************************************)
EXTENDS Integers, SequencesExt, FiniteSetsExt, TLC

CONSTANTS Kind,        \* "sweep", or "cached" for the factor-ranking sweep
          Symbols, Days,
          Markets,     \* the closes the provider may have
          Sets,        \* the parameter sets in grid order: target count and weight in percent
          Equities,    \* the equities a window can end with
          Initial,     \* the initial cash
          TrainDays, TestDays, MaxWindows, MinSymbols, TopN,
          Raised,      \* the sweep ended with an exception
          None

SizesAssumption ==
  /\ {Days, Initial, TrainDays, TestDays, MaxWindows, MinSymbols, TopN} \subseteq Nat \ {0}
  /\ Kind \in {"sweep", "cached"}

VARIABLES market,   \* what the provider has
          frame,    \* the cached bars: None before they are loaded
          rows,     \* one row per parameter set run
          result    \* the three top lists, Raised, or None

vars == <<market, frame, rows, result>>

-----------------------------------------------------------------------------
(* Frames and windows. *)

Restriction(f, got) == [s \in got |-> f[s]]

ValidSymbols(f) == {s \in DOMAIN f : \E d \in 1..Days : f[s][d] # 0}

Dates(f) == SetToSortSeq({d \in 1..Days : \E s \in DOMAIN f : f[s][d] # 0}, <)

\* The test ranges: as many as fit, the next one TestDays later.
Windows(f) ==
  LET dates == Dates(f)
      fitting == {k \in 1..MaxWindows : (k - 1) * TestDays + TrainDays + TestDays <= Len(dates)}
  IN  [k \in 1..Cardinality(fitting) |->
         [first |-> dates[(k - 1) * TestDays + TrainDays + 1],
          last  |-> dates[(k - 1) * TestDays + TrainDays + TestDays]]]

TestStart(f) == Windows(f)[1].first
TestEnd(f) == Windows(f)[Len(Windows(f))].last

Usable(f) ==
  /\ ValidSymbols(f) # {}
  /\ Cardinality(ValidSymbols(f)) >= MinSymbols
  /\ Windows(f) # <<>>

-----------------------------------------------------------------------------
(* The buy-and-hold benchmark. *)

EntryDays(f, s) == {d \in TestStart(f)..Days : f[s][d] # 0}
ExitDays(f, s) == {d \in 1..TestEnd(f) : f[s][d] # 0}

Constituents(f) == {s \in ValidSymbols(f) : EntryDays(f, s) # {} /\ ExitDays(f, s) # {}}

EntryDay(f, s) == Min(EntryDays(f, s))
ExitDay(f, s) == Max(ExitDays(f, s))

\* The equity of the equal-weight holding, None when nothing can be held.
Benchmark(f) ==
  IF Constituents(f) = {} THEN None
  ELSE MapThenSumSet(LAMBDA s : (Initial * f[s][ExitDay(f, s)])
                                  \div (Cardinality(Constituents(f)) * f[s][EntryDay(f, s)]),
                     Constituents(f))

-----------------------------------------------------------------------------
(* One row. *)

Less(a, b) == a[1] * b[2] < b[1] * a[2]

\* Mutant: the peak starts with the first window's end.
MaxDrawdownInside(path) ==
  LET drop(i, j) == <<path[i] - path[j], path[i]>>
      drops == {<<0, 1>>} \cup {drop(i, j) : <<i, j>> \in {<<i, j>> \in (1..Len(path)) \X (1..Len(path)) : i < j}}
  IN  CHOOSE a \in drops : \A b \in drops : ~Less(a, b)

\* The largest fall from an earlier equity, the initial cash among them.
MaxDrawdown(path) ==
  LET equities == <<Initial>> \o path
      drop(i, j) == <<equities[i] - equities[j], equities[i]>>
      pairs == {p \in (1..Len(equities)) \X (1..Len(equities)) : p[1] < p[2]}
      drops == {<<0, 1>>} \cup {drop(p[1], p[2]) : p \in pairs}
  IN  CHOOSE a \in drops : \A b \in drops : ~Less(a, b)

\* valid_symbols and skipped_symbols of a report without windows: skipped are
\* the symbols named in the missing_symbols warning, and without the warning all.
UnavailableSkipped(f) ==
  LET missing == Symbols \ ValidSymbols(f)
  IN  IF DOMAIN f = {} \/ missing = {} THEN Symbols ELSE missing

Unavailable(index, f) ==
  [set |-> index, ret |-> None, excess |-> None, bench |-> None, drawdown |-> None,
   windows |-> 0, skipped |-> UnavailableSkipped(f), frame |-> f]

Row(index, f, path) ==
  LET final == path[Len(path)]
      bench == Benchmark(f)
  IN  [set |-> index, ret |-> final - Initial,
       bench |-> IF bench = None THEN None ELSE bench - Initial,
       excess |-> IF bench = None THEN None ELSE final - bench,
       drawdown |-> MaxDrawdown(path), windows |-> Len(path),
       skipped |-> Symbols \ ValidSymbols(f), frame |-> f]

RowsOf(index, f) ==
  IF Usable(f) THEN {Row(index, f, path) : path \in [1..Len(Windows(f)) -> Equities]}
  ELSE {Unavailable(index, f)}

-----------------------------------------------------------------------------
(* The rankings: keys are compared in order, the later set first on a tie. *)

Lowest == -1000000

NoneLow(value) == IF value = None THEN Lowest ELSE value

\* _drawdown_adjusted_score as a fraction of 1/Initial.
Score(row) ==
  LET excess == IF row.excess = None THEN row.ret ELSE row.excess
  IN  IF excess = None THEN <<Lowest, 1>>
      ELSE IF row.drawdown[1] = 0 THEN <<excess, 1>>
      ELSE <<excess * row.drawdown[2], row.drawdown[1]>>

Plain(value) == <<value, 1>>

Key(metric, row) ==
  CASE metric = "excess"   -> <<Plain(NoneLow(row.excess)), Plain(NoneLow(row.excess)), Plain(row.set)>>
    [] metric = "ret"      -> <<Plain(NoneLow(row.ret)), Plain(NoneLow(row.excess)), Plain(row.set)>>
    [] metric = "drawdown" -> <<Score(row), Plain(NoneLow(row.excess)), Plain(row.set)>>

Above(metric, a, b) ==
  LET x == Key(metric, a)
      y == Key(metric, b)
  IN  \E i \in 1..3 : Less(y[i], x[i]) /\ \A j \in 1..(i - 1) : ~Less(x[j], y[j])

Top(metric, rs) ==
  LET ranked == SetToSortSeq(ToSet(rs), LAMBDA a, b : Above(metric, a, b))
  IN  SubSeq(ranked, 1, IF Len(ranked) < TopN THEN Len(ranked) ELSE TopN)

Lists(rs) == [metric \in {"excess", "ret", "drawdown"} |-> Top(metric, rs)]

-----------------------------------------------------------------------------
\* _validate_scaleup_config, as far as the grid can break it.  Only the manual
\* sweep comes past it: the cached one runs whatever set the grid has.
WithinLimits(set) == set.target > 0 /\ set.weight > 0 /\ set.weight <= 100

Init ==
  /\ market \in Markets
  /\ frame = None /\ rows = <<>> /\ result = None

\* The provider answers with the bars of some of the symbols, or fails.
Answers == {Restriction(market, got) : got \in SUBSET Symbols}

NextSet == Len(rows) + 1
Running == result = None /\ NextSet <= Len(Sets)

\* One parameter set of the manual sweep: checked, loaded, run.
RunSet(answer) ==
  /\ Kind = "sweep" /\ Running
  /\ WithinLimits(Sets[NextSet])
  /\ \E row \in RowsOf(NextSet, answer) : rows' = Append(rows, row)
  /\ UNCHANGED <<market, frame, result>>

\* A set outside the limits ends the manual sweep with an exception.
Refuse ==
  /\ Kind = "sweep" /\ Running
  /\ ~WithinLimits(Sets[NextSet])
  /\ result' = Raised
  /\ UNCHANGED <<market, frame, rows>>

LoadOnce(answer) ==
  /\ Kind = "cached" /\ frame = None /\ result = None
  /\ frame' = answer
  /\ UNCHANGED <<market, rows, result>>

RunCached ==
  /\ Kind = "cached" /\ frame # None /\ Running
  /\ \E row \in RowsOf(NextSet, frame) : rows' = Append(rows, row)
  /\ UNCHANGED <<market, frame, result>>

Rank ==
  /\ result = None /\ Len(rows) = Len(Sets)
  /\ result' = Lists(rows)
  /\ UNCHANGED <<market, frame, rows>>

Next ==
  \/ \E answer \in Answers : RunSet(answer) \/ LoadOnce(answer)
  \/ Refuse \/ RunCached \/ Rank

Spec == Init /\ [][Next]_vars

-----------------------------------------------------------------------------
Ranked == result # None /\ result # Raised

TypeOK ==
  /\ Len(rows) <= Len(Sets)
  /\ \A i \in DOMAIN rows :
       /\ rows[i].set = i /\ rows[i].windows \in 0..MaxWindows
       /\ rows[i].skipped \subseteq Symbols
       /\ (rows[i].drawdown = None) <=> (rows[i].windows = 0)
       /\ rows[i].drawdown # None =>
            rows[i].drawdown[1] \in Nat /\ rows[i].drawdown[1] <= rows[i].drawdown[2]

\* The rows of a sweep are about one data set: the same symbols, the same test
\* range and the same benchmark.
RowsComparable ==
  \A i, j \in DOMAIN rows :
    rows[i].bench = rows[j].bench /\ rows[i].windows = rows[j].windows
    /\ rows[i].skipped = rows[j].skipped

\* Whatever is missing from a list of the best is not better than anything in
\* it, and a set that could not be run is never listed before one that was.
TopIsTop ==
  Ranked =>
    \A metric \in {"excess", "ret"} :
      \A i \in DOMAIN rows, k \in DOMAIN result[metric] :
        /\ rows[i] \notin ToSet(result[metric]) =>
             NoneLow(rows[i][metric]) <= NoneLow(result[metric][k][metric])
        /\ (rows[i] \notin ToSet(result[metric]) /\ rows[i][metric] # None) =>
             result[metric][k][metric] # None

\* The drawdown of a run that lost covers the loss from the initial cash.
DrawdownCoversLoss ==
  \A i \in DOMAIN rows :
    (rows[i].ret # None /\ rows[i].ret < 0) => ~Less(rows[i].drawdown, <<-rows[i].ret, Initial>>)

\* A symbol with a bar in the test range is bought at its first close of the
\* range and valued at its last one.
BenchmarkHoldsTheRange ==
  \A i \in DOMAIN rows :
    (rows[i].windows > 0) =>
      LET f == rows[i].frame
          inside(s) == {d \in TestStart(f)..TestEnd(f) : f[s][d] # 0}
      IN  \A s \in ValidSymbols(f) :
            inside(s) # {} =>
              /\ s \in Constituents(f)
              /\ EntryDay(f, s) = Min(inside(s)) /\ ExitDay(f, s) = Max(inside(s))
=============================================================================
