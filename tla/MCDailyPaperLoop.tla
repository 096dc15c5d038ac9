-------------------------- MODULE MCDailyPaperLoop --------------------------
(***************************************************************************)
(* Small instances of DailyPaperLoop.                                      *)
(***************************************************************************)
EXTENDS DailyPaperLoop, TLC

CONSTANTS l1, k1, a, b, i1, i2

\* Both inputs have both symbols as candidates; i1 has market rows for a only,
\* so it cannot buy b and cannot be used while b is held.
MCCandidates == i1 :> {a, b} @@ i2 :> {a, b}
MCRows == i1 :> {a} @@ i2 :> {a, b}

OneLoop == {l1}
OneClerk == {k1}
MCSymbols == {a, b}
MCInputs == {i1, i2}

\* The interleavings are the interesting part of the concurrent instance; it
\* has one symbol and one input.
OneSymbol == {a}
OneInput == {i1}
OneCandidates == i1 :> {a}
OneRows == i1 :> {a}
=============================================================================
