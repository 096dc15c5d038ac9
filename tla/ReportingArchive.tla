------------------------- MODULE ReportingArchive -------------------------
(***************************************************************************)
(* What the reporting store promises, without cycles, transactions or      *)
(* connections: for a session it holds nothing, or the bundle of one       *)
(* cycle, complete; and what it holds it keeps.                            *)
(***************************************************************************)
CONSTANTS
    Days,       \* decision sessions
    Bundles,    \* the complete, coherent bundles of rows
    Empty       \* no row of a session in any table

VARIABLE archive

Init == archive = [d \in Days |-> Empty]

Store(d) ==
    /\ archive[d] = Empty
    /\ archive'[d] \in Bundles
    /\ archive' = [archive EXCEPT ![d] = archive'[d]]

Next == \E d \in Days : Store(d)

Spec == Init /\ [][Next]_archive
=============================================================================
