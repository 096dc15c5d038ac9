--------------------------- MODULE SessionLedger ---------------------------
(***************************************************************************)
(* What the daily paper state promises its readers, without files,         *)
(* processes or crashes: one ledger that only grows, one entry at a time,  *)
(* every entry legal after the ones before it.                             *)
(***************************************************************************)
EXTENDS PaperLedger

VARIABLE ledger

Init == ledger = <<>>

ApplySession ==
    \E d \in Days, i \in Inputs, h \in SUBSET Symbols :
        /\ LegalSession(ledger, d, i, h)
        /\ ledger' = Append(ledger, SessionStep(ledger, d, i, h))

ApplyFill ==
    \E t \in Days, s \in Symbols, h \in SUBSET Symbols :
        /\ LegalFill(ledger, t, s, h)
        /\ ledger' = Append(ledger, FillStep(ledger, t, h))

Next == ApplySession \/ ApplyFill

Spec == Init /\ [][Next]_ledger
=============================================================================
