---------------------------- MODULE PaperLedger ----------------------------
(***************************************************************************)
(* The ledger a daily paper state file holds, as data.                     *)
(*                                                                         *)
(* The state file of the daily paper loop keeps the account, every applied *)
(* session, the last decision and execution sessions, and the hash of the  *)
(* state it was built from; the hash of a state covers all of that.  A     *)
(* hash therefore names one whole history, and this module represents a    *)
(* state by its history: the sequence of ledger entries, each of which     *)
(* records the fields of the state right after one daily session or one    *)
(* manually recorded fill.  state_hash of a chain is the chain itself and  *)
(* prior_state_hash is the chain without its last entry.                   *)
(*                                                                         *)
(* Of the account only the set of held symbols is kept here: it is what    *)
(* the market-evidence check reads.  AShareExecution has the account.      *)
(***************************************************************************)
EXTENDS Naturals, Sequences

CONSTANTS
    LastDay,     \* the calendar's trading sessions are 1 .. LastDay
    Symbols,     \* tradable symbols
    Inputs,      \* input digests: candidate report, market bundle, config
    Candidates,  \* Candidates[i]: symbols of the candidate report of i
    Rows         \* Rows[i]: symbols with both a D row and a D+1 row in i

ASSUME LedgerAssumption ==
    /\ LastDay \in Nat
    /\ Candidates \in [Inputs -> SUBSET Symbols]
    /\ Rows \in [Inputs -> SUBSET Symbols]

Days == 1 .. LastDay

SessionEntry == [kind : {"session"}, decision : Nat, execution : Nat,
                 input : Inputs, held : SUBSET Symbols]

\* A manual fill carries last_decision_session over and has no input digest.
FillEntry == [kind : {"fill"}, decision : Nat, execution : Nat,
              held : SUBSET Symbols]

Entry == SessionEntry \cup FillEntry
Chain == Seq(Entry)

LastDecision(c)  == IF c = <<>> THEN 0 ELSE c[Len(c)].decision
LastExecution(c) == IF c = <<>> THEN 0 ELSE c[Len(c)].execution
Held(c)          == IF c = <<>> THEN {} ELSE c[Len(c)].held

Prefix(c, n) == SubSeq(c, 1, n)

\* Positions in c of the sessions applied_sessions records.
SessionsAt(c) == {k \in 1 .. Len(c) : c[k].kind = "session"}

\* applied_sessions.get(session_id): the entry of decision session d, if any.
AppliedAt(c, d) == {k \in SessionsAt(c) : c[k].decision = d}

-----------------------------------------------------------------------------
(***************************************************************************)
(* The daily session D -> D+1.                                             *)
(***************************************************************************)

\* _validate_market_bundle: evidence for both sessions for every holding.
MarketCovers(c, i) == Held(c) \subseteq Rows[i]

\* _validate_chronology.
Chronological(c, d) ==
    /\ d > LastDecision(c)
    /\ d + 1 > LastExecution(c)
    /\ d >= LastExecution(c)

\* Mutant: buys of candidates without a market row.
HoldingsAfterNoEvidence(c, i) ==
    {h \in SUBSET Symbols :
        /\ h \subseteq Held(c) \cup Candidates[i]
        /\ Held(c) \ h \subseteq Candidates[i]}

\* What the holdings can be after the orders of input i were executed: buys
\* are of candidates with market evidence, sells are of exit candidates.
HoldingsAfter(c, i) ==
    {h \in SUBSET Symbols :
        /\ h \subseteq Held(c) \cup (Candidates[i] \cap Rows[i])
        /\ Held(c) \ h \subseteq Candidates[i]}

SessionStep(c, d, i, h) ==
    [kind |-> "session", decision |-> d, execution |-> d + 1,
     input |-> i, held |-> h]

\* What run_daily_paper_loop checks before it executes the orders, when the
\* session is not in applied_sessions.
LegalSession(c, d, i, h) ==
    /\ d + 1 \in Days
    /\ AppliedAt(c, d) = {}
    /\ MarketCovers(c, i)
    /\ Chronological(c, d)
    /\ h \in HoldingsAfter(c, i)

-----------------------------------------------------------------------------
(***************************************************************************)
(* The manual fill of one symbol on trade date t.                          *)
(***************************************************************************)
FillStep(c, t, h) ==
    [kind |-> "fill", decision |-> LastDecision(c), execution |-> t,
     held |-> h]

\* A buy adds the symbol; a sell needs a position and may or may not close it.
HoldingsAfterFill(c, s) ==
    {Held(c) \cup {s}} \cup (IF s \in Held(c) THEN {Held(c) \ {s}} ELSE {})

\* Mutant: no chronology guard.
LegalFillAnyDate(c, t, s, h) == h \in HoldingsAfterFill(c, s)

\* The chronology guard of the manual fill, and the position it needs.  The script
\* compares its date argument as a string; dates here are the YYYY-MM-DD it asks
\* for, whose order is that of the days.
LegalFill(c, t, s, h) ==
    /\ t >= LastExecution(c)
    /\ h \in HoldingsAfterFill(c, s)

-----------------------------------------------------------------------------
(***************************************************************************)
(* What a well-formed history looks like.                                  *)
(***************************************************************************)

\* The dates of a history never go back, and a session decides after every
\* earlier decision and no earlier than any earlier execution or fill.
Ordered(c) ==
    \A j, k \in 1 .. Len(c) : j < k =>
        /\ c[j].decision <= c[k].decision
        /\ c[j].execution <= c[k].execution
        /\ c[k].kind = "session" =>
              /\ c[j].decision < c[k].decision
              /\ c[j].execution <= c[k].decision

\* A session executes in the session after its decision, and the evidence it
\* ran on covers the holdings it left.
Covered(c) ==
    \A k \in SessionsAt(c) :
        /\ c[k].execution = c[k].decision + 1
        /\ c[k].held \subseteq Rows[c[k].input]

WellFormed(c) == Ordered(c) /\ Covered(c)

\* No session is in the history twice: its orders were filled once.
AppliedOnce(c) ==
    \A j, k \in SessionsAt(c) : c[j].decision = c[k].decision => j = k
=============================================================================
