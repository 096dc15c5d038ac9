-------------------------- MODULE DailyEvaluation --------------------------
(***************************************************************************)
(* A bounded evaluation over consecutive decision sessions, resumed as     *)
(* often as it takes.                                                      *)
(*                                                                         *)
(* run_real_daily_evaluation keeps everything it needs to continue in its  *)
(* output directory: a manifest with the digest of the request and the     *)
(* hash of every capital's state before the first session, a state file    *)
(* per capital, a report per capital and session, and one final report.    *)
(* Each file is replaced atomically; the process may stop between any two  *)
(* replacements, and the reports may be lost, truncated or edited while no *)
(* evaluation runs.                                                        *)
(*                                                                         *)
(* A state is named by its hash, and the hash by the sessions applied so   *)
(* far with the evidence each was decided on, as in PaperLedger.           *)
(***************************************************************************)
EXTENDS Naturals, Sequences, FiniteSets

CONSTANTS
    Requests,   \* requests: strategy, symbols, capitals, signals, ...
    NCapitals,  \* capitals of the request, in ascending order
    LastDay,    \* decision sessions are 1 .. LastDay
    Live,       \* TRUE: bars are fetched, FALSE: they are in the request
    Edits,      \* what happens to a report file: "lost", "cut", "altered"
    MaxEdits,   \* bound on the edits
    MaxStops    \* bound on the interruptions

EvaluationAssumption ==
    /\ NCapitals \in Nat \ {0}
    /\ LastDay \in Nat \ {0}
    /\ Live \in BOOLEAN
    /\ Edits \subseteq {"lost", "cut", "altered"}
    /\ MaxEdits \in Nat /\ MaxStops \in Nat

VARIABLES
    revised,   \* the first day whose bars the provider has revised, or none
    manifest,  \* evaluation_manifest.json
    ledger,    \* ledger[c]: the state file of capital c
    report,    \* report[c][d]: the daily report of capital c and session d
    final,     \* the final report
    run,       \* the evaluation in progress
    edits, stops

vars == <<revised, manifest, ledger, report, final, run, edits, stops>>
files == <<manifest, ledger, report, final>>

-----------------------------------------------------------------------------
Capitals == 1 .. NCapitals
Days == 1 .. LastDay

\* No revision: a day after every execution session.
NotRevised == LastDay + 2

Absent == [is |-> "none"]

\* _rows_through_execution: of a revision of day r and later, session d sees
\* what is not after its execution session d + 1.
Seen(r, d) == IF r <= d + 1 THEN r ELSE NotRevised

\* The evidence a session is decided on: pipeline_request_digest covers the
\* request, the bars and the signals available by the close of d.
Evidence(q, r, d) == [request |-> q, seen |-> Seen(r, d)]

\* evaluation_request_digest: fetched bars are not part of the request.
RequestDigest(q, r) ==
    [request |-> q, bars |-> IF Live THEN NotRevised ELSE r]

\* A daily report: what a replay must reproduce, and how it came about.
Report(c, k, status) ==
    [is |-> "whole", session |-> c[k].session, evidence |-> c[k].evidence,
     before |-> SubSeq(c, 1, k - 1), after |-> SubSeq(c, 1, k),
     altered |-> FALSE, status |-> status]

\* render_daily_paper_session_report: hash_after of a session is hash_before
\* of the next one.
Render(c, k, status) == Report(c, k, status)

Missing   == [is |-> "missing"]
Malformed == [is |-> "malformed_json"]

Idle == [at |-> "idle"]

Init ==
    /\ revised = NotRevised
    /\ manifest = Absent
    /\ ledger = [c \in Capitals |-> <<>>]
    /\ report = [c \in Capitals |-> [d \in Days |-> Missing]]
    /\ final = Absent
    /\ run = Idle
    /\ edits = 0 /\ stops = 0

-----------------------------------------------------------------------------
(***************************************************************************)
(* One evaluation.                                                         *)
(***************************************************************************)

\* Request and market evidence are fixed before anything is written.
Start(q) ==
    /\ run.at = "idle"
    /\ run' = [at |-> "manifest", request |-> q, bars |-> revised,
               capital |-> 1, day |-> 1, result |-> Absent,
               summaries |-> <<>>, done |-> <<>>]
    /\ UNCHANGED <<revised, files, edits, stops>>

StartingHashes == [c \in Capitals |-> ledger[c]]

\* Mutant: an existing manifest is replaced.
OpenManifestAnyway ==
    /\ run.at = "manifest"
    /\ manifest' = [is |-> "whole", start |-> StartingHashes,
                    digest |-> RequestDigest(run.request, run.bars)]
    /\ run' = [run EXCEPT !.at = "session"]
    /\ UNCHANGED <<revised, ledger, report, final, edits, stops>>

\* _load_or_create_manifest: a manifest of another request stops the run.
OpenManifest ==
    /\ run.at = "manifest"
    /\ LET digest == RequestDigest(run.request, run.bars)
       IN  \/ /\ manifest = Absent
              /\ manifest' = [is |-> "whole", start |-> StartingHashes,
                              digest |-> digest]
              /\ run' = [run EXCEPT !.at = "session"]
           \/ /\ manifest # Absent
              /\ run' = IF manifest.digest = digest
                        THEN [run EXCEPT !.at = "session"] ELSE Idle
              /\ UNCHANGED manifest
    /\ UNCHANGED <<revised, ledger, report, final, edits, stops>>

AppliedAt(c, d) == {k \in 1 .. Len(ledger[c]) : ledger[c][k].session = d}

\* _completed_pipeline_replay.
SameEvidence(c, k) ==
    ledger[c][k].evidence = Evidence(run.request, run.bars, run.day)

\* The pipeline and the loop on one session: an applied one is replayed, one
\* applied on other evidence is a conflict, any other is applied and saved.
RunSession ==
    /\ run.at = "session"
    /\ LET c == run.capital
           d == run.day
       IN  \/ \E k \in AppliedAt(c, d) :
                 /\ run' = IF SameEvidence(c, k)
                           THEN [run EXCEPT !.at = "report", !.result =
                                    Render(ledger[c], k, "idempotent_replay")]
                           ELSE Idle
                 /\ UNCHANGED ledger
           \/ /\ AppliedAt(c, d) = {}
              /\ LET chain == Append(ledger[c],
                          [session |-> d,
                           evidence |-> Evidence(run.request, run.bars, d)])
                 IN  /\ ledger' = [ledger EXCEPT ![c] = chain]
                     /\ run' = [run EXCEPT !.at = "report", !.result =
                                   Render(chain, Len(chain), "completed")]
    /\ UNCHANGED <<revised, manifest, report, final, edits, stops>>

\* What a replay must reproduce of a report, or the whole report is refused.
Substantive(x) == [x EXCEPT !.status = "any"]

\* Mutant: sessions, digests and state hashes only.
ParityOfHashes(x, y) ==
    Substantive([x EXCEPT !.altered = FALSE]) = Substantive(y)

Parity(x, y) == Substantive(x) = Substantive(y)

\* _verified_daily_combined_report: the report that is kept, if any.
Certified(existing, result) ==
    IF result.status = "completed" \/ existing.is # "whole" THEN {result}
    ELSE IF Parity(existing, result) THEN {existing} ELSE {}

Summary(kept, result) == kept

\* After the last session of a capital its state is loaded once more.
NextSession(summaries) ==
    IF run.day < LastDay
    THEN [run EXCEPT !.at = "session", !.day = run.day + 1,
                     !.summaries = summaries]
    ELSE [run EXCEPT !.at = IF run.capital < NCapitals THEN "session"
                            ELSE "final",
                     !.day = 1, !.capital = run.capital + 1,
                     !.summaries = <<>>,
                     !.done = Append(run.done,
                         [start |-> manifest.start[run.capital],
                          end |-> ledger[run.capital],
                          summaries |-> summaries])]

WriteReport ==
    /\ run.at = "report"
    /\ LET c == run.capital
           d == run.day
           kept == Certified(report[c][d], run.result)
       IN  \/ \E x \in kept :
                 /\ report' = [report EXCEPT ![c][d] = x]
                 /\ run' = NextSession(Append(run.summaries,
                                              Summary(x, run.result)))
           \/ kept = {} /\ run' = Idle /\ UNCHANGED report
    /\ UNCHANGED <<revised, manifest, ledger, final, edits, stops>>

WriteFinal ==
    /\ run.at = "final"
    /\ final' = [is |-> "whole", request |-> run.request, bars |-> run.bars,
                 capitals |-> run.done]
    /\ run' = Idle
    /\ UNCHANGED <<revised, manifest, ledger, report, edits, stops>>

Advance == OpenManifest \/ RunSession \/ WriteReport \/ WriteFinal

-----------------------------------------------------------------------------
(***************************************************************************)
(* What happens to an evaluation.                                          *)
(***************************************************************************)

\* The process ends, or a write raises, before the next file is replaced.
Stop ==
    /\ run.at # "idle"
    /\ stops < MaxStops
    /\ stops' = stops + 1
    /\ run' = Idle
    /\ UNCHANGED <<revised, files, edits>>

\* The provider, or whoever supplies the bars, corrects those of day r on.
Revise(r) ==
    /\ run.at = "idle"
    /\ revised = NotRevised
    /\ revised' = r
    /\ UNCHANGED <<files, run, edits, stops>>

Edited(x, e) == CASE e = "lost" -> Missing
                  [] e = "cut" -> Malformed
                  [] e = "altered" -> [x EXCEPT !.altered = TRUE]

EditReport(c, d, e) ==
    /\ run.at = "idle"
    /\ edits < MaxEdits
    /\ report[c][d].is = "whole"
    /\ report' = [report EXCEPT ![c][d] = Edited(report[c][d], e)]
    /\ edits' = edits + 1
    /\ UNCHANGED <<revised, manifest, ledger, final, run, stops>>

Next ==
    \/ \E q \in Requests : Start(q)
    \/ Advance
    \/ Stop
    \/ \E r \in 1 .. LastDay + 1 : Revise(r)
    \/ \E c \in Capitals, d \in Days, e \in Edits : EditReport(c, d, e)

Spec == Init /\ [][Next]_vars

\* The operator does start the evaluation again with the request it belongs
\* to, whatever else is started in between, and a started one goes on.
Resume == \E q \in Requests :
    /\ manifest # Absent => manifest.digest.request = q
    /\ final = Absent
    /\ Start(q)
FairSpec == Spec /\ SF_vars(Resume) /\ WF_vars(Advance)

-----------------------------------------------------------------------------
(***************************************************************************)
(* What must hold.                                                         *)
(***************************************************************************)

\* The state of a capital holds the first sessions of the range, each once
\* and in order, and the evaluation never skips one.
TypeOK ==
    /\ revised \in 1 .. NotRevised
    /\ edits \in 0 .. MaxEdits /\ stops \in 0 .. MaxStops
    /\ run.at \in {"idle", "manifest", "session", "report", "final"}
    /\ \A c \in Capitals :
          /\ Len(ledger[c]) <= LastDay
          /\ \A k \in 1 .. Len(ledger[c]) : ledger[c][k].session = k
          /\ \A d \in Days :
                /\ report[c][d].is \in {"missing", "malformed_json", "whole"}
                /\ report[c][d].is = "whole" => d <= Len(ledger[c])

\* The starting hash of the final report is that of the state before the
\* first session, however often the evaluation was interrupted and resumed.
StartIsBeforeFirst ==
    final # Absent => \A c \in Capitals :
        final.capitals[c].start = final.capitals[c].summaries[1].before

\* The sessions of the final report form one chain of states: each starts
\* where the one before it ended, and the last one where the state file is.
ChainUnbroken ==
    final # Absent => \A c \in Capitals :
        LET s == final.capitals[c].summaries
        IN  /\ Len(s) = LastDay
            /\ \A d \in 1 .. LastDay - 1 : s[d].after = s[d + 1].before
            /\ s[LastDay].after = final.capitals[c].end
            /\ final.capitals[c].end = ledger[c]

\* Every session of the final report was decided on the evidence of the very
\* request and bars the report names: sessions of two requests, or of bars
\* before and after a correction, are never put together.
UniformEvidence ==
    final # Absent => \A c \in Capitals, d \in Days :
        final.capitals[c].summaries[d].evidence
            = Evidence(final.request, final.bars, d)

\* The states of all capitals belong to the request of the manifest: every
\* applied session was decided on its strategy, symbols and signals, and on
\* its bars where the request holds them.
OneRequest ==
    \A c \in Capitals : \A k \in 1 .. Len(ledger[c]) :
        LET used == ledger[c][k].evidence
        IN  /\ manifest # Absent
            /\ used.request = manifest.digest.request
            /\ Live \/ used = Evidence(manifest.digest.request,
                                      manifest.digest.bars, k)

\* When the final report is written, every session it sums up is on disk as
\* it was summed up, and none of them had been altered.
FinalIsCertified ==
    final' # final =>
        \A c \in Capitals, d \in Days :
            /\ final'.capitals[c].summaries[d] = report'[c][d]
            /\ ~ report'[c][d].altered

\* A report that can be read is never replaced by another one by a later
\* evaluation, whether it agrees with the state or not.
ReadableIsKept ==
    \A c \in Capitals, d \in Days :
         report[c][d].is = "whole" /\ edits' = edits
             => report'[c][d] = report[c][d]

=============================================================================
