---- MODULE AnnouncementAssessment ----
(* The assessment of announcements by the advisory model and its technical    *)
(* evaluation (announcement_intelligence/research_committee_integration.py and*)
(* deepseek_evaluation.py): one event after the other is answered from the    *)
(* cache on disk or by the agent, and the run counts what it did.             *)
EXTENDS Naturals, Sequences, FiniteSets, SequencesExt, TLC

CONSTANTS Batches,     \* the sequences of rows a run may be given
          Outputs,     \* what the agent may return
          Models,      \* the model the agent's policy may select
          Cap,         \* per content source, the confidence an assessment may have
          MaxRuns, MaxCrashes,     \* bounds
          Unset        \* no content source in the row

Sources == {"full_text", "provider_summary", "title_fallback", "unavailable"}

\* A row is [id, source, full, text]: its content source, full_text_available and
\* whether it has any content; a title it always has.  An output is valid or not,
\* a fallback of the agent or an answer of the model, and its shape is structured,
\* text that is not, values in advisory notes, or nothing.
OutputsAssumption ==
    /\ DOMAIN Cap = Sources /\ \A s \in Sources : Cap[s] \in Nat
    /\ \A o \in Outputs : /\ o.valid \in BOOLEAN /\ o.fallback \in BOOLEAN
                          /\ o.shape \in {"structured", "text", "values", "nothing"}
                          /\ o.confidence \in Nat

VARIABLES cache,       \* per key, the assessment on disk, or Torn
          run, runs, crashes,
          calls,       \* history: calls of the agent in this run
          asked        \* history: the rows the agent has been asked about

vars == <<cache, run, runs, crashes, calls, asked>>

-----------------------------------------------------------------------------
(* One assessment. *)

ContentSource(row) ==
    IF row.source # Unset THEN row.source
    ELSE IF row.full THEN "full_text"
    ELSE IF row.text THEN "title_fallback" ELSE "unavailable"

\* _event_has_available_content of the evaluation: a title will do.
Available(row) == row.source # "unavailable"

Least(a, b) == IF a <= b THEN a ELSE b

Assessment(row, origin, schema, confidence) ==
    [id |-> row.id, source |-> ContentSource(row), origin |-> origin, schema |-> schema,
     confidence |-> Least(confidence, Cap[ContentSource(row)])]

Unavailable(row) == Assessment(row, "honest_unavailable_fallback", "not_applicable", 0)

\* The agent raised, or returned something that is no advisory output.
Failed(row) == Assessment(row, "honest_unavailable_fallback", "failed", 0)

Schema(output) ==
    CASE output.shape = "structured" -> "passed"
      [] output.shape # "structured" /\ output.fallback -> "not_applicable"
      [] OTHER -> "failed"

\* Text of the model is not searched for advisory values.
Origin(output) ==
    CASE output.shape = "structured" -> "model_structured_output"
      [] output.shape = "values" -> "advisory_output"
      [] OTHER -> "keyword_fallback"

Assessed(row, output) ==
    IF ~output.valid THEN Failed(row)
    ELSE Assessment(row, Origin(output), Schema(output), output.confidence)

-----------------------------------------------------------------------------
(* A run. *)

Torn == [id |-> 0]

Idle == [phase |-> "idle", rows |-> <<>>, model |-> Unset, live |-> FALSE, k |-> 1,
         done |-> <<>>, hits |-> 0, attempts |-> 0, ok |-> 0, failures |-> 0,
         valid |-> 0, invalid |-> 0]

Init == cache = <<>> /\ run = Idle /\ runs = 0 /\ crashes = 0 /\ calls = 0 /\ asked = {}

Begin ==
    /\ run.phase \in {"idle", "done", "raised"} /\ runs < MaxRuns
    /\ \E rows \in Batches, m \in Models, live \in BOOLEAN :
          run' = [Idle EXCEPT !.phase = "rows", !.rows = rows, !.model = m, !.live = live]
    /\ runs' = runs + 1 /\ calls' = 0
    /\ UNCHANGED <<cache, crashes, asked>>

Row == run.rows[run.k]
Working == run.phase = "rows" /\ run.k <= Len(run.rows)

\* _evaluation_cache_key: the whole payload and the selection of the model.
Key(row, model) == <<row, model>>

RowKey == Key(Row, run.model)

Hit ==
    /\ Working /\ RowKey \in DOMAIN cache /\ cache[RowKey] # Torn
    /\ run' = [run EXCEPT !.k = @ + 1, !.hits = @ + 1, !.done = Append(@, cache[RowKey])]
    /\ UNCHANGED <<cache, runs, crashes, calls, asked>>

\* The file is no JSON, and nothing catches that: the run ends.
HitTorn ==
    /\ Working /\ RowKey \in DOMAIN cache /\ cache[RowKey] = Torn
    /\ run' = [run EXCEPT !.phase = "raised"]
    /\ UNCHANGED <<cache, runs, crashes, calls, asked>>

Missing == Working /\ RowKey \notin DOMAIN cache

\* What an evaluation counts as a live attempt, and how it ended; answered tells
\* that the agent returned an output that is no fallback.
Attempt(r, row, answered, a) ==
    IF ~(r.live /\ Available(row)) THEN r
    ELSE IF ~answered THEN [r EXCEPT !.attempts = @ + 1, !.failures = @ + 1]
    ELSE [r EXCEPT !.attempts = @ + 1, !.ok = @ + 1,
                   !.valid = @ + (IF a.schema = "passed" THEN 1 ELSE 0),
                   !.invalid = @ + (IF a.schema = "failed" THEN 1 ELSE 0)]

Cached(a) == a.origin = "model_structured_output"

\* The assessment is the run's, and when it is the model's own the file is opened.
Took(row, answered, a) ==
    LET r == Attempt(run, row, answered, a)
    IN IF Cached(a)
       THEN /\ run' = [r EXCEPT !.done = Append(@, a), !.phase = "store"]
            /\ cache' = (RowKey :> Torn) @@ cache
       ELSE /\ run' = [r EXCEPT !.done = Append(@, a), !.k = @ + 1]
            /\ UNCHANGED cache

AssessUnavailable ==
    /\ Missing /\ ContentSource(Row) = "unavailable"
    /\ Took(Row, FALSE, Unavailable(Row))
    /\ UNCHANGED <<runs, crashes, calls, asked>>

Asks ==
    /\ Missing /\ ContentSource(Row) # "unavailable"
    /\ calls' = calls + 1 /\ asked' = asked \cup {Row}
    /\ UNCHANGED <<runs, crashes>>

AgentRaises == Asks /\ Took(Row, FALSE, Failed(Row))

\* Without live calls an agent has only its fallback.
AgentReturns ==
    /\ Asks
    /\ \E o \in Outputs :
          /\ run.live \/ o.fallback
          /\ Took(Row, ~o.fallback, Assessed(Row, o))

\* Mutant: the file is opened and not written.
StoreForgets ==
    /\ run.phase = "store"
    /\ run' = [run EXCEPT !.k = @ + 1, !.phase = "rows"]
    /\ UNCHANGED <<cache, runs, crashes, calls, asked>>

Store ==
    /\ run.phase = "store"
    /\ cache' = [cache EXCEPT ![RowKey] = Last(run.done)]
    /\ run' = [run EXCEPT !.k = @ + 1, !.phase = "rows"]
    /\ UNCHANGED <<runs, crashes, calls, asked>>

Report ==
    /\ run.phase = "rows" /\ run.k > Len(run.rows)
    /\ run' = [run EXCEPT !.phase = "done"]
    /\ UNCHANGED <<cache, runs, crashes, calls, asked>>

Crash ==
    /\ crashes < MaxCrashes /\ run.phase \in {"rows", "store"}
    /\ crashes' = crashes + 1 /\ run' = Idle /\ calls' = 0
    /\ UNCHANGED <<cache, runs, asked>>

Next ==
    \/ Begin \/ Hit \/ HitTorn \/ AssessUnavailable \/ AgentRaises \/ AgentReturns
    \/ Store \/ Report \/ Crash

Spec == Init /\ [][Next]_vars

-----------------------------------------------------------------------------
(* Properties. *)

\* A run has one assessment per row it has passed, and a file is torn only
\* while it is written or when a crash left it so.
TypeOK ==
    /\ run.phase \in {"idle", "rows", "store", "done", "raised"}
    /\ Len(run.done) = run.k - (IF run.phase = "store" THEN 0 ELSE 1)
    /\ Cardinality({key \in DOMAIN cache : cache[key] = Torn})
           <= crashes + (IF run.phase = "store" THEN 1 ELSE 0)

\* The report's own invariant, and more: every live attempt ended in exactly one
\* way, a schema verdict is only on an answer - a bad answer is no failed call -
\* and cache hits are no attempts.
AttemptsAddUp ==
    /\ run.attempts = run.ok + run.failures
    /\ run.valid + run.invalid <= run.ok
    /\ run.attempts + run.hits <= Len(run.done)
    /\ run.valid <= Cardinality({i \in DOMAIN run.done : run.done[i].schema = "passed"})

\* A title is all there is and no source is named: content for the evaluation,
\* none for the assessment.
Bare(row) == row.source = Unset /\ ContentSource(row) = "unavailable"

\* Every live attempt is a call of the agent, but for the rows that only have a
\* title and name no source: the evaluation counts them as failed attempts, the
\* assessment never asks about them.
AttemptsAreCalls ==
    run.live =>
        run.attempts = calls + Cardinality({i \in DOMAIN run.done : Bare(run.rows[i])})

\* What a run says of a row is of that row as it is now: after the text of an
\* event changed no assessment of the old text, with its higher cap, is used.
AssessmentIsOfTheRow ==
    \A i \in DOMAIN run.done :
        LET a == run.done[i]
        IN /\ a.id = run.rows[i].id /\ a.source = ContentSource(run.rows[i])
           /\ a.confidence <= Cap[ContentSource(run.rows[i])]
           /\ a.origin = "model_structured_output" => a.schema = "passed" /\ run.rows[i] \in asked

\* Only answers of the model that passed the schema outlive a run: a failure of
\* today is asked again tomorrow.
OnlyAnswersAreKept ==
    \A key \in DOMAIN cache : cache[key] # Torn =>
        cache[key].origin = "model_structured_output" /\ cache[key].schema = "passed"

\* A run only raises over a file that a crash left.
RaisesOnlyAfterCrash == run.phase = "raised" => crashes > 0

====
