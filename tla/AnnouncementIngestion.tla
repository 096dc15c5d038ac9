---- MODULE AnnouncementIngestion ----
(* The ingestion of A-share announcements (announcement_intelligence/         *)
(* ingestion.py): one request per symbol, normalisation with the time a notice*)
(* was first available, bodies from a cache on disk or from the provider, and *)
(* two artifacts.  A run keeps everything but the cache and the artifacts in  *)
(* memory.  A fetch passes no trading calendar to the normalisation.          *)
EXTENDS AnnouncementTimes, Sequences, FiniteSets, SequencesExt, TLC

CONSTANTS Symbols,          \* the requested symbols, in order
          Answers(_),       \* per symbol, the rows the provider may answer with
          Pages,            \* what the provider of details may answer with
          Zone,             \* half hours the clock of the machine's UTC is behind
          Clock,            \* when a run may normalise
          FirstDay, LastDay,      \* the days asked for
          MaxRuns, MaxCrashes,    \* bounds
          Unknown           \* a publication time the provider leaves out

TimesAssumption == Zone \in Nat /\ \A t \in Clock : t \in Nat /\ t >= Zone
DaysAssumption == FirstDay \in Nat /\ LastDay \in Nat

\* A row is [sym, day, slot, title, id, body]: slot Unknown for a date without a time,
\* day Unknown for no publication time at all; id is the identifier it gives or its
\* address has, body tells contents apart.
VARIABLES cache,      \* per key, the page on disk
          files,      \* per artifact, the run it is of and what it says
          run, runs, crashes, now,
          bodies      \* history: per key, every content a run has given its event

vars == <<cache, files, run, runs, crashes, now, bodies>>

-----------------------------------------------------------------------------
(* Rows. *)

Precision(row) ==
    CASE row.day = Unknown -> "unavailable"
      [] row.day # Unknown /\ row.slot = Unknown -> "date"
      [] OTHER -> "datetime"

\* The clock is that of UTC, and its zone is dropped.
PublishTime(row, clock) ==
    CASE Precision(row) = "unavailable" -> clock - Zone
      [] Precision(row) = "date" -> At(row.day, 0)
      [] OTHER -> At(row.day, row.slot)

-----------------------------------------------------------------------------
(* Bodies.  A page has a declared source and, for the text the provider gave  *)
(* and for the part that is kept within the bound, what the classifier sees:  *)
(* nothing beside the title, mostly boilerplate, the length without the title *)
(* ("none", "line", "short", "long") and sentences or paragraphs like a body. *)

Text == [titleOnly : BOOLEAN, boilerplate : BOOLEAN,
         length : {"none", "line", "short", "long"}, bodyLike : BOOLEAN]
PagesAssumption ==
    \A p \in Pages : /\ p.source \in {"full_text", "provider_summary", "title_fallback"}
                     /\ p.raw \in Text /\ p.kept \in Text
                     /\ p.raw.length # "long" => p.kept = p.raw

TitleText == [titleOnly |-> TRUE, boilerplate |-> FALSE, length |-> "none", bodyLike |-> FALSE]
NoDetail == [source |-> "title_fallback", raw |-> TitleText, kept |-> TitleText]

\* What _retrieve_detail may return.
Details == Pages \cup {NoDetail}

Classified(text, source) ==
    CASE source = "provider_summary" ->
             IF text.length # "none" THEN "provider_summary" ELSE "title_fallback"
      [] source = "full_text" ->
             IF /\ ~text.titleOnly /\ text.bodyLike
                /\ text.boilerplate \/ text.length \in {"short", "long"}
             THEN "full_text" ELSE "title_fallback"
      [] OTHER -> "title_fallback"

\* The part that is kept is classified once more.
Content(page) == Classified(page.kept, Classified(page.raw, page.source))

-----------------------------------------------------------------------------

Idle == [phase |-> "idle", k |-> 1, open |-> FALSE, rows |-> <<>>, ok |-> 0, failed |-> 0, empty |-> {},
         events |-> <<>>, status |-> "none"]
NoFile == [run |-> 0, status |-> "none", events |-> <<>>]

Init ==
    /\ cache = <<>> /\ files = [a \in {"events", "report"} |-> NoFile]
    /\ run = Idle /\ runs = 0 /\ crashes = 0 /\ now \in Clock /\ bodies = <<>>

Begin ==
    /\ run.phase = "idle" /\ runs < MaxRuns
    /\ runs' = runs + 1 /\ run' = [Idle EXCEPT !.phase = "request"]
    /\ \E t \in Clock : t >= now /\ now' = t
    /\ UNCHANGED <<cache, files, crashes, bodies>>

Symbol == Symbols[run.k]
Asking == run.phase = "request" /\ run.k <= Len(Symbols)

\* A KeyError of the provider's code column is how it says that there is nothing.
AnswerEmpty ==
    /\ Asking
    /\ run' = [run EXCEPT !.k = @ + 1, !.ok = @ + 1, !.empty = @ \cup {Symbol}]
    /\ UNCHANGED <<cache, files, runs, crashes, now, bodies>>

CallFails ==
    /\ Asking
    /\ run' = [run EXCEPT !.k = @ + 1, !.failed = @ + 1]
    /\ UNCHANGED <<cache, files, runs, crashes, now, bodies>>

\* An answer without a required column counts as answered and as failed.
SchemaError ==
    /\ Asking
    /\ run' = [run EXCEPT !.k = @ + 1, !.ok = @ + 1, !.failed = @ + 1]
    /\ UNCHANGED <<cache, files, runs, crashes, now, bodies>>

\* Rows of other symbols are dropped.
AnswerRows ==
    /\ Asking
    /\ \E rows \in Answers(Symbol) :
          run' = [run EXCEPT !.k = @ + 1, !.ok = @ + 1,
                             !.rows = @ \o SelectSeq(rows, LAMBDA r : r.sym = Symbol)]
    /\ UNCHANGED <<cache, files, runs, crashes, now, bodies>>

Event(row) ==
    LET publish == PublishTime(row, now)
    IN [row |-> row, publish |-> publish, available |-> FirstAvailable(publish, Precision(row), {}),
        content |-> "title_fallback", retrieval |-> "not_requested"]

\* deduplication_key; the body is not part of it.
Identity(e) == <<Day(e.publish), e.row.sym, e.row.title, e.row.id>>

\* _content_cache_key: everything that tells two rows apart, the body too.
Key(e) == <<e.row, e.publish>>

\* The first of each identity, by the time they became available.
Normalized ==
    LET all == [i \in 1..Len(run.rows) |-> Event(run.rows[i])]
        first == {i \in DOMAIN all : \A j \in 1..(i - 1) : Identity(all[j]) # Identity(all[i])}
        earlier(i, j) == \/ all[i].available < all[j].available
                         \/ (all[i].available = all[j].available /\ i < j)
        order == SetToSortSeq(first, earlier)
    IN [n \in 1..Len(order) |-> all[order[n]]]

Status(events, failed) ==
    IF events = <<>> THEN "failed" ELSE IF failed = 0 THEN "completed" ELSE "partial"

\* No rows: the report is made without normalisation.
Normalize ==
    /\ run.phase = "request" /\ run.k > Len(Symbols)
    /\ run' = IF run.rows = <<>>
              THEN [run EXCEPT !.phase = "write", !.k = 1, !.status = Status(<<>>, run.failed)]
              ELSE [run EXCEPT !.phase = "enrich", !.k = 1, !.events = Normalized]
    /\ UNCHANGED <<cache, files, runs, crashes, now, bodies>>

-----------------------------------------------------------------------------
(* Bodies of the events, one after the other. *)

Current == run.events[run.k]
Enriching == run.phase = "enrich" /\ run.k <= Len(run.events)
Whole(page) == page.source # "torn"
Torn == [source |-> "torn"]

Applied(content, retrieval) ==
    /\ run' = [run EXCEPT !.k = @ + 1, !.events[run.k].content = content,
                          !.events[run.k].retrieval = retrieval, !.phase = "enrich"]
    /\ UNCHANGED <<files, runs, crashes, now>>

Seen(content) ==
    bodies' = (Key(Current) :> ({content} \cup
                  IF Key(Current) \in DOMAIN bodies THEN bodies[Key(Current)] ELSE {})) @@ bodies

\* A cached page is classified again, and never asked for again.  A file that a
\* crash cut short is no JSON: the event falls back to its title.
Hit ==
    /\ Enriching /\ Key(Current) \in DOMAIN cache
    /\ UNCHANGED cache
    /\ LET page == cache[Key(Current)]
       IN IF Whole(page) THEN Applied(Content(page), "cache_hit") /\ Seen(Content(page))
          ELSE Applied("title_fallback", "fallback_after_error") /\ UNCHANGED bodies

\* write_text makes the file before it has written it.
Fetch ==
    /\ Enriching /\ Key(Current) \notin DOMAIN cache
    /\ cache' = (Key(Current) :> Torn) @@ cache
    /\ run' = [run EXCEPT !.phase = "store"]
    /\ UNCHANGED <<files, runs, crashes, now, bodies>>

Store ==
    /\ run.phase = "store"
    /\ \E page \in Details :
          /\ cache' = [cache EXCEPT ![Key(Current)] = page]
          /\ Applied(Content(page),
                     IF Content(page) = "title_fallback" THEN "title_fallback" ELSE "retrieved")
          /\ Seen(Content(page))

\* Mutant: the file is made before the provider is asked.
FetchFailsLate ==
    /\ Enriching /\ Key(Current) \notin DOMAIN cache
    /\ cache' = (Key(Current) :> Torn) @@ cache
    /\ Applied("title_fallback", "fallback_after_error") /\ UNCHANGED bodies

\* No detail: one failure does not stop the run, and leaves no file.
FetchFails ==
    /\ Enriching /\ Key(Current) \notin DOMAIN cache
    /\ Applied("title_fallback", "fallback_after_error")
    /\ UNCHANGED <<cache, bodies>>

InRange(e) == FirstDay <= Day(e.publish) /\ Day(e.publish) <= LastDay

\* The range is cut when everything is normalised and enriched.
Cut ==
    /\ run.phase = "enrich" /\ run.k > Len(run.events)
    /\ LET kept == SelectSeq(run.events, InRange)
       IN run' = [run EXCEPT !.events = kept, !.status = Status(kept, run.failed),
                             !.phase = "write", !.k = 1]
    /\ UNCHANGED <<cache, files, runs, crashes, now, bodies>>

-----------------------------------------------------------------------------
(* The artifacts, the events before the report.  write_text makes the file empty *)
(* before it has written it, so a crash between the two leaves it torn.          *)

Artifacts == <<"events", "report">>

\* Mutant: the report is written first.
EventsLast == <<"report", "events">>[run.k]

Artifact == Artifacts[run.k]
Writing == run.phase = "write"
Opened == [run |-> runs, status |-> "torn", events |-> <<>>]
File == [run |-> runs, status |-> run.status, events |-> run.events]

OpenArtifact ==
    /\ Writing /\ ~run.open
    /\ files' = [files EXCEPT ![Artifact] = Opened] /\ run' = [run EXCEPT !.open = TRUE]
    /\ UNCHANGED <<cache, runs, crashes, now, bodies>>

WriteArtifact ==
    /\ Writing /\ run.open
    /\ files' = [files EXCEPT ![Artifact] = File]
    /\ run' = IF run.k = Len(Artifacts) THEN Idle ELSE [run EXCEPT !.k = @ + 1, !.open = FALSE]
    /\ UNCHANGED <<cache, runs, crashes, now, bodies>>

Crash ==
    /\ crashes < MaxCrashes /\ run.phase # "idle"
    /\ run' = Idle /\ crashes' = crashes + 1
    /\ UNCHANGED <<cache, files, runs, now, bodies>>

Next ==
    \/ Begin \/ AnswerEmpty \/ CallFails \/ SchemaError \/ AnswerRows \/ Normalize
    \/ Hit \/ Fetch \/ Store \/ FetchFails \/ Cut \/ OpenArtifact \/ WriteArtifact
    \/ Crash

Spec == Init /\ [][Next]_vars

-----------------------------------------------------------------------------
(* Properties. *)

\* The phases and counters of a run; no symbol is asked for twice, and a file is torn
\* only while it is written or when a crash left it so.
TypeOK ==
    /\ run.phase \in {"idle", "request", "enrich", "store", "write"}
    /\ run.ok \in 0..Len(Symbols) /\ run.failed \in 0..Len(Symbols)
    /\ run.status \in {"none", "completed", "partial", "failed"}
    /\ \A key \in DOMAIN cache : Whole(cache[key]) => cache[key] \in Details
    /\ Cardinality({key \in DOMAIN cache : ~Whole(cache[key])})
           + Cardinality({a \in DOMAIN files : files[a].status = "torn"})
           <= crashes + (IF run.phase = "store" \/ run.open THEN 1 ELSE 0)

\* Every notice asked for that reached the run is in the report of a run that
\* says completed, once per day, symbol, title and identifier, and then no request of that run failed: a symbol the report
\* has no event of was answered for.
CompletedIsComplete ==
    Writing /\ run.status = "completed" =>
        /\ run.failed = 0 /\ run.ok = Len(Symbols)
        /\ \A i \in DOMAIN run.rows :
              LET e == Event(run.rows[i])
              IN InRange(e) =>
                    \E j \in DOMAIN run.events : Identity(run.events[j]) = Identity(e)

\* No event is available before its publication, and one with a date only not
\* on that date: a backtest that compares with first_available_time never sees
\* a notice before the market could.
NotBeforePublication ==
    \A i \in DOMAIN run.events :
        LET e == run.events[i]
        IN e.row.day # Unknown =>
              /\ e.available >= e.publish
              /\ e.row.slot = Unknown => Day(e.available) > e.row.day
              /\ e.row.slot # Unknown /\ e.row.slot >= Close => Day(e.available) > e.row.day

\* An event that is marked as having its full text has kept a body, whatever the
\* page it was cut from looked like.
FullTextIsKept ==
    \A i \in DOMAIN run.events :
        run.events[i].content = "full_text" =>
            /\ Key(run.events[i]) \in DOMAIN cache
            /\ LET text == cache[Key(run.events[i])].kept
               IN text.bodyLike /\ ~text.titleOnly

\* A notice has one content for ever, apart from runs that had to fall back:
\* two runs over the same notices cannot disagree on what they read.
ContentIsStable == \A key \in DOMAIN bodies : Cardinality(bodies[key]) = 1

\* A report is never of a later run than the one that last wrote, or began to write,
\* the events it is written beside, whatever is interrupted: who reads a report of a
\* run does not read older events for it.
ReportNotAhead == files["report"].run <= files["events"].run

====
