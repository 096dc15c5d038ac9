---- MODULE EventStudy ----
(* The event study of announcements (announcement_intelligence/event_study.py)*)
(* one event after the other is matched with a supplied model assessment and  *)
(* labelled with the excess returns after the session that first knew it.     *)
(* Identities and contents are values that are only compared.                 *)
EXTENDS AnnouncementTimes, Sequences, FiniteSets, SequencesExt, TLC

CONSTANTS Inputs,        \* pairs of a sequence of events and one of assessments
          Sessions,      \* of the loaded calendar
          Horizons,
          Bars,          \* per symbol, the benchmark too, its bar of a day
          Benchmark,
          Names,         \* the symbols and titles, in the order of their text
          Nil            \* nothing: no bar, no lineage, no session, no assessment

\* An event is [sym, title, publish, precision, key, id, lineage, text, keywords]: the
\* deduplication key, the provider's id, the set of other lineage tokens and the
\* first of them all in the order of _lineage_text.  An assessment is [of, sym,
\* title, pit, key, lineage, url, direction, usable]: of, the event it was made of,
\* is not known to the study; its lineage has the hash of the content, and notices of
\* one title without a text share that.  A bar is [close, traded, ret]: a usable close, not
\* suspended, and its return in percent, or Nil.
CalendarAssumption == Sessions \subseteq Nat /\ IsFiniteSet(Sessions)
HorizonsAssumption == Horizons \subseteq Nat \ {0}
BarsAssumption ==
    \A s \in DOMAIN Bars : \A d \in DOMAIN Bars[s] : d \in Nat /\ Bars[s][d].close \in BOOLEAN

VARIABLES input,      \* the events and assessments supplied
          todo,       \* the events left, deduplicated
          records     \* one per event studied, its labels in it

vars == <<input, todo, records>>

-----------------------------------------------------------------------------
(* Deduplication. *)

\* A row that the ingestion has not normalised has a publication time only.
Pit(e) == IF e.precision = "raw" THEN e.publish ELSE FirstAvailable(e.publish, e.precision, {})

\* _event_identity: the best token there is.
Identity(e) ==
    CASE e.key # Nil -> <<"deduplication_key", e.key>>
      [] e.key = Nil /\ e.id # Nil -> <<"event_id", e.id>>
      [] e.key = Nil /\ e.id = Nil /\ e.lineage # {} -> <<"source_lineage", e.text>>
      [] OTHER -> <<"fallback", <<e.sym, Pit(e), e.title>>>>

Place(name) == CHOOSE n \in DOMAIN Names : Names[n] = name

\* The order of the rows of one identity: by time of availability, symbol and
\* title, and otherwise as supplied.
Before(events, i, j) ==
    LET SortKey(k) == <<Pit(events[k]), Place(events[k].sym), Place(events[k].title), k>>
    IN \E n \in 1..4 : /\ SortKey(i)[n] < SortKey(j)[n]
                       /\ \A m \in 1..(n - 1) : SortKey(i)[m] = SortKey(j)[m]

\* _dedupe_events keeps the first row of an identity.
Survives(events, i) ==
    \A j \in DOMAIN events \ {i} :
        Identity(events[j]) = Identity(events[i]) => Before(events, i, j)

Unique(events) ==
    LET kept == {i \in DOMAIN events : Survives(events, i)}
    IN [n \in 1..Cardinality(kept) |-> events[SetToSortSeq(kept, LAMBDA a, b : a < b)[n]]]

-----------------------------------------------------------------------------
(* Matching. *)

\* _assessment_match_token: its rank, 0 for none.
Rank(e, a) ==
    CASE e.key # Nil /\ e.key = a.key -> 1
      [] ~(e.key # Nil /\ e.key = a.key) /\ e.lineage \cap (a.lineage \cup {a.url}) # {} -> 2
      [] e.key = Nil /\ e.id = Nil /\ e.lineage = {} /\ e.title = a.title -> 4
      [] OTHER ->
             IF e.title = a.title /\ e.text # Nil /\ e.text = a.url THEN 3 ELSE 0

MatchCandidates(e, assessments) ==
    {i \in DOMAIN assessments :
        LET a == assessments[i]
        IN a.usable /\ a.sym = e.sym /\ a.pit = Pit(e) /\ Rank(e, a) > 0}

\* Mutant: the first of the best rank is taken, whatever the others say.
MatchFirst(e, assessments) ==
    LET found == MatchCandidates(e, assessments)
        best == {i \in found : \A j \in found : Rank(e, assessments[i]) <= Rank(e, assessments[j])}
    IN IF found = {} THEN Nil ELSE assessments[Earliest(best)]

\* Candidates that differ in anything make a match ambiguous, whatever their rank;
\* equal ones do so when all they share with the event is the title.
Match(e, assessments) ==
    LET found == MatchCandidates(e, assessments)
        best == {i \in found : \A j \in found : Rank(e, assessments[i]) <= Rank(e, assessments[j])}
    IN IF \/ Cardinality({assessments[i] : i \in found}) # 1
          \/ (Cardinality(best) > 1 /\ \E i \in best : Rank(e, assessments[i]) = 4)
       THEN Nil ELSE assessments[Earliest(found)]

-----------------------------------------------------------------------------
(* Labels. *)

Bar(s, d) == IF s \in DOMAIN Bars /\ d \in DOMAIN Bars[s] THEN Bars[s][d] ELSE Nil

\* _validate_reference_anchor: no return is needed of the benchmark's bar.
Anchored(s, d) ==
    /\ Bar(s, d) # Nil /\ Bar(s, d).close /\ Bar(s, d).traded
    /\ Bar(Benchmark, d) # Nil /\ Bar(Benchmark, d).close

Ahead(d) == {s \in Sessions : s > d}

\* The h sessions after d.
Window(d, h) == {s \in Ahead(d) : Cardinality({x \in Ahead(d) : x < s}) < h}

\* decimal_session_return.
Returns(s, d) ==
    Bar(s, d) # Nil /\ Bar(s, d).close /\ Bar(s, d).traded /\ Bar(s, d).ret # Nil
        /\ Bar(s, d).ret > -100

Grown(s, days) ==
    FoldSet(LAMBDA d, x : x * (100 + (IF Bar(s, d).ret = Nil THEN 0 ELSE Bar(s, d).ret)), 1, days)

NoLabel(reference) == [reference |-> reference, sessions |-> {}, outcome |-> Nil]

Outcome(stock, benchmark) ==
    CASE stock > benchmark -> "positive" [] stock < benchmark -> "negative" [] OTHER -> "neutral"

Label(s, reference, h) ==
    LET days == Window(reference, h)
    IN IF /\ reference # Nil /\ Anchored(s, reference) /\ Cardinality(days) = h
          /\ \A d \in days : Returns(s, d) /\ Returns(Benchmark, d)
       THEN [reference |-> reference, sessions |-> days,
             outcome |-> Outcome(Grown(s, days), Grown(Benchmark, days))]
       ELSE NoLabel(reference)

-----------------------------------------------------------------------------
(* The study. *)

Init ==
    /\ input \in Inputs
    /\ todo = Unique(input.events) /\ records = <<>>

ReferenceOf(e) == IF Resolves(Pit(e), Sessions) THEN Reference(Pit(e), Sessions) ELSE Nil

\* The assessment made of the model when there is one, else the keywords'.
Record(e) ==
    LET a == Match(e, input.assessments)
    IN [event |-> e, model |-> a,
        production |-> IF a = Nil THEN e.keywords ELSE a.direction,
        labels |-> [h \in Horizons |->
                       IF ReferenceOf(e) = Nil THEN NoLabel(Nil) ELSE Label(e.sym, ReferenceOf(e), h)]]

Study ==
    /\ todo # <<>>
    /\ records' = Append(records, Record(Head(todo))) /\ todo' = Tail(todo)
    /\ UNCHANGED input

Next == Study

Spec == Init /\ [][Next]_vars

-----------------------------------------------------------------------------
(* Metrics.  An arm is scored on the labelled events it has a direction for. *)

Direction(r, arm) ==
    CASE arm = "keyword" -> r.event.keywords
      [] arm = "model" -> IF r.model = Nil THEN Nil ELSE r.model.direction
      [] OTHER -> r.production

Pairs(arm, h) ==
    {i \in DOMAIN records : Direction(records[i], arm) # Nil /\ records[i].labels[h].outcome # Nil}

Directional(arm, h) == {i \in Pairs(arm, h) : Direction(records[i], arm) \in {"positive", "negative"}}
Hits(arm, h) == {i \in Directional(arm, h) : Direction(records[i], arm) = records[i].labels[h].outcome}

\* The events both arms are compared on.
Paired(h) == Directional("keyword", h) \cap Directional("model", h)

-----------------------------------------------------------------------------
(* Properties. *)

Done == todo = <<>>

\* Nothing is studied twice: not a deduplication key, whatever the provider calls
\* the copies, and every event of the input is studied or a copy of one that is.
TypeOK ==
    /\ Len(records) + Len(todo) <= Len(input.events)
    /\ \A i, j \in DOMAIN records :
           records[i].event.key # Nil /\ records[i].event.key = records[j].event.key => i = j
    /\ Done => \A e \in ToSet(input.events) : \E i \in DOMAIN records :
           e.sym = records[i].event.sym /\ Pit(e) >= Pit(records[i].event)

\* No label looks at a session whose close was there before the announcement: the
\* reference is the first session that closes after it was available, and all
\* returns are of later sessions.  The sessions are the next ones, none is left out.
NoLookAhead ==
    \A i \in DOMAIN records : \A h \in Horizons :
        LET e == records[i].event
            label == records[i].labels[h]
        IN label.outcome # Nil =>
              /\ At(label.reference, Close) > Pit(e) /\ Pit(e) >= e.publish
              /\ \A s \in Sessions : At(s, Close) > Pit(e) => label.reference <= s
              /\ label.sessions \subseteq Sessions /\ Cardinality(label.sessions) = h
              /\ \A s \in Sessions :
                    (s > label.reference /\ \E x \in label.sessions : s <= x) <=> s \in label.sessions

\* No price is carried over a gap: a label exists only when stock and benchmark
\* both traded on every session of it, so a longer label needs the shorter ones.
NoStalePrices ==
    \A i \in DOMAIN records : \A h, k \in Horizons :
        LET labels == records[i].labels
        IN (labels[k].outcome # Nil /\ h < k) =>
              /\ labels[h].outcome # Nil /\ labels[h].sessions \subseteq labels[k].sessions
              /\ \A s \in labels[k].sessions :
                    Bar(records[i].event.sym, s).traded /\ Bar(Benchmark, s).ret # Nil

\* Whatever order the assessments come in, an event gets the same one.
OrderIndependent ==
    \A i \in DOMAIN records :
        \A order \in SetToSeqs(DOMAIN input.assessments) :
            Match(records[i].event, [n \in DOMAIN order |-> input.assessments[order[n]]])
                = records[i].model

\* An event is only given an assessment that was made of it, or of one of the same
\* symbol and time that shares a token of the lineage with it: two notices of one
\* title and day whose texts are missing have the same hash of the content, and the
\* assessment of either is taken for both.
EventSafe ==
    \A i \in DOMAIN records :
        records[i].model # Nil =>
            LET of == records[i].model.of
                e == records[i].event
            IN \/ of.key = e.key
               \/ of.sym = e.sym /\ Pit(of) = Pit(e) /\ of.lineage \cap e.lineage # {}

\* The three arms are one account: production is the model's where it speaks and
\* the keywords' elsewhere, and a missing assessment is no neutral one.
ArmsReconcile ==
    \A h \in Horizons :
        LET spoken == Pairs("model", h)
        IN /\ Pairs("keyword", h) = Pairs("production", h) /\ spoken \subseteq Pairs("production", h)
           /\ \A i \in spoken : records[i].model # Nil
           /\ Cardinality(Hits("production", h))
                  = Cardinality(Hits("model", h)) + Cardinality(Hits("keyword", h) \ spoken)
           /\ Paired(h) \subseteq spoken

====
