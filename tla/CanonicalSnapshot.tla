-------------------------- MODULE CanonicalSnapshot --------------------------
(***************************************************************************)
(* The fixed snapshot of the canonical baseline: how it is built, written, *)
(* validated and loaded.                                                   *)
(*                                                                         *)
(* build_and_persist_snapshot asks three providers, judges the whole as    *)
(* canonical or not, replaces the file through a temporary one and loads   *)
(* it back.  The fixture mode of the script writes a test payload to the   *)
(* same path, and any other hand may put a file there.  The baseline loads *)
(* the file, wants it canonical and wants it to be the pinned one.         *)
(*                                                                         *)
(* A request names symbols; providers answer with the canonical symbol.    *)
(***************************************************************************)
EXTENDS Integers, Sequences, FiniteSets, SequencesExt, TLC

CONSTANTS
    Requests,    \* sequences of names a build may be asked for
    CanonOf,     \* function from names to symbols
    Benchmarks,  \* index symbols a build may be asked for
    Default,     \* the benchmark a canonical snapshot has
    MaxBuilds    \* bound on builds and foreign files

SnapshotAssumption ==
    /\ Default \in Benchmarks /\ MaxBuilds \in Nat
    /\ \A request \in Requests : Range(request) \subseteq DOMAIN CanonOf

VARIABLES
    file,    \* content of the snapshot path
    temp,    \* content of the temporary file
    job,     \* the build at work, or how the last one ended
    loaded,  \* what the last load returned
    hadGood, \* the file could be loaded when the build began
    builds

vars == <<file, temp, job, loaded, hadGood, builds>>

Providers == {"tushare", "baostock"}
Labels == [by : Providers, fallback : BOOLEAN]
Unlabelled == [by |-> "none", fallback |-> FALSE]
Nothing == [is |-> "nothing"]
Partial == [is |-> "partial"]
Primary(label) == label.by = "tushare" /\ ~label.fallback

-----------------------------------------------------------------------------
(* Validation.                                                             *)

\* Provenance of the calendar, of every symbol and of the benchmark.
Attributed(p) ==
    /\ Primary(p.calendar) /\ Primary(p.benchmark)
    /\ \A name \in Range(p.symbols) : Primary(p.source[name])

\* `present != requested` compares sorted tuples: a symbol twice never fits.
Complete(p) ==
    /\ p.symbols # <<>>
    /\ {b.symbol : b \in p.bars} = Range(p.symbols)
    /\ Len(p.symbols) = Cardinality(Range(p.symbols))

\* _validate_no_fallback_deep.
Deep(p) ==
    /\ ~p.test /\ ~p.comparison
    /\ p.index = Default /\ p.ranges
    /\ Complete(p) /\ Attributed(p)
    /\ \A b \in p.bars : b.by = "tushare"

DigestMatches(p) == ~p.altered

\* load_and_validate_snapshot.
Loadable(p) ==
    /\ p.is = "snapshot" /\ DigestMatches(p) /\ p.ordered
    /\ p.canonical => (p.by = "tushare" /\ Deep(p) /\ p.benchmark # Unlabelled)

Refused == [is |-> "refused"]

Loading(p) == IF Loadable(p) THEN p ELSE Refused

-----------------------------------------------------------------------------
(* Building.                                                               *)

Snapshot(request, index, calendar, source, benchmark, canonical) ==
    [is |-> "snapshot", by |-> IF canonical THEN "tushare" ELSE calendar.by,
     canonical |-> canonical, comparison |-> ~canonical, test |-> FALSE,
     symbols |-> request, index |-> index, calendar |-> calendar, source |-> source,
     benchmark |-> benchmark, ranges |-> TRUE, ordered |-> TRUE, altered |-> FALSE,
     bars |-> {[symbol |-> CanonOf[name], by |-> source[name].by] : name \in Range(request)}]

\* build_fixture_manifest, written by the script as it is.
Fixture(request, index) ==
    [Snapshot(request, index, [by |-> "synthetic", fallback |-> FALSE],
              [name \in Range(request) |-> [by |-> "synthetic", fallback |-> FALSE]],
              [by |-> "synthetic", fallback |-> FALSE], FALSE)
       EXCEPT !.test = TRUE]

\* A certified snapshot, and the files others make of one.
Certified(request) ==
    Snapshot(request, Default, [by |-> "tushare", fallback |-> FALSE],
             [name \in Range(request) |-> [by |-> "tushare", fallback |-> FALSE]],
             [by |-> "tushare", fallback |-> FALSE], TRUE)

Foreign(request) ==
    LET p == Certified(request)
    IN {p, Partial}
         \cup {[p EXCEPT !.calendar = label] : label \in Labels}
         \cup {[p EXCEPT !.benchmark = label] : label \in Labels}
         \cup {[p EXCEPT !.source[name] = label] : name \in Range(request), label \in Labels}
         \cup {[p EXCEPT !.bars = bars] :
                 bars \in SUBSET {[symbol |-> CanonOf[n], by |-> by] : n \in Range(request), by \in Providers}}
         \cup {[p EXCEPT !.altered = TRUE, !.calendar = label] : label \in Labels}
         \cup {[p EXCEPT !.test = TRUE], [p EXCEPT !.comparison = TRUE], [p EXCEPT !.by = "baostock"],
               [p EXCEPT !.ordered = FALSE], [p EXCEPT !.ranges = FALSE],
               [p EXCEPT !.benchmark = Unlabelled]}

Init ==
    /\ \E request \in Requests :
         file \in {Nothing} \cup {p \in Foreign(request) : Loadable(p)}
    /\ temp = Nothing /\ loaded = Nothing /\ builds = 0 /\ hadGood = FALSE
    /\ job = [at |-> "idle"]

Idle == job.at \in {"idle", "ok", "error", "gone"}

Ask(request, index, calendar, lenient) ==
    /\ Idle /\ builds < MaxBuilds
    /\ builds' = builds + 1 /\ hadGood' = Loadable(file)
    /\ job' = [at |-> "bars", request |-> request, index |-> index, lenient |-> lenient,
               calendar |-> calendar, asked |-> 0, source |-> [name \in {} |-> Unlabelled]]
    /\ UNCHANGED <<file, temp, loaded>>

Stop == [at |-> "error"]

\* The bars of the next symbol; no bars at all is an error.
Answer(label) ==
    /\ job.at = "bars" /\ job.asked < Len(job.request)
    /\ job' = IF label = Unlabelled THEN Stop
              ELSE [job EXCEPT !.asked = @ + 1,
                               !.source = (job.request[job.asked + 1] :> label) @@ @]
    /\ UNCHANGED <<file, temp, loaded, hadGood, builds>>

\* is_canonical.
Canonical(benchmark) ==
    /\ Primary(job.calendar) /\ Primary(benchmark)
    /\ \A name \in DOMAIN job.source : Primary(job.source[name])

\* The benchmark, the verdict, and the first byte of the temporary file.
\* Without an index provider there is no benchmark.
Compose(benchmark) ==
    /\ job.at = "bars" /\ job.asked = Len(job.request)
    /\ IF ~job.lenient /\ ~Canonical(benchmark) THEN job' = Stop /\ UNCHANGED temp
       ELSE /\ job' = [at |-> "write",
                       payload |-> Snapshot(job.request, job.index, job.calendar, job.source,
                                            benchmark, Canonical(benchmark))]
            /\ temp' = Partial
    /\ UNCHANGED <<file, loaded, hadGood, builds>>

Write ==
    /\ job.at = "write" /\ temp = Partial
    /\ temp' = job.payload
    /\ UNCHANGED <<file, job, loaded, hadGood, builds>>

\* Mutant: the temporary file replaces the other before it is flushed.
ReplaceEarly ==
    /\ job.at = "write" /\ temp # Nothing
    /\ file' = temp /\ temp' = Nothing
    /\ job' = [at |-> IF job.payload.test THEN "ok" ELSE "written"]
    /\ UNCHANGED <<loaded, hadGood, builds>>

\* os.replace.
Replace ==
    /\ job.at = "write" /\ temp = job.payload
    /\ file' = temp /\ temp' = Nothing
    /\ job' = [at |-> IF job.payload.test THEN "ok" ELSE "written"]
    /\ UNCHANGED <<loaded, hadGood, builds>>

\* Mutant: the build ends with the file written.
CheckedNot(p) == TRUE

\* load_and_validate_snapshot, at the end of a build.
Checked(p) == Loadable(p)

Validate ==
    /\ job.at = "written"
    /\ job' = IF Checked(file) THEN [at |-> "ok"] ELSE Stop
    /\ UNCHANGED <<file, temp, loaded, hadGood, builds>>

\* The fixture mode of the script.
BuildFixture(request, index) ==
    /\ Idle /\ builds < MaxBuilds
    /\ builds' = builds + 1 /\ hadGood' = Loadable(file)
    /\ job' = [at |-> "write", payload |-> Fixture(request, index)]
    /\ temp' = Partial
    /\ UNCHANGED <<file, loaded>>

\* The process of the build ends; the temporary file stays.
Crash ==
    /\ ~Idle
    /\ job' = [at |-> "gone"]
    /\ UNCHANGED <<file, temp, loaded, hadGood, builds>>

\* Someone else puts a file there.
Put(p) ==
    /\ Idle /\ builds < MaxBuilds
    /\ builds' = builds + 1 /\ file' = p /\ job' = [at |-> "idle"]
    /\ UNCHANGED <<temp, loaded, hadGood>>

Load ==
    /\ file # Nothing
    /\ loaded' = Loading(file)
    /\ UNCHANGED <<file, temp, job, hadGood, builds>>

Next ==
    \/ \E request \in Requests, index \in Benchmarks, calendar \in Labels, lenient \in BOOLEAN :
         Ask(request, index, calendar, lenient)
    \/ \E label \in Labels \cup {Unlabelled} : Answer(label)
    \/ \E label \in Labels \cup {Unlabelled} : Compose(label)
    \/ Write \/ Replace \/ Validate \/ Crash \/ Load
    \/ \E request \in Requests, index \in Benchmarks : BuildFixture(request, index)
    \/ \E request \in Requests : \E p \in Foreign(request) : Put(p)

Spec == Init /\ [][Next]_vars

-----------------------------------------------------------------------------
TypeOK ==
    /\ {file.is, temp.is} \subseteq {"nothing", "partial", "snapshot"}
    /\ loaded.is \in {"nothing", "refused", "snapshot"}
    /\ job.at \in {"idle", "bars", "write", "written", "ok", "error", "gone"}
    /\ builds \in 0 .. MaxBuilds

\* A snapshot that is loaded as canonical holds nothing but the primary
\* provider's rows, for exactly the symbols it names, whoever wrote it.
CanonicalIsPrimary ==
    (loaded.is = "snapshot" /\ loaded.canonical) =>
      /\ Primary(loaded.calendar) /\ Primary(loaded.benchmark)
      /\ loaded.bars = {[symbol |-> name, by |-> "tushare"] : name \in Range(loaded.symbols)}
      /\ \A name \in Range(loaded.symbols) : Primary(loaded.source[name])

\* A build that reports success has left a file that loads.
OkIsLoadable == job.at = "ok" => Loadable(file)

\* The verdict of a build and the validation of its file agree: a canonical
\* one is refused only for what the verdict does not look at, a symbol named
\* twice or not by its canonical name, or another index.
VerdictStands ==
    LET plain == \A i, j \in DOMAIN file.symbols :
                   /\ CanonOf[file.symbols[i]] = file.symbols[i]
                   /\ file.symbols[i] = file.symbols[j] => i = j
    IN (job.at = "written" /\ file.canonical /\ file.index = Default /\ plain) => Loadable(file)

\* A build never leaves a partial file in place of a snapshot.
NeverPartial == (file.is = "snapshot" /\ ~Idle) => file'.is = "snapshot"

=============================================================================
