---- MODULE QmtExporter ----
(* The read-only QMT exporter (scripts/qmt_builtin_readonly_exporter_v1.py)   *)
(* and the reader of its snapshot file (qmt_builtin_bridge/reader.py).        *)
(* An exporter is a strategy QMT loads and calls back: init, after_init, a    *)
(* timer, handlebar and stop.  Only handlebar queries the broker, section by  *)
(* section; the timer may call back inside a query.  The snapshot goes to a   *)
(* temporary file of a fixed name that then replaces the snapshot; a lock on  *)
(* the bridge directory keeps other exporters out.  Processes crash anywhere. *)
EXTENDS Naturals, TLC

CONSTANTS Exporters,      \* the QMT strategies that may be loaded on one bridge root
          NSections,      \* the queried sections, numbered in query order, the account first
          Normalized,     \* what the normalizers make of a section's records
          OsLock,         \* TRUE: msvcrt locks the file; FALSE: its exclusive creation is the lock
          Polled,         \* a reader polls the snapshot
          Heartbeat,      \* HEARTBEAT_INTERVAL_SECONDS, in ticks
          MaxSequence, MaxBroker, MaxCrashes, MaxFailures,    \* bounds
          Nil, Partial    \* no file or value; a file written half

\* Normalized records have values the reader takes, or values they pass on and
\* the reader refuses: a negative quantity or a date in another format.
ASSUME SectionsAssumption ==
    NSections \in Nat \ {0} /\ Normalized \subseteq {"plain", "odd"} /\ "plain" \in Normalized
ASSUME BoundsAssumption ==
    /\ {MaxSequence, MaxBroker, MaxCrashes, MaxFailures} \subseteq Nat
    /\ Nil # Partial /\ Nil \notin Exporters /\ Polled \in BOOLEAN
ASSUME HeartbeatAssumption == Heartbeat \in Nat \ {0}

VARIABLES snapshot,       \* snapshots/latest_snapshot_v1.json
          temporary,      \* the same name with .tmp
          lockFile,       \* the lock file exists
          lockOwner,      \* the process the operating system's lock belongs to
          up,             \* the exporters whose process runs
          G,              \* the module global of each exporter
          at, draft,      \* where its handlebar is, and the snapshot it builds
          broker,         \* the version of the broker's records
          reader,         \* a reader: the file it has read and its SequenceTracker's number
          asked,          \* history: the sequence number that serves every request so far
          crashes, failures    \* faults so far

exporterVars == <<up, G, at, draft, asked>>
files == <<snapshot, temporary>>
locks == <<lockFile, lockOwner>>
faults == <<crashes, failures>>
vars == <<files, locks, exporterVars, broker, reader, faults>>

Section == 1..NSections
Account == 1
Errors == {"none", "qmt_query_failed", "qmt_query_empty"}
\* Records show the broker's version at their query.
NoRecords == [kind |-> "none", version |-> 0]
Records == [kind : Normalized \cup {"none"}, version : 0..MaxBroker]
Snapshots == [sequence : 1..MaxSequence, error : [Section -> Errors],
              records : [Section -> Records], failed : SUBSET Section]
Files == Snapshots \cup {Nil}

\* Time since the last attempt, as far as handlebar tells it apart.
Never == 2 * Heartbeat + 1
Fresh == [stopped |-> FALSE, held |-> FALSE, sequence |-> 0, since |-> Never,
          due |-> FALSE, dueAfter |-> FALSE, timer |-> FALSE, ready |-> FALSE]
States == [stopped : BOOLEAN, held : BOOLEAN, sequence : 0..MaxSequence, since : 0..Never,
           due : BOOLEAN, dueAfter : BOOLEAN, timer : BOOLEAN, ready : BOOLEAN]
\* A cycle: its k-th query, the write of the temporary file, its replacement.
Idle == 0
Writing == NSections + 1
Replacing == NSections + 2
Querying == Section
InProgress(e) == at[e] # Idle

TypeOK ==
    /\ snapshot \in Files /\ temporary \in Files \cup {Partial}
    /\ lockFile \in BOOLEAN /\ lockOwner \in Exporters \cup {Nil}
    /\ up \subseteq Exporters
    /\ G \in [Exporters -> States]
    /\ at \in [Exporters -> Idle..Replacing] /\ draft \in [Exporters -> Files]
    /\ asked \in [Exporters -> 0..(MaxSequence + 1)]
    /\ broker \in 0..MaxBroker
    /\ reader \in [read : Files, last : 0..MaxSequence]
    /\ crashes \in 0..MaxCrashes /\ failures \in 0..MaxFailures

Init ==
    /\ snapshot = Nil /\ temporary = Nil
    /\ lockFile = FALSE /\ lockOwner = Nil
    /\ up = {} /\ G = [e \in Exporters |-> Fresh]
    /\ at = [e \in Exporters |-> Idle] /\ draft = [e \in Exporters |-> Nil]
    /\ asked = [e \in Exporters |-> 0]
    /\ broker = 0
    /\ reader = [read |-> Nil, last |-> 0]
    /\ crashes = 0 /\ failures = 0

-----------------------------------------------------------------------------
(* The writer lock. *)

LockFree == IF OsLock THEN lockOwner = Nil ELSE ~ lockFile

\* Mutant: the lock file is opened, never locked.
AcquireOpens(e) == ~ G[e].held /\ lockFile' = TRUE /\ lockOwner' = e

\* _acquire_writer_lock: never waits, and refuses when this module holds it.
Acquire(e) ==
    /\ ~ G[e].held /\ LockFree
    /\ lockFile' = TRUE /\ lockOwner' = e

\* _release_writer_lock: only the exclusively created file is deleted.
Release(e) ==
    IF G[e].held THEN /\ lockOwner' = Nil
                      /\ lockFile' = (lockFile /\ OsLock)
                 ELSE UNCHANGED locks

-----------------------------------------------------------------------------
(* Callbacks. *)

\* Mutant: every start counts from the beginning.
LastSequenceZero == 0

\* _load_last_sequence, of a file this exporter wrote.
LastSequence == IF snapshot = Nil THEN 0 ELSE snapshot.sequence

\* init: the lock, the key and the sequence, then the timer, which may not register.
Load(e) ==
    /\ ~ InProgress(e) /\ Acquire(e)
    /\ \E timer \in BOOLEAN :
          G' = [G EXCEPT ![e] = [Fresh EXCEPT !.held = TRUE, !.sequence = LastSequence,
                                              !.timer = timer, !.ready = TRUE]]
    /\ up' = up \cup {e} /\ asked' = [asked EXCEPT ![e] = 0]
    /\ UNCHANGED <<files, at, draft, broker, reader, faults>>

\* init refused by the lock, another's or, in a second call, its own.
LoadRefused(e) ==
    /\ ~ InProgress(e) /\ (G[e].held \/ ~ LockFree)
    /\ up' = up \cup {e} /\ G' = [G EXCEPT ![e].stopped = TRUE]
    /\ UNCHANGED <<files, locks, at, draft, asked, broker, reader, faults>>

\* init that cannot read the binding key or the snapshot: the lock is released.
LoadFails(e) ==
    /\ ~ InProgress(e) /\ ~ G[e].held /\ LockFree
    /\ failures < MaxFailures /\ failures' = failures + 1
    /\ lockFile' = (lockFile \/ OsLock)
    /\ up' = up \cup {e}
    /\ G' = [G EXCEPT ![e].stopped = TRUE, ![e].sequence = 0]
    /\ UNCHANGED <<files, lockOwner, at, draft, asked, broker, reader, crashes>>

\* Mutant: a request inside a cycle sets the flag the cycle will clear.
MarkedSame(g, inProgress) == IF g.stopped THEN g ELSE [g EXCEPT !.due = TRUE]

\* _mark_query_due
Marked(g, inProgress) ==
    IF g.stopped THEN g
    ELSE IF inProgress THEN [g EXCEPT !.dueAfter = TRUE] ELSE [g EXCEPT !.due = TRUE]

\* after_init, once after init.
AfterInit(e) ==
    /\ e \in up /\ G[e].ready
    /\ G' = [G EXCEPT ![e] = Marked([G[e] EXCEPT !.ready = FALSE], InProgress(e))]
    /\ UNCHANGED <<files, locks, up, at, draft, asked, broker, reader, faults>>

\* export_qmt_snapshot: the timer, between callbacks or inside a query.
Timer(e) ==
    /\ e \in up /\ G[e].timer /\ at[e] \in {Idle} \cup Querying
    /\ G' = [G EXCEPT ![e] = Marked(G[e], InProgress(e))]
    /\ asked' = [asked EXCEPT ![e] = G[e].sequence + (IF InProgress(e) THEN 2 ELSE 1)]
    /\ UNCHANGED <<files, locks, up, at, draft, broker, reader, faults>>

\* Mutant: only the timer makes a cycle due.
DueNowTimer(g) == g.due

\* handlebar: the due flag, with the fallback that sets it when no timer did.
DueNow(g) ==
    \/ g.due
    \/ g.since # Never /\ g.since >= (IF g.timer THEN 2 * Heartbeat ELSE Heartbeat)

Throttled(g) == g.since # Never /\ g.since < Heartbeat

EmptyDraft(n) == [sequence |-> n, error |-> [s \in Section |-> "none"],
                  records |-> [s \in Section |-> NoRecords], failed |-> {}]

\* handlebar on the last bar starts a cycle when one is due and allowed.
HandlebarStarts(e) ==
    LET g == G[e] IN
    /\ e \in up /\ ~ g.stopped /\ ~ InProgress(e) /\ g.sequence < MaxSequence
    /\ DueNow(g) /\ ~ Throttled(g) /\ g.held
    /\ G' = [G EXCEPT ![e].due = TRUE, ![e].since = 0]
    /\ at' = [at EXCEPT ![e] = 1]
    /\ draft' = [draft EXCEPT ![e] = EmptyDraft(g.sequence + 1)]
    /\ UNCHANGED <<files, locks, up, asked, broker, reader, faults>>

\* handlebar on an earlier bar, or too early: only the due flag may change.
HandlebarWaits(e) ==
    LET g == G[e] IN
    /\ e \in up /\ ~ g.stopped /\ ~ InProgress(e) /\ DueNow(g)
    /\ G' = [G EXCEPT ![e].due = TRUE]
    /\ UNCHANGED <<files, locks, up, at, draft, asked, broker, reader, faults>>

\* Mutant: a failed query falls back on the records the last snapshot has.
QueryKeepsLast(e) ==
    /\ at[e] \in Querying
    /\ LET s == at[e] IN
       draft' \in {[draft EXCEPT ![e].records[s] = r] :
                   r \in {[kind |-> "plain", version |-> broker],
                          IF snapshot = Nil THEN NoRecords ELSE snapshot.records[s]}}
    /\ at' = [at EXCEPT ![e] = @ + 1]
    /\ UNCHANGED <<files, locks, up, G, asked, broker, reader, faults>>

\* One _query_section: its records, or a failure that is written down.  An
\* account query without a record counts as failed.
Query(e) ==
    /\ at[e] \in Querying
    /\ LET s == at[e]
           Answer(error, kind) ==
              draft' = [draft EXCEPT
                 ![e].error[s] = error,
                 ![e].records[s] = IF kind = "none" THEN NoRecords
                                   ELSE [kind |-> kind, version |-> broker],
                 ![e].failed = IF error = "none" THEN @ ELSE @ \cup {s}]
       IN \/ \E kind \in Normalized : Answer("none", kind)
          \/ Answer(IF s = Account THEN "qmt_query_empty" ELSE "none", "none")
          \/ Answer("qmt_query_failed", "none")
    /\ at' = [at EXCEPT ![e] = @ + 1]
    /\ UNCHANGED <<files, locks, up, G, asked, broker, reader, faults>>

\* _atomic_write opens and truncates the temporary file, then fills it.
OpenTemporary(e) ==
    /\ at[e] = Writing /\ temporary # Partial
    /\ temporary' = Partial
    /\ UNCHANGED <<snapshot, locks, exporterVars, broker, reader, faults>>

FillTemporary(e) ==
    /\ at[e] = Writing /\ temporary = Partial
    /\ temporary' = draft[e] /\ at' = [at EXCEPT ![e] = Replacing]
    /\ UNCHANGED <<snapshot, locks, up, G, draft, asked, broker, reader, faults>>

\* Mutant: the counter advances for the cycle and for the file.
ReplaceTwice(e) ==
    /\ at[e] = Replacing /\ temporary \notin {Nil, Partial}
    /\ snapshot' = temporary /\ temporary' = Nil
    /\ G' = [G EXCEPT ![e].sequence = @ + 2, ![e].due = G[e].dueAfter, ![e].dueAfter = FALSE]
    /\ at' = [at EXCEPT ![e] = Idle] /\ draft' = [draft EXCEPT ![e] = Nil]
    /\ UNCHANGED <<locks, up, asked, broker, reader, faults>>

\* os.replace moves what the temporary file holds; the cycle is complete.
Replace(e) ==
    /\ at[e] = Replacing /\ temporary \notin {Nil, Partial}
    /\ snapshot' = temporary /\ temporary' = Nil
    /\ G' = [G EXCEPT ![e].sequence = @ + 1, ![e].due = G[e].dueAfter, ![e].dueAfter = FALSE]
    /\ at' = [at EXCEPT ![e] = Idle] /\ draft' = [draft EXCEPT ![e] = Nil]
    /\ UNCHANGED <<locks, up, asked, broker, reader, faults>>

\* A failed write or replace leaves the temporary file and keeps the cycle due.
WriteFails(e) ==
    /\ at[e] \in {Writing, Replacing}
    /\ failures < MaxFailures /\ failures' = failures + 1
    /\ at' = [at EXCEPT ![e] = Idle] /\ draft' = [draft EXCEPT ![e] = Nil]
    /\ UNCHANGED <<files, locks, up, G, asked, broker, reader, crashes>>

\* stop, between callbacks.
Stop(e) ==
    /\ e \in up /\ ~ InProgress(e)
    /\ Release(e)
    /\ G' = [G EXCEPT ![e].stopped = TRUE, ![e].due = FALSE, ![e].dueAfter = FALSE,
                      ![e].held = FALSE]
    /\ UNCHANGED <<files, up, at, draft, asked, broker, reader, faults>>

\* The process ends anywhere: the system drops its lock, the files stay.
Crash(e) ==
    /\ e \in up /\ crashes < MaxCrashes /\ crashes' = crashes + 1
    /\ up' = up \ {e} /\ G' = [G EXCEPT ![e] = Fresh]
    /\ at' = [at EXCEPT ![e] = Idle] /\ draft' = [draft EXCEPT ![e] = Nil]
    /\ lockOwner' = IF lockOwner = e THEN Nil ELSE lockOwner
    /\ asked' = [asked EXCEPT ![e] = 0]
    /\ UNCHANGED <<files, lockFile, broker, reader, failures>>

Tick ==
    /\ \E e \in up : G[e].since < 2 * Heartbeat
    /\ G' = [e \in Exporters |->
               IF e \in up /\ G[e].since < 2 * Heartbeat
               THEN [G[e] EXCEPT !.since = @ + 1] ELSE G[e]]
    /\ UNCHANGED <<files, locks, up, at, draft, asked, broker, reader, faults>>

\* Another record at the broker: an order, a fill, a new balance.
BrokerChanges ==
    /\ broker < MaxBroker /\ broker' = broker + 1
    /\ UNCHANGED <<files, locks, exporterVars, reader, faults>>

-----------------------------------------------------------------------------
(* The reader. *)

\* _account, _positions, _orders, _trades: no value the protocol excludes.
ValuesTaken(s) == \A x \in Section : s.records[x].kind # "odd"

\* _query_status_bundle, _failures: an empty answer fails the account only, and
\* the failures are the failed sections.
FailuresAgree(s) ==
    /\ \A x \in Section : s.error[x] = "qmt_query_empty" => x = Account
    /\ s.failed = {x \in Section : s.error[x] # "none"}

\* A failed section has no records, a successful account query has one.
RecordsAgree(s) ==
    /\ \A x \in Section : s.error[x] # "none" => s.records[x] = NoRecords
    /\ s.error[Account] = "none" => s.records[Account].kind # "none"

\* snapshot_from_mapping, but for the age.
Acceptable(s) == ValuesTaken(s) /\ FailuresAgree(s) /\ RecordsAgree(s)

\* SequenceTracker.observe takes only a number above the last one.
Increases(s) == s.sequence > reader.last

\* read_latest takes the completed file in one read; without one it raises,
\* whatever the temporary file holds.
ReadLatest ==
    /\ Polled /\ reader.read = Nil /\ snapshot # Nil
    /\ reader' = [reader EXCEPT !.read = snapshot]
    /\ UNCHANGED <<files, locks, exporterVars, broker, faults>>

\* The file is validated and observed.
Accept ==
    /\ reader.read # Nil /\ Acceptable(reader.read) /\ Increases(reader.read)
    /\ reader' = [read |-> Nil, last |-> reader.read.sequence]
    /\ UNCHANGED <<files, locks, exporterVars, broker, faults>>

\* It is invalid, a duplicate or a regression, or it has become too old.
Refuse ==
    /\ reader.read # Nil
    /\ reader' = [reader EXCEPT !.read = Nil]
    /\ UNCHANGED <<files, locks, exporterVars, broker, faults>>

-----------------------------------------------------------------------------
Work(e) == Query(e) \/ OpenTemporary(e) \/ FillTemporary(e) \/ Replace(e)

Next ==
    \/ \E e \in Exporters :
          \/ Load(e) \/ LoadRefused(e) \/ LoadFails(e) \/ AfterInit(e) \/ Timer(e)
          \/ HandlebarStarts(e) \/ HandlebarWaits(e)
          \/ Query(e) \/ OpenTemporary(e) \/ FillTemporary(e) \/ Replace(e)
          \/ WriteFails(e) \/ Stop(e) \/ Crash(e)
    \/ Tick \/ BrokerChanges \/ ReadLatest \/ Accept \/ Refuse

Spec == Init /\ [][Next]_vars

\* The host keeps calling handlebar on the last bar, and a callback that began
\* goes on; time passes.
FairSpec == /\ Spec /\ WF_vars(Tick)
            /\ \A e \in Exporters : WF_vars(Work(e)) /\ WF_vars(HandlebarStarts(e))

\* The exporters are alike.
Alike == Permutations(Exporters)

-----------------------------------------------------------------------------
(* Properties. *)

\* A snapshot is replaced only by the one of the next sequence number, over
\* restarts, crashes between the replace and the counter, failed writes and a
\* second exporter (_load_last_sequence, _complete_due_query_cycle).
SequenceAdvances ==
    [][snapshot' # snapshot =>
          snapshot'.sequence = (IF snapshot = Nil THEN 0 ELSE snapshot.sequence) + 1]_vars

\* The records of a section never go back in time from one snapshot to the
\* next, and within one no section shows the broker earlier than the section
\* queried before it (_build_snapshot queries one after the other).
RecordsAdvance ==
    [][snapshot' # snapshot =>
         LET Shown(f) == {i \in Section : f # Nil /\ f.records[i].kind # "none"}
         IN /\ \A i \in Shown(snapshot), j \in Shown(snapshot') :
                  snapshot.records[i].version <= snapshot'.records[j].version
            /\ \A i, j \in Shown(snapshot') : i < j =>
                  snapshot'.records[i].version <= snapshot'.records[j].version]_vars

\* At most one exporter works on the files, and the number of the file is the
\* one its counter holds (_acquire_writer_lock).
OneWriter ==
    /\ \A e, f \in Exporters : G[e].held /\ G[f].held => e = f
    /\ \A e \in Exporters : InProgress(e) => G[e].held
    /\ \A e \in Exporters : G[e].held => G[e].sequence = LastSequence

\* What the exporter publishes passes the reader's cross checks of status,
\* records and failures, whichever queries failed or came back empty, unless
\* the broker's own values are ones the reader refuses.
ReadableExport ==
    snapshot # Nil /\ ValuesTaken(snapshot) => Acceptable(snapshot)

\* A reader that keeps its tracker never meets a sequence that went back
\* (RegressingSequenceError), however long it holds the file it has read.
NeverRegresses == reader.read # Nil => reader.read.sequence >= reader.last

\* When no loaded exporter holds the lock the next init gets it: a crash, a
\* failed init or a stop leaves no lock behind (with the system's lock).
LockComesBack == (\A e \in Exporters : ~ G[e].held) => LockFree

\* A timer request inside a cycle asks for the cycle after it and stays due
\* until that one is written, also when the write of the cycle under way fails
\* (query_due_after_current).
RequestKept ==
    \A e \in up : ~ G[e].stopped /\ ~ InProgress(e) /\ G[e].sequence < asked[e] => G[e].due

\* An exporter that made its first attempt keeps exporting, with the timer, with
\* the fallback when there is none, and after failed writes.
ExportsContinue ==
    \A e \in Exporters : \A n \in 0..(MaxSequence - 1) :
       (e \in up /\ ~ G[e].stopped /\ G[e].since # Never /\ LastSequence = n) ~>
          (LastSequence > n \/ e \notin up \/ G[e].stopped)
====
