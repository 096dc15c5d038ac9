-------------------------- MODULE ContinuousPaper --------------------------
(***************************************************************************)
(* One paper cycle at a time, as a scheduler or a person starts it:        *)
(* ContinuousPaperCycle.run_once over the candidate pipeline, the state    *)
(* file and the PostgreSQL reporting store, with the retries of the        *)
(* Prefect task.  The state file is saved first and the reporting rows are *)
(* written afterwards, in one transaction; between the two a cycle may     *)
(* crash, lose its connection or be started again.                         *)
(***************************************************************************)
EXTENDS Naturals, Sequences, SequencesExt

CONSTANTS
    Drivers,        \* who starts cycles: the served deployment, the script
    Served,         \* the drivers whose task is retried: the served deployment
    TaskRetries,    \* how often (prefect_flow: 2)
    LastDay,        \* decision sessions are 1..LastDay
    Requests,       \* pipeline request digests
    Advices,        \* what the shadow may report: "disabled", or its outcomes
    ScalarEquity,   \* the report of the pipeline has a number as "equity"
    Serial,         \* no two cycles at the same time
    MaxFills,       \* manual fills booked between cycles
    MaxFaults,      \* lost connections, failing files and crashes
    Nil             \* no row, no report, no advice yet

Days == 1..LastDay

\* An entry of the state file: an applied session, or a manual fill (day 0).
Entries == [day : 0..LastDay, request : Requests]
Bound == LastDay + MaxFills
Ledgers == {l \in Seq(Entries) : Len(l) <= Bound}

\* paper_facts stands for the five fact tables.
Tables == <<"paper_sessions", "paper_session_reports", "learning_desk_reports",
            "ai_shadow_reports", "paper_facts">>
TableNames == {Tables[i] : i \in DOMAIN Tables}

Statuses == {"completed", "idempotent_replay"}
Reports == [day : Days, request : Requests, status : Statuses, after : Ledgers]
Rows == [report : Reports, shadow : Advices \cup {Nil}]

ASSUME CycleAssumption ==
    /\ LastDay \in Nat \ {0} /\ MaxFills \in Nat /\ MaxFaults \in Nat
    /\ TaskRetries \in Nat /\ Requests # {}
    /\ ScalarEquity \in BOOLEAN /\ Serial \in BOOLEAN
    /\ Nil \notin Rows \cup Reports \cup Advices

VARIABLES
    ledger,     \* the visible state file, as its history
    db,         \* committed rows, per session and table
    pc,         \* the next step of each driver's cycle
    run,        \* the parameters of the cycle: day and request
    tries,      \* retries left
    next,       \* the state a cycle is about to save
    report,     \* the report of the cycle's session
    shadow,     \* its advisory payload
    at,         \* the table a transaction is at
    tx,         \* rows a transaction has inserted
    outcome,    \* how the last cycle of each driver ended
    fills, faults

cycle == <<run, tries, next, report, shadow>>
transaction == <<at, tx>>
vars == <<ledger, db, pc, cycle, transaction, outcome, fills, faults>>

NoRows == [t \in TableNames |-> Nil]
Retries(p) == IF p \in Served THEN TaskRetries ELSE 0
Steps == {"idle", "initialize", "pipeline", "save", "write", "advise", "extract",
          "check", "insert", "commit"}
Outcomes == {"none", "running", "stored", "conflict", "rejected", "failed"}

-----------------------------------------------------------------------------
\* Sessions in a history, and the one of day d.
Applied(l, d) == \E i \in DOMAIN l : l[i].day = d
Session(l, d) == CHOOSE i \in DOMAIN l : l[i].day = d

\* The hash a report gives for the state after session d: what the next
\* session started from, or the current state.
HashAfter(l, d) ==
    LET later == {i \in DOMAIN l : i > Session(l, d) /\ l[i].day # 0}
    IN  IF later = {} THEN l
        ELSE SubSeq(l, 1, (CHOOSE i \in later : \A j \in later : i <= j) - 1)

ReportOf(l, d, status) ==
    [day |-> d, request |-> l[Session(l, d)].request, status |-> status,
     after |-> HashAfter(l, d)]

\* Facts are taken from the session record, which a replay does not change.
FactsOf(rep) == [rep EXCEPT !.status = "completed", !.after = <<>>]

\* What is stored in table t, as far as its digest goes.  The digest of the
\* session row is the digest of the report; the learning payload contains the
\* digests of the report and of the shadow.
RowOf(t, rep, advice) ==
    IF t \in {"paper_sessions", "paper_session_reports"} THEN [report |-> rep, shadow |-> Nil]
    ELSE IF t \in {"learning_desk_reports", "ai_shadow_reports"} THEN [report |-> rep, shadow |-> advice]
    ELSE [report |-> FactsOf(rep), shadow |-> Nil]

Bundle(rep, advice) == [t \in TableNames |-> RowOf(t, rep, advice)]
Bundles ==
    {b \in [TableNames -> Rows] :
        b = Bundle(b["paper_sessions"].report, b["ai_shadow_reports"].shadow)}

-----------------------------------------------------------------------------
Init ==
    /\ ledger = <<>>
    /\ db = [d \in Days |-> NoRows]
    /\ pc = [p \in Drivers |-> "idle"]
    /\ run = [p \in Drivers |-> [day |-> 1, request |-> CHOOSE r \in Requests : TRUE]]
    /\ tries = [p \in Drivers |-> 0]
    /\ next = [p \in Drivers |-> <<>>]
    /\ report = [p \in Drivers |-> Nil]
    /\ shadow = [p \in Drivers |-> Nil]
    /\ at = [p \in Drivers |-> 1]
    /\ tx = [p \in Drivers |-> NoRows]
    /\ outcome = [p \in Drivers |-> "none"]
    /\ fills = 0
    /\ faults = 0

Goto(p, step) == pc' = [pc EXCEPT ![p] = step]

\* Mutant: the rows of a transaction that was given up are kept.
ForgetNotRows(p) ==
    /\ next' = [next EXCEPT ![p] = <<>>]
    /\ report' = [report EXCEPT ![p] = Nil]
    /\ shadow' = [shadow EXCEPT ![p] = Nil]
    /\ at' = [at EXCEPT ![p] = 1]
    /\ UNCHANGED <<run, tx>>

\* The attempt leaves nothing behind but files and committed rows.
Forget(p) ==
    /\ next' = [next EXCEPT ![p] = <<>>]
    /\ report' = [report EXCEPT ![p] = Nil]
    /\ shadow' = [shadow EXCEPT ![p] = Nil]
    /\ at' = [at EXCEPT ![p] = 1]
    /\ tx' = [tx EXCEPT ![p] = NoRows]
    /\ UNCHANGED run

\* The cycle of p returns, or raises something the task does not retry.
End(p, result) ==
    /\ Goto(p, "idle")
    /\ outcome' = [outcome EXCEPT ![p] = result]
    /\ tries' = [tries EXCEPT ![p] = 0]
    /\ Forget(p)

\* The attempt of p raises an error that speaks of its connection.
Retry(p) ==
    IF tries[p] = 0 THEN End(p, "failed")
    ELSE /\ Goto(p, "initialize")
         /\ tries' = [tries EXCEPT ![p] = @ - 1]
         /\ Forget(p)
         /\ UNCHANGED outcome

Start(p) ==
    /\ pc[p] = "idle"
    /\ Serial => \A q \in Drivers : pc[q] = "idle"
    /\ run' \in {[run EXCEPT ![p] = [day |-> d, request |-> r]] : d \in Days, r \in Requests}
    /\ Goto(p, "initialize")
    /\ tries' = [tries EXCEPT ![p] = Retries(p)]
    /\ outcome' = [outcome EXCEPT ![p] = "running"]
    /\ UNCHANGED <<ledger, db, next, report, shadow, transaction, fills, faults>>

\* A new store connects and creates its schema.
Initialize(p) ==
    /\ pc[p] = "initialize"
    /\ Goto(p, "pipeline")
    /\ UNCHANGED <<ledger, db, cycle, transaction, outcome, fills, faults>>

-----------------------------------------------------------------------------
(***************************************************************************)
(* run_real_candidate_daily_paper                                          *)
(***************************************************************************)

\* The day is already applied: by the same request, whose report is rendered
\* again from the current state, or by another one, which is an error.
Replay(p) ==
    LET d == run[p].day IN
    /\ pc[p] = "pipeline"
    /\ Applied(ledger, d)
    /\ IF ledger[Session(ledger, d)].request = run[p].request
          THEN /\ report' = [report EXCEPT ![p] = ReportOf(ledger, d, "idempotent_replay")]
               /\ Goto(p, "write")
               /\ UNCHANGED <<run, tries, next, shadow, transaction, outcome>>
          ELSE End(p, "rejected")
    /\ UNCHANGED <<ledger, db, fills, faults>>

\* A new session is decided and executed in memory, unless a later one is
\* already applied.
Decide(p) ==
    LET d == run[p].day
        after == Append(ledger, run[p])
    IN
    /\ pc[p] = "pipeline"
    /\ ~Applied(ledger, d)
    /\ IF \A i \in DOMAIN ledger : ledger[i].day < d
          THEN /\ next' = [next EXCEPT ![p] = after]
               /\ report' = [report EXCEPT ![p] = ReportOf(after, d, "completed")]
               /\ Goto(p, "save")
               /\ UNCHANGED <<run, tries, shadow, transaction, outcome>>
          ELSE End(p, "rejected")
    /\ UNCHANGED <<ledger, db, fills, faults>>

\* save_daily_state_atomic
SaveState(p) ==
    /\ pc[p] = "save"
    /\ ledger' = next[p]
    /\ Goto(p, "write")
    /\ UNCHANGED <<db, cycle, transaction, outcome, fills, faults>>

\* write_report_atomic
WriteReport(p) ==
    /\ pc[p] = "write"
    /\ Goto(p, "advise")
    /\ UNCHANGED <<ledger, db, cycle, transaction, outcome, fills, faults>>

\* The shadow runs; whatever it raises becomes a payload of its own.
Advise(p) ==
    /\ pc[p] = "advise"
    /\ \E advice \in Advices : shadow' = [shadow EXCEPT ![p] = advice]
    /\ Goto(p, "extract")
    /\ UNCHANGED <<ledger, db, run, tries, next, report, transaction, outcome, fills, faults>>

\* extract_daily_report_facts iterates over the equity of the report, and so
\* raises TypeError when that is a number.
Extract(p) ==
    /\ pc[p] = "extract"
    /\ IF ScalarEquity
          THEN End(p, "failed")
          ELSE /\ Goto(p, "check")
               /\ UNCHANGED <<cycle, transaction, outcome>>
    /\ UNCHANGED <<ledger, db, fills, faults>>

-----------------------------------------------------------------------------
(***************************************************************************)
(* persist_cycle: _check_and_insert for one table after the other, then    *)
(* commit.  A transaction reads what is committed and its own rows.        *)
(***************************************************************************)
Table(p) == Tables[at[p]]
Wanted(p) == RowOf(Table(p), report[p], shadow[p])
Stored(p) == db[run[p].day][Table(p)]

NextTable(p) ==
    IF at[p] = Len(Tables)
      THEN /\ Goto(p, "commit")
           /\ UNCHANGED at
      ELSE /\ Goto(p, "check")
           /\ at' = [at EXCEPT ![p] = @ + 1]

\* Mutant: a row that is there is taken for the row of this cycle.
CheckAnyDigest(p) ==
    /\ pc[p] = "check"
    /\ \/ /\ Stored(p) = Nil
          /\ Goto(p, "insert")
          /\ UNCHANGED <<cycle, transaction, outcome>>
       \/ /\ Stored(p) # Nil
          /\ NextTable(p)
          /\ UNCHANGED <<cycle, tx, outcome>>
    /\ UNCHANGED <<ledger, db, fills, faults>>

\* SELECT the digest of the row with this key.
Check(p) ==
    /\ pc[p] = "check"
    /\ \/ /\ Stored(p) = Nil
          /\ Goto(p, "insert")
          /\ UNCHANGED <<cycle, transaction, outcome>>
       \/ /\ Stored(p) = Wanted(p)
          /\ NextTable(p)
          /\ UNCHANGED <<cycle, tx, outcome>>
       \/ /\ Stored(p) \notin {Nil, Wanted(p)}
          /\ End(p, "conflict")
    /\ UNCHANGED <<ledger, db, fills, faults>>

\* Another transaction holds the key, uncommitted.
Blocked(p) ==
    \E q \in Drivers \ {p} : run[q].day = run[p].day /\ tx[q][Table(p)] # Nil

\* Mutant: the tables have no primary keys.
InsertUnlocked(p) ==
    /\ pc[p] = "insert"
    /\ tx' = [tx EXCEPT ![p][Table(p)] = Wanted(p)]
    /\ NextTable(p)
    /\ UNCHANGED <<ledger, db, cycle, outcome, fills, faults>>

\* INSERT waits for such a transaction; a key committed since the SELECT is
\* an error that is not retried.
Insert(p) ==
    /\ pc[p] = "insert"
    /\ ~Blocked(p)
    /\ IF Stored(p) # Nil THEN End(p, "failed")
       ELSE /\ tx' = [tx EXCEPT ![p][Table(p)] = Wanted(p)]
            /\ NextTable(p)
            /\ UNCHANGED <<cycle, outcome>>
    /\ UNCHANGED <<ledger, db, fills, faults>>

\* The rows of p become visible, all at once.
Committed(p) ==
    [db EXCEPT ![run[p].day] = [t \in TableNames |-> IF tx[p][t] # Nil THEN tx[p][t] ELSE @[t]]]

Commit(p) ==
    /\ pc[p] = "commit"
    /\ db' = Committed(p)
    /\ End(p, "stored")
    /\ UNCHANGED <<ledger, fills, faults>>

-----------------------------------------------------------------------------
(***************************************************************************)
(* Faults, and the manual fill between cycles                              *)
(***************************************************************************)
Fault ==
    /\ faults < MaxFaults
    /\ faults' = faults + 1

\* The connection is lost: the server rolls the transaction back.
Disconnect(p) ==
    /\ Fault
    /\ pc[p] \in {"initialize", "check", "insert", "commit"}
    /\ Retry(p)
    /\ UNCHANGED <<ledger, db, fills>>

\* The connection is lost after the server has committed.
CommitUnacknowledged(p) ==
    /\ Fault
    /\ pc[p] = "commit"
    /\ db' = Committed(p)
    /\ Retry(p)
    /\ UNCHANGED <<ledger, fills>>

\* The process dies, or a file cannot be written: nothing is retried.
Crash(p) ==
    /\ Fault
    /\ pc[p] # "idle"
    /\ End(p, "failed")
    /\ UNCHANGED <<ledger, db, fills>>

\* record_manual_fill_v1 on the same state file.
ManualFill ==
    /\ fills < MaxFills
    /\ Len(ledger) < Bound
    /\ Serial => \A p \in Drivers : pc[p] = "idle"
    /\ \E r \in Requests : ledger' = Append(ledger, [day |-> 0, request |-> r])
    /\ fills' = fills + 1
    /\ UNCHANGED <<db, pc, cycle, transaction, outcome, faults>>

Work(p) ==
    \/ Initialize(p) \/ Replay(p) \/ Decide(p) \/ SaveState(p) \/ WriteReport(p)
    \/ Advise(p) \/ Extract(p) \/ Check(p) \/ Insert(p) \/ Commit(p)

Break(p) == Disconnect(p) \/ CommitUnacknowledged(p) \/ Crash(p)

Next == ManualFill \/ \E p \in Drivers : Start(p) \/ Work(p) \/ Break(p)

Spec == Init /\ [][Next]_vars

\* Cycles are scheduled again and again, and a step that can be taken is taken.
FairSpec == Spec /\ \A p \in Drivers : WF_vars(Start(p)) /\ WF_vars(Work(p))

-----------------------------------------------------------------------------
\* Besides the types: a transaction's rows are in the tables it has passed.
TypeOK ==
    /\ ledger \in Ledgers
    /\ db \in [Days -> [TableNames -> Rows \cup {Nil}]]
    /\ pc \in [Drivers -> Steps]
    /\ run \in [Drivers -> [day : Days, request : Requests]]
    /\ \A p \in Drivers : tries[p] \in 0..Retries(p)
    /\ next \in [Drivers -> Ledgers]
    /\ report \in [Drivers -> Reports \cup {Nil}]
    /\ shadow \in [Drivers -> Advices \cup {Nil}]
    /\ at \in [Drivers -> DOMAIN Tables]
    /\ tx \in [Drivers -> [TableNames -> Rows \cup {Nil}]]
    /\ outcome \in [Drivers -> Outcomes]
    /\ fills \in 0..MaxFills
    /\ faults \in 0..MaxFaults
    /\ \A p \in Drivers :
         /\ (pc[p] = "idle") <=> (outcome[p] # "running")
         /\ report[p] # Nil <=> pc[p] \notin {"idle", "initialize", "pipeline"}
         /\ \A i \in DOMAIN Tables :
              tx[p][Tables[i]] # Nil => i < at[p] \/ pc[p] = "commit"

\* The store implements the archive: a session has no rows, or all rows of one
\* cycle with one report, and they never change (persist_cycle).
Archive == INSTANCE ReportingArchive WITH
    Empty <- NoRows, archive <- db
ArchiveSpec == Archive!Spec

\* The store is never ahead of the state file: a stored report is about a
\* session the file has, by the request it has, and names a state of its
\* history (run_once persists after the pipeline has saved).
StoredIsApplied ==
    Serial => \A d \in Days :
        db[d] = NoRows \/
        LET rep == db[d]["paper_sessions"].report IN
            /\ Applied(ledger, d)
            /\ ledger[Session(ledger, d)].request = rep.request
            /\ IsPrefix(rep.after, ledger)

\* A cycle that returns has the rows of its session in the store, with the
\* request it ran: also when its commit was lost, retried or overtaken.
ReturnedIsStored ==
    \A p \in Drivers : outcome[p] = "stored" =>
        LET rows == db[run[p].day] IN
            /\ rows # NoRows
            /\ rows["paper_sessions"].report.request = run[p].request

\* A session that is in the state file comes to be in the store, whatever
\* breaks on the way, when cycles keep being started.
AppliedIsStored ==
    \A d \in Days : Applied(ledger, d) ~> db[d] # NoRows

\* A cycle that has begun ends: no cycle waits for another one's key for ever.
CyclesEnd == \A p \in Drivers : pc[p] # "idle" ~> pc[p] = "idle"
=============================================================================
