--------------------------- MODULE DailyPaperLoop ---------------------------
(***************************************************************************)
(* The processes that work on one daily paper state file.                  *)
(*                                                                         *)
(* A loop process is one call of run_daily_paper_loop: it loads the state  *)
(* file, decides session d, saves the next state and writes the session    *)
(* report.  A clerk process is one call of record_manual_fill_v1.py: it    *)
(* loads the same file, books one fill and saves the next state.           *)
(*                                                                         *)
(* Both files are saved in three steps: open a temporary file whose name   *)
(* is fixed, write and close it, rename it over the file.  There is no     *)
(* lock.  A rename moves the inode: whoever still has the temporary file   *)
(* open is then writing to the visible file, and whoever had the visible   *)
(* file open this way is writing to an inode without a name.               *)
(***************************************************************************)
EXTENDS PaperLedger, FiniteSets

CONSTANTS
    Loops,      \* processes that run daily sessions
    Clerks,     \* processes that record manual fills
    Serial,     \* TRUE: the operator starts a process only when none runs
    MaxEntries  \* bound on the length of the ledger

ASSUME LoopAssumption ==
    /\ Loops \cap Clerks = {}
    /\ Serial \in BOOLEAN
    /\ MaxEntries \in Nat

Processes == Loops \cup Clerks

VARIABLES
    path,    \* path[f]: what a reader of the file finds
    tmp,     \* tmp[f]: what is under the name of its temporary file
    pc,      \* pc[p]: the next system call of process p
    handle,  \* handle[p]: where the inode that p has open is reachable from
    next,    \* next[p]: the state p computed and is going to save
    draft    \* draft[p]: the report p computed and is going to write

vars == <<path, tmp, pc, handle, next, draft>>

-----------------------------------------------------------------------------
Files == {"state", "report"}

\* What a file can hold.  A reader can decode only whole content.
Absent  == [is |-> "absent", data |-> <<>>]
Emptied == [is |-> "emptied", data |-> <<>>]
Garbled == [is |-> "garbled", data |-> <<>>]
Whole(x) == [is |-> "whole", data |-> x]

\* The part of a session report that identifies the state transition.
Report == [status : {"completed", "idempotent_replay"}, session : Nat,
           before : Chain, after : Chain]
NoReport == [status |-> "none", session |-> 0, before |-> <<>>,
             after |-> <<>>]

Content(f) ==
    [is : {"absent", "emptied", "garbled"}, data : {<<>>}]
        \cup [is : {"whole"}, data : IF f = "state" THEN Chain ELSE Report]

Steps == {"idle", "open_state", "write_state", "replace_state",
          "open_report", "write_report", "replace_report"}

\* The file a process at step s is saving.
FileOf(s) == IF s \in {"open_report", "write_report", "replace_report"}
             THEN "report" ELSE "state"

TypeOK ==
    /\ DOMAIN path = Files /\ DOMAIN tmp = Files
    /\ \A f \in Files : path[f] \in Content(f) /\ tmp[f] \in Content(f)
    /\ pc \in [Processes -> Steps]
    /\ handle \in [Processes -> {"closed", "tmp", "path", "unlinked"}]
    /\ next \in [Processes -> Chain]
    /\ draft \in [Processes -> Report \cup {NoReport}]
    /\ \A p \in Processes :
          /\ p \in Loops /\ pc[p] # "idle" => draft[p] \in Report
          /\ FileOf(pc[p]) = "report" => p \in Loops
          /\ (pc[p] \in {"write_state", "write_report"}) <=> (handle[p] # "closed")

Init ==
    /\ path = [f \in Files |-> Absent]
    /\ tmp = [f \in Files |-> Absent]
    /\ pc = [p \in Processes |-> "idle"]
    /\ handle = [p \in Processes |-> "closed"]
    /\ next = [p \in Processes |-> <<>>]
    /\ draft = [p \in Processes |-> NoReport]

-----------------------------------------------------------------------------
(***************************************************************************)
(* Loading and deciding: everything a process does before its first write. *)
(* A run that is rejected, for unreadable state, missing evidence, another *)
(* input digest or chronology, changes nothing and is a stuttering step.   *)
(***************************************************************************)

\* load_daily_state returns a state: the file is missing or decodes.
Loads == path["state"].is \in {"absent", "whole"}
Loaded == path["state"].data

MayStart(p) ==
    /\ pc[p] = "idle"
    /\ Serial => \A q \in Processes : pc[q] = "idle"
    /\ Loads

\* _session_hash_after: the state before the next session in the record, or
\* the whole state when session k is the last one in it.
BeforeLaterSessions(c, k) ==
    {m \in 1 .. Len(c) : \A j \in SessionsAt(c) : j > k => m < j}

HashAfter(c, k) == Prefix(c, Cardinality(BeforeLaterSessions(c, k)))

SessionReport(status, c, k) ==
    [status |-> status, session |-> c[k].decision,
     before |-> Prefix(c, k - 1), after |-> HashAfter(c, k)]

\* Mutant: the report is written without the state being saved first.
ApplySessionReportFirst(p, d, i, h) ==
    /\ MayStart(p)
    /\ Len(Loaded) < MaxEntries
    /\ LegalSession(Loaded, d, i, h)
    /\ LET c == Append(Loaded, SessionStep(Loaded, d, i, h))
       IN  draft' = [draft EXCEPT ![p] = SessionReport("completed", c, Len(c))]
    /\ pc' = [pc EXCEPT ![p] = "open_report"]
    /\ UNCHANGED <<path, tmp, handle, next>>

ApplySession(p, d, i, h) ==
    /\ MayStart(p)
    /\ Len(Loaded) < MaxEntries
    /\ LegalSession(Loaded, d, i, h)
    /\ LET c == Append(Loaded, SessionStep(Loaded, d, i, h))
       IN  /\ next' = [next EXCEPT ![p] = c]
           /\ draft' = [draft EXCEPT
                            ![p] = SessionReport("completed", c, Len(c))]
    /\ pc' = [pc EXCEPT ![p] = "open_state"]
    /\ UNCHANGED <<path, tmp, handle>>

\* A replay is recognised after the market evidence has been checked against
\* the holdings of today, and does not save the state.
ReplaySession(p, d, i) ==
    /\ MayStart(p)
    /\ d + 1 \in Days
    /\ MarketCovers(Loaded, i)
    /\ \E k \in AppliedAt(Loaded, d) :
          /\ Loaded[k].input = i
          /\ draft' = [draft EXCEPT ![p] =
                          SessionReport("idempotent_replay", Loaded, k)]
    /\ pc' = [pc EXCEPT ![p] = "open_report"]
    /\ UNCHANGED <<path, tmp, handle, next>>

\* Mutant: the fill is booked on a fresh state instead of the loaded one.
RecordFillFresh(p, t, s, h) ==
    /\ MayStart(p)
    /\ LegalFill(<<>>, t, s, h)
    /\ next' = [next EXCEPT ![p] = <<FillStep(<<>>, t, h)>>]
    /\ pc' = [pc EXCEPT ![p] = "open_state"]
    /\ UNCHANGED <<path, tmp, handle, draft>>

RecordFill(p, t, s, h) ==
    /\ MayStart(p)
    /\ Len(Loaded) < MaxEntries
    /\ LegalFill(Loaded, t, s, h)
    /\ next' = [next EXCEPT ![p] = Append(Loaded, FillStep(Loaded, t, h))]
    /\ pc' = [pc EXCEPT ![p] = "open_state"]
    /\ UNCHANGED <<path, tmp, handle, draft>>

-----------------------------------------------------------------------------
(***************************************************************************)
(* save_daily_state_atomic and write_report_atomic.                        *)
(***************************************************************************)

\* Mutant: the visible file itself is opened for writing.
OpenTempInPlace(p) ==
    /\ pc[p] \in {"open_state", "open_report"}
    /\ path' = [path EXCEPT ![FileOf(pc[p])] = Emptied]
    /\ handle' = [handle EXCEPT ![p] = "path"]
    /\ pc' = [pc EXCEPT ![p] = IF @ = "open_state" THEN "write_state"
                               ELSE "write_report"]
    /\ UNCHANGED <<tmp, next, draft>>

\* temp_path.open("w"): creates the temporary file or truncates it.
OpenTemp(p) ==
    /\ pc[p] \in {"open_state", "open_report"}
    /\ tmp' = [tmp EXCEPT ![FileOf(pc[p])] = Emptied]
    /\ handle' = [handle EXCEPT ![p] = "tmp"]
    /\ pc' = [pc EXCEPT ![p] = IF @ = "open_state" THEN "write_state"
                               ELSE "write_report"]
    /\ UNCHANGED <<path, next, draft>>

\* The content of an inode after mine was written from its start: what was
\* longer in it, if another process wrote there after the truncation, stays.
Overwritten(old, mine) ==
    IF old.is = "emptied" THEN {mine} ELSE {mine, Garbled}

\* write, flush, fsync, close.
WriteTemp(p) ==
    /\ pc[p] \in {"write_state", "write_report"}
    /\ LET f == FileOf(pc[p])
           mine == Whole(IF f = "state" THEN next[p] ELSE draft[p])
       IN  \/ /\ handle[p] = "tmp"
              /\ \E x \in Overwritten(tmp[f], mine) :
                    tmp' = [tmp EXCEPT ![f] = x]
              /\ path' = path
           \/ /\ handle[p] = "path"
              /\ \E x \in Overwritten(path[f], mine) :
                    path' = [path EXCEPT ![f] = x]
              /\ tmp' = tmp
           \/ /\ handle[p] = "unlinked"
              /\ UNCHANGED <<path, tmp>>
    /\ handle' = [handle EXCEPT ![p] = "closed"]
    /\ pc' = [pc EXCEPT ![p] = IF @ = "write_state" THEN "replace_state"
                               ELSE "replace_report"]
    /\ UNCHANGED <<next, draft>>

\* Where the inodes that are open for file f are reachable after its rename.
Renamed(f) ==
    [q \in Processes |->
        IF FileOf(pc[q]) # f THEN handle[q]
        ELSE IF handle[q] = "tmp" THEN "path"
        ELSE IF handle[q] = "path" THEN "unlinked"
        ELSE handle[q]]

\* The process has ended, normally or not; what it held is forgotten.
End(p) ==
    /\ pc' = [pc EXCEPT ![p] = "idle"]
    /\ next' = [next EXCEPT ![p] = <<>>]
    /\ draft' = [draft EXCEPT ![p] = NoReport]

\* os.replace.  A loop goes on to its report.
ReplaceTemp(p) ==
    /\ pc[p] \in {"replace_state", "replace_report"}
    /\ tmp[FileOf(pc[p])].is # "absent"
    /\ LET f == FileOf(pc[p])
       IN  /\ path' = [path EXCEPT ![f] = tmp[f]]
           /\ tmp' = [tmp EXCEPT ![f] = Absent]
           /\ handle' = Renamed(f)
           /\ IF f = "state" /\ p \in Loops
              THEN /\ pc' = [pc EXCEPT ![p] = "open_report"]
                   /\ UNCHANGED <<next, draft>>
              ELSE End(p)

\* Mutant: the process ends and its file stays open.
CrashLeavesOpen(p) ==
    /\ pc[p] # "idle"
    /\ End(p)
    /\ UNCHANGED <<path, tmp, handle>>

\* The process is killed, or the system call it is at raises OSError (as
\* os.replace does when another process has renamed the temporary file).
Crash(p) ==
    /\ pc[p] # "idle"
    /\ End(p)
    /\ handle' = [handle EXCEPT ![p] = "closed"]
    /\ UNCHANGED <<path, tmp>>

-----------------------------------------------------------------------------
Start(p) ==
    \/ /\ p \in Loops
       /\ \E d \in Days, i \in Inputs :
             \/ \E h \in SUBSET Symbols : ApplySession(p, d, i, h)
             \/ ReplaySession(p, d, i)
    \/ /\ p \in Clerks
       /\ \E t \in Days, s \in Symbols, h \in SUBSET Symbols :
             RecordFill(p, t, s, h)

Work(p) == OpenTemp(p) \/ WriteTemp(p) \/ ReplaceTemp(p)

Next == \E p \in Processes : Start(p) \/ Work(p) \/ Crash(p)

Spec == Init /\ [][Next]_vars

-----------------------------------------------------------------------------
(***************************************************************************)
(* Properties.                                                             *)
(***************************************************************************)

\* The ledger a reader of the state file would load now.
Durable == IF path["state"].is = "whole" THEN path["state"].data ELSE <<>>

\* Every state that is saved, being saved or about to be saved, by whatever
\* interleaving of loops, fills and crashes, is a well-formed history: dates
\* never go back, a session never decides before an earlier execution or
\* fill, and the holdings a session left are covered by its own evidence.
LedgersSound ==
    /\ path["state"].is = "whole" => WellFormed(path["state"].data)
    /\ tmp["state"].is = "whole" => WellFormed(tmp["state"].data)
    /\ \A p \in Processes : WellFormed(next[p])

\* No saved state has a decision session applied twice: the orders of a
\* session are executed at most once in any one history.
SessionsAppliedOnce == AppliedOnce(Durable)

\* Saving is atomic: at every moment, between any two system calls and after
\* any crash, the state file decodes (or does not exist yet).
StateReadable == path["state"].is \in {"absent", "whole"}

\* The report file never speaks of a session the state file does not have:
\* the session it names is applied, was applied to the state it names as
\* hash_before, and no other session lies between that and hash_after.
ReportFaithful ==
    path["report"].is = "whole" =>
        LET r == path["report"].data
        IN  \E k \in AppliedAt(Durable, r.session), n \in 1 .. Len(Durable) :
               /\ r.before = Prefix(Durable, k - 1)
               /\ r.after = Prefix(Durable, n)
               /\ \A j \in SessionsAt(r.after) : j <= k

\* A session whose report was lost in a crash can be rerun for its report:
\* while nothing has followed it, the same input passes the evidence check
\* and is recognised as a replay.
LostReportRecoverable ==
    \A p \in Loops, k \in SessionsAt(Durable) :
        (k = Len(Durable) /\ \A q \in Processes : pc[q] = "idle")
            => ENABLED ReplaySession(p, Durable[k].decision, Durable[k].input)

Ledger == INSTANCE SessionLedger WITH ledger <- Durable

\* With one process at a time the files, the crashes and the reruns are
\* invisible: the state file behaves as one append-only ledger.
LedgerSpec == Ledger!Spec
=============================================================================
