------------------------ MODULE DailyPaperLoop_proofs -----------------------
(***************************************************************************)
(* Theorems about DailyPaperLoop, for every calendar, set of symbols,      *)
(* inputs and processes, any bound on the ledger, and, where it is not     *)
(* said otherwise, for processes that run one at a time or all at once.    *)
(***************************************************************************)
EXTENDS DailyPaperLoop, FiniteSetTheorems, SequenceTheorems, WellFoundedInduction, TLAPS

-----------------------------------------------------------------------------
(***************************************************************************)
(* What the ledger operators return and preserve.                          *)
(***************************************************************************)

\* Every entry of a ledger, of a session or of a fill, has the fields the
\* state file keeps: the dates are numbers and the holdings are symbols.
LEMMA EntryFields ==
    ASSUME NEW e \in Entry
    PROVE  /\ e.decision \in Nat
           /\ e.execution \in Nat
           /\ e.held \in SUBSET Symbols
           /\ e.kind \in {"session", "fill"}
    BY DEF Entry, SessionEntry, FillEntry

\* The last dates and the holdings read from a ledger are well typed, also of
\* the empty ledger that initialize_daily_state gives.
LEMMA LastFields ==
    ASSUME NEW c \in Chain
    PROVE  /\ LastDecision(c) \in Nat
           /\ LastExecution(c) \in Nat
           /\ Held(c) \in SUBSET Symbols
<1>1. CASE c = <<>>
      BY <1>1 DEF LastDecision, LastExecution, Held
<1>2. CASE c # <<>>
  <2>1. Len(c) \in 1 .. Len(c)
        BY <1>2, EmptySeq, LenProperties DEF Chain
  <2>2. c[Len(c)] \in Entry
        BY <2>1, ElementOfSeq DEF Chain
  <2>3. QED  BY <1>2, <2>2, EntryFields DEF LastDecision, LastExecution, Held
<1>3. QED  BY <1>1, <1>2

\* Appending an entry gives a ledger with that entry last and the others kept.
LEMMA AppendEntry ==
    ASSUME NEW c \in Chain, NEW e \in Entry
    PROVE  /\ Append(c, e) \in Chain
           /\ Len(Append(c, e)) = Len(c) + 1
           /\ Append(c, e) # <<>>
           /\ Append(c, e)[Len(c) + 1] = e
           /\ \A j \in 1 .. Len(c) : Append(c, e)[j] = c[j]
    BY AppendProperties DEF Chain

\* What was in a ledger before position n + 1 is a ledger.
LEMMA PrefixChain ==
    ASSUME NEW c \in Chain, NEW n \in 0 .. Len(c)
    PROVE  Prefix(c, n) \in Chain
<1>1. \A j \in 1 .. n : c[j] \in Entry
      BY ElementOfSeq, LenProperties DEF Chain
<1>2. QED  BY <1>1, SubSeqProperties DEF Chain, Prefix

\* The entry of a session run is an entry.
LEMMA SessionStepType ==
    ASSUME NEW c \in Chain, NEW d \in Days, NEW i \in Inputs,
           NEW h \in SUBSET Symbols
    PROVE  SessionStep(c, d, i, h) \in Entry
    BY DEF SessionStep, Entry, SessionEntry, Days

\* The entry of a manual fill is an entry.
LEMMA FillStepType ==
    ASSUME NEW c \in Chain, NEW t \in Days, NEW h \in SUBSET Symbols
    PROVE  FillStep(c, t, h) \in Entry
    BY LastFields DEF FillStep, Entry, FillEntry, Days

\* In an ordered ledger no entry is later than the last one.
LEMMA OrderedLast ==
    ASSUME NEW c \in Chain, Ordered(c), NEW j \in 1 .. Len(c)
    PROVE  /\ c[j].decision <= LastDecision(c)
           /\ c[j].execution <= LastExecution(c)
<1>1. /\ Len(c) \in Nat
      /\ c # <<>>
      BY EmptySeq, LenProperties DEF Chain
<1>2. c[j] \in Entry
      BY ElementOfSeq DEF Chain
<1>3. /\ c[j].decision \in Nat
      /\ c[j].execution \in Nat
      BY <1>2, EntryFields
<1>4. CASE j = Len(c)
      BY <1>1, <1>3, <1>4 DEF LastDecision, LastExecution
<1>5. CASE j < Len(c)
      BY <1>1, <1>5 DEF Ordered, LastDecision, LastExecution
<1>6. QED  BY <1>1, <1>4, <1>5

\* Appending an entry whose dates are no earlier than the last ones, and, for
\* a session, later than the decisions and not before the executions, keeps
\* the ledger ordered.
LEMMA OrderedAppend ==
    ASSUME NEW c \in Chain, Ordered(c), NEW e \in Entry,
           LastDecision(c) <= e.decision,
           LastExecution(c) <= e.execution,
           e.kind = "session" => /\ LastDecision(c) < e.decision
                                 /\ LastExecution(c) <= e.decision
    PROVE  Ordered(Append(c, e))
<1> DEFINE b == Append(c, e)
<1>1. /\ b \in Chain
      /\ Len(b) = Len(c) + 1
      /\ b[Len(c) + 1] = e
      /\ \A j \in 1 .. Len(c) : b[j] = c[j]
      BY AppendEntry
<1>2. Len(c) \in Nat
      BY LenProperties DEF Chain
<1> HIDE DEF b
<1> SUFFICES ASSUME NEW j \in 1 .. Len(b), NEW k \in 1 .. Len(b), j < k
             PROVE  /\ b[j].decision <= b[k].decision
                    /\ b[j].execution <= b[k].execution
                    /\ b[k].kind = "session" =>
                          /\ b[j].decision < b[k].decision
                          /\ b[j].execution <= b[k].decision
    BY DEF Ordered, b
<1>3. j \in 1 .. Len(c) /\ b[j] = c[j]
      BY <1>1, <1>2
<1>4. CASE k \in 1 .. Len(c)
  <2>1. b[k] = c[k]
        BY <1>1, <1>4
  <2>2. QED  BY <1>3, <1>4, <2>1 DEF Ordered
<1>5. CASE k = Len(c) + 1
  <2>1. b[k] = e
        BY <1>1, <1>5
  <2>2. /\ b[j].decision <= LastDecision(c)
        /\ b[j].execution <= LastExecution(c)
        BY <1>3, OrderedLast
  <2>3. c[j] \in Entry
        BY <1>3, ElementOfSeq DEF Chain
  <2>4. /\ b[j].decision \in Nat
        /\ b[j].execution \in Nat
        /\ e.decision \in Nat
        /\ e.execution \in Nat
        /\ LastDecision(c) \in Nat
        /\ LastExecution(c) \in Nat
        BY <1>3, <2>3, EntryFields, LastFields
  <2>5. QED  BY <2>1, <2>2, <2>4
<1>6. QED  BY <1>1, <1>2, <1>4, <1>5

\* Appending an entry that is itself covered keeps every session covered.
LEMMA CoveredAppend ==
    ASSUME NEW c \in Chain, Covered(c), NEW e \in Entry,
           e.kind = "session" => /\ e.execution = e.decision + 1
                                 /\ e.held \subseteq Rows[e.input]
    PROVE  Covered(Append(c, e))
<1> DEFINE b == Append(c, e)
<1>1. /\ Len(b) = Len(c) + 1
      /\ b[Len(c) + 1] = e
      /\ \A j \in 1 .. Len(c) : b[j] = c[j]
      BY AppendEntry
<1>2. Len(c) \in Nat
      BY LenProperties DEF Chain
<1> HIDE DEF b
<1> SUFFICES ASSUME NEW k \in 1 .. Len(b), b[k].kind = "session"
             PROVE  /\ b[k].execution = b[k].decision + 1
                    /\ b[k].held \subseteq Rows[b[k].input]
    BY DEF Covered, SessionsAt, b
<1>3. CASE k \in 1 .. Len(c)
  <2>1. b[k] = c[k]
        BY <1>1, <1>3
  <2>2. QED  BY <1>3, <2>1 DEF Covered, SessionsAt
<1>4. CASE k = Len(c) + 1
      BY <1>1, <1>4
<1>5. QED  BY <1>1, <1>2, <1>3, <1>4

\* A session that run_daily_paper_loop accepts keeps the ledger well formed.
THEOREM SessionKeepsWellFormed ==
    ASSUME NEW c \in Chain, WellFormed(c), NEW d \in Days, NEW i \in Inputs,
           NEW h \in SUBSET Symbols, LegalSession(c, d, i, h)
    PROVE  WellFormed(Append(c, SessionStep(c, d, i, h)))
<1> DEFINE e == SessionStep(c, d, i, h)
<1>1. e \in Entry
      BY SessionStepType
<1>2. /\ e.kind = "session"
      /\ e.decision = d
      /\ e.execution = d + 1
      /\ e.input = i
      /\ e.held = h
      BY DEF SessionStep
<1>3. /\ d \in Nat
      /\ LastDecision(c) \in Nat
      /\ LastExecution(c) \in Nat
      BY LastFields DEF Days
<1>4. /\ LastDecision(c) < d
      /\ LastExecution(c) <= d
      BY <1>3 DEF LegalSession, Chronological
<1>5. h \subseteq Rows[i]
      BY DEF LegalSession, MarketCovers, HoldingsAfter
<1> HIDE DEF e
<1>6. Ordered(Append(c, e))
      BY <1>1, <1>2, <1>3, <1>4, OrderedAppend DEF WellFormed
<1>7. Covered(Append(c, e))
      BY <1>1, <1>2, <1>5, CoveredAppend DEF WellFormed
<1>8. QED  BY <1>6, <1>7 DEF WellFormed, e

\* A fill that record_manual_fill_v1.py accepts keeps the ledger well formed.
THEOREM FillKeepsWellFormed ==
    ASSUME NEW c \in Chain, WellFormed(c), NEW t \in Days, NEW s \in Symbols,
           NEW h \in SUBSET Symbols, LegalFill(c, t, s, h)
    PROVE  WellFormed(Append(c, FillStep(c, t, h)))
<1> DEFINE e == FillStep(c, t, h)
<1>1. e \in Entry
      BY FillStepType
<1>2. /\ e.kind = "fill"
      /\ e.decision = LastDecision(c)
      /\ e.execution = t
      BY DEF FillStep
<1>3. /\ t \in Nat
      /\ LastDecision(c) \in Nat
      /\ LastExecution(c) \in Nat
      BY LastFields DEF Days
<1>4. LastExecution(c) <= t
      BY <1>3 DEF LegalFill
<1> HIDE DEF e
<1>5. Ordered(Append(c, e))
      BY <1>1, <1>2, <1>3, <1>4, OrderedAppend DEF WellFormed
<1>6. Covered(Append(c, e))
      BY <1>1, <1>2, CoveredAppend DEF WellFormed
<1>7. QED  BY <1>5, <1>6 DEF WellFormed, e

\* In a well-formed ledger no decision session is applied twice.
THEOREM WellFormedAppliedOnce ==
    ASSUME NEW c \in Chain, WellFormed(c)
    PROVE  AppliedOnce(c)
<1> SUFFICES ASSUME NEW j \in SessionsAt(c), NEW k \in SessionsAt(c),
                    c[j].decision = c[k].decision, j # k
             PROVE  FALSE
    BY DEF AppliedOnce
<1>1. /\ j \in 1 .. Len(c) /\ c[j].kind = "session"
      /\ k \in 1 .. Len(c) /\ c[k].kind = "session"
      BY DEF SessionsAt
<1>2. c[j] \in Entry /\ c[k] \in Entry
      BY <1>1, ElementOfSeq DEF Chain
<1>3. c[j].decision \in Nat /\ c[k].decision \in Nat
      BY <1>2, EntryFields
<1>4. c[j].decision < c[k].decision \/ c[k].decision < c[j].decision
      BY <1>1 DEF WellFormed, Ordered
<1>5. QED  BY <1>3, <1>4

USE LoopAssumption DEF Files

-----------------------------------------------------------------------------
(***************************************************************************)
(* Types.                                                                  *)
(***************************************************************************)

\* What _session_hash_after returns is a state of the same ledger.
LEMMA HashAfterChain ==
    ASSUME NEW c \in Chain, NEW k \in SessionsAt(c)
    PROVE  HashAfter(c, k) \in Chain
<1> DEFINE S == BeforeLaterSessions(c, k)
<1>1. Len(c) \in Nat
      BY LenProperties DEF Chain
<1>2. IsFiniteSet(1 .. Len(c)) /\ Cardinality(1 .. Len(c)) = Len(c)
  <2>1. \A n \in Nat : /\ IsFiniteSet(1 .. n)
                       /\ Cardinality(1 .. n) = IF 1 > n THEN 0 ELSE n - 1 + 1
        BY FS_Interval
  <2>2. QED  BY <1>1, <2>1
<1>3. S \subseteq 1 .. Len(c)
      BY DEF BeforeLaterSessions
<1>4. Cardinality(S) \in 0 .. Len(c)
  <2> HIDE DEF S
  <2>1. IsFiniteSet(S) /\ Cardinality(S) <= Cardinality(1 .. Len(c))
        BY <1>2, <1>3, FS_Subset
  <2>2. Cardinality(S) \in Nat
        BY <2>1, FS_CardinalityType
  <2>3. QED  BY <1>1, <1>2, <2>1, <2>2
<1>5. QED  BY <1>4, PrefixChain DEF HashAfter

\* A session report names a session and two states of the ledger.
LEMMA SessionReportType ==
    ASSUME NEW c \in Chain, NEW k \in SessionsAt(c),
           NEW status \in {"completed", "idempotent_replay"}
    PROVE  SessionReport(status, c, k) \in Report
<1>1. k \in 1 .. Len(c) /\ Len(c) \in Nat
      BY LenProperties DEF SessionsAt, Chain
<1>2. c[k] \in Entry
      BY <1>1, ElementOfSeq DEF Chain
<1>3. c[k].decision \in Nat
      BY <1>2, EntryFields
<1>4. Prefix(c, k - 1) \in Chain
  <2>1. k - 1 \in 0 .. Len(c)
        BY <1>1
  <2>2. QED  BY <2>1, PrefixChain
<1>5. HashAfter(c, k) \in Chain
      BY HashAfterChain
<1>6. QED  BY <1>3, <1>4, <1>5 DEF SessionReport, Report

\* The ledger a process loads is a ledger.
LEMMA LoadedChain ==
    ASSUME TypeOK, Loads
    PROVE  Loaded \in Chain
<1>1. path["state"] \in Content("state")
      BY DEF TypeOK
<1>2. <<>> \in Chain
      BY EmptySeq DEF Chain
<1>3. QED  BY <1>1, <1>2 DEF Content, Loads, Loaded

\* The last entry of the ledger a session run is going to save is a session.
LEMMA AppliedLast ==
    ASSUME NEW c \in Chain, NEW d \in Days, NEW i \in Inputs,
           NEW h \in SUBSET Symbols
    PROVE  LET b == Append(c, SessionStep(c, d, i, h))
           IN  b \in Chain /\ Len(b) \in SessionsAt(b)
<1> DEFINE e == SessionStep(c, d, i, h)
<1>1. e \in Entry /\ e.kind = "session"
      BY SessionStepType DEF SessionStep
<1> HIDE DEF e
<1>2. /\ Append(c, e) \in Chain
      /\ Len(Append(c, e)) = Len(c) + 1
      /\ Append(c, e)[Len(c) + 1] = e
      BY <1>1, AppendEntry
<1>3. Len(c) \in Nat
      BY LenProperties DEF Chain
<1>4. QED  BY <1>1, <1>2, <1>3 DEF SessionsAt, e

\* The initial state has the types.
LEMMA InitTypeOK == Init => TypeOK
<1> SUFFICES ASSUME Init PROVE TypeOK
    OBVIOUS
<1>1. <<>> \in Chain
      BY EmptySeq DEF Chain
<1>2. QED
      BY <1>1 DEF Init, TypeOK, Absent, Content, Steps, FileOf, NoReport

\* A step that only starts process p, at step s with state c and report r.
LEMMA StartTypeOK ==
    ASSUME TypeOK, NEW p \in Processes, pc[p] = "idle",
           NEW s \in {"open_state", "open_report"},
           NEW c \in Chain, NEW r \in Report \cup {NoReport},
           p \in Loops => r \in Report,
           s = "open_report" => p \in Loops,
           next' = [next EXCEPT ![p] = c],
           draft' = [draft EXCEPT ![p] = r],
           pc' = [pc EXCEPT ![p] = s],
           UNCHANGED <<path, tmp, handle>>
    PROVE  TypeOK'
    BY DEF TypeOK, Steps, FileOf

\* An unchanged function is updated with what it has.
LEMMA ExceptSame ==
    ASSUME NEW S, NEW T, NEW f \in [S -> T], NEW x \in S
    PROVE  [f EXCEPT ![x] = f[x]] = f
    OBVIOUS

\* A session that computes its next state keeps the types.
LEMMA ApplySessionTypeOK ==
    ASSUME TypeOK, NEW p \in Loops, NEW d \in Days, NEW i \in Inputs,
           NEW h \in SUBSET Symbols, ApplySession(p, d, i, h)
    PROVE  TypeOK'
<1> DEFINE c == Append(Loaded, SessionStep(Loaded, d, i, h))
           r == SessionReport("completed", c, Len(c))
<1>1. Loaded \in Chain
      BY LoadedChain DEF ApplySession, MayStart
<1>2. c \in Chain /\ Len(c) \in SessionsAt(c)
      BY <1>1, AppliedLast
<1>3. r \in Report
  <2> HIDE DEF c
  <2>1. QED  BY <1>2, SessionReportType
<1>4. /\ next' = [next EXCEPT ![p] = c]
      /\ draft' = [draft EXCEPT ![p] = r]
      /\ pc' = [pc EXCEPT ![p] = "open_state"]
      /\ UNCHANGED <<path, tmp, handle>>
      /\ pc[p] = "idle"
      BY DEF ApplySession, MayStart
<1>5. p \in Processes
      BY DEF Processes
<1> HIDE DEF c, r
<1>6. QED  BY <1>2, <1>3, <1>4, <1>5, StartTypeOK

\* A replay keeps the types.
LEMMA ReplaySessionTypeOK ==
    ASSUME TypeOK, NEW p \in Loops, NEW d \in Days, NEW i \in Inputs,
           ReplaySession(p, d, i)
    PROVE  TypeOK'
<1>1. Loaded \in Chain
      BY LoadedChain DEF ReplaySession, MayStart
<1>2. PICK k \in AppliedAt(Loaded, d) :
          draft' = [draft EXCEPT ![p] =
                       SessionReport("idempotent_replay", Loaded, k)]
      BY DEF ReplaySession
<1> DEFINE r == SessionReport("idempotent_replay", Loaded, k)
<1>3. r \in Report
  <2>1. k \in SessionsAt(Loaded)
        BY DEF AppliedAt
  <2>2. QED  BY <1>1, <2>1, SessionReportType
<1>4. p \in Processes
      BY DEF Processes
<1>5. next[p] \in Chain /\ [next EXCEPT ![p] = next[p]] = next
      BY <1>4, ExceptSame DEF TypeOK
<1>6. /\ next' = [next EXCEPT ![p] = next[p]]
      /\ draft' = [draft EXCEPT ![p] = r]
      /\ pc' = [pc EXCEPT ![p] = "open_report"]
      /\ UNCHANGED <<path, tmp, handle>>
      /\ pc[p] = "idle"
      BY <1>2, <1>5 DEF ReplaySession, MayStart
<1> HIDE DEF r
<1>7. QED  BY <1>3, <1>4, <1>5, <1>6, StartTypeOK

\* A manual fill keeps the types.
LEMMA RecordFillTypeOK ==
    ASSUME TypeOK, NEW p \in Clerks, NEW t \in Days, NEW s \in Symbols,
           NEW h \in SUBSET Symbols, RecordFill(p, t, s, h)
    PROVE  TypeOK'
<1> DEFINE e == FillStep(Loaded, t, h)
           c == Append(Loaded, e)
<1>1. Loaded \in Chain
      BY LoadedChain DEF RecordFill, MayStart
<1>2. e \in Entry
      BY <1>1, FillStepType
<1>3. c \in Chain
  <2> HIDE DEF e
  <2>1. QED  BY <1>1, <1>2, AppendEntry
<1>4. p \in Processes /\ p \notin Loops
      BY DEF Processes
<1>5. draft[p] \in Report \cup {NoReport} /\ [draft EXCEPT ![p] = draft[p]] = draft
      BY <1>4, ExceptSame DEF TypeOK
<1>6. /\ next' = [next EXCEPT ![p] = c]
      /\ draft' = [draft EXCEPT ![p] = draft[p]]
      /\ pc' = [pc EXCEPT ![p] = "open_state"]
      /\ UNCHANGED <<path, tmp, handle>>
      /\ pc[p] = "idle"
      BY <1>5 DEF RecordFill, MayStart
<1> HIDE DEF c
<1>7. QED  BY <1>3, <1>4, <1>5, <1>6, StartTypeOK

\* Opening the temporary file keeps the types.
LEMMA OpenTempTypeOK ==
    ASSUME TypeOK, NEW p \in Processes, OpenTemp(p)
    PROVE  TypeOK'
<1>1. FileOf(pc[p]) \in Files
      BY DEF FileOf
<1>2. \A f \in Files : Emptied \in Content(f)
      BY DEF Emptied, Content
<1>3. DOMAIN tmp' = Files /\ \A f \in Files : tmp'[f] \in Content(f)
      BY <1>1, <1>2 DEF OpenTemp, TypeOK
<1>4. /\ pc' \in [Processes -> Steps]
      /\ handle' \in [Processes -> {"closed", "tmp", "path", "unlinked"}]
      BY DEF OpenTemp, TypeOK, Steps
<1>5. \A q \in Processes :
          /\ q \in Loops /\ pc'[q] # "idle" => draft'[q] \in Report
          /\ FileOf(pc'[q]) = "report" => q \in Loops
          /\ (pc'[q] \in {"write_state", "write_report"}) <=> (handle'[q] # "closed")
      BY DEF OpenTemp, TypeOK, FileOf
<1>6. QED  BY <1>3, <1>4, <1>5 DEF OpenTemp, TypeOK

\* What a process writes is content of the file it is saving.
LEMMA MineContent ==
    ASSUME TypeOK, NEW p \in Processes, pc[p] # "idle",
           NEW f \in Files, f = FileOf(pc[p]),
           NEW old,
           NEW x \in Overwritten(old, Whole(IF f = "state" THEN next[p]
                                            ELSE draft[p]))
    PROVE  x \in Content(f)
<1>1. f = "state" => next[p] \in Chain
      BY DEF TypeOK
<1>2. f = "report" => draft[p] \in Report
      BY DEF TypeOK
<1>3. QED
      BY <1>1, <1>2 DEF Overwritten, Whole, Garbled, Content

\* Writing and closing it keeps the types.
LEMMA WriteTempTypeOK ==
    ASSUME TypeOK, NEW p \in Processes, WriteTemp(p)
    PROVE  TypeOK'
<1> DEFINE f == FileOf(pc[p])
           mine == Whole(IF f = "state" THEN next[p] ELSE draft[p])
<1>1. f \in Files /\ pc[p] # "idle"
      BY DEF FileOf, WriteTemp
<1>2. \A old : \A x \in Overwritten(old, mine) : x \in Content(f)
      BY <1>1, MineContent
<1>3. /\ DOMAIN path' = Files /\ DOMAIN tmp' = Files
      /\ \A g \in Files : path'[g] \in Content(g) /\ tmp'[g] \in Content(g)
  <2>1. CASE \E x \in Overwritten(tmp[f], mine) :
                tmp' = [tmp EXCEPT ![f] = x] /\ path' = path
        BY <1>1, <1>2, <2>1 DEF TypeOK
  <2>2. CASE \E x \in Overwritten(path[f], mine) :
                path' = [path EXCEPT ![f] = x] /\ tmp' = tmp
        BY <1>1, <1>2, <2>2 DEF TypeOK
  <2>3. CASE UNCHANGED <<path, tmp>>
        BY <2>3 DEF TypeOK
  <2>4. QED  BY <2>1, <2>2, <2>3 DEF WriteTemp
<1>4. /\ pc' \in [Processes -> Steps]
      /\ handle' \in [Processes -> {"closed", "tmp", "path", "unlinked"}]
      BY DEF WriteTemp, TypeOK, Steps
<1>5. \A q \in Processes :
          /\ q \in Loops /\ pc'[q] # "idle" => draft'[q] \in Report
          /\ FileOf(pc'[q]) = "report" => q \in Loops
          /\ (pc'[q] \in {"write_state", "write_report"}) <=> (handle'[q] # "closed")
      BY DEF WriteTemp, TypeOK, FileOf
<1>6. QED  BY <1>3, <1>4, <1>5 DEF WriteTemp, TypeOK

\* What the end of a process leaves is well typed, if its file is closed.
LEMMA EndTypeOK ==
    ASSUME TypeOK, NEW p \in Processes, End(p),
           handle' \in [Processes -> {"closed", "tmp", "path", "unlinked"}],
           handle'[p] = "closed",
           \A q \in Processes \ {p} :
               (handle'[q] = "closed") <=> (handle[q] = "closed"),
           DOMAIN path' = Files, DOMAIN tmp' = Files,
           \A f \in Files : path'[f] \in Content(f) /\ tmp'[f] \in Content(f)
    PROVE  TypeOK'
<1>1. <<>> \in Chain
      BY EmptySeq DEF Chain
<1>2. QED  BY <1>1 DEF End, TypeOK, Steps, FileOf

\* A crash keeps the types: it takes the handle with it.
LEMMA CrashTypeOK ==
    ASSUME TypeOK, NEW p \in Processes, Crash(p)
    PROVE  TypeOK'
<1>1. /\ handle' \in [Processes -> {"closed", "tmp", "path", "unlinked"}]
      /\ handle'[p] = "closed"
      /\ \A q \in Processes \ {p} : handle'[q] = handle[q]
      /\ DOMAIN path' = Files /\ DOMAIN tmp' = Files
      /\ \A f \in Files : path'[f] \in Content(f) /\ tmp'[f] \in Content(f)
      BY DEF Crash, TypeOK
<1>2. QED  BY <1>1, EndTypeOK DEF Crash

\* Renaming the temporary file keeps the types.
LEMMA ReplaceTempTypeOK ==
    ASSUME TypeOK, NEW p \in Processes, ReplaceTemp(p)
    PROVE  TypeOK'
<1> DEFINE f == FileOf(pc[p])
<1>1. f \in Files /\ pc[p] \notin {"idle", "write_state", "write_report"}
      BY DEF FileOf, ReplaceTemp
<1>2. Absent \in Content(f)
      BY DEF Absent, Content
<1>3. path' = [path EXCEPT ![f] = tmp[f]] /\ tmp' = [tmp EXCEPT ![f] = Absent]
      BY DEF ReplaceTemp
<1>4. /\ DOMAIN path' = Files /\ DOMAIN tmp' = Files
      /\ \A g \in Files : path'[g] \in Content(g) /\ tmp'[g] \in Content(g)
      BY <1>1, <1>2, <1>3 DEF TypeOK
<1>5. handle' = Renamed(f)
      BY DEF ReplaceTemp
<1>6. /\ handle' \in [Processes -> {"closed", "tmp", "path", "unlinked"}]
      /\ \A q \in Processes : (handle'[q] = "closed") <=> (handle[q] = "closed")
      BY <1>5 DEF Renamed, TypeOK
<1>7. handle'[p] = "closed"
      BY <1>1, <1>6 DEF TypeOK
<1>8. CASE End(p)
      BY <1>4, <1>6, <1>7, <1>8, EndTypeOK
<1>9. CASE /\ p \in Loops
           /\ pc' = [pc EXCEPT ![p] = "open_report"]
           /\ UNCHANGED <<next, draft>>
      BY <1>1, <1>4, <1>6, <1>7, <1>9 DEF TypeOK, Steps, FileOf
<1>10. QED  BY <1>8, <1>9 DEF ReplaceTemp

\* Every step keeps the types.
LEMMA NextTypeOK == TypeOK /\ [Next]_vars => TypeOK'
<1> SUFFICES ASSUME TypeOK, [Next]_vars PROVE TypeOK'
    OBVIOUS
<1>1. CASE UNCHANGED vars
      BY <1>1 DEF vars, TypeOK
<1>2. ASSUME NEW p \in Processes, Start(p) \/ Work(p) \/ Crash(p)
      PROVE  TypeOK'
  <2>1. CASE Start(p)
        BY <2>1, ApplySessionTypeOK, ReplaySessionTypeOK, RecordFillTypeOK
           DEF Start
  <2>2. CASE Work(p)
        BY <2>2, OpenTempTypeOK, WriteTempTypeOK, ReplaceTempTypeOK DEF Work
  <2>3. CASE Crash(p)
        BY <2>3, CrashTypeOK
  <2>4. QED  BY <1>2, <2>1, <2>2, <2>3
<1>3. QED  BY <1>1, <1>2 DEF Next

\* Every variable keeps its type, an open file belongs to a process that is
\* writing, and a loop that is at work has a report.
THEOREM TypeCorrect == Spec => []TypeOK
<1>1. QED  BY InitTypeOK, NextTypeOK, PTL DEF Spec

-----------------------------------------------------------------------------
(***************************************************************************)
(* Well-formed ledgers, whatever the interleaving.                         *)
(***************************************************************************)

\* The ledger a process loads is well formed; the missing file's is empty.
LEMMA LoadedWellFormed ==
    ASSUME TypeOK, LedgersSound, Loads
    PROVE  WellFormed(Loaded)
<1>1. CASE path["state"].is = "whole"
      BY <1>1 DEF LedgersSound, Loaded
<1>2. CASE path["state"].is = "absent"
  <2>1. path["state"] \in Content("state")
        BY DEF TypeOK
  <2>2. Loaded = <<>> /\ Len(<<>>) = 0
        BY <1>2, <2>1, EmptySeq DEF Content, Loaded
  <2>3. QED  BY <2>2 DEF WellFormed, Ordered, Covered, SessionsAt
<1>3. QED  BY <1>1, <1>2 DEF Loads

\* At the start there is no ledger that could be ill formed.
LEMMA InitLedgersSound == Init => LedgersSound
<1>1. WellFormed(<<>>)
  <2>1. Len(<<>>) = 0
        BY EmptySeq
  <2>2. QED  BY <2>1 DEF WellFormed, Ordered, Covered, SessionsAt
<1>2. QED  BY <1>1 DEF Init, LedgersSound, Absent

\* Only a start computes a new ledger.
LEMMA StartLedgersSound ==
    ASSUME TypeOK, LedgersSound, NEW p \in Processes, Start(p)
    PROVE  LedgersSound'
<1>1. ASSUME NEW c, WellFormed(c), next' = [next EXCEPT ![p] = c],
             UNCHANGED <<path, tmp>>
      PROVE  LedgersSound'
      BY <1>1 DEF LedgersSound, TypeOK
<1>2. ASSUME NEW d \in Days, NEW i \in Inputs, NEW h \in SUBSET Symbols,
             ApplySession(p, d, i, h)
      PROVE  LedgersSound'
  <2>1. Loaded \in Chain /\ WellFormed(Loaded)
        BY <1>2, LoadedChain, LoadedWellFormed DEF ApplySession, MayStart
  <2>2. WellFormed(Append(Loaded, SessionStep(Loaded, d, i, h)))
        BY <1>2, <2>1, SessionKeepsWellFormed DEF ApplySession
  <2>3. QED  BY <1>1, <1>2, <2>2 DEF ApplySession
<1>3. ASSUME NEW d \in Days, NEW i \in Inputs, ReplaySession(p, d, i)
      PROVE  LedgersSound'
      BY <1>3 DEF ReplaySession, LedgersSound
<1>4. ASSUME NEW t \in Days, NEW s \in Symbols, NEW h \in SUBSET Symbols,
             RecordFill(p, t, s, h)
      PROVE  LedgersSound'
  <2>1. Loaded \in Chain /\ WellFormed(Loaded)
        BY <1>4, LoadedChain, LoadedWellFormed DEF RecordFill, MayStart
  <2>2. WellFormed(Append(Loaded, FillStep(Loaded, t, h)))
        BY <1>4, <2>1, FillKeepsWellFormed DEF RecordFill
  <2>3. QED  BY <1>1, <1>4, <2>2 DEF RecordFill
<1>5. QED  BY <1>2, <1>3, <1>4 DEF Start

\* Whole content that a write leaves in the state file's inode is the ledger
\* of the process that wrote it.
LEMMA WriteLedgersSound ==
    ASSUME TypeOK, LedgersSound, NEW p \in Processes, WriteTemp(p)
    PROVE  LedgersSound'
<1> DEFINE f == FileOf(pc[p])
           mine == Whole(IF f = "state" THEN next[p] ELSE draft[p])
<1>1. f \in Files
      BY DEF FileOf
<1>2. next' = next /\ DOMAIN path = Files /\ DOMAIN tmp = Files
      BY DEF WriteTemp, TypeOK
<1>3. \A old : \A x \in Overwritten(old, mine) :
          f = "state" /\ x.is = "whole" => WellFormed(x.data)
      BY DEF Overwritten, Whole, Garbled, LedgersSound
<1>4. CASE \E x \in Overwritten(tmp[f], mine) :
              tmp' = [tmp EXCEPT ![f] = x] /\ path' = path
      BY <1>1, <1>2, <1>3, <1>4 DEF LedgersSound
<1>5. CASE \E x \in Overwritten(path[f], mine) :
              path' = [path EXCEPT ![f] = x] /\ tmp' = tmp
      BY <1>1, <1>2, <1>3, <1>5 DEF LedgersSound
<1>6. CASE UNCHANGED <<path, tmp>>
      BY <1>2, <1>6 DEF LedgersSound
<1>7. QED  BY <1>4, <1>5, <1>6 DEF WriteTemp

\* A process that ends forgets its ledger.
LEMMA EndLedgersSound ==
    ASSUME TypeOK, LedgersSound, NEW p \in Processes, End(p)
    PROVE  \A q \in Processes : WellFormed(next'[q])
<1>1. WellFormed(<<>>)
  <2>1. Len(<<>>) = 0
        BY EmptySeq
  <2>2. QED  BY <2>1 DEF WellFormed, Ordered, Covered, SessionsAt
<1>2. QED  BY <1>1 DEF End, LedgersSound, TypeOK

\* A rename puts the ledger of the temporary file in the visible file.
LEMMA ReplaceLedgersSound ==
    ASSUME TypeOK, LedgersSound, NEW p \in Processes, ReplaceTemp(p)
    PROVE  LedgersSound'
<1> DEFINE f == FileOf(pc[p])
<1>1. f \in Files /\ DOMAIN path = Files /\ DOMAIN tmp = Files
      BY DEF FileOf, TypeOK
<1>2. path' = [path EXCEPT ![f] = tmp[f]] /\ tmp' = [tmp EXCEPT ![f] = Absent]
      BY DEF ReplaceTemp
<1>3. /\ path'["state"].is = "whole" => WellFormed(path'["state"].data)
      /\ tmp'["state"].is = "whole" => WellFormed(tmp'["state"].data)
      BY <1>1, <1>2 DEF LedgersSound, Absent
<1>4. \A q \in Processes : WellFormed(next'[q])
  <2>1. CASE End(p)
        BY <2>1, EndLedgersSound
  <2>2. CASE UNCHANGED next
        BY <2>2 DEF LedgersSound
  <2>3. QED  BY <2>1, <2>2 DEF ReplaceTemp
<1>5. QED  BY <1>3, <1>4 DEF LedgersSound

\* Every step keeps the ledgers in files and in memory well formed.
LEMMA NextLedgersSound ==
    TypeOK /\ LedgersSound /\ [Next]_vars => LedgersSound'
<1> SUFFICES ASSUME TypeOK, LedgersSound, [Next]_vars PROVE LedgersSound'
    OBVIOUS
<1>1. CASE UNCHANGED vars
      BY <1>1 DEF vars, LedgersSound
<1>2. ASSUME NEW p \in Processes, Start(p) \/ Work(p) \/ Crash(p)
      PROVE  LedgersSound'
  <2>1. CASE Start(p)
        BY <2>1, StartLedgersSound
  <2>2. CASE OpenTemp(p)
        BY <2>2 DEF OpenTemp, FileOf, LedgersSound, Emptied, TypeOK
  <2>3. CASE WriteTemp(p)
        BY <2>3, WriteLedgersSound
  <2>4. CASE ReplaceTemp(p)
        BY <2>4, ReplaceLedgersSound
  <2>5. CASE Crash(p)
        BY <2>5, EndLedgersSound DEF Crash, LedgersSound
  <2>6. QED  BY <1>2, <2>1, <2>2, <2>3, <2>4, <2>5 DEF Work
<1>3. QED  BY <1>1, <1>2 DEF Next

\* Whatever processes run, in whatever interleaving, and wherever they are
\* killed: every ledger saved or about to be saved is well formed.
THEOREM LedgersAreSound == Spec => []LedgersSound
<1>1. Init => TypeOK /\ LedgersSound
      BY InitTypeOK, InitLedgersSound
<1>2. TypeOK /\ LedgersSound /\ [Next]_vars => (TypeOK /\ LedgersSound)'
      BY NextTypeOK, NextLedgersSound
<1>3. QED  BY <1>1, <1>2, PTL DEF Spec

\* No state file ever holds a decision session twice, with any number of
\* processes and crashes: its orders are booked at most once in a history.
THEOREM SessionsAreAppliedOnce == Spec => []SessionsAppliedOnce
<1>1. TypeOK /\ LedgersSound => SessionsAppliedOnce
  <2> SUFFICES ASSUME TypeOK, LedgersSound PROVE SessionsAppliedOnce
      OBVIOUS
  <2>1. CASE path["state"].is = "whole"
    <3>1. path["state"] \in Content("state")
          BY DEF TypeOK
    <3>2. Durable \in Chain /\ WellFormed(Durable)
          BY <2>1, <3>1 DEF Content, Durable, LedgersSound
    <3>3. QED  BY <3>2, WellFormedAppliedOnce DEF SessionsAppliedOnce
  <2>2. CASE path["state"].is # "whole"
    <3>1. Durable = <<>> /\ Len(<<>>) = 0
          BY <2>2, EmptySeq DEF Durable
    <3>2. QED  BY <3>1 DEF SessionsAppliedOnce, AppliedOnce, SessionsAt
  <2>3. QED  BY <2>1, <2>2
<1>2. QED  BY <1>1, TypeCorrect, LedgersAreSound, PTL

-----------------------------------------------------------------------------
(***************************************************************************)
(* One process at a time: atomic saves, and the abstract ledger.           *)
(*                                                                         *)
(* StateReadable is not inductive: a rename moves what the temporary file  *)
(* holds, so the invariant says what that is at every step of a save, that *)
(* the saving process is alone, and that what it saves follows the ledger  *)
(* it loaded.                                                              *)
(***************************************************************************)

\* b is c and one legal entry: a step of the abstract ledger.
Follows(b, c) ==
    \/ \E d \in Days, i \in Inputs, h \in SUBSET Symbols :
          /\ LegalSession(c, d, i, h)
          /\ b = Append(c, SessionStep(c, d, i, h))
    \/ \E t \in Days, s \in Symbols, h \in SUBSET Symbols :
          /\ LegalFill(c, t, s, h)
          /\ b = Append(c, FillStep(c, t, h))

Alone == \A p, q \in Processes : pc[p] # "idle" /\ pc[q] # "idle" => p = q

Saving ==
    \A p \in Processes :
        /\ pc[p] \in {"open_state", "write_state", "replace_state"}
              => Follows(next[p], Durable)
        /\ pc[p] = "write_state" =>
              handle[p] = "tmp" /\ tmp["state"].is = "emptied"
        /\ pc[p] = "write_report" => handle[p] = "tmp"
        /\ pc[p] = "replace_state" => tmp["state"] = Whole(next[p])

SerialInv == TypeOK /\ Alone /\ StateReadable /\ Saving

\* A process that can start is the only one, and loads what is durable.
LEMMA StartsAlone ==
    ASSUME Serial, SerialInv, NEW p \in Processes, MayStart(p)
    PROVE  /\ \A q \in Processes : pc[q] = "idle"
           /\ Loaded = Durable
<1>1. path["state"] \in Content("state")
      BY DEF SerialInv, TypeOK
<1>2. QED
      BY <1>1 DEF MayStart, Loads, Loaded, Durable, Content

\* At the start nobody is busy.
LEMMA InitSerialInv == Init => SerialInv
<1>1. Init => Alone /\ StateReadable /\ Saving
      BY DEF Init, Alone, StateReadable, Saving, Absent
<1>2. QED  BY <1>1, InitTypeOK DEF SerialInv

\* The invariant after a start of p at step s with next state c.
LEMMA StartSerialInv ==
    ASSUME Serial, SerialInv, NEW p \in Processes, Start(p)
    PROVE  Alone' /\ StateReadable' /\ Saving'
<1>1. PICK s \in {"open_state", "open_report"} :
          /\ MayStart(p)
          /\ pc' = [pc EXCEPT ![p] = s]
          /\ UNCHANGED <<path, tmp, handle>>
          /\ s = "open_state" => \E c : /\ next' = [next EXCEPT ![p] = c]
                                       /\ Follows(c, Loaded)
      BY DEF Start, ApplySession, ReplaySession, RecordFill, Follows
<1>2. \A q \in Processes : pc[q] = "idle"
      BY <1>1, StartsAlone
<1>3. Loaded = Durable
      BY <1>1, StartsAlone
<1>4. Durable' = Durable
      BY <1>1 DEF Durable
<1>5. /\ pc \in [Processes -> Steps]
      /\ next \in [Processes -> Chain]
      BY DEF SerialInv, TypeOK
<1>6. Alone'
      BY <1>1, <1>2, <1>5 DEF Alone
<1>7. StateReadable'
      BY <1>1 DEF SerialInv, StateReadable
<1>8. Saving'
      BY <1>1, <1>2, <1>3, <1>4, <1>5 DEF Saving
<1>9. QED  BY <1>6, <1>7, <1>8

\* Every step after the start, of the only process at work.
LEMMA OpenSerialInv ==
    ASSUME SerialInv, NEW p \in Processes, OpenTemp(p)
    PROVE  Alone' /\ StateReadable' /\ Saving'
<1>1. /\ pc \in [Processes -> Steps]
      /\ handle \in [Processes -> {"closed", "tmp", "path", "unlinked"}]
      /\ DOMAIN tmp = Files
      BY DEF SerialInv, TypeOK
<1>2. \A q \in Processes \ {p} : pc[q] = "idle" /\ pc'[q] = "idle"
      BY <1>1 DEF SerialInv, Alone, OpenTemp
<1>3. UNCHANGED <<path, next>> /\ Durable' = Durable
      BY DEF OpenTemp, Durable
<1>4. Alone'
      BY <1>2 DEF Alone
<1>5. StateReadable'
      BY <1>3 DEF SerialInv, StateReadable
<1>6. Saving'
      BY <1>1, <1>2, <1>3
         DEF SerialInv, Saving, OpenTemp, FileOf, Emptied
<1>7. QED  BY <1>4, <1>5, <1>6

\* Writing the temporary file keeps SerialInv.
LEMMA WriteSerialInv ==
    ASSUME SerialInv, NEW p \in Processes, WriteTemp(p)
    PROVE  Alone' /\ StateReadable' /\ Saving'
<1>1. /\ pc \in [Processes -> Steps]
      /\ DOMAIN tmp = Files
      BY DEF SerialInv, TypeOK
<1>2. \A q \in Processes \ {p} : pc[q] = "idle" /\ pc'[q] = "idle"
      BY <1>1 DEF SerialInv, Alone, WriteTemp
<1>3. handle[p] = "tmp"
      BY DEF SerialInv, Saving, WriteTemp
<1>4. UNCHANGED <<path, next>>
      BY <1>3 DEF WriteTemp
<1>5. Durable' = Durable
      BY <1>4 DEF Durable
<1>6. Alone'
      BY <1>2 DEF Alone
<1>7. StateReadable'
      BY <1>4 DEF SerialInv, StateReadable
<1>8. ASSUME pc[p] = "write_state"
      PROVE  tmp'["state"] = Whole(next[p])
  <2>1. tmp["state"].is = "emptied"
        BY <1>8 DEF SerialInv, Saving
  <2>2. QED  BY <1>1, <1>3, <1>8, <2>1 DEF WriteTemp, FileOf, Overwritten
<1>9. Saving'
      BY <1>1, <1>2, <1>4, <1>5, <1>8 DEF SerialInv, Saving, WriteTemp
<1>10. QED  BY <1>6, <1>7, <1>9

\* The rename keeps SerialInv: the file it moves is whole.
LEMMA ReplaceSerialInv ==
    ASSUME SerialInv, NEW p \in Processes, ReplaceTemp(p)
    PROVE  Alone' /\ StateReadable' /\ Saving'
<1>1. /\ pc \in [Processes -> Steps]
      /\ DOMAIN tmp = Files /\ DOMAIN path = Files
      BY DEF SerialInv, TypeOK
<1>2. /\ \A q \in Processes \ {p} : pc[q] = "idle" /\ pc'[q] = "idle"
      /\ pc'[p] \in {"idle", "open_report"}
      BY <1>1 DEF SerialInv, Alone, ReplaceTemp, End
<1>3. Alone'
      BY <1>2 DEF Alone
<1>4. StateReadable'
      BY <1>1 DEF SerialInv, StateReadable, Saving, ReplaceTemp, FileOf, Whole
<1>5. Saving'
      BY <1>2 DEF Saving
<1>6. QED  BY <1>3, <1>4, <1>5

\* A crash keeps SerialInv: nobody is busy after it.
LEMMA CrashSerialInv ==
    ASSUME SerialInv, NEW p \in Processes, Crash(p)
    PROVE  Alone' /\ StateReadable' /\ Saving'
<1>1. pc \in [Processes -> Steps]
      BY DEF SerialInv, TypeOK
<1>2. \A q \in Processes : pc'[q] = "idle"
      BY <1>1 DEF SerialInv, Alone, Crash, End
<1>3. UNCHANGED path
      BY DEF Crash
<1>4. QED  BY <1>2, <1>3 DEF SerialInv, Alone, StateReadable, Saving

\* Every step of one process at a time keeps SerialInv.
LEMMA NextSerialInv ==
    ASSUME Serial
    PROVE  SerialInv /\ [Next]_vars => SerialInv'
<1> SUFFICES ASSUME SerialInv, [Next]_vars PROVE SerialInv'
    OBVIOUS
<1>1. TypeOK'
      BY NextTypeOK DEF SerialInv
<1>2. CASE UNCHANGED vars
      BY <1>1, <1>2
         DEF vars, SerialInv, Alone, StateReadable, Saving, Durable
<1>3. ASSUME NEW p \in Processes, Start(p) \/ Work(p) \/ Crash(p)
      PROVE  Alone' /\ StateReadable' /\ Saving'
      BY <1>3, StartSerialInv, OpenSerialInv, WriteSerialInv,
         ReplaceSerialInv, CrashSerialInv DEF Work
<1>4. QED  BY <1>1, <1>2, <1>3 DEF Next, SerialInv

\* In every run of one process at a time SerialInv holds.
LEMMA AlwaysSerialInv ==
    ASSUME Serial
    PROVE  Spec => []SerialInv
<1>1. SerialInv /\ [Next]_vars => SerialInv'
      BY NextSerialInv
<1>2. QED  BY <1>1, InitSerialInv, PTL DEF Spec

\* With one process at a time a save is atomic: between any two system calls
\* and after any crash the state file decodes or does not exist yet.
THEOREM SerialSavesAreAtomic ==
    ASSUME Serial
    PROVE  Spec => []StateReadable
<1>1. SerialInv => StateReadable
      BY DEF SerialInv
<1>2. QED  BY <1>1, AlwaysSerialInv, PTL

\* A step of the abstract ledger from c to b.
LEMMA FollowsIsLedgerStep ==
    ASSUME Follows(Durable', Durable)
    PROVE  Ledger!Next
    BY DEF Follows, Ledger!Next, Ledger!ApplySession, Ledger!ApplyFill,
           LegalSession, SessionStep, LegalFill, FillStep,
           Ledger!LegalSession, Ledger!SessionStep, Ledger!LegalFill,
           Ledger!FillStep, Days, Ledger!Days, AppliedAt, Ledger!AppliedAt,
           SessionsAt, Ledger!SessionsAt, MarketCovers, Ledger!MarketCovers,
           Chronological, Ledger!Chronological, HoldingsAfter,
           Ledger!HoldingsAfter, HoldingsAfterFill, Ledger!HoldingsAfterFill,
           Held, Ledger!Held, LastDecision, Ledger!LastDecision,
           LastExecution, Ledger!LastExecution

\* With one process at a time, files, temporary files, crashes and reruns are
\* invisible: the state file implements the append-only ledger.
THEOREM SerialLoopIsLedger ==
    ASSUME Serial
    PROVE  Spec => LedgerSpec
<1>1. Init => Ledger!Init
      BY DEF Init, Ledger!Init, Durable, Absent
<1>2. SerialInv /\ [Next]_vars => [Ledger!Next]_Durable
  <2> SUFFICES ASSUME SerialInv, [Next]_vars, Durable' # Durable
               PROVE  Ledger!Next
      OBVIOUS
  <2>1. PICK p \in Processes : Start(p) \/ Work(p) \/ Crash(p)
        BY DEF Next, vars, Durable
  <2>2. UNCHANGED path => Durable' = Durable
        BY DEF Durable
  <2>3. ReplaceTemp(p)
    <3>1. WriteTemp(p) => UNCHANGED path
      <4>1. WriteTemp(p) => handle[p] = "tmp"
            BY DEF SerialInv, Saving, WriteTemp
      <4>2. QED  BY <4>1 DEF WriteTemp
    <3>2. OpenTemp(p) \/ Crash(p) \/ Start(p) => UNCHANGED path
          BY DEF OpenTemp, Crash, Start, ApplySession, ReplaySession,
                 RecordFill
    <3>3. QED  BY <2>1, <2>2, <3>1, <3>2 DEF Work
  <2>4. DOMAIN path = Files
        BY DEF SerialInv, TypeOK
  <2>5. pc[p] = "replace_state"
    <3>1. pc[p] = "replace_report" => path'["state"] = path["state"]
          BY <2>3, <2>4 DEF ReplaceTemp, FileOf
    <3>2. path'["state"] = path["state"] => Durable' = Durable
          BY DEF Durable
    <3>3. QED  BY <2>3, <3>1, <3>2 DEF ReplaceTemp
  <2>6. tmp["state"] = Whole(next[p]) /\ Follows(next[p], Durable)
        BY <2>5 DEF SerialInv, Saving
  <2>7. path'["state"] = Whole(next[p])
        BY <2>3, <2>4, <2>5, <2>6 DEF ReplaceTemp, FileOf
  <2>8. Durable' = next[p]
        BY <2>7 DEF Durable, Whole
  <2>9. QED  BY <2>6, <2>8, FollowsIsLedgerStep
<1>3. QED  BY <1>1, <1>2, AlwaysSerialInv, PTL DEF Spec, LedgerSpec, Ledger!Spec

-----------------------------------------------------------------------------
(***************************************************************************)
(* The report.  A report is drafted from the ledger a process loads or is  *)
(* going to save; it stays faithful while entries are appended, so it is   *)
(* still faithful when it becomes the report file, and ever after.         *)
(***************************************************************************)

\* What report r says of its session holds in ledger c.
FaithfulTo(r, c) ==
    \E k \in AppliedAt(c, r.session), n \in 1 .. Len(c) :
       /\ r.before = Prefix(c, k - 1)
       /\ r.after = Prefix(c, n)
       /\ \A j \in SessionsAt(r.after) : j <= k

\* The report file, a draft and the temporary file in between.
Reporting ==
    /\ path["report"].is = "whole" => FaithfulTo(path["report"].data, Durable)
    /\ \A p \in Processes :
          /\ pc[p] \in {"open_report", "write_report", "replace_report"}
                => FaithfulTo(draft[p], Durable)
          /\ p \in Loops /\ pc[p] \in {"open_state", "write_state", "replace_state"}
                => FaithfulTo(draft[p], next[p])
          /\ pc[p] = "write_report" => tmp["report"].is = "emptied"
          /\ pc[p] = "replace_report" => tmp["report"] = Whole(draft[p])

\* A set of positions with all positions before them is an interval.
LEMMA DownwardClosed ==
    ASSUME NEW n \in Nat, NEW S \in SUBSET (1 .. n),
           \A m \in S : \A l \in 1 .. m : l \in S
    PROVE  Cardinality(S) \in 0 .. n /\ S = 1 .. Cardinality(S)
<1> DEFINE T == {m \in Nat : m >= 1 /\ m \notin S}
<1>1. n + 1 \in T /\ T \subseteq Nat /\ T # {}
      OBVIOUS
<1>2. PICK t \in T : \A m \in T : ~ (<<m, t>> \in OpToRel(<, Nat))
  <2> HIDE DEF T
  <2>1. QED  BY <1>1, NatLessThanWellFounded, WFMin
<1>3. t \in Nat /\ t >= 1 /\ t \notin S
      OBVIOUS
<1>4. \A m \in T : ~ (m < t)
  <2> SUFFICES ASSUME NEW m \in T, m < t PROVE FALSE
      OBVIOUS
  <2>1. m \in Nat
        OBVIOUS
  <2>2. QED  BY <1>2, <1>3, <2>1 DEF OpToRel
<1>5. \A m \in 1 .. (t - 1) : m \in S
      BY <1>3, <1>4
<1>6. \A m \in S : m \in 1 .. (t - 1)
  <2> SUFFICES ASSUME NEW m \in S, ~ (m < t) PROVE FALSE
      BY <1>3
  <2>1. t \in 1 .. m
        BY <1>3
  <2>2. QED  BY <1>3, <2>1
<1>7. S = 1 .. (t - 1)
      BY <1>5, <1>6
<1>8. Cardinality(1 .. (t - 1)) = t - 1
  <2>1. \A j \in Nat : Cardinality(1 .. j) = IF 1 > j THEN 0 ELSE j - 1 + 1
        BY FS_Interval
  <2>2. t - 1 \in Nat
        BY <1>3
  <2>3. QED  BY <2>1, <2>2
<1>9. t - 1 <= n
      BY <1>1, <1>3, <1>4
<1>10. QED  BY <1>3, <1>7, <1>8, <1>9

\* A report drafted from a ledger is faithful to it.
LEMMA DraftIsFaithful ==
    ASSUME NEW c \in Chain, NEW k \in SessionsAt(c), NEW status
    PROVE  FaithfulTo(SessionReport(status, c, k), c)
<1> DEFINE S == BeforeLaterSessions(c, k)
           n == Cardinality(S)
           r == SessionReport(status, c, k)
<1>1. Len(c) \in Nat /\ k \in 1 .. Len(c)
      BY LenProperties DEF Chain, SessionsAt
<1>2. S \in SUBSET (1 .. Len(c)) /\ \A m \in S : \A l \in 1 .. m : l \in S
      BY <1>1 DEF BeforeLaterSessions, SessionsAt
<1>3. k \in S
      BY <1>1 DEF BeforeLaterSessions
<1>4. n \in 0 .. Len(c) /\ S = 1 .. n
  <2> HIDE DEF S
  <2>1. QED  BY <1>1, <1>2, DownwardClosed
<1>5. n \in 1 .. Len(c)
      BY <1>1, <1>3, <1>4
<1>6. r.session = c[k].decision /\ r.before = Prefix(c, k - 1) /\ r.after = Prefix(c, n)
      BY DEF SessionReport, HashAfter
<1>7. /\ Len(Prefix(c, n)) = n
      /\ \A j \in 1 .. n : Prefix(c, n)[j] = c[j]
  <2>1. \A j \in 1 .. n : c[j] \in Entry
        BY <1>1, <1>5, ElementOfSeq DEF Chain
  <2> HIDE DEF n
  <2>2. QED  BY <1>1, <1>5, <2>1, SubSeqProperties DEF Prefix
<1>8. \A j \in SessionsAt(r.after) : j <= k
  <2> SUFFICES ASSUME NEW j \in SessionsAt(Prefix(c, n)), ~ (j <= k) PROVE FALSE
      BY <1>6
  <2>1. j \in 1 .. n /\ c[j].kind = "session"
        BY <1>7 DEF SessionsAt
  <2>2. j \in S /\ j \in SessionsAt(c) /\ j > k
        BY <1>1, <1>4, <1>5, <2>1 DEF SessionsAt
  <2>3. j < j
        BY <2>2 DEF BeforeLaterSessions
  <2>4. QED  BY <1>5, <2>1, <2>3
<1>9. k \in AppliedAt(c, r.session)
      BY <1>6 DEF AppliedAt
<1>10. QED  BY <1>5, <1>6, <1>8, <1>9 DEF FaithfulTo

\* What was in a ledger stays in it when an entry is appended.
LEMMA PrefixAppended ==
    ASSUME NEW c \in Chain, NEW e \in Entry, NEW n \in 0 .. Len(c)
    PROVE  Prefix(Append(c, e), n) = Prefix(c, n)
<1> DEFINE b == Append(c, e)
<1>1. /\ b \in Chain /\ Len(c) \in Nat /\ Len(b) = Len(c) + 1
      /\ \A j \in 1 .. Len(c) : b[j] = c[j]
      BY AppendEntry, LenProperties DEF Chain
<1> HIDE DEF b
<1>2. \A j \in 1 .. n : c[j] \in Entry /\ b[j] = c[j]
      BY <1>1, ElementOfSeq DEF Chain
<1>3. /\ SubSeq(c, 1, n) \in Seq(Entry) /\ SubSeq(b, 1, n) \in Seq(Entry)
      /\ Len(SubSeq(c, 1, n)) = n /\ Len(SubSeq(b, 1, n)) = n
      /\ \A j \in 1 .. n : SubSeq(c, 1, n)[j] = c[j] /\ SubSeq(b, 1, n)[j] = b[j]
      BY <1>1, <1>2, SubSeqProperties
<1>4. QED  BY <1>1, <1>2, <1>3, SeqEqual DEF Prefix, b

\* A report stays faithful when an entry is appended.
LEMMA FaithfulAppended ==
    ASSUME NEW c \in Chain, NEW e \in Entry, NEW r, FaithfulTo(r, c)
    PROVE  FaithfulTo(r, Append(c, e))
<1> DEFINE b == Append(c, e)
<1>1. PICK k \in AppliedAt(c, r.session), n \in 1 .. Len(c) :
          /\ r.before = Prefix(c, k - 1)
          /\ r.after = Prefix(c, n)
          /\ \A j \in SessionsAt(r.after) : j <= k
      BY DEF FaithfulTo
<1>2. /\ Len(c) \in Nat /\ Len(b) = Len(c) + 1
      /\ \A j \in 1 .. Len(c) : b[j] = c[j]
      BY AppendEntry, LenProperties DEF Chain
<1>3. k \in 1 .. Len(c) /\ c[k].kind = "session" /\ c[k].decision = r.session
      BY DEF AppliedAt, SessionsAt
<1>4. Prefix(b, k - 1) = Prefix(c, k - 1) /\ Prefix(b, n) = Prefix(c, n)
  <2>1. k - 1 \in 0 .. Len(c) /\ n \in 0 .. Len(c)
        BY <1>2, <1>3
  <2>2. QED  BY <2>1, PrefixAppended
<1> HIDE DEF b
<1>5. k \in AppliedAt(b, r.session) /\ n \in 1 .. Len(b)
      BY <1>2, <1>3 DEF AppliedAt, SessionsAt
<1>6. QED  BY <1>1, <1>4, <1>5 DEF FaithfulTo, b

\* The ledger that follows another is that one and an entry.
LEMMA FollowsAppends ==
    ASSUME NEW c \in Chain, NEW b, Follows(b, c)
    PROVE  \E e \in Entry : b = Append(c, e)
BY SessionStepType, FillStepType DEF Follows

LEMMA DurableChain ==
    ASSUME TypeOK
    PROVE  Durable \in Chain
<1>1. path["state"] \in Content("state")
      BY DEF TypeOK
<1>2. <<>> \in Chain
      BY EmptySeq DEF Chain
<1>3. QED  BY <1>1, <1>2 DEF Content, Durable

\* What a start drafts.
LEMMA StartReporting ==
    ASSUME Serial, SerialInv, Reporting, NEW p \in Processes, Start(p)
    PROVE  Reporting'
<1>1. MayStart(p) /\ UNCHANGED <<path, tmp, handle>>
      BY DEF Start, ApplySession, ReplaySession, RecordFill
<1>2. /\ \A q \in Processes : pc[q] = "idle"
      /\ Loaded = Durable /\ Durable' = Durable /\ Loaded \in Chain
      BY <1>1, StartsAlone, DurableChain DEF Durable, SerialInv
<1>3. pc \in [Processes -> Steps] /\ draft \in [Processes -> Report \cup {NoReport}]
      /\ next \in [Processes -> Chain]
      BY DEF SerialInv, TypeOK
<1>4. CASE \E d \in Days, i \in Inputs, h \in SUBSET Symbols : ApplySession(p, d, i, h)
  <2>1. PICK d \in Days, i \in Inputs, h \in SUBSET Symbols : ApplySession(p, d, i, h)
        BY <1>4
  <2> DEFINE c == Append(Loaded, SessionStep(Loaded, d, i, h))
             r == SessionReport("completed", c, Len(c))
  <2>2. c \in Chain /\ Len(c) \in SessionsAt(c)
        BY <1>2, AppliedLast
  <2>3. FaithfulTo(r, c)
    <3> HIDE DEF c
    <3>1. QED  BY <2>2, DraftIsFaithful
  <2>4. /\ next' = [next EXCEPT ![p] = c] /\ draft' = [draft EXCEPT ![p] = r]
        /\ pc' = [pc EXCEPT ![p] = "open_state"]
        BY <2>1 DEF ApplySession
  <2> HIDE DEF c, r
  <2>5. QED  BY <1>1, <1>2, <1>3, <2>3, <2>4 DEF Reporting
<1>5. CASE p \in Loops /\ \E d \in Days, i \in Inputs : ReplaySession(p, d, i)
  <2>1. PICK d \in Days, i \in Inputs : ReplaySession(p, d, i)
        BY <1>5
  <2>2. PICK k \in AppliedAt(Loaded, d) :
            draft' = [draft EXCEPT ![p] = SessionReport("idempotent_replay", Loaded, k)]
        BY <2>1 DEF ReplaySession
  <2> DEFINE r == SessionReport("idempotent_replay", Loaded, k)
  <2>3. FaithfulTo(r, Durable)
    <3>1. k \in SessionsAt(Loaded)
          BY DEF AppliedAt
    <3>2. QED  BY <1>2, <3>1, DraftIsFaithful
  <2>4. draft' = [draft EXCEPT ![p] = r] /\ pc' = [pc EXCEPT ![p] = "open_report"]
        BY <2>1, <2>2 DEF ReplaySession
  <2> HIDE DEF r
  <2>5. QED  BY <1>1, <1>2, <1>3, <2>3, <2>4 DEF Reporting
<1>6. CASE p \in Clerks /\ \E t \in Days, s \in Symbols, h \in SUBSET Symbols :
                              RecordFill(p, t, s, h)
  <2>1. pc' = [pc EXCEPT ![p] = "open_state"] /\ p \notin Loops
        BY <1>6 DEF RecordFill
  <2>2. QED  BY <1>1, <1>2, <1>3, <2>1 DEF Reporting
<1>7. QED  BY <1>4, <1>5, <1>6 DEF Start

LEMMA WorkReporting ==
    ASSUME SerialInv, Reporting, NEW p \in Processes, OpenTemp(p) \/ WriteTemp(p)
    PROVE  Reporting'
<1>1. /\ pc \in [Processes -> Steps] /\ DOMAIN tmp = Files
      /\ UNCHANGED <<next, draft>>
      BY DEF SerialInv, TypeOK, OpenTemp, WriteTemp
<1>2. \A q \in Processes \ {p} : pc[q] = "idle" /\ pc'[q] = "idle"
      BY <1>1 DEF SerialInv, Alone, OpenTemp, WriteTemp
<1>3. UNCHANGED path /\ Durable' = Durable
  <2>1. WriteTemp(p) => handle[p] = "tmp"
        BY DEF SerialInv, Saving, WriteTemp
  <2>2. QED  BY <2>1 DEF OpenTemp, WriteTemp, Durable
<1>4. CASE OpenTemp(p)
      BY <1>1, <1>2, <1>3, <1>4 DEF Reporting, OpenTemp, FileOf, Emptied
<1>5. CASE WriteTemp(p)
  <2>1. handle[p] = "tmp"
        BY <1>5 DEF SerialInv, Saving, WriteTemp
  <2>2. pc[p] = "write_report" => tmp'["report"] = Whole(draft[p])
        BY <1>1, <1>5, <2>1 DEF Reporting, WriteTemp, FileOf, Overwritten
  <2>3. QED  BY <1>1, <1>2, <1>3, <1>5, <2>2 DEF Reporting, WriteTemp
<1>6. QED  BY <1>4, <1>5

\* The rename of the state appends the entry the draft is about, the rename of
\* the report publishes a faithful one.
LEMMA ReplaceReporting ==
    ASSUME SerialInv, Reporting, NEW p \in Processes, ReplaceTemp(p)
    PROVE  Reporting'
<1>1. /\ TypeOK /\ pc \in [Processes -> Steps] /\ DOMAIN tmp = Files /\ DOMAIN path = Files
      BY DEF SerialInv, TypeOK
<1>2. /\ \A q \in Processes \ {p} : pc[q] = "idle" /\ pc'[q] = "idle"
      /\ pc'[p] \in {"idle", "open_report"}
      BY <1>1 DEF SerialInv, Alone, ReplaceTemp, End
<1>3. CASE pc[p] = "replace_state"
  <2>1. tmp["state"] = Whole(next[p]) /\ Follows(next[p], Durable)
        BY <1>3 DEF SerialInv, Saving
  <2>2. Durable' = next[p] /\ path'["report"] = path["report"]
        BY <1>1, <1>3, <2>1 DEF ReplaceTemp, FileOf, Durable, Whole
  <2>3. PICK e \in Entry : next[p] = Append(Durable, e)
        BY <1>1, <2>1, DurableChain, FollowsAppends
  <2>4. path'["report"].is = "whole" => FaithfulTo(path'["report"].data, Durable')
        BY <1>1, <2>2, <2>3, DurableChain, FaithfulAppended DEF Reporting
  <2>5. pc'[p] = "open_report" => FaithfulTo(draft'[p], Durable')
        BY <1>1, <1>3, <2>2 DEF Reporting, ReplaceTemp, FileOf, End
  <2>6. QED  BY <1>2, <2>4, <2>5 DEF Reporting
<1>4. CASE pc[p] = "replace_report"
  <2>1. tmp["report"] = Whole(draft[p]) /\ FaithfulTo(draft[p], Durable)
        BY <1>4 DEF Reporting
  <2>2. path'["report"] = Whole(draft[p]) /\ Durable' = Durable /\ pc'[p] = "idle"
        BY <1>1, <1>4, <2>1 DEF ReplaceTemp, FileOf, Durable, End
  <2>3. FaithfulTo(path'["report"].data, Durable')
        BY <2>1, <2>2 DEF Whole
  <2>4. QED  BY <1>2, <2>2, <2>3 DEF Reporting
<1>5. QED  BY <1>3, <1>4 DEF ReplaceTemp

\* In every run of one process at a time what is reported is faithful.
LEMMA AlwaysReporting ==
    ASSUME Serial
    PROVE  Spec => []Reporting
<1>1. Init => Reporting
      BY DEF Init, Reporting, Absent
<1>2. SerialInv /\ Reporting /\ [Next]_vars => Reporting'
  <2> SUFFICES ASSUME SerialInv, Reporting, [Next]_vars PROVE Reporting'
      OBVIOUS
  <2>1. CASE UNCHANGED vars
        BY <2>1 DEF vars, Reporting, Durable
  <2>2. ASSUME NEW p \in Processes, Crash(p) PROVE Reporting'
    <3>1. pc \in [Processes -> Steps]
          BY DEF SerialInv, TypeOK
    <3>2. \A q \in Processes : pc'[q] = "idle"
          BY <2>2, <3>1 DEF SerialInv, Alone, Crash, End
    <3>3. UNCHANGED path /\ Durable' = Durable
          BY <2>2 DEF Crash, Durable
    <3>4. QED  BY <3>2, <3>3 DEF Reporting
  <2>3. QED
        BY <2>1, <2>2, StartReporting, WorkReporting, ReplaceReporting DEF Next, Work
<1>3. QED  BY <1>1, <1>2, AlwaysSerialInv, PTL DEF Spec

\* With one process at a time the report file never speaks of a session, or of
\* states, that the state file does not have, over crashes, reruns and fills.
THEOREM SerialReportsAreFaithful ==
    ASSUME Serial
    PROVE  Spec => []ReportFaithful
<1>1. Reporting => ReportFaithful
      BY DEF Reporting, FaithfulTo, ReportFaithful
<1>2. QED  BY <1>1, AlwaysReporting, PTL
=============================================================================
