------------------------ MODULE ContinuousPaper_proofs ------------------------
(***************************************************************************)
(* Theorems about ContinuousPaper, for every set of drivers, number of     *)
(* days and bounds, with or without overlapping cycles.                    *)
(*                                                                         *)
(* The argument: a transaction inserts the row of the first table before   *)
(* any other, and only over a session without rows, so the key of that     *)
(* row keeps every other transaction of the session from inserting         *)
(* (OneInserts); its tables are then all its own (Transaction), and what   *)
(* it commits is the bundle of its report.  One that inserts nothing has   *)
(* found every row it wanted.                                              *)
(***************************************************************************)
EXTENDS ContinuousPaper, SequenceTheorems, WellFoundedInduction, TLAPS

Day(p) == run[p].day
InTransaction(p) == pc[p] \in {"check", "insert", "commit"}
Passed(p, i) == i < at[p] \/ pc[p] = "commit"
RowFor(p, i) == RowOf(Tables[i], report[p], shadow[p])
Inserted(p, i) == tx[p][Tables[i]] # Nil

\* A row of p is of its report, came after the row of the first table, and is
\* for a session without rows; the tables p has passed hold what p wants.
Transaction(p) ==
    /\ ~ InTransaction(p) => at[p] = 1
    /\ \A i \in DOMAIN Tables : Inserted(p, i) =>
          /\ tx[p][Tables[i]] = RowFor(p, i)
          /\ Inserted(p, 1)
          /\ db[Day(p)] = NoRows
    /\ \A i \in DOMAIN Tables : InTransaction(p) /\ Passed(p, i) =>
          Inserted(p, i) \/ db[Day(p)][Tables[i]] = RowFor(p, i)

\* Two cycles of one session do not both have uncommitted rows.
OneInserts ==
    \A p, q \in Drivers : Day(p) = Day(q) /\ Inserted(p, 1) /\ Inserted(q, 1) => p = q

\* A session has no rows or a bundle.
Whole == \A d \in Days : db[d] = NoRows \/ db[d] \in Bundles

\* The report is about the session and the request of the cycle.
Asked(p) == report[p] # Nil => report[p].day = Day(p) /\ report[p].request = run[p].request

\* A cycle that returned left its session stored, with its request.
Returned(p) ==
    outcome[p] = "stored" =>
        /\ db[Day(p)] # NoRows
        /\ db[Day(p)]["paper_sessions"].report.request = run[p].request

\* A history is no longer than its latest day and the fills allow.
Fits(l, n) ==
    \A m \in 0..LastDay : (\A i \in DOMAIN l : l[i].day <= m) => Len(l) <= m + n
Lengths == Fits(ledger, fills) /\ \A p \in Drivers : Fits(next[p], fills)

\* TypeOK in two parts: the values of the variables, and the steps of a cycle.
Kinds ==
    /\ ledger \in Ledgers
    /\ db \in [Days -> [TableNames -> Rows \cup {Nil}]]
    /\ pc \in [Drivers -> Steps]
    /\ run \in [Drivers -> [day : Days, request : Requests]]
    /\ tries \in [Drivers -> Nat]
    /\ next \in [Drivers -> Ledgers]
    /\ report \in [Drivers -> Reports \cup {Nil}]
    /\ shadow \in [Drivers -> Advices \cup {Nil}]
    /\ at \in [Drivers -> DOMAIN Tables]
    /\ tx \in [Drivers -> [TableNames -> Rows \cup {Nil}]]
    /\ outcome \in [Drivers -> Outcomes]
    /\ fills \in 0..MaxFills
    /\ faults \in 0..MaxFaults
Phase(p) ==
    /\ tries[p] \in 0..Retries(p)
    /\ (pc[p] = "idle") <=> (outcome[p] # "running")
    /\ report[p] # Nil <=> pc[p] \notin {"idle", "initialize", "pipeline"}
    /\ \A i \in DOMAIN Tables : Inserted(p, i) => Passed(p, i)

Driver(p) == Phase(p) /\ Transaction(p) /\ Asked(p) /\ Returned(p)

IInv ==
    /\ Kinds
    /\ Lengths
    /\ Whole
    /\ OneInserts
    /\ \A p \in Drivers : Driver(p)

-----------------------------------------------------------------------------
(* Tables, rows and reports. *)

LEMMA Bounds ==
    /\ LastDay \in Nat /\ MaxFills \in Nat /\ MaxFaults \in Nat /\ TaskRetries \in Nat
    /\ Bound \in Nat /\ Bound = LastDay + MaxFills /\ Days = 1..LastDay
    /\ Nil \notin Rows /\ Nil \notin Reports /\ Nil \notin Advices
    /\ \A p : Retries(p) \in Nat
BY CycleAssumption DEF Bound, Days, Retries

LEMMA TableFacts ==
    /\ DOMAIN Tables = 1..5 /\ Len(Tables) = 5 /\ 1 \in DOMAIN Tables
    /\ \A i \in DOMAIN Tables : Tables[i] \in TableNames
    /\ \A t \in TableNames : \E i \in DOMAIN Tables : Tables[i] = t
    /\ \A i, j \in DOMAIN Tables : Tables[i] = Tables[j] => i = j
    /\ Tables[1] = "paper_sessions" /\ Tables[4] = "ai_shadow_reports"
    /\ "paper_sessions" \in TableNames /\ "ai_shadow_reports" \in TableNames
<1>1. DOMAIN Tables = 1..5 /\ Len(Tables) = 5
  BY DEF Tables
<1>2. \A t : t \in TableNames <=> \E i \in DOMAIN Tables : Tables[i] = t
  BY DEF TableNames
<1>3. /\ Tables[1] = "paper_sessions" /\ Tables[2] = "paper_session_reports"
      /\ Tables[3] = "learning_desk_reports" /\ Tables[4] = "ai_shadow_reports"
      /\ Tables[5] = "paper_facts"
  BY DEF Tables
<1>4. \A i, j \in DOMAIN Tables : Tables[i] = Tables[j] => i = j
  BY <1>1, <1>3
<1>5. 1 \in DOMAIN Tables /\ 4 \in DOMAIN Tables
  BY <1>1
<1> QED BY <1>1, <1>2, <1>3, <1>4, <1>5

\* A row is a row, and only the row of the facts loses anything of the report.
LEMMA RowFacts ==
    ASSUME NEW rep \in Reports, NEW advice \in Advices \cup {Nil}, NEW t
    PROVE  /\ RowOf(t, rep, advice) \in Rows /\ RowOf(t, rep, advice) # Nil
           /\ t = "paper_sessions" => RowOf(t, rep, advice).report = rep
           /\ t = "ai_shadow_reports" => /\ RowOf(t, rep, advice).report = rep
                                         /\ RowOf(t, rep, advice).shadow = advice
<1>1. <<>> \in Ledgers
  BY Bounds, EmptySeq DEF Ledgers
<1>2. FactsOf(rep) \in Reports
  BY <1>1 DEF FactsOf, Reports, Statuses
<1>3. RowOf(t, rep, advice) \in Rows
  BY <1>2 DEF RowOf, Rows
<1> QED BY <1>3, Bounds DEF RowOf

LEMMA BundleFacts ==
    ASSUME NEW rep \in Reports, NEW advice \in Advices \cup {Nil}
    PROVE  /\ Bundle(rep, advice) \in Bundles /\ Bundle(rep, advice) # NoRows
           /\ Bundle(rep, advice)["paper_sessions"].report = rep
<1> DEFINE b == Bundle(rep, advice)
<1>1. b \in [TableNames -> Rows]
  BY RowFacts DEF Bundle
<1>2. b["paper_sessions"].report = rep /\ b["ai_shadow_reports"].shadow = advice
  BY RowFacts, TableFacts DEF Bundle
<1>3. b # NoRows
  BY <1>1, TableFacts, Bounds DEF NoRows
<1> HIDE DEF b
<1>4. b = Bundle(b["paper_sessions"].report, b["ai_shadow_reports"].shadow)
  BY <1>2 DEF b
<1> QED BY <1>1, <1>2, <1>3, <1>4 DEF Bundles, b

\* No table is left out of a bundle, and one empty table means an empty session.
LEMMA WholeRows ==
    ASSUME Whole, NEW d \in Days, NEW t \in TableNames
    PROVE  db[d][t] = Nil <=> db[d] = NoRows
BY Bounds DEF Whole, Bundles, NoRows

\* A prefix of a history is a history.
LEMMA PrefixOfHistory ==
    ASSUME NEW l \in Ledgers, NEW k \in 0..Len(l)
    PROVE  SubSeq(l, 1, k) \in Ledgers
<1>1. l \in Seq(Entries) /\ Len(l) \in Nat /\ Len(l) <= Bound
  BY DEF Ledgers
<1>2. \A i \in 1..k : l[i] \in Entries
  BY <1>1, ElementOfSeq
<1>3. SubSeq(l, 1, k) \in Seq(Entries) /\ Len(SubSeq(l, 1, k)) = IF 1 <= k THEN k - 1 + 1 ELSE 0
  BY <1>2, SubSeqProperties
<1> QED BY <1>1, <1>3, Bounds DEF Ledgers

\* A set of numbers that has a member has a least one.
LEMMA LeastMember ==
    ASSUME NEW T \in SUBSET Nat, T # {}
    PROVE  \E k \in T : \A j \in T : k <= j
<1>1. PICK k \in T : \A j \in T : ~ (<<j, k>> \in OpToRel(<, Nat))
  BY NatLessThanWellFounded, WFMin
<1>2. \A j \in T : ~ (j < k)
  <2> SUFFICES ASSUME NEW j \in T, j < k PROVE FALSE
    OBVIOUS
  <2>1. j \in Nat /\ k \in Nat
    OBVIOUS
  <2> QED BY <1>1, <2>1 DEF OpToRel
<1>3. \A j \in T : j \in Nat /\ k \in Nat
  OBVIOUS
<1> QED BY <1>2, <1>3

LEMMA ReportFacts ==
    ASSUME NEW l \in Ledgers, NEW d \in Days, Applied(l, d), NEW status \in Statuses
    PROVE  /\ ReportOf(l, d, status) \in Reports
           /\ ReportOf(l, d, status).day = d
           /\ ReportOf(l, d, status).request = l[Session(l, d)].request
<1> DEFINE later == {i \in DOMAIN l : i > Session(l, d) /\ l[i].day # 0}
           k == CHOOSE i \in later : \A j \in later : i <= j
<1>1. l \in Seq(Entries) /\ DOMAIN l = 1..Len(l) /\ Len(l) \in Nat
  BY DEF Ledgers
<1>2. Session(l, d) \in DOMAIN l
  BY DEF Applied, Session
<1>3. l[Session(l, d)].request \in Requests
  <2> DEFINE i == Session(l, d)
  <2>1. i \in 1..Len(l)
    BY <1>1, <1>2
  <2> HIDE DEF i
  <2>2. l[i] \in Entries
    BY <1>1, <2>1, ElementOfSeq
  <2> QED BY <2>2 DEF i, Entries
<1>4. HashAfter(l, d) \in Ledgers
  <2>1. CASE later = {}
    BY <2>1 DEF HashAfter
  <2>2. CASE later # {}
    <3>1. later \in SUBSET Nat
      BY <1>1
    <3>2. k \in later
      BY <2>2, <3>1, LeastMember
    <3>3. k - 1 \in 0..Len(l)
      BY <1>1, <3>2
    <3>4. SubSeq(l, 1, k - 1) \in Ledgers
      BY <3>3, PrefixOfHistory
    <3> QED BY <2>2, <3>4 DEF HashAfter
  <2> QED BY <2>1, <2>2
<1> QED BY <1>3, <1>4 DEF ReportOf, Reports

\* An entry is added to a history that has room.
LEMMA AppendFacts ==
    ASSUME NEW l \in Ledgers, NEW entry \in Entries, Len(l) < Bound
    PROVE  /\ Append(l, entry) \in Ledgers
           /\ DOMAIN Append(l, entry) = 1..(Len(l) + 1)
           /\ Len(Append(l, entry)) = Len(l) + 1
           /\ \A i \in DOMAIN l : Append(l, entry)[i] = l[i]
           /\ Append(l, entry)[Len(l) + 1] = entry
<1>1. l \in Seq(Entries) /\ DOMAIN l = 1..Len(l) /\ Len(l) \in Nat
  BY DEF Ledgers
<1> QED BY <1>1, AppendProperties, Bounds DEF Ledgers

LEMMA HistoryFacts ==
    ASSUME NEW l \in Ledgers
    PROVE  /\ DOMAIN l = 1..Len(l) /\ Len(l) \in Nat
           /\ \A i \in DOMAIN l : l[i].day \in Nat /\ l[i].day <= LastDay
<1>1. l \in Seq(Entries) /\ DOMAIN l = 1..Len(l) /\ Len(l) \in Nat
  BY DEF Ledgers
<1>2. ASSUME NEW i \in DOMAIN l PROVE l[i].day \in Nat /\ l[i].day <= LastDay
  <2>1. l[i] \in Entries
    BY <1>1, ElementOfSeq
  <2> QED BY <2>1, Bounds DEF Entries
<1> QED BY <1>1, <1>2

LEMMA FitsMore ==
    ASSUME NEW l \in Ledgers, NEW n \in Nat, Fits(l, n)
    PROVE  Fits(l, n + 1) /\ Len(l) <= LastDay + n
<1>1. Len(l) \in Nat /\ \A i \in DOMAIN l : l[i].day <= LastDay
  BY HistoryFacts
<1>2. LastDay \in 0..LastDay
  BY Bounds
<1>3. \A m \in 0..LastDay : m + n <= m + (n + 1) /\ m + n \in Nat /\ m + (n + 1) \in Nat
  BY Bounds
<1> QED BY <1>1, <1>2, <1>3, Bounds DEF Fits

\* A later session, or a fill, keeps the history within its length.
LEMMA FitsAppended ==
    ASSUME NEW l \in Ledgers, NEW n \in Nat, Fits(l, n), NEW entry \in Entries, Len(l) < Bound
    PROVE  /\ entry.day \in Days /\ (\A i \in DOMAIN l : l[i].day < entry.day)
                 => Fits(Append(l, entry), n)
           /\ Fits(Append(l, entry), n + 1)
<1> DEFINE a == Append(l, entry)
<1>1. /\ DOMAIN l = 1..Len(l) /\ Len(l) \in Nat
      /\ \A i \in DOMAIN l : l[i].day \in Nat
  BY HistoryFacts
<1>2. /\ DOMAIN a = 1..(Len(l) + 1) /\ Len(a) = Len(l) + 1
      /\ \A i \in DOMAIN l : a[i] = l[i]
      /\ a[Len(l) + 1] = entry /\ entry.day \in Nat
  BY AppendFacts, Bounds DEF Entries
<1> HIDE DEF a
<1>3. ASSUME NEW m \in 0..LastDay, \A i \in DOMAIN a : a[i].day <= m
      PROVE  (\A i \in DOMAIN l : l[i].day <= m) /\ entry.day <= m
  BY <1>1, <1>2, <1>3
<1>4. ASSUME entry.day \in Days, \A i \in DOMAIN l : l[i].day < entry.day
      PROVE  Fits(a, n)
  <2> SUFFICES ASSUME NEW m \in 0..LastDay, \A i \in DOMAIN a : a[i].day <= m
               PROVE  Len(a) <= m + n
    BY DEF Fits
  <2>1. entry.day - 1 \in 0..LastDay /\ entry.day <= m
    BY <1>3, <1>4, Bounds
  <2>2. \A i \in DOMAIN l : l[i].day <= entry.day - 1
    BY <1>1, <1>2, <1>4
  <2>3. Len(l) <= entry.day - 1 + n
    BY <2>1, <2>2 DEF Fits
  <2> QED BY <1>1, <1>2, <2>1, <2>3, Bounds
<1>5. Fits(a, n + 1)
  <2> SUFFICES ASSUME NEW m \in 0..LastDay, \A i \in DOMAIN a : a[i].day <= m
               PROVE  Len(a) <= m + (n + 1)
    BY DEF Fits
  <2>1. Len(l) <= m + n
    BY <1>3 DEF Fits
  <2> QED BY <1>1, <1>2, <2>1
<1> QED BY <1>4, <1>5 DEF a

-----------------------------------------------------------------------------
(* Facts about steps. *)

LEMMA TypesAgree == ASSUME IInv PROVE TypeOK /\ ReturnedIsStored
BY DEF IInv, Kinds, Driver, Phase, Returned, ReturnedIsStored, Inserted, Passed, Day, TypeOK

\* A step of p leaves the cycles of the others alone.
Steady(p) ==
    \A q \in Drivers \ {p} :
        /\ pc'[q] = pc[q] /\ run'[q] = run[q] /\ tries'[q] = tries[q] /\ next'[q] = next[q]
        /\ report'[q] = report[q] /\ shadow'[q] = shadow[q] /\ at'[q] = at[q] /\ tx'[q] = tx[q]
        /\ outcome'[q] = outcome[q]
Others(p) == \A q \in Drivers \ {p} : Driver(q)'

LEMMA Bystanders ==
    ASSUME IInv, NEW p \in Drivers, Steady(p), db' = db
    PROVE  Others(p)
BY DEF IInv, Steady, Others, Driver, Phase, Transaction, Asked, Returned, InTransaction, Passed,
       RowFor, Inserted, Day

LEMMA Everyone ==
    ASSUME NEW p \in Drivers, Driver(p)', Others(p)
    PROVE  \A q \in Drivers : Driver(q)'
BY DEF Others

\* A step that gives no key to p keeps the keys single.
LEMMA KeysStay ==
    ASSUME IInv, NEW p \in Drivers, Steady(p),
           Inserted(p, 1)' => Inserted(p, 1) /\ run'[p] = run[p]
    PROVE  OneInserts'
BY DEF IInv, OneInserts, Steady, Inserted, Day

LEMMA HistoriesStay ==
    ASSUME IInv, NEW p \in Drivers, Steady(p), ledger' = ledger, fills' = fills,
           next'[p] = next[p] \/ next'[p] = <<>>
    PROVE  Lengths'
<1>1. fills \in Nat
  BY Bounds DEF IInv, Kinds
<1>2. Fits(<<>>, fills)
  BY <1>1, Bounds DEF Fits
<1> QED BY <1>2 DEF IInv, Lengths, Steady, Fits

-----------------------------------------------------------------------------
(* The end of an attempt. *)

\* What an attempt that ends or starts again leaves to p.
Left(p) ==
    /\ Steady(p)
    /\ pc' \in [Drivers -> Steps] /\ outcome' \in [Drivers -> Outcomes]
    /\ run' = run
    /\ tries' \in [Drivers -> Nat] /\ next' \in [Drivers -> Ledgers]
    /\ report' \in [Drivers -> Reports \cup {Nil}] /\ shadow' \in [Drivers -> Advices \cup {Nil}]
    /\ at' \in [Drivers -> DOMAIN Tables]
    /\ tx' \in [Drivers -> [TableNames -> Rows \cup {Nil}]]
    /\ pc'[p] \in {"idle", "initialize"}
    /\ pc'[p] = "idle" <=> outcome'[p] # "running"
    /\ tries'[p] \in 0..Retries(p)
    /\ next'[p] = <<>> /\ report'[p] = Nil /\ at'[p] = 1
    /\ \A i \in DOMAIN Tables : ~ Inserted(p, i)'

LEMMA ForgetLeaves ==
    ASSUME IInv, NEW p \in Drivers, Forget(p)
    PROVE  /\ run' = run /\ next' \in [Drivers -> Ledgers]
           /\ report' \in [Drivers -> Reports \cup {Nil}]
           /\ shadow' \in [Drivers -> Advices \cup {Nil}]
           /\ at' \in [Drivers -> DOMAIN Tables]
           /\ tx' \in [Drivers -> [TableNames -> Rows \cup {Nil}]]
           /\ next'[p] = <<>> /\ report'[p] = Nil /\ at'[p] = 1
           /\ \A i \in DOMAIN Tables : ~ Inserted(p, i)'
           /\ \A q \in Drivers \ {p} : /\ next'[q] = next[q] /\ report'[q] = report[q]
                                       /\ shadow'[q] = shadow[q] /\ at'[q] = at[q]
                                       /\ tx'[q] = tx[q]
<1>1. <<>> \in Ledgers /\ NoRows \in [TableNames -> Rows \cup {Nil}] /\ 1 \in DOMAIN Tables
  BY Bounds, EmptySeq, TableFacts DEF Ledgers, NoRows
<1>2. \A i \in DOMAIN Tables : NoRows[Tables[i]] = Nil
  BY TableFacts DEF NoRows
<1> QED BY <1>1, <1>2 DEF IInv, Kinds, Forget, Inserted

LEMMA EndLeaves ==
    ASSUME IInv, NEW p \in Drivers, NEW result \in Outcomes \ {"running"}, End(p, result)
    PROVE  Left(p) /\ outcome'[p] = result
<1>1. pc \in [Drivers -> Steps] /\ outcome \in [Drivers -> Outcomes] /\ tries \in [Drivers -> Nat]
  BY DEF IInv, Kinds
<1>2. "idle" \in Steps /\ 0 \in 0..Retries(p)
  BY Bounds DEF Steps
<1>3. /\ pc' \in [Drivers -> Steps] /\ pc'[p] = "idle"
      /\ outcome' \in [Drivers -> Outcomes] /\ outcome'[p] = result
      /\ tries' \in [Drivers -> Nat] /\ tries'[p] = 0
      /\ \A q \in Drivers \ {p} :
            pc'[q] = pc[q] /\ outcome'[q] = outcome[q] /\ tries'[q] = tries[q]
  BY <1>1, <1>2 DEF End, Goto
<1>4. Forget(p)
  BY DEF End
<1> QED BY <1>2, <1>3, <1>4, ForgetLeaves DEF Left, Steady

LEMMA RetryLeaves ==
    ASSUME IInv, NEW p \in Drivers, Retry(p), pc[p] # "idle"
    PROVE  Left(p) /\ outcome'[p] # "stored"
<1>1. CASE tries[p] = 0
  BY <1>1, EndLeaves DEF Retry, Outcomes
<1>2. CASE tries[p] # 0
  <2>1. /\ pc \in [Drivers -> Steps] /\ outcome \in [Drivers -> Outcomes]
        /\ tries \in [Drivers -> Nat] /\ tries[p] \in 0..Retries(p) /\ outcome[p] = "running"
    BY DEF IInv, Kinds, Driver, Phase
  <2>2. "initialize" \in Steps /\ tries[p] - 1 \in 0..Retries(p)
    BY <1>2, <2>1, Bounds DEF Steps
  <2>3. /\ pc' \in [Drivers -> Steps] /\ pc'[p] = "initialize"
        /\ outcome' = outcome
        /\ tries' \in [Drivers -> Nat] /\ tries'[p] = tries[p] - 1
        /\ \A q \in Drivers \ {p} : pc'[q] = pc[q] /\ tries'[q] = tries[q]
    BY <1>2, <2>1, <2>2, Bounds DEF Retry, Goto
  <2>4. Forget(p)
    BY <1>2 DEF Retry
  <2> QED BY <2>1, <2>2, <2>3, <2>4, ForgetLeaves DEF Left, Steady
<1> QED BY <1>1, <1>2

\* The parts that speak of p alone, after the end of an attempt.
LEMMA LeftIsQuiet ==
    ASSUME IInv, NEW p \in Drivers, Left(p)
    PROVE  /\ Phase(p)' /\ Transaction(p)' /\ Asked(p)' /\ OneInserts'
           /\ ledger' = ledger /\ fills' = fills => Lengths'
<1>1. Phase(p)'
  BY DEF Left, Phase
<1>2. Transaction(p)'
  <2>1. ~ InTransaction(p)'
    BY DEF Left, InTransaction
  <2> QED BY <2>1 DEF Left, Transaction
<1>3. Asked(p)'
  BY DEF Left, Asked
<1>4. OneInserts'
  BY KeysStay, TableFacts DEF Left
<1>5. ledger' = ledger /\ fills' = fills => Lengths'
  BY HistoriesStay DEF Left
<1> QED BY <1>1, <1>2, <1>3, <1>4, <1>5

\* An attempt that ends without a commit is safe.
LEMMA LeftIsSafe ==
    ASSUME IInv, NEW p \in Drivers, Left(p), outcome'[p] # "stored",
           UNCHANGED <<ledger, db, fills>>, faults' \in 0..MaxFaults
    PROVE  IInv'
<1>1. Kinds'
  BY DEF IInv, Kinds, Left
<1>2. Whole'
  BY DEF IInv, Whole
<1>3. Driver(p)'
  BY LeftIsQuiet DEF Driver, Returned
<1>4. Others(p)
  BY Bystanders DEF Left
<1> QED BY <1>1, <1>2, <1>3, <1>4, LeftIsQuiet, Everyone DEF IInv

-----------------------------------------------------------------------------
(* Commit. *)

LEMMA CommitFacts ==
    ASSUME IInv, NEW p \in Drivers, pc[p] = "commit", db' = Committed(p)
    PROVE  /\ db' \in [Days -> [TableNames -> Rows \cup {Nil}]]
           /\ db'[Day(p)] # NoRows
           /\ db'[Day(p)]["paper_sessions"].report.request = run[p].request
           /\ \/ db' = db
              \/ /\ Inserted(p, 1) /\ db[Day(p)] = NoRows /\ db'[Day(p)] \in Bundles
                 /\ db' = [db EXCEPT ![Day(p)] = db'[Day(p)]]
                 /\ db'[Day(p)]["paper_sessions"].report = report[p]
<1> DEFINE d == Day(p)
           rep == report[p]
           advice == shadow[p]
           rows == [t \in TableNames |-> IF tx[p][t] # Nil THEN tx[p][t] ELSE db[d][t]]
<1>1. /\ d \in Days /\ rep \in Reports /\ advice \in Advices \cup {Nil}
      /\ rep.request = run[p].request
      /\ db \in [Days -> [TableNames -> Rows \cup {Nil}]]
      /\ tx[p] \in [TableNames -> Rows \cup {Nil}]
  BY DEF IInv, Kinds, Driver, Phase, Asked, Day
<1>2. \A i \in DOMAIN Tables : Inserted(p, i) \/ db[d][Tables[i]] = RowFor(p, i)
  BY DEF IInv, Driver, Transaction, InTransaction, Passed
<1>3. \A i \in DOMAIN Tables : Inserted(p, i) =>
          tx[p][Tables[i]] = RowFor(p, i) /\ Inserted(p, 1) /\ db[d] = NoRows
  BY DEF IInv, Driver, Transaction
<1>4. db' = [db EXCEPT ![d] = rows]
  BY <1>1 DEF Committed, Day
<1>5. db'[d] = rows
  BY <1>1, <1>4
<1>6. CASE db[d] = NoRows
  <2>1. \A i \in DOMAIN Tables : Inserted(p, i)
    <3> SUFFICES ASSUME NEW i \in DOMAIN Tables PROVE Inserted(p, i)
      OBVIOUS
    <3>1. db[d][Tables[i]] = Nil
      BY <1>6, TableFacts DEF NoRows
    <3>2. RowFor(p, i) # Nil
      BY <1>1, RowFacts DEF RowFor
    <3> QED BY <1>2, <3>1, <3>2
  <2>2. \A t \in TableNames : tx[p][t] # Nil /\ tx[p][t] = RowOf(t, rep, advice)
    BY <1>3, <2>1, TableFacts DEF Inserted, RowFor
  <2>3. rows = Bundle(rep, advice)
    BY <2>2 DEF Bundle
  <2> HIDE DEF rows
  <2>4. rows \in Bundles /\ rows # NoRows /\ rows["paper_sessions"].report = rep
    BY <1>1, <2>3, BundleFacts
  <2>5. rows \in [TableNames -> Rows \cup {Nil}]
    BY <2>4 DEF Bundles
  <2> QED BY <1>1, <1>4, <1>5, <1>6, <2>1, <2>4, <2>5, TableFacts
<1>7. CASE db[d] # NoRows
  <2>1. \A t \in TableNames : tx[p][t] = Nil
    BY <1>3, <1>7, TableFacts DEF Inserted
  <2>2. rows = db[d]
    BY <1>1, <2>1
  <2>3. db' = db
    BY <1>1, <1>4, <2>2
  <2>4. db[d]["paper_sessions"].report = rep
    BY <1>1, <1>2, <2>1, RowFacts, TableFacts DEF Inserted, RowFor
  <2> QED BY <1>1, <1>7, <2>3, <2>4
<1> QED BY <1>6, <1>7

LEMMA CommitBystanders ==
    ASSUME IInv, NEW p \in Drivers, pc[p] = "commit", db' = Committed(p), Steady(p)
    PROVE  Others(p) /\ Whole'
<1>1. CASE db' = db
  BY <1>1, Bystanders DEF IInv, Whole
<1>2. CASE /\ Inserted(p, 1) /\ db[Day(p)] = NoRows /\ db'[Day(p)] \in Bundles
           /\ db' = [db EXCEPT ![Day(p)] = db'[Day(p)]]
  <2>1. \A d \in Days \ {Day(p)} : db'[d] = db[d]
    BY <1>2 DEF IInv, Kinds
  <2>2. Whole'
    BY <1>2, <2>1 DEF IInv, Whole
  <2>3. ASSUME NEW q \in Drivers, q # p PROVE Driver(q)'
    <3>1. /\ Driver(q) /\ Day(q) \in Days
          /\ pc'[q] = pc[q] /\ run'[q] = run[q] /\ tries'[q] = tries[q]
          /\ report'[q] = report[q] /\ shadow'[q] = shadow[q] /\ at'[q] = at[q]
          /\ tx'[q] = tx[q] /\ outcome'[q] = outcome[q]
      BY <2>3 DEF IInv, Steady, Kinds, Day
    <3>2. CASE Day(q) # Day(p)
      <4>1. db'[Day(q)] = db[Day(q)]
        BY <2>1, <3>1, <3>2
      <4> QED BY <3>1, <4>1 DEF Driver, Phase, Transaction, Asked, Returned, InTransaction, Passed,
                               RowFor, Inserted, Day
    <3>3. CASE Day(q) = Day(p)
      <4>1. ~ Inserted(q, 1)
        BY <1>2, <2>3, <3>3 DEF IInv, OneInserts
      <4>2. \A i \in DOMAIN Tables : ~ Inserted(q, i)
        BY <3>1, <4>1 DEF Driver, Transaction
      <4>3. \A i \in DOMAIN Tables : ~ (InTransaction(q) /\ Passed(q, i))
        <5> SUFFICES ASSUME NEW i \in DOMAIN Tables, InTransaction(q), Passed(q, i) PROVE FALSE
          OBVIOUS
        <5>1. db[Day(q)][Tables[i]] = RowFor(q, i)
          BY <3>1, <4>2 DEF Driver, Transaction
        <5>2. report[q] \in Reports /\ shadow[q] \in Advices \cup {Nil}
          BY <3>1 DEF IInv, Kinds, Driver, Phase, InTransaction
        <5>3. RowFor(q, i) # Nil
          BY <5>2, RowFacts DEF RowFor
        <5> QED BY <1>2, <3>3, <5>1, <5>3, TableFacts DEF NoRows
      <4>4. outcome[q] # "stored"
        BY <1>2, <3>1, <3>3 DEF Driver, Returned
      <4> QED BY <3>1, <4>2, <4>3, <4>4
              DEF Driver, Phase, Transaction, Asked, Returned, InTransaction, Passed, Inserted, Day
    <3> QED BY <3>2, <3>3
  <2> QED BY <2>2, <2>3 DEF Others
<1> QED BY <1>1, <1>2, CommitFacts

\* A commit is safe, acknowledged or not.
LEMMA CommittedIsSafe ==
    ASSUME IInv, NEW p \in Drivers, pc[p] = "commit", db' = Committed(p), Left(p),
           UNCHANGED <<ledger, fills>>, faults' \in 0..MaxFaults
    PROVE  IInv'
<1>1. Kinds'
  BY CommitFacts DEF IInv, Kinds, Left
<1>2. Driver(p)'
  <2>1. Returned(p)'
    BY CommitFacts DEF Left, Returned, Day
  <2> QED BY <2>1, LeftIsQuiet DEF Driver
<1>3. Others(p) /\ Whole'
  BY CommitBystanders DEF Left
<1> QED BY <1>1, <1>2, <1>3, LeftIsQuiet, Everyone DEF IInv

-----------------------------------------------------------------------------
(* The steps of a cycle. *)

LEMMA InitIsSafe == Init => IInv
<1> SUFFICES ASSUME Init PROVE IInv
  OBVIOUS
<1>1. /\ <<>> \in Ledgers /\ NoRows \in [TableNames -> Rows \cup {Nil}] /\ 1 \in DOMAIN Tables
      /\ "idle" \in Steps /\ "none" \in Outcomes
  BY Bounds, EmptySeq, TableFacts DEF Ledgers, NoRows, Steps, Outcomes
<1>2. run \in [Drivers -> [day : Days, request : Requests]]
  <2>1. (CHOOSE r \in Requests : TRUE) \in Requests /\ 1 \in Days
    BY CycleAssumption DEF Days
  <2> QED BY <2>1 DEF Init
<1>3. Kinds
  BY <1>1, <1>2, Bounds DEF Init, Kinds
<1>4. Lengths
  BY Bounds DEF Init, Lengths, Fits
<1>5. ASSUME NEW p \in Drivers
      PROVE  Driver(p) /\ ~ Inserted(p, 1)
  <2>1. \A i \in DOMAIN Tables : ~ Inserted(p, i)
    BY <1>5, TableFacts DEF Init, Inserted, NoRows
  <2> QED BY <1>5, <2>1, Bounds, TableFacts
          DEF Init, Driver, Phase, Transaction, Asked, Returned, InTransaction
<1>6. Whole /\ OneInserts
  BY <1>5 DEF Init, Whole, OneInserts
<1> QED BY <1>3, <1>4, <1>5, <1>6 DEF IInv

\* A step of p before its transaction.
LEMMA StartIsSafe ==
    ASSUME IInv, NEW p \in Drivers, Start(p)
    PROVE  IInv'
<1>1. PICK d \in Days, r \in Requests : run' = [run EXCEPT ![p] = [day |-> d, request |-> r]]
  BY DEF Start
<1>2. Kinds /\ Driver(p) /\ pc[p] = "idle" /\ Retries(p) \in Nat
      /\ "initialize" \in Steps /\ "running" \in Outcomes
  BY Bounds DEF IInv, Start, Steps, Outcomes
<1>3. Kinds'
  BY <1>1, <1>2 DEF Kinds, Start, Goto, transaction
<1>4. Steady(p)
  BY <1>1, <1>2 DEF Kinds, Start, Goto, Steady, transaction
<1>5. \A i \in DOMAIN Tables : ~ Inserted(p, i)'
  BY <1>2 DEF Driver, Phase, Transaction, InTransaction, Passed, Inserted, Start, transaction, Kinds
<1>6. /\ pc'[p] = "initialize" /\ outcome'[p] = "running" /\ tries'[p] = Retries(p)
      /\ report'[p] = Nil /\ at'[p] = 1
  BY <1>2 DEF Kinds, Start, Goto, Driver, Phase, Transaction, InTransaction, transaction
<1>7. Driver(p)'
  BY <1>2, <1>5, <1>6 DEF Driver, Phase, Transaction, Asked, Returned, InTransaction
<1>8. Lengths'
  BY <1>4, HistoriesStay DEF Start
<1>9. OneInserts'
  BY <1>4, <1>5, KeysStay, TableFacts
<1>10. Whole' /\ Others(p)
  BY <1>4, Bystanders DEF IInv, Whole, Start
<1> QED BY <1>3, <1>7, <1>8, <1>9, <1>10, Everyone DEF IInv

\* A step of p outside a transaction, to where no transaction has begun.
LEMMA StepIsSafe ==
    ASSUME IInv, NEW p \in Drivers, Steady(p),
           pc[p] # "idle", ~ InTransaction(p),
           pc'[p] \in {"pipeline", "save", "write", "advise", "extract", "check"},
           UNCHANGED <<db, transaction, outcome, run, tries>>,
           Kinds', Lengths', Asked(p)', (report'[p] # Nil <=> pc'[p] # "pipeline")
    PROVE  IInv'
<1>1. Driver(p) /\ at[p] = 1
  BY DEF IInv, Driver, Transaction
<1>2. \A i \in DOMAIN Tables : ~ Inserted(p, i)
  BY <1>1, TableFacts DEF Driver, Phase, Passed, InTransaction
<1>3. Phase(p)'
  BY <1>1, <1>2 DEF Driver, Phase, transaction, Inserted
<1>4. Transaction(p)'
  <2>1. \A i \in DOMAIN Tables : ~ Inserted(p, i)'
    BY <1>2 DEF Inserted, transaction
  <2>2. at'[p] = 1 /\ \A i \in DOMAIN Tables : ~ Passed(p, i)'
    BY <1>1, TableFacts DEF Passed, transaction, InTransaction
  <2> QED BY <2>1, <2>2 DEF Transaction
<1>5. Returned(p)'
  BY <1>1 DEF Driver, Returned, Day
<1>6. OneInserts' /\ Whole' /\ Others(p)
  BY KeysStay, Bystanders DEF IInv, Whole, transaction, Inserted
<1> QED BY <1>3, <1>4, <1>5, <1>6, Everyone DEF IInv, Driver

LEMMA InitializeIsSafe ==
    ASSUME IInv, NEW p \in Drivers, Initialize(p)
    PROVE  IInv'
<1>1. Kinds /\ Driver(p) /\ "pipeline" \in Steps
  BY DEF IInv, Steps
<1>2. Kinds' /\ Steady(p) /\ pc'[p] = "pipeline"
  BY <1>1 DEF Kinds, Steady, Initialize, Goto, cycle, transaction
<1>3. Lengths' /\ Asked(p)' /\ report'[p] = Nil
  BY <1>1, <1>2, HistoriesStay DEF Initialize, cycle, Driver, Asked, Phase, Day
<1> QED BY <1>2, <1>3, StepIsSafe DEF Initialize, cycle, transaction, InTransaction

LEMMA ReplayIsSafe ==
    ASSUME IInv, NEW p \in Drivers, Replay(p)
    PROVE  IInv'
<1> DEFINE d == run[p].day
           rep == ReportOf(ledger, d, "idempotent_replay")
<1>1. /\ Kinds /\ Driver(p) /\ d \in Days /\ ledger \in Ledgers /\ Applied(ledger, d)
      /\ "write" \in Steps /\ "idempotent_replay" \in Statuses
  BY DEF IInv, Kinds, Replay, Steps, Statuses
<1>2. CASE ledger[Session(ledger, d)].request = run[p].request
  <2>1. rep \in Reports /\ rep # Nil /\ rep.day = d /\ rep.request = run[p].request
    BY <1>1, <1>2, ReportFacts, Bounds
  <2>2. /\ report' = [report EXCEPT ![p] = rep] /\ Goto(p, "write")
        /\ UNCHANGED <<run, tries, next, shadow, transaction, outcome, ledger, db, fills, faults>>
    BY <1>2 DEF Replay
  <2> HIDE DEF rep
  <2>3. Kinds' /\ Steady(p) /\ pc'[p] = "write" /\ report'[p] = rep
    BY <1>1, <2>1, <2>2 DEF Kinds, Steady, Goto, transaction
  <2>4. Lengths' /\ Asked(p)'
    BY <2>1, <2>2, <2>3, HistoriesStay DEF Asked, Day
  <2> QED BY <2>1, <2>2, <2>3, <2>4, StepIsSafe DEF Replay, InTransaction
<1>3. CASE ledger[Session(ledger, d)].request # run[p].request
  <2>1. /\ End(p, "rejected") /\ "rejected" \in Outcomes \ {"running"}
        /\ UNCHANGED <<ledger, db, fills, faults>>
    BY <1>3 DEF Replay, Outcomes
  <2> QED BY <1>1, <2>1, EndLeaves, LeftIsSafe DEF Kinds
<1> QED BY <1>2, <1>3

\* A session later than all others is the one of its day, and fits.
LEMMA DecisionFits ==
    ASSUME IInv, NEW entry \in [day : Days, request : Requests],
           \A i \in DOMAIN ledger : ledger[i].day < entry.day
    PROVE  /\ Append(ledger, entry) \in Ledgers
           /\ Fits(Append(ledger, entry), fills)
           /\ Applied(Append(ledger, entry), entry.day)
           /\ Append(ledger, entry)[Session(Append(ledger, entry), entry.day)] = entry
<1>1. /\ ledger \in Ledgers /\ fills \in Nat /\ fills <= MaxFills
      /\ entry \in Entries /\ entry.day \in Days
      /\ Fits(ledger, fills)
  BY Bounds DEF IInv, Kinds, Lengths, Entries
<1>2. /\ DOMAIN ledger = 1..Len(ledger) /\ Len(ledger) \in Nat
      /\ \A i \in DOMAIN ledger : ledger[i].day \in Nat
  BY <1>1, HistoryFacts
<1>3. Len(ledger) < Bound
  <2>1. entry.day - 1 \in 0..LastDay /\ \A i \in DOMAIN ledger : ledger[i].day <= entry.day - 1
    BY <1>1, <1>2, Bounds
  <2>2. Len(ledger) <= entry.day - 1 + fills
    BY <1>1, <2>1 DEF Fits
  <2> QED BY <1>1, <1>2, <2>2, Bounds
<1> DEFINE after == Append(ledger, entry)
<1>4. /\ after \in Ledgers /\ Fits(after, fills)
      /\ DOMAIN after = 1..(Len(ledger) + 1)
      /\ \A i \in DOMAIN ledger : after[i] = ledger[i]
      /\ after[Len(ledger) + 1] = entry
  BY <1>1, <1>3, AppendFacts, FitsAppended
<1> HIDE DEF after
<1>5. Applied(after, entry.day)
  BY <1>2, <1>4 DEF Applied
<1>6. after[Session(after, entry.day)] = entry
  <2>1. /\ Session(after, entry.day) \in DOMAIN after
        /\ after[Session(after, entry.day)].day = entry.day
    BY <1>5 DEF Applied, Session
  <2>2. \A i \in DOMAIN after : after[i].day = entry.day => i = Len(ledger) + 1
    BY <1>1, <1>2, <1>4, Bounds
  <2> QED BY <1>4, <2>1, <2>2
<1> QED BY <1>4, <1>5, <1>6 DEF after

LEMMA DecideIsSafe ==
    ASSUME IInv, NEW p \in Drivers, Decide(p)
    PROVE  IInv'
<1> DEFINE d == run[p].day
           after == Append(ledger, run[p])
           rep == ReportOf(after, d, "completed")
<1>1. /\ Kinds /\ Driver(p) /\ d \in Days /\ run[p] \in [day : Days, request : Requests]
      /\ "save" \in Steps /\ "completed" \in Statuses
  BY DEF IInv, Kinds, Steps, Statuses
<1>2. CASE \A i \in DOMAIN ledger : ledger[i].day < d
  <2>1. /\ after \in Ledgers /\ Fits(after, fills) /\ Applied(after, d)
        /\ after[Session(after, d)] = run[p]
    BY <1>1, <1>2, DecisionFits
  <2>2. rep \in Reports /\ rep # Nil /\ rep.day = d /\ rep.request = run[p].request
    <3> HIDE DEF after
    <3>1. /\ rep \in Reports /\ rep.day = d /\ rep.request = after[Session(after, d)].request
      BY <1>1, <2>1, ReportFacts
    <3> HIDE DEF rep
    <3> QED BY <2>1, <3>1, Bounds
  <2>3. /\ next' = [next EXCEPT ![p] = after] /\ report' = [report EXCEPT ![p] = rep]
        /\ Goto(p, "save")
        /\ UNCHANGED <<run, tries, shadow, transaction, outcome, ledger, db, fills, faults>>
    BY <1>2 DEF Decide
  <2> HIDE DEF rep, after
  <2>4. /\ Kinds' /\ Steady(p) /\ pc'[p] = "save" /\ report'[p] = rep /\ next'[p] = after
    BY <1>1, <2>1, <2>2, <2>3 DEF Kinds, Steady, Goto, transaction
  <2>5. Lengths'
    BY <2>1, <2>3, <2>4 DEF IInv, Lengths, Steady, Fits
  <2>6. Asked(p)'
    BY <2>2, <2>3, <2>4 DEF Asked, Day
  <2> QED BY <2>2, <2>3, <2>4, <2>5, <2>6, StepIsSafe DEF Decide, InTransaction
<1>3. CASE ~ \A i \in DOMAIN ledger : ledger[i].day < d
  <2>1. /\ End(p, "rejected") /\ "rejected" \in Outcomes \ {"running"}
        /\ UNCHANGED <<ledger, db, fills, faults>>
    BY <1>3 DEF Decide, Outcomes
  <2> QED BY <1>1, <2>1, EndLeaves, LeftIsSafe DEF Kinds
<1> QED BY <1>2, <1>3

LEMMA SaveStateIsSafe ==
    ASSUME IInv, NEW p \in Drivers, SaveState(p)
    PROVE  IInv'
<1>1. Kinds /\ Driver(p) /\ "write" \in Steps
  BY DEF IInv, Steps
<1>2. Kinds' /\ Steady(p) /\ pc'[p] = "write" /\ ledger' = next[p]
  BY <1>1 DEF Kinds, Steady, SaveState, Goto, cycle, transaction
<1>3. Lengths'
  BY <1>2 DEF IInv, Lengths, Fits, SaveState, cycle
<1>4. Asked(p)' /\ report'[p] # Nil
  BY <1>1 DEF SaveState, cycle, Driver, Asked, Phase, Day
<1> QED BY <1>2, <1>3, <1>4, StepIsSafe DEF SaveState, cycle, transaction, InTransaction

LEMMA WriteReportIsSafe ==
    ASSUME IInv, NEW p \in Drivers, WriteReport(p)
    PROVE  IInv'
<1>1. Kinds /\ Driver(p) /\ "advise" \in Steps
  BY DEF IInv, Steps
<1>2. Kinds' /\ Steady(p) /\ pc'[p] = "advise"
  BY <1>1 DEF Kinds, Steady, WriteReport, Goto, cycle, transaction
<1>3. Lengths' /\ Asked(p)' /\ report'[p] # Nil
  BY <1>1, <1>2, HistoriesStay DEF WriteReport, cycle, Driver, Asked, Phase, Day
<1> QED BY <1>2, <1>3, StepIsSafe DEF WriteReport, cycle, transaction, InTransaction

LEMMA AdviseIsSafe ==
    ASSUME IInv, NEW p \in Drivers, Advise(p)
    PROVE  IInv'
<1>1. Kinds /\ Driver(p) /\ "extract" \in Steps
  BY DEF IInv, Steps
<1>2. Kinds' /\ Steady(p) /\ pc'[p] = "extract"
  BY <1>1 DEF Kinds, Steady, Advise, Goto, transaction
<1>3. Lengths' /\ Asked(p)' /\ report'[p] # Nil
  BY <1>1, <1>2, HistoriesStay DEF Advise, Driver, Asked, Phase, Day
<1> QED BY <1>2, <1>3, StepIsSafe DEF Advise, transaction, InTransaction

LEMMA ExtractIsSafe ==
    ASSUME IInv, NEW p \in Drivers, Extract(p)
    PROVE  IInv'
<1>1. Kinds /\ Driver(p) /\ "check" \in Steps /\ "failed" \in Outcomes \ {"running"}
  BY DEF IInv, Steps, Outcomes
<1>2. CASE End(p, "failed")
  BY <1>1, <1>2, EndLeaves, LeftIsSafe DEF Extract, Kinds
<1>3. CASE Goto(p, "check") /\ UNCHANGED <<cycle, transaction, outcome>>
  <2>1. Kinds' /\ Steady(p) /\ pc'[p] = "check"
    BY <1>1, <1>3 DEF Kinds, Steady, Extract, Goto, cycle, transaction
  <2>2. Lengths' /\ Asked(p)' /\ report'[p] # Nil
    BY <1>1, <1>3, <2>1, HistoriesStay DEF Extract, cycle, Driver, Asked, Phase, Day
  <2> QED BY <1>3, <2>1, <2>2, StepIsSafe DEF Extract, cycle, transaction, InTransaction
<1> QED BY <1>2, <1>3 DEF Extract

-----------------------------------------------------------------------------
(* The transaction. *)

LEMMA NextTableFacts ==
    ASSUME IInv, NEW p \in Drivers, pc[p] \in {"check", "insert"}, NextTable(p)
    PROVE  /\ pc' \in [Drivers -> Steps] /\ at' \in [Drivers -> DOMAIN Tables]
           /\ pc'[p] \in {"check", "commit"}
           /\ \A i \in DOMAIN Tables : Passed(p, i)' <=> Passed(p, i) \/ i = at[p]
           /\ \A q \in Drivers \ {p} : pc'[q] = pc[q] /\ at'[q] = at[q]
<1>1. /\ pc \in [Drivers -> Steps] /\ at \in [Drivers -> DOMAIN Tables]
      /\ "check" \in Steps /\ "commit" \in Steps /\ at[p] \in 1..5
  BY TableFacts DEF IInv, Kinds, Steps
<1>2. CASE at[p] = Len(Tables)
  <2>1. pc' = [pc EXCEPT ![p] = "commit"] /\ at' = at
    BY <1>2 DEF NextTable, Goto
  <2> QED BY <1>1, <1>2, <2>1, TableFacts DEF Passed
<1>3. CASE at[p] # Len(Tables)
  <2>1. pc' = [pc EXCEPT ![p] = "check"] /\ at' = [at EXCEPT ![p] = @ + 1]
    BY <1>3 DEF NextTable, Goto
  <2>2. at[p] + 1 \in DOMAIN Tables
    BY <1>1, <1>3, TableFacts
  <2> QED BY <1>1, <2>1, <2>2, TableFacts DEF Passed
<1> QED BY <1>2, <1>3

\* What a transaction is about: its table is one, and what it wants is a row.
LEMMA TransactionFacts ==
    ASSUME IInv, NEW p \in Drivers, InTransaction(p)
    PROVE  /\ Day(p) \in Days /\ Table(p) = Tables[at[p]] /\ at[p] \in DOMAIN Tables
           /\ Wanted(p) = RowFor(p, at[p]) /\ Wanted(p) \in Rows /\ Wanted(p) # Nil
           /\ Stored(p) = db[Day(p)][Tables[at[p]]]
           /\ Table(p) \in TableNames
<1>1. report[p] \in Reports /\ shadow[p] \in Advices \cup {Nil}
  BY DEF IInv, Kinds, Driver, Phase, InTransaction
<1>2. Day(p) \in Days /\ at[p] \in DOMAIN Tables
  BY DEF IInv, Kinds, Day
<1> QED BY <1>1, <1>2, RowFacts, TableFacts DEF Table, Wanted, RowFor, Stored, Day

LEMMA CheckIsSafe ==
    ASSUME IInv, NEW p \in Drivers, Check(p)
    PROVE  IInv'
<1>1. /\ Kinds /\ Driver(p) /\ InTransaction(p) /\ pc[p] \in {"check", "insert"}
      /\ "insert" \in Steps /\ "conflict" \in Outcomes \ {"running"}
  BY DEF IInv, Check, InTransaction, Steps, Outcomes
<1>2. CASE Stored(p) = Nil /\ Goto(p, "insert") /\ UNCHANGED <<cycle, transaction, outcome>>
  <2>1. Kinds' /\ Steady(p) /\ pc'[p] = "insert"
    BY <1>1, <1>2 DEF Kinds, Steady, Check, Goto, cycle, transaction
  <2>2. Driver(p)'
    BY <1>1, <1>2, <2>1 DEF Check, cycle, transaction, Driver, Phase, Transaction, Asked, Returned,
                        InTransaction, Passed, RowFor, Inserted, Day
  <2>3. Lengths' /\ OneInserts' /\ Whole' /\ Others(p)
    BY <1>2, <2>1, HistoriesStay, KeysStay, Bystanders
       DEF IInv, Whole, Check, cycle, transaction, Inserted
  <2> QED BY <2>1, <2>2, <2>3, Everyone DEF IInv
<1>3. CASE Stored(p) = Wanted(p) /\ NextTable(p) /\ UNCHANGED <<cycle, tx, outcome>>
  <2>1. Kinds' /\ Steady(p)
    BY <1>1, <1>3, NextTableFacts DEF Kinds, Steady, Check, cycle
  <2>2. Phase(p)'
    BY <1>1, <1>3, NextTableFacts DEF Check, cycle, Driver, Phase, Inserted
  <2>3. Transaction(p)'
    BY <1>1, <1>3, NextTableFacts, TransactionFacts
       DEF Check, cycle, Driver, Transaction, InTransaction, RowFor, Inserted, Day
  <2>4. Asked(p)' /\ Returned(p)'
    BY <1>1, <1>3 DEF Check, cycle, Driver, Asked, Returned, Day
  <2>5. Lengths' /\ OneInserts' /\ Whole' /\ Others(p)
    BY <1>3, <2>1, HistoriesStay, KeysStay, Bystanders
       DEF IInv, Whole, Check, cycle, Inserted
  <2> QED BY <2>1, <2>2, <2>3, <2>4, <2>5, Everyone DEF IInv, Driver
<1>4. CASE End(p, "conflict")
  BY <1>1, <1>4, EndLeaves, LeftIsSafe DEF Check, Kinds
<1> QED BY <1>2, <1>3, <1>4 DEF Check

\* The row p inserts: its first goes into an empty session that no other has a
\* key of, and so do the others.
LEMMA InsertFacts ==
    ASSUME IInv, NEW p \in Drivers, pc[p] = "insert", ~ Blocked(p), Stored(p) = Nil,
           tx' = [tx EXCEPT ![p][Table(p)] = Wanted(p)]
    PROVE  /\ tx' \in [Drivers -> [TableNames -> Rows \cup {Nil}]]
           /\ db[Day(p)] = NoRows
           /\ tx'[p][Tables[at[p]]] = RowFor(p, at[p]) /\ RowFor(p, at[p]) # Nil
           /\ \A i \in DOMAIN Tables \ {at[p]} : tx'[p][Tables[i]] = tx[p][Tables[i]]
           /\ \A q \in Drivers \ {p} : tx'[q] = tx[q]
           /\ at[p] = 1 \/ Inserted(p, 1)
           /\ \A q \in Drivers \ {p} : Day(q) = Day(p) => ~ Inserted(q, 1)
<1>1. Kinds /\ Driver(p) /\ InTransaction(p) /\ at[p] \in 1..5
  BY TableFacts DEF IInv, InTransaction, Kinds
<1>2. db[Day(p)] = NoRows
  BY <1>1, TransactionFacts, WholeRows DEF IInv
<1>3. /\ tx' \in [Drivers -> [TableNames -> Rows \cup {Nil}]]
      /\ tx'[p][Table(p)] = Wanted(p)
      /\ \A t \in TableNames \ {Table(p)} : tx'[p][t] = tx[p][t]
      /\ \A q \in Drivers \ {p} : tx'[q] = tx[q]
  BY <1>1, TransactionFacts DEF Kinds
<1>4. \A i \in DOMAIN Tables \ {at[p]} : Tables[i] \in TableNames \ {Table(p)}
  BY <1>1, TransactionFacts, TableFacts
<1>5. ASSUME at[p] # 1 PROVE Inserted(p, 1)
  <2>1. Passed(p, 1) /\ 1 \in DOMAIN Tables
    BY <1>1, <1>5, TableFacts DEF Passed
  <2>2. Inserted(p, 1) \/ db[Day(p)][Tables[1]] = RowFor(p, 1)
    BY <1>1, <2>1 DEF Driver, Transaction
  <2>3. RowFor(p, 1) # Nil
    <3>1. report[p] \in Reports /\ shadow[p] \in Advices \cup {Nil}
      BY <1>1 DEF Kinds, Driver, Phase
    <3> QED BY <3>1, RowFacts DEF RowFor
  <2> QED BY <1>2, <2>1, <2>2, <2>3, TableFacts DEF NoRows
<1>6. ASSUME NEW q \in Drivers, q # p, Day(q) = Day(p) PROVE ~ Inserted(q, 1)
  <2>1. CASE at[p] = 1
    BY <1>6, <2>1 DEF Blocked, Table, Inserted, Day
  <2>2. CASE at[p] # 1
    BY <1>5, <1>6, <2>2 DEF IInv, OneInserts
  <2> QED BY <2>1, <2>2
<1> QED BY <1>1, <1>2, <1>3, <1>4, <1>5, <1>6, TransactionFacts

LEMMA InsertIsSafe ==
    ASSUME IInv, NEW p \in Drivers, Insert(p)
    PROVE  IInv'
<1>1. /\ Kinds /\ Driver(p) /\ InTransaction(p) /\ pc[p] \in {"check", "insert"}
      /\ at[p] \in DOMAIN Tables /\ "failed" \in Outcomes \ {"running"}
  BY DEF IInv, Insert, InTransaction, Outcomes, Kinds
<1>2. CASE Stored(p) # Nil
  BY <1>1, <1>2, EndLeaves, LeftIsSafe DEF Insert, Kinds
<1>3. CASE Stored(p) = Nil
  <2>1. /\ pc[p] = "insert" /\ ~ Blocked(p) /\ NextTable(p)
        /\ tx' = [tx EXCEPT ![p][Table(p)] = Wanted(p)]
        /\ UNCHANGED <<cycle, outcome, ledger, db, fills, faults>>
    BY <1>3 DEF Insert
  <2>2. /\ tx' \in [Drivers -> [TableNames -> Rows \cup {Nil}]]
        /\ db[Day(p)] = NoRows
        /\ tx'[p][Tables[at[p]]] = RowFor(p, at[p]) /\ RowFor(p, at[p]) # Nil
        /\ \A i \in DOMAIN Tables \ {at[p]} : tx'[p][Tables[i]] = tx[p][Tables[i]]
        /\ \A q \in Drivers \ {p} : tx'[q] = tx[q]
        /\ at[p] = 1 \/ Inserted(p, 1)
        /\ \A q \in Drivers \ {p} : Day(q) = Day(p) => ~ Inserted(q, 1)
    BY <1>3, <2>1, InsertFacts
  <2>3. Kinds' /\ Steady(p)
    BY <1>1, <2>1, <2>2, NextTableFacts DEF Kinds, Steady, cycle
  <2>4. \A i \in DOMAIN Tables : Inserted(p, i)' <=> Inserted(p, i) \/ i = at[p]
    BY <1>1, <2>2 DEF Inserted, Driver, Phase
  <2>5. Phase(p)'
    BY <1>1, <2>1, <2>4, NextTableFacts DEF cycle, Driver, Phase
  <2>6. Transaction(p)'
    <3>1. InTransaction(p)'
      BY <1>1, <2>1, NextTableFacts DEF InTransaction
    <3>2. \A i \in DOMAIN Tables : RowFor(p, i)' = RowFor(p, i)
      BY <2>1 DEF RowFor, cycle
    <3>3. Inserted(p, 1)' /\ db'[Day(p)'] = NoRows
      BY <2>1, <2>2, <2>4, TableFacts DEF Day, cycle
    <3>4. ASSUME NEW i \in DOMAIN Tables, Inserted(p, i)'
          PROVE  tx'[p][Tables[i]] = RowFor(p, i)
      BY <1>1, <2>2, <2>4, <3>4 DEF Driver, Transaction
    <3>5. ASSUME NEW i \in DOMAIN Tables, Passed(p, i)'
          PROVE  Inserted(p, i)'
      <4>1. CASE i = at[p]
        BY <2>4, <4>1
      <4>2. CASE i # at[p]
        <5>1. Passed(p, i)
          BY <1>1, <2>1, <3>5, <4>2, NextTableFacts
        <5>2. Inserted(p, i) \/ db[Day(p)][Tables[i]] = RowFor(p, i)
          BY <1>1, <5>1 DEF Driver, Transaction
        <5>3. RowFor(p, i) # Nil
          <6>1. report[p] \in Reports /\ shadow[p] \in Advices \cup {Nil}
            BY <1>1, <2>1 DEF Kinds, Driver, Phase
          <6> QED BY <6>1, RowFacts DEF RowFor
        <5> QED BY <2>2, <2>4, <5>2, <5>3, TableFacts DEF NoRows
      <4> QED BY <4>1, <4>2
    <3> QED BY <3>1, <3>2, <3>3, <3>4, <3>5 DEF Transaction
  <2>7. Asked(p)' /\ Returned(p)'
    BY <1>1, <2>1 DEF cycle, Driver, Asked, Returned, Day
  <2>8. OneInserts'
    BY <2>1, <2>2, <2>3 DEF IInv, OneInserts, Steady, Inserted, Day, cycle
  <2>9. Lengths' /\ Whole' /\ Others(p)
    BY <2>1, <2>3, HistoriesStay, Bystanders DEF IInv, Whole, cycle
  <2> QED BY <2>3, <2>5, <2>6, <2>7, <2>8, <2>9, Everyone DEF IInv, Driver
<1> QED BY <1>2, <1>3

LEMMA CommitIsSafe ==
    ASSUME IInv, NEW p \in Drivers, Commit(p)
    PROVE  IInv'
BY EndLeaves, CommittedIsSafe DEF Commit, Outcomes, IInv, Kinds

-----------------------------------------------------------------------------
(* Faults, and fills between cycles. *)

LEMMA FaultCounts ==
    ASSUME IInv, Fault
    PROVE  faults' \in 0..MaxFaults
BY Bounds DEF IInv, Kinds, Fault

LEMMA BreakIsSafe ==
    ASSUME IInv, NEW p \in Drivers, Break(p)
    PROVE  IInv'
<1>1. CASE Disconnect(p)
  BY <1>1, FaultCounts, RetryLeaves, LeftIsSafe DEF Disconnect
<1>2. CASE CommitUnacknowledged(p)
  BY <1>2, FaultCounts, RetryLeaves, CommittedIsSafe DEF CommitUnacknowledged
<1>3. CASE Crash(p)
  BY <1>3, FaultCounts, EndLeaves, LeftIsSafe DEF Crash, Outcomes
<1> QED BY <1>1, <1>2, <1>3 DEF Break

LEMMA ManualFillIsSafe ==
    ASSUME IInv, ManualFill
    PROVE  IInv'
<1>1. PICK r \in Requests : ledger' = Append(ledger, [day |-> 0, request |-> r])
  BY DEF ManualFill
<1> DEFINE entry == [day |-> 0, request |-> r]
<1>2. /\ Kinds /\ entry \in Entries /\ fills \in Nat /\ fills' = fills + 1
      /\ fills + 1 \in 0..MaxFills
  BY Bounds DEF IInv, Kinds, Entries, ManualFill
<1> HIDE DEF entry
<1>3. ledger' \in Ledgers /\ Fits(ledger', fills + 1)
  BY <1>1, <1>2, AppendFacts, FitsAppended DEF IInv, Lengths, Kinds, ManualFill, entry
<1>4. Kinds'
  BY <1>2, <1>3 DEF Kinds, ManualFill, cycle, transaction
<1>5. Lengths'
  <2>1. \A p \in Drivers : Fits(next[p], fills + 1)
    BY <1>2, FitsMore DEF IInv, Lengths, Kinds
  <2> QED BY <1>2, <1>3, <2>1 DEF Lengths, Fits, ManualFill, cycle
<1>6. ASSUME NEW p \in Drivers PROVE Driver(p)'
  BY DEF IInv, ManualFill, cycle, transaction, Driver, Phase, Transaction, Asked, Returned,
         InTransaction, Passed, RowFor, Inserted, Day
<1>7. Whole' /\ OneInserts'
  BY DEF IInv, ManualFill, cycle, transaction, Whole, OneInserts, Inserted, Day
<1> QED BY <1>4, <1>5, <1>6, <1>7 DEF IInv

LEMMA UnchangedIsSafe ==
    ASSUME IInv, UNCHANGED vars
    PROVE  IInv'
<1>1. Kinds' /\ Lengths'
  BY DEF IInv, vars, cycle, transaction, Kinds, Lengths, Fits
<1>2. ASSUME NEW p \in Drivers PROVE Driver(p)'
  BY DEF IInv, vars, cycle, transaction, Driver, Phase, Transaction, Asked, Returned,
         InTransaction, Passed, RowFor, Inserted, Day
<1>3. Whole' /\ OneInserts'
  BY DEF IInv, vars, cycle, transaction, Whole, OneInserts, Inserted, Day
<1> QED BY <1>1, <1>2, <1>3 DEF IInv

LEMMA NextIsSafe == IInv /\ [Next]_vars => IInv'
BY StartIsSafe, InitializeIsSafe, ReplayIsSafe, DecideIsSafe, SaveStateIsSafe, WriteReportIsSafe,
   AdviseIsSafe, ExtractIsSafe, CheckIsSafe, InsertIsSafe, CommitIsSafe, BreakIsSafe,
   ManualFillIsSafe, UnchangedIsSafe DEF Next, Work

-----------------------------------------------------------------------------
(* The theorems. *)

\* The inductive invariant holds in every state.
THEOREM Invariance == Spec => []IInv
BY InitIsSafe, NextIsSafe, PTL DEF Spec

\* Every variable has its type in every state.
THEOREM TypeCorrect == Spec => []TypeOK
BY Invariance, TypesAgree, PTL

\* A cycle that returns has the rows of its session in the store, with the
\* request it ran, also when its commit was lost, retried or overtaken.
THEOREM WhatReturnsIsStored == Spec => []ReturnedIsStored
BY Invariance, TypesAgree, PTL

\* The database is an archive: every step of a cycle, commits and lost
\* connections included, stores the whole bundle of an empty session or nothing.
THEOREM StoreIsAnArchive == Spec => ArchiveSpec
<1>1. Init => Archive!Init
  BY DEF Init, Archive!Init
<1>2. IInv /\ [Next]_vars => [Archive!Next]_db
  <2> SUFFICES ASSUME IInv, [Next]_vars, db' # db PROVE Archive!Next
    OBVIOUS
  <2>1. PICK p \in Drivers : pc[p] = "commit" /\ db' = Committed(p)
    BY DEF Next, Work, Break, vars, ManualFill, Start, Initialize, Replay, Decide, SaveState,
           WriteReport, Advise, Extract, Check, Insert, Commit, Disconnect, CommitUnacknowledged,
           Crash
  <2>2. /\ db[Day(p)] = NoRows /\ db'[Day(p)] \in Bundles
        /\ db' = [db EXCEPT ![Day(p)] = db'[Day(p)]]
    BY <2>1, CommitFacts
  <2>3. Day(p) \in Days
    BY DEF IInv, Kinds, Day
  <2> QED BY <2>2, <2>3 DEF Archive!Next, Archive!Store
<1> QED BY <1>1, <1>2, Invariance, PTL DEF Spec, ArchiveSpec, Archive!Spec

-----------------------------------------------------------------------------
(* One cycle at a time: the store and the state file. *)

\* A history has one session of a day.
Unique(l) ==
    \A i, j \in DOMAIN l : l[i].day # 0 /\ l[i].day = l[j].day => i = j

\* A report is about a session of the history, and names a state of it.
Backed(rep, l) ==
    /\ Applied(l, rep.day)
    /\ l[Session(l, rep.day)].request = rep.request
    /\ IsPrefix(rep.after, l)

Alone == \A p, q \in Drivers : pc[p] # "idle" /\ pc[q] # "idle" => p = q

\* What a cycle is about to save is the file and its session; after the save,
\* and in a replay, its report is about the file.
Deciding(p) ==
    pc[p] = "save" =>
        /\ \E entry \in Entries : next[p] = Append(ledger, entry)
        /\ Unique(next[p])
        /\ Backed(report[p], next[p])
Reported(p) == pc[p] # "save" /\ report[p] # Nil => Backed(report[p], ledger)

Stands(d) ==
    db[d] # NoRows =>
        /\ db[d]["paper_sessions"].report \in Reports
        /\ db[d]["paper_sessions"].report.day = d
        /\ Backed(db[d]["paper_sessions"].report, ledger)

SerialInv ==
    /\ Alone
    /\ Unique(ledger)
    /\ \A p \in Drivers : Deciding(p) /\ Reported(p)
    /\ \A d \in Days : Stands(d)

\* The first entries of a history are a prefix of it, and stay one.
LEMMA FirstEntries ==
    ASSUME NEW l \in Ledgers, NEW k \in 0..Len(l)
    PROVE  IsPrefix(SubSeq(l, 1, k), l)
<1>1. l \in Seq(Entries) /\ Len(l) \in Nat
  BY DEF Ledgers
<1>2. \A i \in 1..k : l[i] \in Entries
  BY <1>1, ElementOfSeq
<1>3. SubSeq(l, 1, k) \in Seq(Entries) /\ Len(SubSeq(l, 1, k)) = k
  BY <1>1, <1>2, SubSeqProperties
<1> DEFINE t == SubSeq(l, 1, k)
<1>4. \A i \in 1..k : t[i] = l[i]
  BY <1>1, <1>2, SubSeqProperties
<1> HIDE DEF t
<1>5. t \in Seq(Entries) /\ Len(t) = k
  BY <1>3 DEF t
<1>6. SubSeq(t, 1, k) = t
  BY <1>5
<1> QED BY <1>1, <1>5, <1>6 DEF IsPrefix, t

LEMMA PrefixExtends ==
    ASSUME NEW a \in Ledgers, NEW l \in Ledgers, NEW entry \in Entries, IsPrefix(a, l)
    PROVE  IsPrefix(a, Append(l, entry))
<1>1. /\ a \in Seq(Entries) /\ l \in Seq(Entries) /\ Len(a) \in Nat /\ Len(l) \in Nat
      /\ Len(a) <= Len(l) /\ SubSeq(a, 1, Len(a)) = SubSeq(l, 1, Len(a))
  BY DEF Ledgers, IsPrefix
<1>2. Append(l, entry) \in Seq(Entries) /\ Len(Append(l, entry)) = Len(l) + 1
  BY <1>1, AppendProperties
<1>3. \A i \in 1..Len(a) : Append(l, entry)[i] = l[i]
  BY <1>1, AppendProperties
<1>4. SubSeq(Append(l, entry), 1, Len(a)) = SubSeq(l, 1, Len(a))
  BY <1>1, <1>2, <1>3
<1> QED BY <1>1, <1>2, <1>4 DEF IsPrefix

\* A report stays backed when the history grows by another day or a fill.
LEMMA BackedExtends ==
    ASSUME NEW l \in Ledgers, NEW entry \in Entries, Len(l) < Bound,
           Unique(Append(l, entry)), NEW rep \in Reports, Backed(rep, l)
    PROVE  Backed(rep, Append(l, entry))
<1> DEFINE more == Append(l, entry)
           i == Session(l, rep.day)
           j == Session(more, rep.day)
<1>1. /\ DOMAIN more = 1..(Len(l) + 1) /\ DOMAIN l = 1..Len(l) /\ Len(l) \in Nat
      /\ \A n \in DOMAIN l : more[n] = l[n]
  BY AppendFacts, HistoryFacts
<1>2. rep.day \in Nat /\ rep.day # 0 /\ rep.after \in Ledgers
  BY Bounds DEF Reports
<1>3. i \in DOMAIN l /\ l[i].day = rep.day
  BY DEF Backed, Applied, Session
<1>4. IsPrefix(rep.after, more)
  BY <1>2, PrefixExtends DEF Backed
<1> HIDE DEF more, i
<1>5. i \in DOMAIN more /\ more[i] = l[i]
  BY <1>1, <1>3
<1>6. Applied(more, rep.day)
  BY <1>3, <1>5 DEF Applied
<1>7. j \in DOMAIN more /\ more[j].day = rep.day
  BY <1>6 DEF Applied, Session
<1>8. j = i
  <2> HIDE DEF j
  <2>1. Unique(more)
    BY DEF more
  <2> QED BY <1>2, <1>3, <1>5, <1>7, <2>1 DEF Unique
<1>9. more[j].request = rep.request
  BY <1>5, <1>8 DEF Backed, i
<1> QED BY <1>4, <1>6, <1>9 DEF Backed, more

LEMMA UniqueExtends ==
    ASSUME NEW l \in Ledgers, NEW entry \in Entries, Len(l) < Bound, Unique(l),
           entry.day = 0 \/ \A i \in DOMAIN l : l[i].day # entry.day
    PROVE  Unique(Append(l, entry))
<1> DEFINE more == Append(l, entry)
<1>1. /\ DOMAIN more = 1..(Len(l) + 1) /\ DOMAIN l = 1..Len(l) /\ Len(l) \in Nat
      /\ \A n \in DOMAIN l : more[n] = l[n]
      /\ more[Len(l) + 1] = entry
  BY AppendFacts, HistoryFacts
<1> HIDE DEF more
<1>2. \A n \in DOMAIN more : n \in DOMAIN l \/ n = Len(l) + 1
  BY <1>1
<1>3. Unique(more)
  BY <1>1, <1>2 DEF Unique
<1> QED BY <1>3 DEF more

\* The report a history gives of a session is backed by it.
LEMMA ReportBacked ==
    ASSUME NEW l \in Ledgers, NEW d \in Days, Applied(l, d), NEW status \in Statuses
    PROVE  Backed(ReportOf(l, d, status), l)
<1> DEFINE later == {i \in DOMAIN l : i > Session(l, d) /\ l[i].day # 0}
           k == CHOOSE i \in later : \A j \in later : i <= j
<1>1. DOMAIN l = 1..Len(l) /\ Len(l) \in Nat /\ Session(l, d) \in DOMAIN l
  BY HistoryFacts DEF Applied, Session
<1>2. IsPrefix(HashAfter(l, d), l)
  <2>1. CASE later = {}
    BY <2>1 DEF HashAfter, IsPrefix
  <2>2. CASE later # {}
    <3>1. later \in SUBSET Nat
      BY <1>1
    <3>2. k \in later
      BY <2>2, <3>1, LeastMember
    <3>3. k - 1 \in 0..Len(l)
      BY <1>1, <3>2
    <3> QED BY <2>2, <3>3, FirstEntries DEF HashAfter
  <2> QED BY <2>1, <2>2
<1>3. /\ ReportOf(l, d, status).day = d
      /\ ReportOf(l, d, status).request = l[Session(l, d)].request
      /\ ReportOf(l, d, status).after = HashAfter(l, d)
  BY DEF ReportOf
<1> QED BY <1>2, <1>3 DEF Backed

\* A step of p while no other cycle is under way.
Frame(p) ==
    \A q \in Drivers \ {p} :
        pc[q] = "idle" /\ pc'[q] = pc[q] /\ report'[q] = report[q]

\* The others have nothing to say.
LEMMA OthersAreIdle ==
    ASSUME IInv, NEW p \in Drivers, Frame(p)
    PROVE  /\ Alone'
           /\ \A q \in Drivers \ {p} : Deciding(q)' /\ Reported(q)'
<1>1. \A q \in Drivers \ {p} : pc'[q] = "idle" /\ report'[q] = Nil
  BY DEF Frame, IInv, Driver, Phase
<1> QED BY <1>1 DEF Alone, Deciding, Reported

\* Only the cycle under way takes a step, or nobody has one.
LEMMA OnlyOne ==
    ASSUME Alone, NEW p \in Drivers, pc[p] # "idle" \/ \A q \in Drivers : pc[q] = "idle"
    PROVE  \A q \in Drivers \ {p} : pc[q] = "idle"
BY DEF Alone

\* A step that leaves the file and the store.
LEMMA StandsStill ==
    ASSUME IInv, SerialInv, NEW p \in Drivers, Frame(p), ledger' = ledger, db' = db,
           Deciding(p)', Reported(p)'
    PROVE  SerialInv'
<1>1. Alone' /\ \A q \in Drivers : Deciding(q)' /\ Reported(q)'
  BY OthersAreIdle
<1>2. Unique(ledger)' /\ \A d \in Days : Stands(d)'
  BY DEF SerialInv, Unique, Stands, Backed, Applied, Session
<1> QED BY <1>1, <1>2 DEF SerialInv

\* A step that also leaves the report, outside the save.
LEMMA ReportStays ==
    ASSUME IInv, SerialInv, NEW p \in Drivers, Frame(p), ledger' = ledger, db' = db,
           pc'[p] # "save", report'[p] = Nil \/ (report'[p] = report[p] /\ pc[p] # "save")
    PROVE  SerialInv'
<1>1. Deciding(p)'
  BY DEF Deciding
<1>2. Reported(p)'
  BY DEF SerialInv, Reported, Backed, Applied, Session
<1> QED BY <1>1, <1>2, StandsStill

LEMMA LeftFrames ==
    ASSUME IInv, SerialInv, NEW p \in Drivers, Left(p), pc[p] # "idle"
    PROVE  Frame(p) /\ pc'[p] # "save" /\ report'[p] = Nil
BY OnlyOne DEF SerialInv, Left, Steady, Frame

\* An attempt that ends without a commit.
LEMMA LeftStands ==
    ASSUME IInv, SerialInv, NEW p \in Drivers, Left(p), pc[p] # "idle", ledger' = ledger, db' = db
    PROVE  SerialInv'
<1>1. Frame(p) /\ pc'[p] # "save" /\ report'[p] = Nil
  BY LeftFrames
<1> QED BY <1>1, ReportStays

LEMMA GotoFrames ==
    ASSUME IInv, SerialInv, NEW p \in Drivers, NEW step, Goto(p, step), pc[p] # "idle",
           \A q \in Drivers \ {p} : report'[q] = report[q]
    PROVE  Frame(p) /\ pc'[p] = step
<1>1. pc' = [pc EXCEPT ![p] = step] /\ pc \in [Drivers -> Steps]
  BY DEF IInv, Kinds, Goto
<1> QED BY <1>1, OnlyOne DEF SerialInv, Frame

LEMMA StartStands ==
    ASSUME Serial, IInv, SerialInv, NEW p \in Drivers, Start(p)
    PROVE  SerialInv'
<1>1. pc' = [pc EXCEPT ![p] = "initialize"] /\ pc \in [Drivers -> Steps]
      /\ UNCHANGED <<ledger, db, report>> /\ \A q \in Drivers : pc[q] = "idle"
  BY DEF IInv, Kinds, Start, Goto
<1>2. Frame(p) /\ pc'[p] # "save"
  BY <1>1 DEF Frame
<1> QED BY <1>1, <1>2, ReportStays

\* The steps that move a cycle on and leave its report.
LEMMA MoveStands ==
    ASSUME IInv, SerialInv, NEW p \in Drivers,
           Initialize(p) \/ WriteReport(p) \/ Advise(p) \/ Extract(p) \/ Check(p) \/ Insert(p)
    PROVE  SerialInv'
<1>1. /\ UNCHANGED <<ledger, db>> /\ pc[p] \notin {"idle", "save"}
      /\ \/ /\ report' = report
            /\ \E step \in Steps \ {"save"} : Goto(p, step)
         \/ \E result \in Outcomes \ {"running"} : End(p, result)
  BY DEF Initialize, WriteReport, Advise, Extract, Check, Insert, NextTable, cycle, Steps, Outcomes
<1>2. CASE \E result \in Outcomes \ {"running"} : End(p, result)
  BY <1>1, <1>2, EndLeaves, LeftStands
<1>3. CASE report' = report /\ \E step \in Steps \ {"save"} : Goto(p, step)
  <2>1. Frame(p) /\ pc'[p] # "save"
    BY <1>1, <1>3, GotoFrames
  <2> QED BY <1>1, <1>3, <2>1, ReportStays
<1> QED BY <1>1, <1>2, <1>3

LEMMA ReplayStands ==
    ASSUME IInv, SerialInv, NEW p \in Drivers, Replay(p)
    PROVE  SerialInv'
<1> DEFINE rep == ReportOf(ledger, run[p].day, "idempotent_replay")
<1>1. /\ Applied(ledger, run[p].day) /\ pc[p] = "pipeline" /\ UNCHANGED <<ledger, db>>
      /\ ledger \in Ledgers /\ run[p].day \in Days /\ "idempotent_replay" \in Statuses
  BY DEF IInv, Kinds, Replay, Statuses
<1>2. CASE End(p, "rejected")
  BY <1>1, <1>2, EndLeaves, LeftStands DEF Outcomes
<1>3. CASE report' = [report EXCEPT ![p] = rep] /\ Goto(p, "write")
  <2>1. Backed(rep, ledger)
    BY <1>1, ReportBacked
  <2> HIDE DEF rep
  <2>2. report \in [Drivers -> Reports \cup {Nil}]
    BY DEF IInv, Kinds
  <2>3. /\ report'[p] = rep
        /\ \A q \in Drivers \ {p} : report'[q] = report[q]
    BY <1>3, <2>2
  <2>4. Frame(p) /\ pc'[p] = "write"
    BY <1>1, <1>3, <2>3, GotoFrames
  <2>5. Deciding(p)' /\ Reported(p)'
    BY <1>1, <2>1, <2>3, <2>4 DEF Deciding, Reported, Backed, Applied, Session
  <2> QED BY <1>1, <2>4, <2>5, StandsStill
<1> QED BY <1>2, <1>3 DEF Replay

LEMMA DecideStands ==
    ASSUME IInv, SerialInv, NEW p \in Drivers, Decide(p)
    PROVE  SerialInv'
<1> DEFINE after == Append(ledger, run[p])
           rep == ReportOf(after, run[p].day, "completed")
<1>1. /\ pc[p] = "pipeline" /\ UNCHANGED <<ledger, db>>
      /\ ledger \in Ledgers /\ run[p] \in [day : Days, request : Requests]
      /\ run[p].day \in Days /\ run[p] \in Entries
      /\ "completed" \in Statuses
  BY Bounds DEF IInv, Kinds, Decide, Statuses, Entries
<1>2. CASE End(p, "rejected")
  BY <1>1, <1>2, EndLeaves, LeftStands DEF Outcomes
<1>3. CASE /\ \A i \in DOMAIN ledger : ledger[i].day < run[p].day
           /\ next' = [next EXCEPT ![p] = after] /\ report' = [report EXCEPT ![p] = rep]
           /\ Goto(p, "save")
  <2>1. after \in Ledgers /\ Applied(after, run[p].day)
    BY <1>1, <1>3, DecisionFits
  <2>2. Len(ledger) < Bound
    <3>1. Len(after) <= Bound /\ ledger \in Seq(Entries)
      BY <1>1, <2>1 DEF Ledgers
    <3>2. Len(after) = Len(ledger) + 1 /\ Len(ledger) \in Nat
      BY <1>1, <3>1, AppendProperties
    <3> QED BY <3>1, <3>2, Bounds
  <2>3. Unique(after)
    <3>1. \A i \in DOMAIN ledger : ledger[i].day # run[p].day
      BY <1>1, <1>3, HistoryFacts, Bounds
    <3> QED BY <1>1, <2>2, <3>1, UniqueExtends DEF SerialInv
  <2>4. Backed(rep, after)
    <3> HIDE DEF after
    <3> QED BY <1>1, <2>1, ReportBacked
  <2> HIDE DEF rep
  <2>5. report \in [Drivers -> Reports \cup {Nil}] /\ next \in [Drivers -> Ledgers]
    BY DEF IInv, Kinds
  <2>6. /\ report'[p] = rep /\ next'[p] = after
        /\ \A q \in Drivers \ {p} : report'[q] = report[q]
    BY <1>3, <2>5
  <2>7. Frame(p) /\ pc'[p] = "save"
    BY <1>1, <1>3, <2>6, GotoFrames
  <2>8. Reported(p)'
    BY <2>7 DEF Reported
  <2>9. Deciding(p)'
    <3>1. \E entry \in Entries : next'[p] = Append(ledger', entry)
      BY <1>1, <2>6
    <3> HIDE DEF after
    <3>2. Unique(next'[p]) /\ Backed(report'[p], next'[p])
      BY <2>3, <2>4, <2>6
    <3> QED BY <3>1, <3>2 DEF Deciding, Unique, Backed, Applied, Session
  <2> QED BY <1>1, <2>7, <2>8, <2>9, StandsStill
<1> QED BY <1>2, <1>3 DEF Decide

\* What the store has stays backed when the file grows.
LEMMA StoreExtends ==
    ASSUME IInv, SerialInv, NEW entry \in Entries, Len(ledger) < Bound,
           ledger' = Append(ledger, entry), Unique(Append(ledger, entry)), db' = db
    PROVE  \A d \in Days : Stands(d)'
<1> SUFFICES ASSUME NEW d \in Days, db[d] # NoRows
             PROVE  /\ db[d]["paper_sessions"].report \in Reports
                    /\ db[d]["paper_sessions"].report.day = d
                    /\ Backed(db[d]["paper_sessions"].report, ledger')
  BY DEF Stands, Backed, Applied, Session
<1>1. Stands(d) /\ ledger \in Ledgers
  BY DEF SerialInv, IInv, Kinds
<1> QED BY <1>1, BackedExtends DEF Stands

LEMMA SaveStands ==
    ASSUME IInv, SerialInv, NEW p \in Drivers, SaveState(p)
    PROVE  SerialInv'
<1>1. /\ pc[p] = "save" /\ ledger' = next[p] /\ db' = db /\ report' = report
      /\ Goto(p, "write") /\ ledger \in Ledgers /\ next[p] \in Ledgers
  BY DEF IInv, Kinds, SaveState, cycle
<1>2. PICK entry \in Entries : next[p] = Append(ledger, entry)
  BY <1>1 DEF SerialInv, Deciding
<1>3. Unique(next[p]) /\ Backed(report[p], next[p])
  BY <1>1 DEF SerialInv, Deciding
<1>4. Len(ledger) < Bound
  <2>1. Len(next[p]) <= Bound /\ ledger \in Seq(Entries)
    BY <1>1 DEF Ledgers
  <2>2. Len(next[p]) = Len(ledger) + 1 /\ Len(ledger) \in Nat
    BY <1>2, <2>1, AppendProperties
  <2> QED BY <2>1, <2>2, Bounds
<1>5. \A d \in Days : Stands(d)'
  BY <1>1, <1>2, <1>3, <1>4, StoreExtends
<1>6. Frame(p) /\ pc'[p] = "write"
  BY <1>1, GotoFrames
<1>7. Alone' /\ \A q \in Drivers \ {p} : Deciding(q)' /\ Reported(q)'
  BY <1>6, OthersAreIdle
<1>8. Deciding(p)' /\ Reported(p)'
  BY <1>1, <1>3, <1>6 DEF Deciding, Reported, Backed, Applied, Session
<1>9. Unique(ledger)'
  BY <1>1, <1>3 DEF Unique
<1> QED BY <1>5, <1>7, <1>8, <1>9 DEF SerialInv

\* What is committed is backed: it is the report of the cycle under way.
LEMMA CommittedStands ==
    ASSUME IInv, SerialInv, NEW p \in Drivers, pc[p] = "commit", db' = Committed(p),
           Left(p), ledger' = ledger
    PROVE  SerialInv'
<1>1. Frame(p) /\ pc'[p] # "save" /\ report'[p] = Nil
  BY LeftFrames
<1>2. Alone' /\ \A q \in Drivers : Deciding(q)' /\ Reported(q)'
  BY <1>1, OthersAreIdle DEF Deciding, Reported
<1>3. Unique(ledger)'
  BY DEF SerialInv, Unique
<1>4. /\ report[p] \in Reports /\ report[p].day = Day(p) /\ Backed(report[p], ledger)
      /\ db \in [Days -> [TableNames -> Rows \cup {Nil}]] /\ Day(p) \in Days
  BY DEF IInv, Kinds, Driver, Phase, Asked, SerialInv, Reported, Day
<1>5. ASSUME NEW d \in Days PROVE Stands(d)'
  <2>1. CASE db'[d] = db[d]
    BY <2>1 DEF SerialInv, Stands, Backed, Applied, Session
  <2>2. CASE db'[d] # db[d]
    <3>1. /\ db' = [db EXCEPT ![Day(p)] = db'[Day(p)]]
          /\ db'[Day(p)]["paper_sessions"].report = report[p]
      BY <2>2, CommitFacts
    <3>2. d = Day(p)
      BY <1>4, <2>2, <3>1
    <3> QED BY <1>4, <3>1, <3>2 DEF Stands, Backed, Applied, Session
  <2> QED BY <2>1, <2>2
<1> QED BY <1>2, <1>3, <1>5 DEF SerialInv

LEMMA CommitStands ==
    ASSUME IInv, SerialInv, NEW p \in Drivers, Commit(p)
    PROVE  SerialInv'
BY EndLeaves, CommittedStands DEF Commit, Outcomes

LEMMA BreakStands ==
    ASSUME IInv, SerialInv, NEW p \in Drivers, Break(p)
    PROVE  SerialInv'
<1>1. CASE Disconnect(p)
  BY <1>1, RetryLeaves, LeftStands DEF Disconnect
<1>2. CASE CommitUnacknowledged(p)
  BY <1>2, RetryLeaves, CommittedStands DEF CommitUnacknowledged
<1>3. CASE Crash(p)
  BY <1>3, EndLeaves, LeftStands DEF Crash, Outcomes
<1> QED BY <1>1, <1>2, <1>3 DEF Break

\* A fill is booked when no cycle is under way.
LEMMA ManualFillStands ==
    ASSUME Serial, IInv, SerialInv, ManualFill
    PROVE  SerialInv'
<1>1. PICK r \in Requests : ledger' = Append(ledger, [day |-> 0, request |-> r])
  BY DEF ManualFill
<1> DEFINE fill == [day |-> 0, request |-> r]
<1>2. /\ fill \in Entries /\ fill.day = 0 /\ ledger \in Ledgers /\ Len(ledger) < Bound
      /\ db' = db /\ pc' = pc /\ report' = report /\ \A p \in Drivers : pc[p] = "idle"
  BY Bounds DEF IInv, Kinds, ManualFill, cycle, Entries
<1>3. ledger' = Append(ledger, fill)
  BY <1>1
<1> HIDE DEF fill
<1>4. Unique(Append(ledger, fill))
  BY <1>2, UniqueExtends DEF SerialInv
<1>5. Unique(ledger)'
  BY <1>3, <1>4 DEF Unique
<1>6. \A d \in Days : Stands(d)'
  BY <1>2, <1>3, <1>4, StoreExtends
<1>7. \A p \in Drivers : pc'[p] = "idle" /\ report'[p] = Nil
  BY <1>2 DEF IInv, Driver, Phase
<1>8. Alone' /\ \A p \in Drivers : Deciding(p)' /\ Reported(p)'
  BY <1>7 DEF Alone, Deciding, Reported
<1> QED BY <1>5, <1>6, <1>8 DEF SerialInv

LEMMA SerialNext == Serial /\ IInv /\ SerialInv /\ [Next]_vars => SerialInv'
<1> SUFFICES ASSUME Serial, IInv, SerialInv, [Next]_vars PROVE SerialInv'
  OBVIOUS
<1>1. CASE ManualFill
  BY <1>1, ManualFillStands
<1>2. ASSUME NEW p \in Drivers, Start(p) \/ Work(p) \/ Break(p) PROVE SerialInv'
  BY <1>2, StartStands, MoveStands, ReplayStands, DecideStands, SaveStands, CommitStands,
     BreakStands DEF Work
<1>3. CASE UNCHANGED vars
  <2>1. UNCHANGED <<ledger, db, pc, next, report>>
    BY <1>3 DEF vars, cycle
  <2>2. Alone' /\ Unique(ledger)'
    BY <2>1 DEF SerialInv, Alone, Unique
  <2>3. \A p \in Drivers : Deciding(p)' /\ Reported(p)'
    BY <2>1 DEF SerialInv, Deciding, Reported, Unique, Backed, Applied, Session
  <2>4. \A d \in Days : Stands(d)'
    BY <2>1 DEF SerialInv, Stands, Backed, Applied, Session
  <2> QED BY <2>2, <2>3, <2>4 DEF SerialInv
<1> QED BY <1>1, <1>2, <1>3 DEF Next

LEMMA SerialInit == Init => SerialInv
<1> SUFFICES ASSUME Init PROVE SerialInv
  OBVIOUS
<1>1. \A p \in Drivers : pc[p] = "idle" /\ report[p] = Nil
  BY DEF Init
<1>2. \A d \in Days : db[d] = NoRows
  BY DEF Init
<1>3. Unique(ledger)
  BY DEF Init, Unique
<1> QED BY <1>1, <1>2, <1>3 DEF SerialInv, Alone, Deciding, Reported, Stands

\* The store is never ahead of the state file: with one cycle at a time, every
\* report that run_once stores is about a session the saved file has, by the
\* request the file has, and names a state of its history, whatever crashes,
\* lost connections, retries, replays and manual fills lie between.
THEOREM StoreIsBacked == Spec => []StoredIsApplied
<1>1. IInv /\ SerialInv => StoredIsApplied
  <2> SUFFICES ASSUME SerialInv, NEW d \in Days, db[d] # NoRows
               PROVE  LET rep == db[d]["paper_sessions"].report IN
                        /\ Applied(ledger, d)
                        /\ ledger[Session(ledger, d)].request = rep.request
                        /\ IsPrefix(rep.after, ledger)
    BY DEF StoredIsApplied
  <2> QED BY DEF SerialInv, Stands, Backed
<1>2. ~ Serial => StoredIsApplied
  BY DEF StoredIsApplied
<1>3. CASE Serial
  <2>1. IInv /\ SerialInv /\ [Next]_vars => SerialInv'
    BY <1>3, SerialNext
  <2> QED BY <1>1, <2>1, SerialInit, Invariance, PTL DEF Spec
<1>4. CASE ~ Serial
  <2>1. StoredIsApplied
    BY <1>2, <1>4
  <2>2. IInv => StoredIsApplied
    BY <2>1
  <2> QED BY <2>2, Invariance, PTL
<1> QED BY <1>3, <1>4
=============================================================================
