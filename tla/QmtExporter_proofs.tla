--------------------------- MODULE QmtExporter_proofs ---------------------------
(***************************************************************************)
(* Theorems about QmtExporter, for every set of exporters, number of       *)
(* sections, bounds and either kind of lock.                               *)
(*                                                                         *)
(* The argument: the lock belongs to the exporter that thinks it holds it  *)
(* (Locked), so the files change under one exporter at a time; its cycle   *)
(* builds the snapshot of the next number (Cycle, Counted), from records   *)
(* that are no older than what the last snapshot shows (Ahead); and a      *)
(* request that a cycle does not serve is noted for the next (Requests).   *)
(* The reader sees no number before it is written (Behind), and every      *)
(* snapshot passes its cross checks (Passed).                              *)
(***************************************************************************)
EXTENDS QmtExporter, TLAPS

\* The sections a snapshot has records of; of a draft, those read so far.
Shown(f) == {i \in Section : f # Nil /\ f.records[i].kind # "none"}
Filled(f) == {i \in Section : f.records[i].kind # "none"}

\* The lock belongs to the exporter that holds it.
Locked ==
    /\ \A e \in Exporters : G[e].held <=> lockOwner = e
    /\ \A e \in Exporters : G[e].held => lockFile

\* A cycle is due and under the lock, and builds the snapshot of the next number.
Cycle(e) ==
    InProgress(e) =>
        /\ G[e].held /\ G[e].due
        /\ draft[e] \in Snapshots /\ draft[e].sequence = G[e].sequence + 1
        /\ at[e] = Replacing => temporary = draft[e]

\* The counter of the lock's holder is the number of the file.
Counted(e) == G[e].held => G[e].sequence = LastSequence

\* A request is due, and noted for the cycle after the next when that one does
\* not serve it.
Requests(e) ==
    ~ G[e].stopped =>
        /\ asked[e] <= G[e].sequence + 2
        /\ G[e].sequence + 1 < asked[e] => G[e].dueAfter
        /\ ~ InProgress(e) /\ G[e].sequence < asked[e] => G[e].due

\* The snapshot shows no version the broker has not reached.
Seen == \A i \in Shown(snapshot) : snapshot.records[i].version <= broker

\* What a cycle has read so far is no older than the snapshot, and in order.
Ahead(e) ==
    InProgress(e) =>
        \A j \in Filled(draft[e]) :
            /\ j < at[e]
            /\ draft[e].records[j].version <= broker
            /\ \A i \in Shown(snapshot) :
                  snapshot.records[i].version <= draft[e].records[j].version
            /\ \A i \in Filled(draft[e]) :
                  i < j => draft[e].records[i].version <= draft[e].records[j].version

\* What the queries before k wrote passes the reader's cross checks, and the
\* later sections have not failed.
CrossChecked(f, k) ==
    /\ FailuresAgree(f)
    /\ \A x \in Section : f.error[x] # "none" => f.records[x] = NoRecords
    /\ k > Account /\ f.error[Account] = "none" => f.records[Account].kind # "none"
    /\ \A x \in Section : x >= k => f.error[x] = "none"
Sound(e) == InProgress(e) => CrossChecked(draft[e], at[e])
Passed == snapshot # Nil => FailuresAgree(snapshot) /\ RecordsAgree(snapshot)

\* The reader is behind the snapshot, and what it has read is between.
Behind ==
    /\ reader.last <= LastSequence
    /\ reader.read # Nil => /\ reader.last <= reader.read.sequence
                            /\ reader.read.sequence <= LastSequence

Exporter(e) == Cycle(e) /\ Counted(e) /\ Requests(e) /\ Ahead(e) /\ Sound(e)
Published == Seen /\ Passed /\ Behind

IInv ==
    /\ TypeOK
    /\ Locked
    /\ Published
    /\ \A e \in Exporters : Exporter(e)

-----------------------------------------------------------------------------
(* Facts about one state. *)

\* The bounds as numbers.
LEMMA Bounds ==
    /\ NSections \in Nat /\ NSections >= 1 /\ Heartbeat \in Nat /\ Heartbeat >= 1
    /\ MaxSequence \in Nat /\ MaxBroker \in Nat /\ MaxCrashes \in Nat /\ MaxFailures \in Nat
    /\ Nil # Partial /\ Nil \notin Exporters
BY SectionsAssumption, BoundsAssumption, HeartbeatAssumption

\* The number of the file is a number.
LEMMA NumberOfFile ==
    ASSUME TypeOK
    PROVE  LastSequence \in 0..MaxSequence
BY Bounds DEF TypeOK, LastSequence, Files, Snapshots

\* One exporter holds the lock, and the one in a cycle does.
LEMMA Alone ==
    ASSUME IInv, NEW e \in Exporters, NEW f \in Exporters, G[e].held, f # e
    PROVE  ~ G[f].held /\ ~ InProgress(f)
BY DEF IInv, Locked, Exporter, Cycle

\* What a step leaves to the exporters it is not a step of.
Steady(e) ==
    \A f \in Exporters \ {e} :
        G'[f] = G[f] /\ at'[f] = at[f] /\ draft'[f] = draft[f] /\ asked'[f] = asked[f]
Others(e) == \A f \in Exporters \ {e} : Exporter(f)'

\* The step of an exporter that leaves the files alone, or holds the lock,
\* disturbs no other.
LEMMA Bystanders ==
    ASSUME IInv, NEW e \in Exporters, Steady(e), broker' = broker,
           UNCHANGED files \/ G[e].held
    PROVE  Others(e)
<1> SUFFICES ASSUME NEW f \in Exporters, f # e PROVE Exporter(f)'
  BY DEF Others
<1>1. /\ G'[f] = G[f] /\ at'[f] = at[f] /\ draft'[f] = draft[f] /\ asked'[f] = asked[f]
      /\ Exporter(f)
  BY DEF Steady, IInv
<1>2. Requests(f)'
  BY <1>1 DEF Exporter, Requests, InProgress
<1>3. CASE UNCHANGED files
  BY <1>1, <1>2, <1>3
     DEF Exporter, Cycle, Counted, Ahead, Sound, InProgress, files, LastSequence, Shown, Filled,
         CrossChecked, FailuresAgree
<1>4. CASE G[e].held
  <2>1. ~ G'[f].held /\ ~ InProgress(f)'
    BY <1>1, <1>4, Alone DEF InProgress
  <2> QED BY <1>2, <2>1 DEF Exporter, Cycle, Counted, Ahead, Sound
<1> QED BY <1>3, <1>4

\* The parts of the invariant for the exporter of a step and for the others.
LEMMA Everyone ==
    ASSUME NEW e \in Exporters, Exporter(e)', Others(e)
    PROVE  \A f \in Exporters : Exporter(f)'
BY DEF Others

\* A step that leaves the snapshot, the broker and the reader alone keeps what
\* is said about them.
LEMMA PublishedStays ==
    ASSUME Published, UNCHANGED <<snapshot, broker, reader>>
    PROVE  Published'
BY DEF Published, Seen, Passed, Behind, Shown, Filled, LastSequence, FailuresAgree, RecordsAgree

-----------------------------------------------------------------------------
(* The steps. *)

LEMMA InitIsSafe == Init => IInv
<1> SUFFICES ASSUME Init PROVE IInv
  OBVIOUS
<1>1. Fresh \in States
  BY Bounds DEF Fresh, States, Never
<1>2. TypeOK
  <2>1. Idle \in Idle..Replacing /\ 0 \in 0..(MaxSequence + 1) /\ 0 \in 0..MaxSequence
        /\ 0 \in 0..MaxBroker /\ 0 \in 0..MaxCrashes /\ 0 \in 0..MaxFailures /\ Nil \in Files
    BY Bounds DEF Idle, Replacing, Files
  <2>2. reader \in [read : Files, last : 0..MaxSequence]
    BY <2>1 DEF Init
  <2> QED BY <1>1, <2>1, <2>2 DEF Init, TypeOK
<1>3. Locked
  BY Bounds DEF Init, Locked, Fresh
<1>4. Published
  BY DEF Init, Published, Seen, Passed, Behind, Shown, Filled, LastSequence
<1>5. \A e \in Exporters : Exporter(e)
  <2> SUFFICES ASSUME NEW e \in Exporters PROVE Exporter(e)
    OBVIOUS
  <2>1. /\ ~ InProgress(e) /\ ~ G[e].held /\ asked[e] = 0 /\ G[e].sequence = 0
    BY DEF Init, InProgress, Fresh
  <2> QED BY <2>1 DEF Exporter, Cycle, Counted, Requests, Ahead, Sound
<1> QED BY <1>2, <1>3, <1>4, <1>5 DEF IInv

LEMMA LoadIsSafe ==
    ASSUME IInv, NEW e \in Exporters, Load(e)
    PROVE  IInv'
<1>1. PICK timer \in BOOLEAN :
          G' = [G EXCEPT ![e] = [Fresh EXCEPT !.held = TRUE, !.sequence = LastSequence,
                                              !.timer = timer, !.ready = TRUE]]
  BY DEF Load
<1>2. G \in [Exporters -> States] /\ LastSequence \in 0..MaxSequence /\ TypeOK
  BY NumberOfFile DEF IInv, TypeOK
<1>3. /\ G' \in [Exporters -> States]
      /\ G'[e].held /\ G'[e].sequence = LastSequence /\ ~ G'[e].due
      /\ \A f \in Exporters \ {e} : G'[f] = G[f]
  <2> DEFINE g == [Fresh EXCEPT !.held = TRUE, !.sequence = LastSequence,
                                !.timer = timer, !.ready = TRUE]
  <2>1. /\ g \in States /\ g.held /\ g.sequence = LastSequence /\ ~ g.due
    <3>1. Fresh \in States /\ ~ Fresh.due
      BY Bounds DEF Fresh, States, Never
    <3> QED BY <1>2, <3>1 DEF States
  <2>2. G' = [G EXCEPT ![e] = g]
    BY <1>1
  <2> QED BY <1>2, <2>1, <2>2
<1>4. TypeOK'
  BY <1>2, <1>3, Bounds DEF Load, Acquire, TypeOK, files, faults
<1>5. Locked'
  <2>1. \A f \in Exporters : ~ G[f].held
    BY Bounds DEF IInv, Locked, Load, Acquire, LockFree
  <2> QED BY <1>2, <1>3, <2>1 DEF Load, Acquire, Locked, TypeOK
<1>6. Published'
  BY PublishedStays DEF IInv, Load, files
<1>7. Exporter(e)'
  BY <1>2, <1>3 DEF Load, Exporter, Cycle, Counted, Requests, Ahead, Sound, InProgress, files,
                    LastSequence, TypeOK
<1>8. Others(e)
  <2>1. Steady(e)
    BY <1>2, <1>3 DEF Load, Steady, TypeOK
  <2> QED BY <2>1, Bystanders DEF Load
<1> QED BY <1>4, <1>5, <1>6, <1>7, <1>8, Everyone DEF IInv

LEMMA LoadRefusedIsSafe ==
    ASSUME IInv, NEW e \in Exporters, LoadRefused(e)
    PROVE  IInv'
<1>1. TypeOK
  BY DEF IInv
<1>2. /\ G' \in [Exporters -> States]
      /\ G'[e].stopped /\ G'[e].held = G[e].held /\ G'[e].sequence = G[e].sequence
      /\ \A f \in Exporters \ {e} : G'[f] = G[f]
  BY <1>1 DEF LoadRefused, TypeOK, States
<1>3. TypeOK'
  BY <1>1, <1>2 DEF LoadRefused, TypeOK, files, locks, faults
<1>4. Locked'
  BY <1>2 DEF IInv, Locked, LoadRefused, locks
<1>5. Published'
  BY PublishedStays DEF IInv, LoadRefused, files
<1>6. Exporter(e)'
  BY <1>2 DEF IInv, LoadRefused, Exporter, Cycle, Counted, Requests, Ahead, Sound, InProgress,
              files, LastSequence
<1>7. Others(e)
  BY <1>2, Bystanders DEF LoadRefused, Steady
<1> QED BY <1>3, <1>4, <1>5, <1>6, <1>7, Everyone DEF IInv

LEMMA LoadFailsIsSafe ==
    ASSUME IInv, NEW e \in Exporters, LoadFails(e)
    PROVE  IInv'
<1>1. TypeOK
  BY DEF IInv
<1>2. /\ G' \in [Exporters -> States]
      /\ G'[e].stopped /\ ~ G'[e].held
      /\ \A f \in Exporters \ {e} : G'[f] = G[f]
  <2> DEFINE g == [G[e] EXCEPT !.stopped = TRUE, !.sequence = 0]
  <2>1. G[e] \in States /\ ~ G[e].held /\ 0 \in 0..MaxSequence
    BY <1>1, Bounds DEF LoadFails, TypeOK
  <2>2. g \in States /\ g.stopped /\ ~ g.held
    BY <2>1 DEF States
  <2>3. G' = [G EXCEPT ![e] = g]
    BY <1>1 DEF LoadFails, TypeOK
  <2> QED BY <1>1, <2>2, <2>3 DEF TypeOK
<1>3. TypeOK'
  BY <1>1, <1>2, Bounds, BoundsAssumption DEF LoadFails, TypeOK, files
<1>4. Locked'
  BY <1>2 DEF IInv, Locked, LoadFails
<1>5. Published'
  BY PublishedStays DEF IInv, LoadFails, files
<1>6. Exporter(e)'
  BY <1>2 DEF LoadFails, Exporter, Cycle, Counted, Requests, Ahead, Sound, InProgress
<1>7. Others(e)
  BY <1>2, Bystanders DEF LoadFails, Steady
<1> QED BY <1>3, <1>4, <1>5, <1>6, <1>7, Everyone DEF IInv

\* A request sets the flag of this cycle, or inside a cycle of the next.
LEMMA MarkedSets ==
    ASSUME NEW g \in States, NEW inProgress \in BOOLEAN
    PROVE  /\ Marked(g, inProgress) \in States
           /\ Marked(g, inProgress).held = g.held
           /\ Marked(g, inProgress).stopped = g.stopped
           /\ Marked(g, inProgress).sequence = g.sequence
           /\ g.due => Marked(g, inProgress).due
           /\ g.dueAfter => Marked(g, inProgress).dueAfter
           /\ ~ g.stopped => IF inProgress THEN Marked(g, inProgress).dueAfter
                                           ELSE Marked(g, inProgress).due
BY DEF Marked, States

LEMMA AfterInitIsSafe ==
    ASSUME IInv, NEW e \in Exporters, AfterInit(e)
    PROVE  IInv'
<1> DEFINE g == [G[e] EXCEPT !.ready = FALSE]
<1>1. TypeOK
  BY DEF IInv
<1>2. /\ g \in States /\ g.held = G[e].held /\ g.stopped = G[e].stopped
      /\ g.sequence = G[e].sequence /\ g.due = G[e].due /\ g.dueAfter = G[e].dueAfter
  BY <1>1 DEF TypeOK, States
<1>3. InProgress(e) \in BOOLEAN
  BY DEF InProgress
<1>4. G' = [G EXCEPT ![e] = Marked(g, InProgress(e))]
  BY DEF AfterInit
<1> HIDE DEF g
<1>5. /\ G' \in [Exporters -> States]
      /\ G'[e].held = G[e].held /\ G'[e].stopped = G[e].stopped
      /\ G'[e].sequence = G[e].sequence
      /\ G[e].due => G'[e].due
      /\ G[e].dueAfter => G'[e].dueAfter
      /\ \A f \in Exporters \ {e} : G'[f] = G[f]
  <2>1. /\ Marked(g, InProgress(e)) \in States
        /\ Marked(g, InProgress(e)).held = g.held
        /\ Marked(g, InProgress(e)).stopped = g.stopped
        /\ Marked(g, InProgress(e)).sequence = g.sequence
        /\ g.due => Marked(g, InProgress(e)).due
        /\ g.dueAfter => Marked(g, InProgress(e)).dueAfter
    BY <1>2, <1>3, MarkedSets
  <2> QED BY <1>1, <1>2, <1>4, <2>1 DEF TypeOK
<1>6. TypeOK'
  BY <1>1, <1>5 DEF AfterInit, TypeOK, files, locks, faults
<1>7. Locked'
  BY <1>5 DEF IInv, Locked, AfterInit, locks
<1>8. Published'
  BY PublishedStays DEF IInv, AfterInit, files
<1>9. Exporter(e)'
  BY <1>5 DEF IInv, AfterInit, Exporter, Cycle, Counted, Requests, Ahead, Sound, InProgress,
              files, LastSequence, Shown, Filled, CrossChecked, FailuresAgree
<1>10. Others(e)
  BY <1>5, Bystanders DEF AfterInit, Steady
<1> QED BY <1>6, <1>7, <1>8, <1>9, <1>10, Everyone DEF IInv

LEMMA TimerIsSafe ==
    ASSUME IInv, NEW e \in Exporters, Timer(e)
    PROVE  IInv'
<1>1. TypeOK /\ G[e] \in States /\ InProgress(e) \in BOOLEAN
  BY DEF IInv, TypeOK, InProgress
<1>2. G' = [G EXCEPT ![e] = Marked(G[e], InProgress(e))]
  BY DEF Timer
<1>3. /\ G' \in [Exporters -> States]
      /\ G'[e].held = G[e].held /\ G'[e].stopped = G[e].stopped
      /\ G'[e].sequence = G[e].sequence
      /\ G[e].due => G'[e].due
      /\ G[e].dueAfter => G'[e].dueAfter
      /\ ~ G[e].stopped => IF InProgress(e) THEN G'[e].dueAfter ELSE G'[e].due
      /\ \A f \in Exporters \ {e} : G'[f] = G[f]
  BY <1>1, <1>2, MarkedSets DEF TypeOK
<1>4. /\ asked'[e] = G[e].sequence + (IF InProgress(e) THEN 2 ELSE 1)
      /\ asked'[e] \in 0..(MaxSequence + 1)
  <2>1. G[e].sequence \in 0..MaxSequence
    BY <1>1 DEF States
  <2>2. InProgress(e) => G[e].sequence + 1 <= MaxSequence
    BY <2>1, Bounds DEF IInv, Exporter, Cycle, Snapshots
  <2> QED BY <1>1, <2>1, <2>2, Bounds DEF Timer, TypeOK
<1>5. TypeOK'
  <2>1. asked' \in [Exporters -> 0..(MaxSequence + 1)]
    BY <1>1, <1>4 DEF Timer, TypeOK
  <2> QED BY <1>1, <1>3, <2>1 DEF Timer, TypeOK, files, locks, faults
<1>6. Locked'
  BY <1>3 DEF IInv, Locked, Timer, locks
<1>7. Published'
  BY PublishedStays DEF IInv, Timer, files
<1>8. Exporter(e)'
  <2>1. Requests(e)'
    BY <1>1, <1>3, <1>4 DEF Requests, Timer, InProgress, States
  <2> QED
    BY <1>3, <2>1 DEF IInv, Timer, Exporter, Cycle, Counted, Ahead, Sound, InProgress,
                      files, LastSequence, Shown, Filled, CrossChecked, FailuresAgree
<1>9. Others(e)
  BY <1>1, <1>3, Bystanders DEF Timer, Steady, TypeOK
<1> QED BY <1>5, <1>6, <1>7, <1>8, <1>9, Everyone DEF IInv

\* The empty draft is a snapshot in which no query has failed or shows a record.
LEMMA EmptyIsSound ==
    ASSUME NEW n \in 1..MaxSequence
    PROVE  /\ EmptyDraft(n) \in Snapshots /\ EmptyDraft(n).sequence = n
           /\ Filled(EmptyDraft(n)) = {} /\ CrossChecked(EmptyDraft(n), 1)
<1>1. NoRecords \in Records /\ NoRecords.kind = "none"
  BY Bounds DEF NoRecords, Records
<1>2. EmptyDraft(n) \in Snapshots
  BY <1>1 DEF EmptyDraft, Snapshots, Errors
<1>3. CrossChecked(EmptyDraft(n), 1)
  BY <1>1 DEF EmptyDraft, CrossChecked, FailuresAgree, Account
<1> QED BY <1>1, <1>2, <1>3 DEF EmptyDraft, Filled

LEMMA HandlebarStartsIsSafe ==
    ASSUME IInv, NEW e \in Exporters, HandlebarStarts(e)
    PROVE  IInv'
<1>1. TypeOK /\ G[e] \in States /\ G[e].sequence + 1 \in 1..MaxSequence
  BY Bounds DEF IInv, TypeOK, States, HandlebarStarts
<1> DEFINE d == EmptyDraft(G[e].sequence + 1)
<1>2. /\ d \in Snapshots /\ d.sequence = G[e].sequence + 1
      /\ Filled(d) = {} /\ CrossChecked(d, 1)
  BY <1>1, EmptyIsSound
<1>3. /\ at'[e] = 1 /\ at' \in [Exporters -> Idle..Replacing]
      /\ \A f \in Exporters \ {e} : at'[f] = at[f]
  BY <1>1, Bounds DEF HandlebarStarts, TypeOK, Idle, Replacing
<1>4. draft' = [draft EXCEPT ![e] = d]
  BY DEF HandlebarStarts
<1> HIDE DEF d
<1>5. /\ G' \in [Exporters -> States]
      /\ G'[e].due /\ G'[e].held /\ G'[e].sequence = G[e].sequence
      /\ G'[e].stopped = G[e].stopped /\ G'[e].dueAfter = G[e].dueAfter
      /\ \A f \in Exporters \ {e} : G'[f] = G[f]
  <2> DEFINE g == [G[e] EXCEPT !.due = TRUE, !.since = 0]
  <2>1. /\ g \in States /\ g.due /\ g.held = G[e].held /\ g.sequence = G[e].sequence
        /\ g.stopped = G[e].stopped /\ g.dueAfter = G[e].dueAfter
    <3>1. 0 \in 0..Never
      BY Bounds DEF Never
    <3> QED BY <1>1, <3>1 DEF States
  <2>2. G' = [G EXCEPT ![e] = g] /\ G[e].held
    BY <1>1 DEF HandlebarStarts, TypeOK
  <2> HIDE DEF g
  <2> QED BY <1>1, <2>1, <2>2 DEF TypeOK
<1>6. /\ draft' \in [Exporters -> Files] /\ draft'[e] = d
      /\ \A f \in Exporters \ {e} : draft'[f] = draft[f]
  BY <1>1, <1>2, <1>4 DEF TypeOK, Files
<1>7. TypeOK'
  BY <1>1, <1>3, <1>5, <1>6 DEF HandlebarStarts, TypeOK, files, locks, faults
<1>8. Locked'
  BY <1>5 DEF IInv, Locked, HandlebarStarts, locks
<1>9. Published'
  BY PublishedStays DEF IInv, HandlebarStarts, files
<1>10. Exporter(e)'
  <2>1. Cycle(e)'
    BY <1>2, <1>3, <1>5, <1>6, Bounds DEF Cycle, Replacing
  <2>2. Counted(e)' /\ Requests(e)'
    BY <1>3, <1>5 DEF IInv, Exporter, Counted, Requests, HandlebarStarts, files, LastSequence,
                      InProgress, Idle
  <2>3. Ahead(e)' /\ Sound(e)'
    <3>1. Filled(draft[e])' = {}
      BY <1>2, <1>6 DEF Filled
    <3>2. CrossChecked(draft'[e], at'[e])
      BY <1>2, <1>3, <1>6
    <3> QED BY <3>1, <3>2 DEF Ahead, Sound, CrossChecked, FailuresAgree
  <2> QED BY <2>1, <2>2, <2>3 DEF Exporter
<1>11. Others(e)
  BY <1>3, <1>5, <1>6, Bystanders DEF HandlebarStarts, Steady
<1> QED BY <1>7, <1>8, <1>9, <1>10, <1>11, Everyone DEF IInv

LEMMA HandlebarWaitsIsSafe ==
    ASSUME IInv, NEW e \in Exporters, HandlebarWaits(e)
    PROVE  IInv'
<1>1. TypeOK
  BY DEF IInv
<1>2. /\ G' \in [Exporters -> States]
      /\ G'[e].due /\ G'[e].held = G[e].held /\ G'[e].sequence = G[e].sequence
      /\ G'[e].stopped = G[e].stopped /\ G'[e].dueAfter = G[e].dueAfter
      /\ \A f \in Exporters \ {e} : G'[f] = G[f]
  BY <1>1 DEF HandlebarWaits, TypeOK, States
<1>3. TypeOK'
  BY <1>1, <1>2 DEF HandlebarWaits, TypeOK, files, locks, faults
<1>4. Locked'
  BY <1>2 DEF IInv, Locked, HandlebarWaits, locks
<1>5. Published'
  BY PublishedStays DEF IInv, HandlebarWaits, files
<1>6. Exporter(e)'
  BY <1>2 DEF IInv, HandlebarWaits, Exporter, Cycle, Counted, Requests, Ahead, Sound, InProgress,
              files, LastSequence
<1>7. Others(e)
  BY <1>2, Bystanders DEF HandlebarWaits, Steady
<1> QED BY <1>3, <1>4, <1>5, <1>6, <1>7, Everyone DEF IInv

-----------------------------------------------------------------------------
(* A query. *)

\* The draft d is f with the answer of section s: its error and its records.
Answered(d, f, s, error, records) ==
    d = [f EXCEPT !.error[s] = error, !.records[s] = records,
                  !.failed = IF error = "none" THEN @ ELSE @ \cup {s}]

\* The answers a query may have, at version v of the broker.
Possible(s, error, records, v) ==
    /\ error \in Errors /\ records \in Records
    /\ error = "qmt_query_empty" => s = Account
    /\ error # "none" => records = NoRecords
    /\ error = "none" /\ s = Account => records.kind # "none"
    /\ records.kind # "none" => records.version = v

LEMMA QueryAnswers ==
    ASSUME IInv, NEW e \in Exporters, Query(e)
    PROVE  \E error \in Errors, records \in Records :
              /\ Possible(at[e], error, records, broker)
              /\ draft' = [draft EXCEPT ![e].error[at[e]] = error,
                                        ![e].records[at[e]] = records,
                                        ![e].failed = IF error = "none" THEN @
                                                      ELSE @ \cup {at[e]}]
<1>1. NoRecords \in Records /\ NoRecords.kind = "none"
  BY Bounds DEF NoRecords, Records
<1>2. \A kind \in Normalized :
         LET r == [kind |-> kind, version |-> broker]
         IN  kind # "none" /\ r \in Records /\ r.kind = kind /\ r.version = broker
  BY SectionsAssumption DEF IInv, TypeOK, Records
<1>3. CASE \E kind \in Normalized :
            draft' = [draft EXCEPT ![e].error[at[e]] = "none",
                                   ![e].records[at[e]] = IF kind = "none" THEN NoRecords
                                                  ELSE [kind |-> kind, version |-> broker],
                                   ![e].failed = IF "none" = "none" THEN @
                                                 ELSE @ \cup {at[e]}]
  <2>1. PICK kind \in Normalized :
            draft' = [draft EXCEPT ![e].error[at[e]] = "none",
                                   ![e].records[at[e]] = IF kind = "none" THEN NoRecords
                                                  ELSE [kind |-> kind, version |-> broker],
                                   ![e].failed = IF "none" = "none" THEN @
                                                 ELSE @ \cup {at[e]}]
    BY <1>3
  <2> DEFINE r == [kind |-> kind, version |-> broker]
  <2>2. Possible(at[e], "none", r, broker) /\ r \in Records
    BY <1>2 DEF Possible, Errors
  <2>3. "none" \in Errors
    BY DEF Errors
  <2>4. draft' = [draft EXCEPT ![e].error[at[e]] = "none", ![e].records[at[e]] = r,
                               ![e].failed = IF "none" = "none" THEN @ ELSE @ \cup {at[e]}]
    BY <1>2, <2>1
  <2> HIDE DEF r
  <2> QED BY <2>2, <2>3, <2>4
<1>4. CASE draft' = [draft EXCEPT ![e].error[at[e]] = "qmt_query_failed",
                                  ![e].records[at[e]] = NoRecords,
                                  ![e].failed = IF "qmt_query_failed" = "none" THEN @
                                                ELSE @ \cup {at[e]}]
  <2>1. Possible(at[e], "qmt_query_failed", NoRecords, broker) /\ "qmt_query_failed" \in Errors
    BY <1>1 DEF Possible, Errors
  <2> QED BY <1>1, <1>4, <2>1
<1>5. CASE at[e] = Account /\
           draft' = [draft EXCEPT ![e].error[at[e]] = "qmt_query_empty",
                                  ![e].records[at[e]] = NoRecords,
                                  ![e].failed = IF "qmt_query_empty" = "none" THEN @
                                                ELSE @ \cup {at[e]}]
  <2>1. Possible(at[e], "qmt_query_empty", NoRecords, broker) /\ "qmt_query_empty" \in Errors
    BY <1>1, <1>5 DEF Possible, Errors
  <2> QED BY <1>1, <1>5, <2>1
<1>6. CASE at[e] # Account /\
           draft' = [draft EXCEPT ![e].error[at[e]] = "none",
                                  ![e].records[at[e]] = NoRecords,
                                  ![e].failed = IF "none" = "none" THEN @ ELSE @ \cup {at[e]}]
  <2>1. Possible(at[e], "none", NoRecords, broker) /\ "none" \in Errors
    BY <1>1, <1>6 DEF Possible, Errors
  <2> QED BY <1>1, <1>6, <2>1
<1> QED
  BY <1>3, <1>4, <1>5, <1>6 DEF Query

\* An answer keeps the draft a snapshot, in order, ahead of the last one and
\* such that it passes the cross checks.
LEMMA AnswerIsSound ==
    ASSUME NEW f \in Snapshots, NEW s \in Section, NEW error \in Errors, NEW records \in Records,
           NEW d, Answered(d, f, s, error, records), NEW v \in Nat,
           Possible(s, error, records, v), CrossChecked(f, s)
    PROVE  /\ d \in Snapshots /\ d.sequence = f.sequence
           /\ d.records = [f.records EXCEPT ![s] = records]
           /\ CrossChecked(d, s + 1)
<1>1. /\ f.error \in [Section -> Errors] /\ f.records \in [Section -> Records]
      /\ f.failed \subseteq Section /\ f.sequence \in 1..MaxSequence
  BY DEF Snapshots
<1>2. /\ d.error = [f.error EXCEPT ![s] = error]
      /\ d.records = [f.records EXCEPT ![s] = records]
      /\ d.failed = IF error = "none" THEN f.failed ELSE f.failed \cup {s}
      /\ d.sequence = f.sequence
  BY DEF Answered, Snapshots
<1>3. d \in Snapshots
  <2>1. /\ [f.error EXCEPT ![s] = error] \in [Section -> Errors]
        /\ [f.records EXCEPT ![s] = records] \in [Section -> Records]
    BY <1>1
  <2>2. (IF error = "none" THEN f.failed ELSE f.failed \cup {s}) \in SUBSET Section
    BY <1>1
  <2> QED BY <2>1, <2>2 DEF Answered, Snapshots
<1>4. /\ d.error[s] = error /\ d.records[s] = records
      /\ \A x \in Section \ {s} : d.error[x] = f.error[x] /\ d.records[x] = f.records[x]
  BY <1>1, <1>2
<1>5. FailuresAgree(d)
  <2>1. f.error[s] = "none" /\ FailuresAgree(f)
    BY DEF CrossChecked, Section
  <2>2. \A x \in Section : d.error[x] = "qmt_query_empty" => x = Account
    BY <1>4, <2>1 DEF FailuresAgree, Possible
  <2>3. \A x \in Section : x \in d.failed <=> d.error[x] # "none"
    BY <1>2, <1>4, <2>1 DEF FailuresAgree
  <2>4. d.failed \subseteq Section
    BY <1>1, <1>2
  <2> QED BY <2>2, <2>3, <2>4 DEF FailuresAgree
<1>6. \A x \in Section : d.error[x] # "none" => d.records[x] = NoRecords
  BY <1>4 DEF CrossChecked, Possible
<1>7. d.error[Account] = "none" => d.records[Account].kind # "none"
  <2>1. Account \in Section
    BY Bounds DEF Account, Section
  <2> QED BY <1>4, <2>1 DEF CrossChecked, Possible, Account, Section
<1>8. \A x \in Section : x >= s + 1 => d.error[x] = "none"
  BY <1>4 DEF CrossChecked, Section
<1> QED BY <1>2, <1>3, <1>5, <1>6, <1>7, <1>8 DEF CrossChecked

\* The records a draft shows, one more section answered at the broker's version.
LEMMA AnswerIsAhead ==
    ASSUME IInv, NEW e \in Exporters, at[e] \in Section, InProgress(e),
           NEW records \in Records, NEW d,
           d.records = [draft[e].records EXCEPT ![at[e]] = records],
           draft[e].records \in [Section -> Records],
           records.kind # "none" => records.version = broker
    PROVE  \A j \in Filled(d) :
              /\ j < at[e] + 1
              /\ d.records[j].version <= broker
              /\ \A i \in Shown(snapshot) : snapshot.records[i].version <= d.records[j].version
              /\ \A i \in Filled(d) : i < j => d.records[i].version <= d.records[j].version
<1> DEFINE s == at[e]
           f == draft[e]
<1>1. /\ d.records[s] = records
      /\ \A x \in Section \ {s} : d.records[x] = f.records[x]
  OBVIOUS
<1>2. \A x \in Section : x \in Filled(d) => x = s \/ x \in Filled(f)
  BY <1>1 DEF Filled
<1>3. s \in Filled(d) => records.version = broker
  BY <1>1 DEF Filled
<1>4. Ahead(e) /\ Seen /\ broker \in Nat /\ s \in Nat
  BY Bounds DEF IInv, Exporter, Published, TypeOK, Section
<1>5. \A x \in Filled(f) : x < s /\ x \in Section /\ f.records[x].version <= broker
  BY <1>4 DEF Ahead, Filled
<1>6. \A x \in Section : d.records[x].version \in Nat
  <2>1. \A r \in Records : r.version \in Nat
    BY Bounds DEF Records
  <2> QED BY <1>1, <2>1
<1>7. \A x \in Filled(d) : x \in Section
  BY DEF Filled
<1> QED
  <2> SUFFICES ASSUME NEW j \in Filled(d)
               PROVE  /\ j < s + 1
                      /\ d.records[j].version <= broker
                      /\ \A i \in Shown(snapshot) :
                            snapshot.records[i].version <= d.records[j].version
                      /\ \A i \in Filled(d) :
                            i < j => d.records[i].version <= d.records[j].version
    OBVIOUS
  <2>1. CASE j = s
    <3>1. d.records[j].version = broker
      BY <1>1, <1>3, <2>1
    <3>2. \A i \in Filled(d) : i < j => d.records[i].version <= broker
      <4> SUFFICES ASSUME NEW i \in Filled(d), i < j PROVE d.records[i].version <= broker
        OBVIOUS
      <4>1. i \in Section /\ i # s
        BY <1>4, <1>7, <2>1 DEF Section
      <4> QED BY <1>1, <1>2, <1>5, <4>1
    <3> QED BY <1>4, <2>1, <3>1, <3>2 DEF Seen
  <2>2. CASE j # s
    <3>1. j \in Filled(f) /\ j < s /\ d.records[j] = f.records[j]
      BY <1>1, <1>2, <1>5, <1>7, <2>2
    <3>2. \A i \in Filled(d) : i < j => i \in Filled(f) /\ d.records[i] = f.records[i]
      BY <1>1, <1>2, <1>4, <1>7, <3>1 DEF Section
    <3> QED BY <1>4, <1>5, <3>1, <3>2 DEF Ahead, Section
  <2> QED BY <2>1, <2>2

LEMMA QueryIsSafe ==
    ASSUME IInv, NEW e \in Exporters, Query(e)
    PROVE  IInv'
<1> DEFINE s == at[e]
           f == draft[e]
<1>1. TypeOK /\ s \in Section /\ InProgress(e) /\ broker \in Nat
  <2>1. TypeOK /\ s \in Section
    BY DEF IInv, Query, Querying
  <2>2. s # Idle
    BY <2>1, Bounds DEF Section, Idle
  <2> QED BY <2>1, <2>2, Bounds DEF TypeOK, InProgress
<1>2. /\ f \in Snapshots /\ f.records \in [Section -> Records] /\ CrossChecked(f, s)
      /\ f.sequence = G[e].sequence + 1
  BY <1>1 DEF IInv, Exporter, Cycle, Sound, Snapshots
<1>3. PICK error \in Errors, records \in Records :
          /\ Possible(at[e], error, records, broker)
          /\ draft' = [draft EXCEPT ![e].error[at[e]] = error,
                                    ![e].records[at[e]] = records,
                                    ![e].failed = IF error = "none" THEN @ ELSE @ \cup {at[e]}]
  BY QueryAnswers
<1>4. /\ Answered(draft'[e], f, s, error, records)
      /\ \A g \in Exporters \ {e} : draft'[g] = draft[g]
  BY <1>1, <1>3 DEF Answered, TypeOK
<1>5. /\ draft'[e] \in Snapshots /\ draft'[e].sequence = f.sequence
      /\ draft'[e].records = [f.records EXCEPT ![s] = records]
      /\ CrossChecked(draft'[e], s + 1)
  BY <1>1, <1>2, <1>3, <1>4, AnswerIsSound
<1>6. /\ at'[e] = s + 1 /\ at' \in [Exporters -> Idle..Replacing]
      /\ \A g \in Exporters \ {e} : at'[g] = at[g]
      /\ s + 1 # Replacing /\ InProgress(e)'
  <2>1. /\ s + 1 \in Idle..Replacing /\ s + 1 # Replacing /\ s + 1 # Idle
    BY <1>1, Bounds DEF Idle, Replacing, Section
  <2>2. at' = [at EXCEPT ![e] = s + 1]
    BY DEF Query
  <2> QED BY <1>1, <2>1, <2>2 DEF TypeOK, InProgress
<1>7. draft' \in [Exporters -> Files]
  <2>1. draft' = [draft EXCEPT ![e] = draft'[e]]
    BY <1>1, <1>3 DEF TypeOK
  <2> QED BY <1>1, <1>5, <2>1 DEF TypeOK, Files
<1>8. TypeOK'
  BY <1>1, <1>6, <1>7 DEF Query, TypeOK, files, locks, faults
<1>9. Locked'
  BY DEF IInv, Locked, Query, locks
<1>10. Published'
  BY PublishedStays DEF IInv, Query, files
<1>11. Exporter(e)'
  <2>1. Cycle(e)'
    BY <1>1, <1>2, <1>5, <1>6 DEF IInv, Exporter, Cycle, Query
  <2>2. Counted(e)' /\ Requests(e)'
    BY <1>1, <1>6 DEF IInv, Exporter, Counted, Requests, Query, files, LastSequence
  <2>3. Ahead(e)'
    <3>1. s \in Nat /\ (records.kind # "none" => records.version = broker)
      BY <1>1, <1>3 DEF Section, Possible
    <3>2. \A j \in Filled(draft'[e]) :
              /\ j < s + 1
              /\ draft'[e].records[j].version <= broker
              /\ \A i \in Shown(snapshot) :
                    snapshot.records[i].version <= draft'[e].records[j].version
              /\ \A i \in Filled(draft'[e]) :
                    i < j => draft'[e].records[i].version <= draft'[e].records[j].version
      BY <1>1, <1>2, <1>5, <3>1, AnswerIsAhead
    <3> QED BY <1>6, <3>2 DEF Ahead, Query, files, Shown, Filled
  <2>4. Sound(e)'
    BY <1>5, <1>6 DEF Sound, CrossChecked, FailuresAgree
  <2> QED BY <2>1, <2>2, <2>3, <2>4 DEF Exporter
<1>12. Others(e)
  BY <1>4, <1>6, Bystanders DEF Query, Steady
<1> QED BY <1>8, <1>9, <1>10, <1>11, <1>12, Everyone DEF IInv

-----------------------------------------------------------------------------
(* The files. *)

LEMMA OpenTemporaryIsSafe ==
    ASSUME IInv, NEW e \in Exporters, OpenTemporary(e)
    PROVE  IInv'
<1>1. /\ G[e].held /\ InProgress(e) /\ at[e] # Replacing
  BY Bounds DEF IInv, Exporter, Cycle, OpenTemporary, InProgress, Writing, Idle, Replacing
<1>2. TypeOK'
  BY DEF IInv, OpenTemporary, TypeOK, exporterVars, locks, faults
<1>3. Locked'
  BY DEF IInv, Locked, OpenTemporary, locks, exporterVars
<1>4. Published'
  BY PublishedStays DEF IInv, OpenTemporary
<1>5. Exporter(e)'
  BY <1>1 DEF IInv, OpenTemporary, exporterVars, Exporter, Cycle, Counted, Requests, Ahead, Sound,
              InProgress, LastSequence, Shown, Filled, CrossChecked, FailuresAgree
<1>6. Others(e)
  BY <1>1, Bystanders DEF OpenTemporary, exporterVars, Steady
<1> QED BY <1>2, <1>3, <1>4, <1>5, <1>6, Everyone DEF IInv

LEMMA FillTemporaryIsSafe ==
    ASSUME IInv, NEW e \in Exporters, FillTemporary(e)
    PROVE  IInv'
<1>1. /\ TypeOK /\ G[e].held /\ InProgress(e)
      /\ at[e] < Replacing /\ at[e] \in Nat
  BY Bounds DEF IInv, Exporter, Cycle, FillTemporary, InProgress, Writing, Idle, Replacing
<1>2. /\ at'[e] = Replacing /\ at' \in [Exporters -> Idle..Replacing]
      /\ \A f \in Exporters \ {e} : at'[f] = at[f]
      /\ Replacing \in Nat /\ Replacing # Idle
  BY <1>1, Bounds DEF FillTemporary, TypeOK, Idle, Replacing
<1>3. TypeOK'
  BY <1>1, <1>2 DEF FillTemporary, TypeOK, locks, faults
<1>4. Locked'
  BY DEF IInv, Locked, FillTemporary, locks
<1>5. Published'
  BY PublishedStays DEF IInv, FillTemporary
<1>6. Exporter(e)'
  <2>1. Cycle(e)'
    BY <1>1, <1>2 DEF IInv, Exporter, Cycle, FillTemporary
  <2>2. Counted(e)' /\ Requests(e)'
    BY <1>1, <1>2 DEF IInv, Exporter, Counted, Requests, FillTemporary, LastSequence, InProgress
  <2>3. Ahead(e)'
    <3>1. \A j \in Filled(draft[e]) : j < at'[e]
      BY <1>1, <1>2 DEF IInv, Exporter, Ahead, Filled, Section
    <3> QED BY <1>1, <3>1 DEF IInv, Exporter, Ahead, FillTemporary, Shown, Filled
  <2>4. Sound(e)'
    <3>1. CrossChecked(draft[e], at[e]) /\ at[e] > Account
      BY <1>1, Bounds DEF IInv, Exporter, Sound, FillTemporary, Writing, Account
    <3>2. \A x \in Section : ~ (x >= at'[e])
      BY <1>2, Bounds DEF Replacing, Section
    <3> QED BY <3>1, <3>2 DEF Sound, CrossChecked, FailuresAgree, FillTemporary
  <2> QED BY <2>1, <2>2, <2>3, <2>4 DEF Exporter
<1>7. Others(e)
  BY <1>1, <1>2, Bystanders DEF FillTemporary, Steady
<1> QED BY <1>3, <1>4, <1>5, <1>6, <1>7, Everyone DEF IInv

\* What the replace publishes: the exporter's draft, of the next number.
LEMMA ReplacePublishes ==
    ASSUME IInv, NEW e \in Exporters, Replace(e)
    PROVE  /\ InProgress(e) /\ G[e].held /\ snapshot' = draft[e] /\ snapshot' # Nil
           /\ draft[e] \in Snapshots /\ draft[e].sequence = G[e].sequence + 1
           /\ G[e].sequence = LastSequence /\ LastSequence' = LastSequence + 1
<1>1. InProgress(e)
  BY Bounds DEF Replace, InProgress, Idle, Replacing
<1> QED BY <1>1 DEF IInv, Exporter, Cycle, Counted, Replace, LastSequence

LEMMA ReplaceIsSafe ==
    ASSUME IInv, NEW e \in Exporters, Replace(e)
    PROVE  IInv'
<1>1. /\ TypeOK /\ G[e] \in States
      /\ InProgress(e) /\ G[e].held /\ snapshot' = draft[e] /\ snapshot' # Nil
      /\ draft[e] \in Snapshots /\ draft[e].sequence = G[e].sequence + 1
      /\ G[e].sequence = LastSequence /\ LastSequence' = LastSequence + 1
  BY ReplacePublishes DEF IInv, TypeOK
<1>2. G[e].sequence + 1 \in 0..MaxSequence
  BY <1>1, Bounds DEF Snapshots, States
<1>3. /\ G' \in [Exporters -> States]
      /\ G'[e].held /\ G'[e].sequence = G[e].sequence + 1
      /\ G'[e].stopped = G[e].stopped /\ G'[e].due = G[e].dueAfter
      /\ \A f \in Exporters \ {e} : G'[f] = G[f]
  <2> DEFINE g == [G[e] EXCEPT !.sequence = @ + 1, !.due = G[e].dueAfter, !.dueAfter = FALSE]
  <2>1. /\ g \in States /\ g.held = G[e].held /\ g.sequence = G[e].sequence + 1
        /\ g.stopped = G[e].stopped /\ g.due = G[e].dueAfter
    BY <1>1, <1>2 DEF States
  <2>2. G' = [G EXCEPT ![e] = g]
    BY <1>1 DEF Replace, TypeOK
  <2> HIDE DEF g
  <2> QED BY <1>1, <2>1, <2>2 DEF TypeOK
<1>4. /\ at'[e] = Idle /\ ~ InProgress(e)' /\ at' \in [Exporters -> Idle..Replacing]
      /\ draft' \in [Exporters -> Files]
      /\ \A f \in Exporters \ {e} : at'[f] = at[f] /\ draft'[f] = draft[f]
  BY <1>1, Bounds DEF Replace, TypeOK, InProgress, Files, Idle, Replacing
<1>5. TypeOK'
  BY <1>1, <1>3, <1>4 DEF Replace, TypeOK, Files, locks, faults
<1>6. Locked'
  BY <1>1, <1>3 DEF IInv, Locked, Replace, locks
<1>7. Published'
  <2>1. Seen'
    BY <1>1 DEF IInv, Exporter, Ahead, Seen, Shown, Filled, Replace
  <2>2. Passed'
    <3>1. CrossChecked(draft[e], Replacing)
      BY <1>1 DEF IInv, Exporter, Sound, Replace
    <3> QED BY <1>1, <3>1, Bounds
            DEF Passed, CrossChecked, Replacing, Account, FailuresAgree, RecordsAgree
  <2>3. Behind'
    <3>1. /\ reader' = reader /\ reader.last \in Nat /\ LastSequence \in Nat
          /\ reader.read # Nil => reader.read.sequence \in Nat
      BY <1>1, NumberOfFile, Bounds DEF Replace, TypeOK, Files, Snapshots
    <3> QED BY <1>1, <3>1 DEF IInv, Published, Behind
  <2> QED BY <2>1, <2>2, <2>3 DEF Published
<1>8. Exporter(e)'
  <2>1. Requests(e)'
    <3>1. G[e].sequence \in Nat /\ asked[e] \in Nat /\ asked'[e] = asked[e]
      BY <1>1, Bounds DEF States, TypeOK, Replace
    <3> QED BY <1>3, <3>1 DEF IInv, Exporter, Requests
  <2> QED BY <1>1, <1>3, <1>4, <2>1 DEF Exporter, Cycle, Counted, Ahead, Sound
<1>9. Others(e)
  BY <1>1, <1>3, <1>4, Bystanders DEF Replace, Steady
<1> QED BY <1>5, <1>6, <1>7, <1>8, <1>9, Everyone DEF IInv

LEMMA WriteFailsIsSafe ==
    ASSUME IInv, NEW e \in Exporters, WriteFails(e)
    PROVE  IInv'
<1>1. TypeOK /\ InProgress(e)
  BY Bounds DEF IInv, WriteFails, InProgress, Writing, Replacing, Idle
<1>2. /\ at'[e] = Idle /\ ~ InProgress(e)' /\ at' \in [Exporters -> Idle..Replacing]
      /\ draft' \in [Exporters -> Files]
      /\ \A f \in Exporters \ {e} : at'[f] = at[f] /\ draft'[f] = draft[f]
  BY <1>1, Bounds DEF WriteFails, TypeOK, InProgress, Files, Idle, Replacing
<1>3. TypeOK'
  BY <1>1, <1>2, Bounds DEF WriteFails, TypeOK, files, locks
<1>4. Locked'
  BY DEF IInv, Locked, WriteFails, locks
<1>5. Published'
  BY PublishedStays DEF IInv, WriteFails, files
<1>6. Exporter(e)'
  BY <1>1, <1>2 DEF IInv, WriteFails, files, Exporter, Cycle, Counted, Requests, Ahead, Sound,
                    LastSequence
<1>7. Others(e)
  BY <1>2, Bystanders DEF WriteFails, Steady
<1> QED BY <1>3, <1>4, <1>5, <1>6, <1>7, Everyone DEF IInv

LEMMA StopIsSafe ==
    ASSUME IInv, NEW e \in Exporters, Stop(e)
    PROVE  IInv'
<1>1. TypeOK
  BY DEF IInv
<1>2. /\ G' \in [Exporters -> States]
      /\ ~ G'[e].held /\ G'[e].stopped
      /\ \A f \in Exporters \ {e} : G'[f] = G[f]
  <2> DEFINE g == [G[e] EXCEPT !.stopped = TRUE, !.due = FALSE, !.dueAfter = FALSE,
                               !.held = FALSE]
  <2>1. G[e] \in States
    BY <1>1 DEF TypeOK
  <2>2. g \in States /\ g.stopped /\ ~ g.held
    BY <2>1 DEF States
  <2>3. G' = [G EXCEPT ![e] = g]
    BY <1>1 DEF Stop, TypeOK
  <2> HIDE DEF g
  <2> QED BY <1>1, <2>2, <2>3 DEF TypeOK
<1>3. lockFile' \in BOOLEAN /\ lockOwner' \in Exporters \cup {Nil}
  BY <1>1, BoundsAssumption DEF Stop, Release, TypeOK, locks
<1>4. TypeOK'
  BY <1>1, <1>2, <1>3 DEF Stop, TypeOK, files, faults
<1>5. Locked'
  <2>1. CASE G[e].held
    <3>1. \A f \in Exporters \ {e} : ~ G[f].held
      BY <2>1, Alone
    <3> QED BY <1>2, <2>1, <3>1, Bounds DEF Locked, Stop, Release
  <2>2. CASE ~ G[e].held
    BY <1>2, <2>2 DEF IInv, Locked, Stop, Release, locks
  <2> QED BY <2>1, <2>2
<1>6. Published'
  BY PublishedStays DEF IInv, Stop, files
<1>7. Exporter(e)'
  BY <1>2 DEF Stop, Exporter, Cycle, Counted, Requests, Ahead, Sound, InProgress
<1>8. Others(e)
  BY <1>2, Bystanders DEF Stop, Steady
<1> QED BY <1>4, <1>5, <1>6, <1>7, <1>8, Everyone DEF IInv

LEMMA CrashIsSafe ==
    ASSUME IInv, NEW e \in Exporters, Crash(e)
    PROVE  IInv'
<1>1. TypeOK
  BY DEF IInv
<1>2. Fresh \in States /\ ~ Fresh.held /\ Fresh.sequence = 0
  BY Bounds DEF Fresh, States, Never
<1>3. /\ G' \in [Exporters -> States] /\ G'[e] = Fresh
      /\ \A f \in Exporters \ {e} : G'[f] = G[f]
  BY <1>1, <1>2 DEF Crash, TypeOK
<1>4. /\ at'[e] = Idle /\ at' \in [Exporters -> Idle..Replacing]
      /\ draft' \in [Exporters -> Files]
      /\ asked'[e] = 0 /\ asked' \in [Exporters -> 0..(MaxSequence + 1)]
      /\ \A f \in Exporters \ {e} :
            at'[f] = at[f] /\ draft'[f] = draft[f] /\ asked'[f] = asked[f]
  <2>1. Idle \in Idle..Replacing /\ 0 \in 0..(MaxSequence + 1) /\ Nil \in Files
    BY Bounds DEF Idle, Replacing, Files
  <2> QED BY <1>1, <2>1 DEF Crash, TypeOK
<1>5. TypeOK'
  BY <1>1, <1>3, <1>4, Bounds DEF Crash, TypeOK, files
<1>6. Locked'
  BY <1>1, <1>2, <1>3, Bounds DEF IInv, Locked, Crash, TypeOK
<1>7. Published'
  BY PublishedStays DEF IInv, Crash, files
<1>8. Exporter(e)'
  BY <1>2, <1>3, <1>4 DEF Exporter, Cycle, Counted, Requests, Ahead, Sound, InProgress
<1>9. Others(e)
  BY <1>3, <1>4, Bystanders DEF Crash, Steady
<1> QED BY <1>5, <1>6, <1>7, <1>8, <1>9, Everyone DEF IInv

LEMMA TickIsSafe ==
    ASSUME IInv, Tick
    PROVE  IInv'
<1>1. TypeOK
  BY DEF IInv
<1>2. \A e \in Exporters :
         /\ G'[e] \in States
         /\ G'[e].held = G[e].held /\ G'[e].stopped = G[e].stopped
         /\ G'[e].sequence = G[e].sequence
         /\ G'[e].due = G[e].due /\ G'[e].dueAfter = G[e].dueAfter
  <2> SUFFICES ASSUME NEW e \in Exporters
               PROVE  /\ G'[e] \in States
                      /\ G'[e].held = G[e].held /\ G'[e].stopped = G[e].stopped
                      /\ G'[e].sequence = G[e].sequence
                      /\ G'[e].due = G[e].due /\ G'[e].dueAfter = G[e].dueAfter
    OBVIOUS
  <2>1. G[e] \in States
    BY <1>1 DEF TypeOK
  <2>2. CASE G'[e] = G[e]
    BY <2>1, <2>2
  <2>3. CASE G[e].since < 2 * Heartbeat /\ G'[e] = [G[e] EXCEPT !.since = @ + 1]
    <3>1. G[e].since + 1 \in 0..Never
      BY <2>1, <2>3, Bounds DEF States, Never
    <3> QED BY <2>1, <2>3, <3>1 DEF States
  <2> QED BY <2>2, <2>3 DEF Tick
<1>3. TypeOK'
  <2>1. G' \in [Exporters -> States]
    BY <1>2 DEF Tick
  <2> QED BY <1>1, <2>1 DEF Tick, TypeOK, files, locks, faults
<1>4. Locked'
  BY <1>2 DEF IInv, Locked, Tick, locks
<1>5. Published'
  BY PublishedStays DEF IInv, Tick, files
<1>6. ASSUME NEW e \in Exporters PROVE Exporter(e)'
  BY <1>2 DEF IInv, Tick, files, Exporter, Cycle, Counted, Requests, Ahead, Sound, InProgress,
              LastSequence, Shown, Filled, CrossChecked, FailuresAgree
<1> QED BY <1>3, <1>4, <1>5, <1>6 DEF IInv

LEMMA BrokerChangesIsSafe ==
    ASSUME IInv, BrokerChanges
    PROVE  IInv'
<1>1. TypeOK /\ broker \in Nat /\ broker' = broker + 1
  BY Bounds DEF IInv, TypeOK, BrokerChanges
<1>2. TypeOK'
  BY <1>1, Bounds DEF BrokerChanges, TypeOK, files, locks, exporterVars, faults
<1>3. Locked'
  BY DEF IInv, Locked, BrokerChanges, locks, exporterVars
<1>4. Seen'
  <2>1. \A i \in Shown(snapshot) : snapshot.records[i].version \in Nat
    BY <1>1, Bounds DEF Shown, TypeOK, Files, Snapshots, Records
  <2>2. \A i \in Shown(snapshot) : snapshot.records[i].version <= broker
    BY DEF IInv, Published, Seen
  <2> QED BY <1>1, <2>1, <2>2 DEF Seen, Shown, BrokerChanges, files
<1>5. Published'
  BY <1>4 DEF IInv, BrokerChanges, files, Published, Passed, Behind, LastSequence, FailuresAgree,
              RecordsAgree
<1>6. ASSUME NEW e \in Exporters PROVE Exporter(e)'
  <2>1. InProgress(e) => \A j \in Filled(draft[e]) : draft[e].records[j].version \in Nat
    BY Bounds DEF IInv, Exporter, Cycle, Filled, Snapshots, Records
  <2>2. Ahead(e)'
    <3>1. InProgress(e) =>
            \A j \in Filled(draft[e]) : draft[e].records[j].version <= broker + 1
      BY <1>1, <2>1 DEF IInv, Exporter, Ahead
    <3> QED BY <1>1, <3>1 DEF IInv, Exporter, Ahead, BrokerChanges, files, exporterVars,
                             InProgress, Shown, Filled
  <2> QED BY <2>2 DEF IInv, BrokerChanges, files, exporterVars, Exporter, Cycle, Counted, Requests,
                      Sound, InProgress, LastSequence, CrossChecked, FailuresAgree
<1> QED BY <1>2, <1>3, <1>5, <1>6 DEF IInv

-----------------------------------------------------------------------------
(* The reader. *)

\* The reader's own steps touch nothing but the reader.
LEMMA ReaderIsSafe ==
    ASSUME IInv, UNCHANGED <<files, locks, exporterVars, broker, faults>>,
           reader' \in [read : Files, last : 0..MaxSequence], Behind'
    PROVE  IInv'
<1>1. TypeOK'
  BY DEF IInv, TypeOK, files, locks, exporterVars, faults
<1>2. Locked'
  BY DEF IInv, Locked, locks, exporterVars
<1>3. Published'
  BY DEF IInv, Published, Seen, Passed, Shown, files, FailuresAgree, RecordsAgree
<1>4. ASSUME NEW e \in Exporters PROVE Exporter(e)'
  BY DEF IInv, Exporter, Cycle, Counted, Requests, Ahead, Sound, InProgress, files, exporterVars,
         LastSequence, Shown, Filled, CrossChecked, FailuresAgree
<1> QED BY <1>1, <1>2, <1>3, <1>4 DEF IInv

LEMMA ReadingIsSafe ==
    ASSUME IInv, ReadLatest \/ Accept \/ Refuse
    PROVE  IInv'
<1>1. TypeOK /\ Behind
  BY DEF IInv, Published
<1>2. LastSequence' = LastSequence
  BY DEF ReadLatest, Accept, Refuse, files, LastSequence
<1>3. CASE ReadLatest
  <2>1. /\ reader' \in [read : Files, last : 0..MaxSequence]
        /\ reader'.last = reader.last /\ reader'.read = snapshot
    BY <1>1, <1>3 DEF ReadLatest, TypeOK
  <2>2. LastSequence = snapshot.sequence /\ LastSequence \in Nat
    BY <1>1, <1>3, NumberOfFile, Bounds DEF ReadLatest, LastSequence
  <2>3. Behind'
    BY <1>1, <1>2, <2>1, <2>2 DEF Behind
  <2> QED BY <1>3, <2>1, <2>3, ReaderIsSafe DEF ReadLatest
<1>4. CASE Accept
  <2>1. /\ reader.read \in Snapshots /\ Nil \in Files
        /\ reader' = [read |-> Nil, last |-> reader.read.sequence]
    BY <1>1, <1>4 DEF Accept, TypeOK, Files
  <2>2. reader' \in [read : Files, last : 0..MaxSequence]
    BY <2>1, Bounds DEF Snapshots
  <2>3. Behind'
    BY <1>1, <1>2, <1>4, <2>1 DEF Behind, Accept
  <2> QED BY <1>4, <2>2, <2>3, ReaderIsSafe DEF Accept
<1>5. CASE Refuse
  <2>1. /\ reader' \in [read : Files, last : 0..MaxSequence]
        /\ reader'.last = reader.last /\ reader'.read = Nil
    BY <1>1, <1>5 DEF Refuse, TypeOK, Files
  <2>2. Behind'
    BY <1>1, <1>2, <2>1 DEF Behind
  <2> QED BY <1>5, <2>1, <2>2, ReaderIsSafe DEF Refuse
<1> QED BY <1>3, <1>4, <1>5

-----------------------------------------------------------------------------
(* The theorems. *)

LEMMA NextIsSafe == IInv /\ [Next]_vars => IInv'
<1> SUFFICES ASSUME IInv, [Next]_vars PROVE IInv'
  OBVIOUS
<1>1. CASE UNCHANGED vars
  <2>1. reader' \in [read : Files, last : 0..MaxSequence] /\ Behind'
    BY <1>1 DEF IInv, TypeOK, Published, Behind, vars, files, LastSequence
  <2> QED BY <1>1, <2>1, ReaderIsSafe DEF vars
<1>2. ASSUME NEW e \in Exporters,
             \/ Load(e) \/ LoadRefused(e) \/ LoadFails(e) \/ AfterInit(e) \/ Timer(e)
             \/ HandlebarStarts(e) \/ HandlebarWaits(e)
             \/ Query(e) \/ OpenTemporary(e) \/ FillTemporary(e) \/ Replace(e)
             \/ WriteFails(e) \/ Stop(e) \/ Crash(e)
      PROVE  IInv'
  BY <1>2, LoadIsSafe, LoadRefusedIsSafe, LoadFailsIsSafe, AfterInitIsSafe, TimerIsSafe,
     HandlebarStartsIsSafe, HandlebarWaitsIsSafe, QueryIsSafe, OpenTemporaryIsSafe,
     FillTemporaryIsSafe, ReplaceIsSafe, WriteFailsIsSafe, StopIsSafe, CrashIsSafe
<1>3. CASE Tick \/ BrokerChanges
  BY <1>3, TickIsSafe, BrokerChangesIsSafe
<1>4. CASE ReadLatest \/ Accept \/ Refuse
  BY <1>4, ReadingIsSafe
<1> QED BY <1>1, <1>2, <1>3, <1>4 DEF Next

\* The inductive invariant holds in every state.
THEOREM Invariance == Spec => []IInv
BY InitIsSafe, NextIsSafe, PTL DEF Spec

\* Every variable has its type in every state.
THEOREM TypeCorrect == Spec => []TypeOK
<1>1. IInv => TypeOK
  BY DEF IInv
<1> QED BY <1>1, Invariance, PTL

\* One exporter at a time works on the files, whatever starts, stops and
\* crashes, and its counter is the number of the file.
THEOREM OneWriterAtATime == Spec => []OneWriter
<1>1. IInv => OneWriter
  BY DEF IInv, Locked, OneWriter, Exporter, Cycle, Counted
<1> QED BY <1>1, Invariance, PTL

\* A timer request inside a cycle stays due until the next cycle is written.
THEOREM RequestsAreKept == Spec => []RequestKept
<1>1. IInv => RequestKept
  <2> SUFFICES ASSUME IInv, NEW e \in up, ~ G[e].stopped, ~ InProgress(e),
                      G[e].sequence < asked[e]
               PROVE  G[e].due
    BY DEF RequestKept
  <2>1. e \in Exporters
    BY DEF IInv, TypeOK
  <2> QED BY <2>1 DEF IInv, Exporter, Requests
<1> QED BY <1>1, Invariance, PTL

\* A lock of the operating system comes back after every crash, failed init and
\* stop.  (An exclusively created lock file is left behind by a crash.)
THEOREM LockAlwaysComesBack == OsLock = TRUE => (Spec => []LockComesBack)
<1> SUFFICES ASSUME OsLock = TRUE PROVE Spec => []LockComesBack
  OBVIOUS
<1>1. IInv => LockComesBack
  BY DEF IInv, TypeOK, Locked, LockComesBack, LockFree
<1> QED BY <1>1, Invariance, PTL

\* What is published passes the reader's cross checks, whatever queries fail.
THEOREM ExportsAreReadable == Spec => []ReadableExport
<1>1. IInv => ReadableExport
  BY DEF IInv, Published, Passed, ReadableExport, Acceptable
<1> QED BY <1>1, Invariance, PTL

\* A reader that keeps its tracker never meets a number that went back.
THEOREM ReadersNeverRegress == Spec => []NeverRegresses
<1>1. IInv => NeverRegresses
  BY DEF IInv, TypeOK, Files, Snapshots, Published, Behind, NeverRegresses
<1> QED BY <1>1, Invariance, PTL

\* Only the replace of an exporter changes the snapshot.
LEMMA OnlyReplacePublishes ==
    ASSUME [Next]_vars, snapshot' # snapshot
    PROVE  \E e \in Exporters : Replace(e)
BY DEF Next, vars, files, Load, LoadRefused, LoadFails, AfterInit, Timer, HandlebarStarts,
       HandlebarWaits, Query, OpenTemporary, FillTemporary, WriteFails, Stop, Crash, Tick,
       BrokerChanges, ReadLatest, Accept, Refuse

\* The snapshot is replaced only by the one of the next number, over restarts,
\* crashes, failed writes and other exporters.
THEOREM NumbersAreConsecutive == Spec => SequenceAdvances
<1> DEFINE Advances ==
             snapshot' # snapshot =>
                snapshot'.sequence = (IF snapshot = Nil THEN 0 ELSE snapshot.sequence) + 1
<1>1. IInv /\ [Next]_vars => [Advances]_vars
  <2> SUFFICES ASSUME IInv, [Next]_vars, snapshot' # snapshot PROVE Advances
    OBVIOUS
  <2>1. PICK e \in Exporters : Replace(e)
    BY OnlyReplacePublishes
  <2>2. LastSequence' = LastSequence + 1 /\ snapshot' # Nil
    BY <2>1, ReplacePublishes
  <2> QED BY <2>2 DEF LastSequence
<1> QED BY <1>1, Invariance, PTL DEF Spec, SequenceAdvances

\* No section goes back to older records from one snapshot to the next, and
\* within one the sections are in the order they were queried in.
THEOREM RecordsNeverGoBack == Spec => RecordsAdvance
<1> DEFINE Advance ==
             snapshot' # snapshot =>
                LET See(f) == {i \in Section : f # Nil /\ f.records[i].kind # "none"}
                IN /\ \A i \in See(snapshot), j \in See(snapshot') :
                         snapshot.records[i].version <= snapshot'.records[j].version
                   /\ \A i, j \in See(snapshot') : i < j =>
                         snapshot'.records[i].version <= snapshot'.records[j].version
<1>1. IInv /\ [Next]_vars => [Advance]_vars
  <2> SUFFICES ASSUME IInv, [Next]_vars, snapshot' # snapshot PROVE Advance
    OBVIOUS
  <2>1. PICK e \in Exporters : Replace(e)
    BY OnlyReplacePublishes
  <2>2. Ahead(e) /\ InProgress(e) /\ snapshot' = draft[e]
    BY <2>1, ReplacePublishes DEF IInv, Exporter
  <2> QED BY <2>2 DEF Ahead, Shown, Filled
<1> QED BY <1>1, Invariance, PTL DEF Spec, RecordsAdvance
=============================================================================
