---- MODULE SnapshotBuild ----
(* The builder of the all-A-share snapshot (all_a_share_snapshot/snapshot.py):*)
(* one partition file after the other is taken over from the manifest of the  *)
(* previous build or fetched, and the manifest is written when the build ends,*)
(* validated, and written again when the validation disagrees.  A required    *)
(* call that fails ends the build, an optional one does not; retries are part *)
(* of a call.  A file is known by its content, which is what its hash tells.  *)
EXTENDS Naturals, Sequences, FiniteSets, SequencesExt,
        FiniteSetTheorems, SequenceTheorems, TLAPS

CONSTANTS StockOrder,      \* the codes of stock_basic, sorted
          ListedOn,        \* per code, the session it is listed on
          Historic,        \* codes a provider may use that stock_basic does not have
          Alias,           \* per such code, the code it is one of, or Nil
          Sessions,        \* the official sessions, numbered from 1
          Ends,            \* the last sessions a build may be asked for
          ShardSize,
          Responses(_, _), \* per dataset and session, what the provider may answer
          MaxBuilds, MaxFaults,   \* bounds: builds; failing calls and damaged files
          Crashes,         \* a build may end anywhere
          Nil, Damaged     \* no file, the content of a file that was damaged

Stocks == ToSet(StockOrder)
CodesAssumption ==
    /\ StockOrder \in Seq(Stocks) /\ IsInjective(StockOrder)
    /\ Stocks \cap Historic = {}
SessionsAssumption ==
    /\ Sessions \subseteq Nat \ {0} /\ \A d \in Sessions : 1..d \subseteq Sessions
    /\ Ends \subseteq Sessions /\ Ends # {}
    /\ ListedOn \in [Stocks -> Sessions] /\ Alias \in [Historic -> Stocks \cup {Nil}]
    /\ ShardSize \in Nat \ {0}
ResponsesAssumption ==
    \A x \in {"daily", "adj", "limits"}, d \in Sessions :
       Responses(x, d) \subseteq SUBSET (Stocks \cup Historic)
BuildAssumption == CodesAssumption /\ SessionsAssumption /\ ResponsesAssumption

VARIABLES disk,       \* per partition, its file
          manifest,   \* manifest.json, or Nil
          build,      \* the running or last build
          builds, faults,
          filed,      \* history: intact partitions a manifest has listed
          again       \* history: one, not of the range, was fetched once more

history == <<filed, again>>
vars == <<disk, manifest, build, builds, faults, history>>

-----------------------------------------------------------------------------
(* Partitions. *)

Single == {"stock", "calendar", "benchmark", "names"}
Daily == {"daily", "adj"}
Ids == {<<x, 0>> : x \in Single} \cup (Daily \cup {"limits"}) \X Sessions
           \cup {"shard"} \X (1..Len(StockOrder))

\* The symbols listed by the end of the range, as places of the order, cut
\* into shards.
Planned(end) == {p \in DOMAIN StockOrder : ListedOn[StockOrder[p]] <= end}
ShardCount(end) == (Cardinality(Planned(end)) + ShardSize - 1) \div ShardSize
Shard(end, i) ==
    {StockOrder[p] : p \in {q \in Planned(end) :
        Cardinality({r \in Planned(end) : r < q}) \div ShardSize = i - 1}}

Pit(d) == {c \in Stocks : ListedOn[c] <= d}

\* In the order they are built, for the sessions 1 .. n of the calendar.
DailyId(j) == <<IF j % 2 = 1 THEN "daily" ELSE "adj", (j + 1) \div 2>>
Plan(n, end) ==
    <<<<"stock", 0>>, <<"calendar", 0>>>> \o [j \in 1..(2 * n) |-> DailyId(j)]
    \o <<<<"benchmark", 0>>>> \o [d \in 1..n |-> <<"limits", d>>]
    \o [i \in 1..ShardCount(end) |-> <<"shard", i>>] \o <<<<"names", 0>>>>

-----------------------------------------------------------------------------
(* Manifests. *)

Base(end, resolutions) ==
    [status |-> "building", end |-> end, parts |-> <<>>, absent |-> {}, failed |-> FALSE,
     sessions |-> 0, limits |-> "not_requested", names |-> "not_requested",
     resolutions |-> resolutions]

NoBuild == [k |-> 0, old |-> <<>>, m |-> Base(0, <<>>), limitsFailed |-> FALSE, clean |-> TRUE,
            phase |-> "idle"]

Init ==
    /\ disk = [id \in Ids |-> Nil] /\ manifest = Nil /\ build = NoBuild
    /\ builds = 0 /\ faults = 0 /\ filed = {} /\ again = FALSE

M == build.m
Id == Plan(M.sessions, M.end)[build.k]

\* The partitions and one more, which takes the place of an earlier entry.
Entry(parts, id, content, absent) ==
    [x \in DOMAIN parts \cup {id} |->
        IF x = id THEN [content |-> content, absent |-> absent] ELSE parts[x]]

\* _store of a partition, and on to the next.
Stored(b, id, content, absent) ==
    [b EXCEPT !.k = @ + 1, !.m.parts = Entry(@, id, content, absent),
              !.m.sessions = IF id[1] = "calendar" THEN Cardinality(content) ELSE @]

\* What a partition taken over must cover besides being intact.
Covers(id, content) ==
    CASE id[1] = "calendar" -> 1..M.end \subseteq content
      [] id[1] = "benchmark" -> 1..M.sessions \subseteq content
      [] OTHER -> TRUE

\* Mutant: the file is not compared with its hash.
IntactPath(id) == id \in DOMAIN build.old /\ disk[id] # Nil

\* _partition_valid.
Intact(id) == id \in DOMAIN build.old /\ disk[id] = build.old[id].content

-----------------------------------------------------------------------------
(* A build. *)

Running == build.phase = "parts"

Start(end) ==
    /\ build.phase = "idle" /\ builds < MaxBuilds
    /\ builds' = builds + 1
    /\ build' = [NoBuild EXCEPT !.k = 1, !.phase = "parts",
                    !.m = Base(end, IF manifest = Nil THEN <<>> ELSE manifest.resolutions),
                    !.old = IF manifest = Nil THEN <<>> ELSE manifest.parts]
    /\ UNCHANGED <<disk, manifest, faults, history>>

TakeOver ==
    /\ Running /\ Id[1] # "names"
    /\ Intact(Id) /\ Covers(Id, disk[Id])
    /\ build' = Stored(build, Id, build.old[Id].content, build.old[Id].absent)
    /\ UNCHANGED <<disk, manifest, builds, faults, history>>

Needed == Running /\ Id[1] # "names" /\ ~ (Intact(Id) /\ Covers(Id, disk[Id]))

\* The file is written and the partition entered.
Filed(b, content) ==
    /\ build' = b
    /\ disk' = [disk EXCEPT ![Id] = content]
    /\ again' = (again \/ (Id \in filed /\ Id[1] \notin {"calendar", "benchmark"}))
    /\ UNCHANGED <<manifest, builds, filed>>

FetchMaster ==
    /\ Needed /\ Id[1] \in {"stock", "calendar", "benchmark"}
    /\ LET content == CASE Id[1] = "stock" -> Stocks
                        [] Id[1] = "calendar" -> 1..M.end
                        [] OTHER -> 1..M.sessions
       IN Filed(Stored(build, Id, content, {}), content)
    /\ UNCHANGED faults

\* _filter_equity_universe: the listed, and the aliases of the listed.
Kept(d, rows, resolved) ==
    {c \in rows : c \in Pit(d) \/ (c \in DOMAIN resolved /\ resolved[c] \in Pit(d))}

\* _resolve_historical_code: a code is looked up once; "error" is an answer too.
Lookups(rows) ==
    LET new == (rows \ Stocks) \ DOMAIN M.resolutions
    IN {f \in [new -> Stocks \cup {Nil, "error"}] :
          /\ \A c \in new : f[c] \in {Alias[c], "error"}
          /\ Cardinality({c \in new : f[c] = "error"}) <= MaxFaults - faults}

\* The rows of a session that are kept are filed; no row at all raises.
Answered(rows, found) ==
    LET resolved == [c \in DOMAIN found \cup DOMAIN M.resolutions |->
                        IF c \in DOMAIN found THEN found[c] ELSE M.resolutions[c]]
        kept == Kept(Id[2], rows, resolved)
        absent == IF Id[1] = "daily" THEN rows \ (kept \cup Stocks) ELSE {}
        erred == {c \in DOMAIN found : found[c] = "error"}
        known == [build EXCEPT !.m.resolutions = resolved, !.m.failed = @ \/ absent # {},
                               !.clean = @ /\ erred = {}]
    IN /\ faults' = faults + Cardinality(erred)
       /\ IF kept = {}
          THEN /\ build' = [known EXCEPT !.phase = "ending", !.m.failed = TRUE]
               /\ UNCHANGED <<disk, manifest, builds, history>>
          ELSE Filed(Stored(known, Id, kept, absent), kept)

FetchDaily ==
    /\ Needed /\ Id[1] \in Daily
    /\ \E rows \in Responses(Id[1], Id[2]) :
       \E found \in IF Id[1] = "daily" THEN Lookups(rows) ELSE {<<>>} : Answered(rows, found)

FetchOptional ==
    /\ Needed /\ Id[1] \in {"limits", "shard"}
    /\ \E rows \in IF Id[1] = "limits" THEN Responses("limits", Id[2]) ELSE {Shard(M.end, Id[2])} :
          LET content == IF Id[1] = "limits" THEN Kept(Id[2], rows, M.resolutions) ELSE rows
          IN Filed(Stored(build, Id, content, {}), content)
    /\ UNCHANGED faults

\* A call fails after its retries.
FetchFails ==
    /\ Needed /\ faults < MaxFaults
    /\ faults' = faults + 1
    /\ build' = IF Id[1] \in {"limits", "shard"}
                THEN [build EXCEPT !.k = @ + 1, !.clean = FALSE,
                                   !.limitsFailed = @ \/ Id[1] = "limits"]
                ELSE [build EXCEPT !.phase = "ending", !.clean = FALSE, !.m.failed = TRUE]
    /\ UNCHANGED <<disk, manifest, builds, history>>

Capability(complete, some) ==
    IF complete THEN "available" ELSE IF some THEN "incomplete" ELSE "unavailable"

\* The combined table is made of the shards' files, when they are all there.
Combine ==
    /\ Running /\ Id[1] = "names"
    /\ LET parts == DOMAIN M.parts
           shards == {i \in 1..ShardCount(M.end) : <<"shard", i>> \in parts}
           limits == {d \in 1..M.sessions : <<"limits", d>> \in parts}
           whole == shards = 1..ShardCount(M.end)
           content == UNION {disk[<<"shard", i>>] : i \in shards}
           m == [M EXCEPT !.names = Capability(whole, shards # {}),
                          !.limits = Capability(limits = 1..M.sessions /\ ~ build.limitsFailed,
                                                limits # {})]
       IN /\ build' = [build EXCEPT !.phase = "ending", !.m = m,
                          !.m.parts = IF whole THEN Entry(@, Id, content, {}) ELSE @]
          /\ disk' = IF whole THEN [disk EXCEPT ![Id] = content] ELSE disk
    /\ UNCHANGED <<manifest, builds, faults, history>>

-----------------------------------------------------------------------------
(* validate_snapshot of a manifest and the files. *)

Table(m, id) == IF id \in DOMAIN m.parts /\ disk[id] \notin {Nil, Damaged} THEN disk[id] ELSE {}
CalendarOf(m) == Table(m, <<"calendar", 0>>)

\* Errors of the required datasets.
RequiredErrors(m) ==
    \/ \E id \in DOMAIN m.parts : id[1] \in Daily \cup (Single \ {"names"})
                                  /\ disk[id] # m.parts[id].content
    \/ \E x \in Single \ {"names"} : <<x, 0>> \notin DOMAIN m.parts
    \/ \E x \in Daily, d \in CalendarOf(m) : <<x, d>> \notin DOMAIN m.parts
    \/ CalendarOf(m) # 1..m.sessions \/ ~ CalendarOf(m) \subseteq 1..m.end
    \/ ~ 1..m.end \subseteq CalendarOf(m)
    \/ ~ CalendarOf(m) \subseteq Table(m, <<"benchmark", 0>>)
    \/ \E d \in CalendarOf(m) : ~ Table(m, <<"daily", d>>) \subseteq Table(m, <<"adj", d>>)
    \/ \E d \in CalendarOf(m), c \in Historic :
          c \in Table(m, <<"daily", d>>)
          /\ ~ (c \in DOMAIN m.resolutions /\ m.resolutions[c] \in Pit(d))
    \/ \E id \in DOMAIN m.parts : m.parts[id].absent # {}

LimitsErrors(m) ==
    /\ m.limits = "available"
    /\ \/ \E id \in DOMAIN m.parts : id[1] = "limits" /\ disk[id] # m.parts[id].content
       \/ \E d \in CalendarOf(m) : \/ <<"limits", d>> \notin DOMAIN m.parts
                                   \/ ~ Table(m, <<"daily", d>>) \subseteq Table(m, <<"limits", d>>)

NamesErrors(m) ==
    LET shards == {id \in DOMAIN m.parts : id[1] = "shard"}
    IN /\ m.names = "available"
       /\ \/ \E id \in shards \cup {<<"names", 0>>} : disk[id] # m.parts[id].content
          \/ Cardinality(shards) # ShardCount(m.end)
          \/ Table(m, <<"names", 0>>) # UNION {Table(m, id) : id \in shards}

ValidManifest(m) ==
    /\ ~ RequiredErrors(m) /\ ~ LimitsErrors(m) /\ ~ NamesErrors(m)
    /\ ~ (m.status = "completed" /\ m.failed)

-----------------------------------------------------------------------------
(* The end of a build. *)

Listed(m) == {id \in DOMAIN m.parts : disk[id] = m.parts[id].content}

WriteManifest ==
    /\ build.phase = "ending"
    /\ LET m == [M EXCEPT !.status = IF M.failed THEN "incomplete" ELSE "completed"]
       IN /\ manifest' = m
          /\ build' = [build EXCEPT !.m = m, !.phase = "written"]
          /\ filed' = filed \cup Listed(m)
    /\ UNCHANGED <<disk, builds, faults, again>>

\* What a completed manifest becomes that does not validate.
Revised(m) ==
    LET downgraded == [m EXCEPT !.limits = IF LimitsErrors(m) THEN "incomplete" ELSE @,
                                !.names = IF NamesErrors(m) THEN "incomplete" ELSE @]
    IN IF m.status # "completed" \/ ValidManifest(m) THEN m
       ELSE IF LimitsErrors(m) \/ NamesErrors(m) THEN downgraded
       ELSE [m EXCEPT !.failed = TRUE, !.status = "incomplete"]

Validate ==
    /\ build.phase = "written"
    /\ manifest' = Revised(M)
    /\ build' = [build EXCEPT !.m = Revised(M), !.phase = "idle"]
    /\ UNCHANGED <<disk, builds, faults, history>>

Crash ==
    /\ Crashes /\ build.phase # "idle"
    /\ build' = NoBuild
    /\ UNCHANGED <<disk, manifest, builds, faults, history>>

\* Between builds a file is damaged.
Damage ==
    /\ build.phase = "idle" /\ faults < MaxFaults
    /\ \E id \in Ids : /\ disk[id] \notin {Nil, Damaged}
                       /\ disk' = [disk EXCEPT ![id] = Damaged]
                       /\ filed' = filed \ {id}
    /\ faults' = faults + 1
    /\ build' = NoBuild
    /\ UNCHANGED <<manifest, builds, again>>

Next == \/ \E end \in Ends : Start(end)
        \/ TakeOver \/ FetchMaster \/ FetchDaily \/ FetchOptional \/ FetchFails \/ Combine
        \/ WriteManifest \/ Validate \/ Crash \/ Damage

Spec == Init /\ [][Next]_vars

-----------------------------------------------------------------------------
(* Properties. *)

TypeOK ==
    /\ \A id \in Ids : \/ disk[id] \in {Nil, Damaged}
                       \/ disk[id] \subseteq IF id[1] \in {"calendar", "benchmark"} THEN Sessions
                                             ELSE Stocks \cup Historic
    /\ \A m \in {manifest, M} \ {Nil} :
          /\ m.status \in {"building", "completed", "incomplete"}
          /\ DOMAIN m.parts \subseteq Ids /\ m.sessions \in Sessions \cup {0}
          /\ m.resolutions \in UNION {[S -> Stocks \cup {Nil, "error"}] : S \in SUBSET Historic}
          /\ {m.limits, m.names} \subseteq
                {"not_requested", "available", "incomplete", "unavailable"}
    /\ build.phase \in {"idle", "parts", "ending", "written"}
    /\ Running => build.k \in DOMAIN Plan(M.sessions, M.end)

Finished == build.phase = "idle" /\ build.k > 0

\* Whatever its history of crashes, damaged files and wider requests, the
\* daily rows of a finished build are of stocks listed that day or of codes
\* whose resolution the same manifest records (partitions are taken over
\* from builds that resolved them).
RowsAreExplained ==
    Finished => \A id \in DOMAIN M.parts : id[1] \in Daily =>
        \A c \in M.parts[id].content :
           c \in Pit(id[2]) \/ (c \in DOMAIN M.resolutions /\ M.resolutions[c] \in Pit(id[2]))

\* A build that reports completed has the rows of every session it was asked
\* for, on disk as its manifest lists them.
CompletedCovers ==
    Finished /\ M.status = "completed" =>
        \A d \in 1..M.end, x \in Daily :
           <<x, d>> \in DOMAIN M.parts /\ disk[<<x, d>>] = M.parts[<<x, d>>].content

\* A build during which no call failed completes, whatever earlier builds
\* left behind, as long as none asked for more sessions (a resume repairs) and
\* no answer has a code to look up (a failed look-up is not tried again).
CleanBuildCompletes ==
    Finished /\ build.clean /\ M.sessions <= M.end => M.status = "completed"

-----------------------------------------------------------------------------
(* Theorems: for any codes, sessions, shards and answers, and any number of   *)
(* builds, failures, damaged files and crashes.                               *)

\* What a partition's file may hold.
Values(id) ==
    IF id[1] \in {"calendar", "benchmark"} THEN Sessions ELSE Stocks \cup Historic

\* A row that the resolutions explain.
Explained(c, d, resolutions) ==
    c \in Pit(d) \/ (c \in DOMAIN resolutions /\ resolutions[c] \in Pit(d))

\* Partitions as a manifest lists them: typed, the daily rows explained, and
\* the calendar a prefix of the sessions.
PartsSound(parts, resolutions) ==
    /\ DOMAIN parts \subseteq Ids
    /\ \A id \in DOMAIN parts : parts[id].content \subseteq Values(id)
    /\ \A id \in DOMAIN parts : id[1] \in Daily =>
          \A c \in parts[id].content : Explained(c, id[2], resolutions)
    /\ <<"calendar", 0>> \in DOMAIN parts =>
          \E e \in Sessions : parts[<<"calendar", 0>>].content = 1..e

Resolutions == UNION {[S -> Stocks \cup {Nil, "error"}] : S \in SUBSET Historic}

ManifestSound(m) ==
    /\ m = [status |-> m.status, end |-> m.end, parts |-> m.parts, absent |-> m.absent,
            failed |-> m.failed, sessions |-> m.sessions, limits |-> m.limits,
            names |-> m.names, resolutions |-> m.resolutions]
    /\ m.status \in {"building", "completed", "incomplete"}
    /\ m.sessions \in Sessions \cup {0}
    /\ m.resolutions \in Resolutions
    /\ {m.limits, m.names} \subseteq {"not_requested", "available", "incomplete", "unavailable"}
    /\ PartsSound(m.parts, m.resolutions)

\* The running build: the partitions taken over are explained by the
\* resolutions it has, and what it lists is on disk.
BuildSound ==
    /\ build = [k |-> build.k, old |-> build.old, m |-> build.m,
                limitsFailed |-> build.limitsFailed, clean |-> build.clean,
                phase |-> build.phase]
    /\ build.phase \in {"idle", "parts", "ending", "written"}
    /\ ManifestSound(M)
    /\ PartsSound(build.old, M.resolutions)
    /\ \A id \in DOMAIN M.parts : disk[id] = M.parts[id].content

\* Where it stands in the plan: the daily partitions before are listed.
PlaceSound ==
    Running =>
        /\ M.end \in Ends /\ M.status = "building"
        /\ build.k \in 1..Len(Plan(M.sessions, M.end))
        /\ IF build.k <= 2 THEN M.sessions = 0 ELSE M.end <= M.sessions
        /\ \A j \in 1..(2 * M.sessions) : 2 + j < build.k => DailyId(j) \in DOMAIN M.parts

DailyListed == \A d \in 1..M.end, x \in Daily : <<x, d>> \in DOMAIN M.parts

\* A build that got to its end without a failure lists what it was asked for.
EndSound ==
    /\ build.phase = "ending" => M.status = "building" /\ (M.failed \/ DailyListed)
    /\ M.status = "completed" => DailyListed

DiskSound ==
    /\ disk = [id \in Ids |-> disk[id]]
    /\ \A id \in Ids : disk[id] \in {Nil, Damaged} \/ disk[id] \subseteq Values(id)

IInv ==
    /\ DiskSound /\ (manifest # Nil => ManifestSound(manifest))
    /\ BuildSound /\ PlaceSound /\ EndSound

\* The daily partitions of n sessions are the places 1 .. 2n of their list.
LEMMA DailyIds ==
    ASSUME NEW n \in Nat
    PROVE  /\ \A j \in 1..(2 * n) : DailyId(j) \in Daily \X (1..n)
           /\ \A d \in 1..n, x \in Daily : \E j \in 1..(2 * n) : DailyId(j) = <<x, d>>
<1>1. \A j \in 1..(2 * n) : (j + 1) \div 2 \in 1..n
  OBVIOUS
<1>2. \A j \in 1..(2 * n) : DailyId(j) \in Daily \X (1..n)
  BY <1>1 DEF DailyId, Daily
<1>3. ASSUME NEW d \in 1..n PROVE \E j \in 1..(2 * n) : DailyId(j) = <<"daily", d>>
  <2>1. 2 * d - 1 \in 1..(2 * n) /\ (2 * d - 1) % 2 = 1 /\ ((2 * d - 1) + 1) \div 2 = d
    OBVIOUS
  <2> QED BY <2>1 DEF DailyId
<1>4. ASSUME NEW d \in 1..n PROVE \E j \in 1..(2 * n) : DailyId(j) = <<"adj", d>>
  <2>1. 2 * d \in 1..(2 * n) /\ (2 * d) % 2 = 0 /\ ((2 * d) + 1) \div 2 = d
    OBVIOUS
  <2> QED BY <2>1 DEF DailyId
<1> QED BY <1>2, <1>3, <1>4 DEF Daily

\* There are no more shards than symbols.
LEMMA ShardsBound ==
    ASSUME BuildAssumption, NEW end \in Ends
    PROVE  ShardCount(end) \in Nat /\ ShardCount(end) <= Len(StockOrder)
<1> DEFINE c == Cardinality(Planned(end))
<1>1. Len(StockOrder) \in Nat /\ DOMAIN StockOrder = 1..Len(StockOrder)
  BY DEF BuildAssumption, CodesAssumption
<1>2. IsFiniteSet(1..Len(StockOrder)) /\ Cardinality(1..Len(StockOrder)) = Len(StockOrder)
  <2>1. /\ IsFiniteSet(1..Len(StockOrder))
        /\ Cardinality(1..Len(StockOrder)) =
             IF 1 > Len(StockOrder) THEN 0 ELSE Len(StockOrder) - 1 + 1
    BY <1>1, FS_Interval, 1 \in Int, Len(StockOrder) \in Int
  <2> QED BY <1>1, <2>1
<1>3. Planned(end) \in SUBSET (1..Len(StockOrder))
  BY <1>1 DEF Planned
<1>4. c \in Nat /\ c <= Len(StockOrder)
  BY <1>2, <1>3, FS_Subset, FS_CardinalityType
<1>5. ShardSize \in Nat \ {0}
  BY DEF BuildAssumption, SessionsAssumption
<1> HIDE DEF c
<1>6. (c + ShardSize - 1) \div ShardSize \in Nat /\ (c + ShardSize - 1) \div ShardSize <= c
  BY <1>4, <1>5
<1> QED BY <1>1, <1>4, <1>6 DEF ShardCount, c

\* The plan: what is at its places.
LEMMA PlanFacts ==
    ASSUME BuildAssumption, NEW n \in Sessions \cup {0}, NEW end \in Ends
    PROVE  /\ n \in Nat /\ Plan(n, end) \in Seq(Ids)
           /\ Len(Plan(n, end)) \in Nat /\ Len(Plan(n, end)) >= 4 + 2 * n
           /\ Plan(n, end)[1] = <<"stock", 0>> /\ Plan(n, end)[2] = <<"calendar", 0>>
           /\ \A j \in 1..(2 * n) : Plan(n, end)[2 + j] = DailyId(j)
           /\ Plan(n, end)[3 + 2 * n] = <<"benchmark", 0>>
           /\ \A i \in (4 + 2 * n)..(Len(Plan(n, end)) - 1) :
                 Plan(n, end)[i][1] \in {"limits", "shard"}
           /\ Plan(n, end)[Len(Plan(n, end))] = <<"names", 0>>
<1> DEFINE s1 == <<<<"stock", 0>>, <<"calendar", 0>>>>
           s2 == [j \in 1..(2 * n) |-> DailyId(j)]
           s3 == <<<<"benchmark", 0>>>>
           s4 == [d \in 1..n |-> <<"limits", d>>]
           s5 == [i \in 1..ShardCount(end) |-> <<"shard", i>>]
           s6 == <<<<"names", 0>>>>
<1>1. n \in Nat /\ 1..n \subseteq Sessions
  BY DEF BuildAssumption, SessionsAssumption
<1>2. ShardCount(end) \in Nat /\ 1..ShardCount(end) \subseteq 1..Len(StockOrder)
  BY ShardsBound DEF BuildAssumption, CodesAssumption
<1>3. s1 \in Seq(Ids) /\ Len(s1) = 2 /\ s1[1] = <<"stock", 0>> /\ s1[2] = <<"calendar", 0>>
  BY DEF Ids, Single
<1>4. s3 \in Seq(Ids) /\ Len(s3) = 1 /\ s3[1] = <<"benchmark", 0>>
  BY DEF Ids, Single
<1>5. s6 \in Seq(Ids) /\ Len(s6) = 1 /\ s6[1] = <<"names", 0>>
  BY DEF Ids, Single
<1>6. s2 \in Seq(Ids) /\ Len(s2) = 2 * n /\ \A j \in 1..(2 * n) : s2[j] = DailyId(j)
  <2>1. \A j \in 1..(2 * n) : DailyId(j) \in Ids
    BY <1>1, DailyIds DEF Ids
  <2> QED BY <1>1, <2>1
<1>7. s4 \in Seq(Ids) /\ Len(s4) = n /\ \A d \in 1..n : s4[d] = <<"limits", d>>
  <2>1. \A d \in 1..n : <<"limits", d>> \in Ids
    BY <1>1 DEF Ids
  <2> QED BY <1>1, <2>1
<1>8. s5 \in Seq(Ids) /\ Len(s5) = ShardCount(end)
      /\ \A i \in 1..ShardCount(end) : s5[i] = <<"shard", i>>
  <2>1. \A i \in 1..ShardCount(end) : <<"shard", i>> \in Ids
    BY <1>2 DEF Ids
  <2> QED BY <1>2, <2>1
<1>9. Plan(n, end) = ((((s1 \o s2) \o s3) \o s4) \o s5) \o s6
  BY DEF Plan
<1> HIDE DEF s1, s2, s3, s4, s5, s6
<1> DEFINE a == s1 \o s2
           b == a \o s3
           c == b \o s4
           d == c \o s5
           p == d \o s6
<1>10. a \in Seq(Ids) /\ Len(a) = 2 + 2 * n
       /\ \A i \in 1..(2 + 2 * n) : a[i] = IF i <= 2 THEN s1[i] ELSE s2[i - 2]
  <2> s1 \in Seq(Ids) /\ s2 \in Seq(Ids)
    BY <1>3, <1>6
  <2>1. /\ a \in Seq(Ids) /\ Len(a) = Len(s1) + Len(s2)
        /\ \A i \in 1..Len(s1) + Len(s2) :
              a[i] = IF i <= Len(s1) THEN s1[i] ELSE s2[i - Len(s1)]
    BY ConcatProperties
  <2> QED BY <1>1, <1>3, <1>6, <2>1
<1> HIDE DEF a
<1>11. b \in Seq(Ids) /\ Len(b) = 3 + 2 * n
       /\ \A i \in 1..(3 + 2 * n) : b[i] = IF i <= 2 + 2 * n THEN a[i] ELSE s3[i - (2 + 2 * n)]
  <2> a \in Seq(Ids) /\ s3 \in Seq(Ids)
    BY <1>10, <1>4
  <2>1. /\ b \in Seq(Ids) /\ Len(b) = Len(a) + Len(s3)
        /\ \A i \in 1..Len(a) + Len(s3) :
              b[i] = IF i <= Len(a) THEN a[i] ELSE s3[i - Len(a)]
    BY ConcatProperties
  <2> QED BY <1>1, <1>10, <1>4, <2>1
<1> HIDE DEF b
<1>12. c \in Seq(Ids) /\ Len(c) = 3 + 2 * n + n
       /\ \A i \in 1..(3 + 2 * n + n) :
             c[i] = IF i <= 3 + 2 * n THEN b[i] ELSE s4[i - (3 + 2 * n)]
  <2> b \in Seq(Ids) /\ s4 \in Seq(Ids)
    BY <1>11, <1>7
  <2>1. /\ c \in Seq(Ids) /\ Len(c) = Len(b) + Len(s4)
        /\ \A i \in 1..Len(b) + Len(s4) :
              c[i] = IF i <= Len(b) THEN b[i] ELSE s4[i - Len(b)]
    BY ConcatProperties
  <2> QED BY <1>1, <1>11, <1>7, <2>1
<1> HIDE DEF c
<1>13. d \in Seq(Ids) /\ Len(d) = 3 + 2 * n + n + ShardCount(end)
       /\ \A i \in 1..(3 + 2 * n + n + ShardCount(end)) :
             d[i] = IF i <= 3 + 2 * n + n THEN c[i] ELSE s5[i - (3 + 2 * n + n)]
  <2> c \in Seq(Ids) /\ s5 \in Seq(Ids)
    BY <1>12, <1>8
  <2>1. /\ d \in Seq(Ids) /\ Len(d) = Len(c) + Len(s5)
        /\ \A i \in 1..Len(c) + Len(s5) :
              d[i] = IF i <= Len(c) THEN c[i] ELSE s5[i - Len(c)]
    BY ConcatProperties
  <2> QED BY <1>1, <1>2, <1>12, <1>8, <2>1
<1> HIDE DEF d
<1>14. p \in Seq(Ids) /\ Len(p) = 4 + 2 * n + n + ShardCount(end)
       /\ \A i \in 1..(4 + 2 * n + n + ShardCount(end)) :
             p[i] = IF i <= 3 + 2 * n + n + ShardCount(end) THEN d[i]
                    ELSE s6[i - (3 + 2 * n + n + ShardCount(end))]
  <2> d \in Seq(Ids) /\ s6 \in Seq(Ids)
    BY <1>13, <1>5
  <2>1. /\ p \in Seq(Ids) /\ Len(p) = Len(d) + Len(s6)
        /\ \A i \in 1..Len(d) + Len(s6) :
              p[i] = IF i <= Len(d) THEN d[i] ELSE s6[i - Len(d)]
    BY ConcatProperties
  <2> QED BY <1>1, <1>2, <1>13, <1>5, <2>1
<1>15. Plan(n, end) = p
  BY <1>9 DEF a, b, c, d, p
<1> HIDE DEF p
<1>16. p[1] = <<"stock", 0>> /\ p[2] = <<"calendar", 0>>
  <2> SUFFICES ASSUME NEW i \in {1, 2} PROVE p[i] = s1[i]
    BY <1>3
  <2>1. i \in 1..(2 + 2 * n) /\ i <= 2 /\ a[i] = s1[i]
    BY <1>1, <1>10
  <2>2. b[i] = a[i]
    BY <1>1, <1>11, <2>1
  <2>3. c[i] = b[i]
    BY <1>1, <1>12, <2>1
  <2>4. d[i] = c[i]
    BY <1>1, <1>2, <1>13, <2>1
  <2>5. p[i] = d[i]
    BY <1>1, <1>2, <1>14, <2>1
  <2> QED BY <2>1, <2>2, <2>3, <2>4, <2>5
<1>17. ASSUME NEW j \in 1..(2 * n) PROVE p[2 + j] = DailyId(j)
  <2>1. 2 + j \in 1..(2 + 2 * n) /\ 2 + j > 2 /\ (2 + j) - 2 = j
    BY <1>1
  <2>2. a[2 + j] = DailyId(j)
    BY <1>1, <1>6, <1>10, <2>1
  <2>3. b[2 + j] = a[2 + j]
    BY <1>1, <1>11, <2>1
  <2>4. c[2 + j] = b[2 + j]
    BY <1>1, <1>12, <2>1
  <2>5. d[2 + j] = c[2 + j]
    BY <1>1, <1>2, <1>13, <2>1
  <2> QED BY <1>1, <1>2, <1>14, <2>1, <2>2, <2>3, <2>4, <2>5
<1>18. ASSUME NEW i \in (4 + 2 * n)..(Len(p) - 1)
       PROVE  p[i][1] \in {"limits", "shard"}
  <2>1. i \in 1..(3 + 2 * n + n + ShardCount(end)) /\ p[i] = d[i]
    BY <1>1, <1>2, <1>14
  <2>2. CASE i > 3 + 2 * n + n
    <3>1. i - (3 + 2 * n + n) \in 1..ShardCount(end)
      BY <1>1, <1>2, <2>1, <2>2
    <3> QED BY <1>1, <1>2, <1>8, <1>13, <2>1, <2>2, <3>1
  <2>3. CASE i \in (4 + 2 * n)..(3 + 2 * n + n)
    <3>1. i - (3 + 2 * n) \in 1..n
      BY <1>1, <2>3
    <3>2. d[i] = c[i]
      BY <1>1, <1>2, <1>13, <2>1, <2>3
    <3> QED BY <1>1, <1>7, <1>12, <2>1, <2>3, <3>1, <3>2
  <2> QED BY <1>1, <1>2, <1>14, <2>2, <2>3
<1>19. p[Len(p)] = <<"names", 0>>
  BY <1>1, <1>2, <1>5, <1>14
<1>20. Len(p) \in Nat /\ Len(p) >= 4 + 2 * n
  BY <1>1, <1>2, <1>14
<1>21. p[3 + 2 * n] = <<"benchmark", 0>>
  <2> DEFINE i == 3 + 2 * n
  <2>1. d[i] = c[i] /\ c[i] = b[i]
    BY <1>1, <1>2, <1>12, <1>13
  <2>2. b[i] = s3[1]
    BY <1>1, <1>11
  <2>3. p[i] = d[i]
    BY <1>1, <1>2, <1>14
  <2> QED BY <1>4, <2>1, <2>2, <2>3
<1> QED BY <1>1, <1>14, <1>15, <1>16, <1>17, <1>18, <1>19, <1>20, <1>21

LEMMA IdFacts ==
    ASSUME NEW id \in Ids
    PROVE  /\ id[1] = "calendar" => id = <<"calendar", 0>>
           /\ id[1] \in Daily \cup {"limits"} => id[2] \in Sessions
BY DEF Ids, Single, Daily

\* An entry is added to the partitions of a manifest.
LEMMA EntryFacts ==
    ASSUME NEW parts, NEW id, NEW content, NEW absent
    PROVE  LET added == Entry(parts, id, content, absent)
           IN /\ DOMAIN added = {id} \cup DOMAIN parts
              /\ added[id].content = content
              /\ \A x \in DOMAIN parts : x # id => added[x] = parts[x]
BY DEF Entry

\* More resolutions explain no less.
LEMMA PartsKeep ==
    ASSUME NEW known, NEW resolved, DOMAIN known \subseteq DOMAIN resolved,
           \A c \in DOMAIN known : resolved[c] = known[c]
    PROVE  \A parts : PartsSound(parts, known) => PartsSound(parts, resolved)
<1>1. \A c, d : Explained(c, d, known) => Explained(c, d, resolved)
  BY DEF Explained
<1> QED BY <1>1 DEF PartsSound

\* A partition that may be listed: of the values of its kind, the rows of a
\* session explained, the calendar a prefix of the sessions.
MayList(id, content, resolutions) ==
    /\ content \subseteq Values(id)
    /\ id[1] \in Daily => \A c \in content : Explained(c, id[2], resolutions)
    /\ id[1] = "calendar" => \E e \in Sessions : content = 1..e

LEMMA PartsAdd ==
    ASSUME NEW parts, NEW resolutions, PartsSound(parts, resolutions),
           NEW id \in Ids, NEW content, NEW absent, MayList(id, content, resolutions)
    PROVE  PartsSound(Entry(parts, id, content, absent), resolutions)
<1> DEFINE added == Entry(parts, id, content, absent)
<1>1. /\ DOMAIN added = {id} \cup DOMAIN parts
      /\ added[id].content = content
      /\ \A x \in DOMAIN parts : x # id => added[x] = parts[x]
  BY DEF Entry
<1> HIDE DEF added
<1>2. DOMAIN added \subseteq Ids
  BY <1>1 DEF PartsSound
<1>3. \A x \in DOMAIN added : added[x].content \subseteq Values(x)
  BY <1>1 DEF PartsSound, MayList
<1>4. \A x \in DOMAIN added : x[1] \in Daily =>
          \A c \in added[x].content : Explained(c, x[2], resolutions)
  BY <1>1 DEF PartsSound, MayList
<1>5. <<"calendar", 0>> \in DOMAIN added =>
          \E e \in Sessions : added[<<"calendar", 0>>].content = 1..e
  BY <1>1 DEF PartsSound, MayList
<1>6. PartsSound(added, resolutions)
  BY <1>2, <1>3, <1>4, <1>5 DEF PartsSound
<1> QED BY <1>6 DEF added

\* What is taken over may be listed.
LEMMA ListedMay ==
    ASSUME NEW parts, NEW resolutions, PartsSound(parts, resolutions), NEW id \in DOMAIN parts
    PROVE  MayList(id, parts[id].content, resolutions)
BY IdFacts DEF PartsSound, MayList

\* Where a running build stands.
LEMMA Place ==
    ASSUME BuildAssumption, IInv, Running
    PROVE  /\ Id \in Ids /\ M.end \in Ends /\ M.sessions \in Nat
           /\ build.k \in Nat /\ build.k >= 1
           /\ build.k = 1 => Id = <<"stock", 0>>
           /\ build.k = 2 => Id = <<"calendar", 0>>
           /\ build.k > 2 /\ build.k <= 2 + 2 * M.sessions =>
                 /\ Id = DailyId(build.k - 2) /\ Id[1] \in Daily
           /\ build.k > 2 + 2 * M.sessions =>
                 Id[1] \in {"benchmark", "limits", "shard", "names"}
           /\ build.k > 2 /\ build.k = 3 + 2 * M.sessions => Id = <<"benchmark", 0>>
           /\ build.k > 3 + 2 * M.sessions => Id[1] \in {"limits", "shard", "names"}
           /\ Id[1] # "names" => build.k + 1 <= Len(Plan(M.sessions, M.end))
           /\ Id[1] = "names" => build.k > 3 + 2 * M.sessions /\ build.k > 2
<1> DEFINE p == Plan(M.sessions, M.end)
           n == M.sessions
<1>1. M.sessions \in Sessions \cup {0} /\ M.end \in Ends
  BY DEF IInv, BuildSound, ManifestSound, PlaceSound
<1>2. /\ n \in Nat /\ p \in Seq(Ids)
      /\ Len(p) \in Nat /\ Len(p) >= 4 + 2 * n
      /\ p[1] = <<"stock", 0>> /\ p[2] = <<"calendar", 0>>
      /\ \A j \in 1..(2 * n) : p[2 + j] = DailyId(j)
      /\ p[3 + 2 * n] = <<"benchmark", 0>>
      /\ \A i \in (4 + 2 * n)..(Len(p) - 1) : p[i][1] \in {"limits", "shard"}
      /\ p[Len(p)] = <<"names", 0>>
  BY <1>1, PlanFacts
<1>3. Id = p[build.k] /\ build.k \in 1..Len(p)
  BY DEF Id, IInv, PlaceSound
<1>4. \A j \in 1..(2 * n) : DailyId(j) \in Daily \X (1..n)
  BY <1>2, DailyIds
<1>5. Daily = {"daily", "adj"}
  BY DEF Daily
<1> HIDE DEF p
<1>6. build.k \in Nat /\ build.k >= 1 /\ Id \in Ids /\ n \in Nat
  BY <1>2, <1>3
<1>7. ASSUME build.k > 2, build.k <= 2 + 2 * n
      PROVE  Id = DailyId(build.k - 2) /\ Id[1] \in Daily
  <2>1. build.k - 2 \in 1..(2 * n) /\ 2 + (build.k - 2) = build.k
    BY <1>6, <1>7
  <2> QED BY <1>2, <1>3, <1>4, <2>1
<1>8. ASSUME build.k > 3 + 2 * n, build.k # Len(p)
      PROVE  Id[1] \in {"limits", "shard"}
  <2>1. build.k \in (4 + 2 * n)..(Len(p) - 1)
    BY <1>2, <1>3, <1>8
  <2> QED BY <1>2, <1>3, <2>1
<1>9. ASSUME Id[1] # "names" PROVE build.k # Len(p)
  BY <1>2, <1>3, <1>9
<1>10. ASSUME Id[1] = "names" PROVE build.k > 3 + 2 * n /\ build.k > 2
  <2>1. build.k # 1 /\ build.k # 2 /\ build.k # 3 + 2 * n
    BY <1>2, <1>3, <1>10
  <2>2. ~ (build.k > 2 /\ build.k <= 2 + 2 * n)
    BY <1>5, <1>7, <1>10
  <2> QED BY <1>6, <2>1, <2>2
<1>11. ASSUME build.k > 3 + 2 * n
       PROVE  Id[1] \in {"limits", "shard", "names"}
  BY <1>2, <1>3, <1>8, <1>11
<1>12. build.k > 2 + 2 * n => Id[1] \in {"benchmark", "limits", "shard", "names"}
  <2>1. build.k = 3 + 2 * n => Id = <<"benchmark", 0>>
    BY <1>2, <1>3
  <2> QED BY <1>6, <1>11, <2>1
<1>13. build.k = 3 + 2 * n => Id = <<"benchmark", 0>>
  BY <1>2, <1>3
<1>14. Id[1] # "names" => build.k + 1 <= Len(p)
  BY <1>2, <1>3, <1>9
<1> QED BY <1>1, <1>2, <1>3, <1>6, <1>7, <1>10, <1>11, <1>12, <1>13, <1>14 DEF p

\* The build goes on to the next place with these partitions and resolutions.
Advances(parts, resolutions) ==
    /\ build' = [k |-> build.k + 1, old |-> build.old, m |-> build'.m,
                 limitsFailed |-> build'.limitsFailed, clean |-> build'.clean,
                 phase |-> "parts"]
    /\ M' = [status |-> M.status, end |-> M.end, parts |-> parts, absent |-> M'.absent,
             failed |-> M'.failed, sessions |-> M'.sessions, limits |-> M.limits,
             names |-> M.names, resolutions |-> resolutions]

\* The fields a build has then.
LEMMA AdvancedFields ==
    ASSUME NEW parts, NEW resolutions, Advances(parts, resolutions)
    PROVE  /\ build'.k = build.k + 1 /\ build'.old = build.old /\ build'.phase = "parts"
           /\ M'.status = M.status /\ M'.end = M.end /\ M'.parts = parts
           /\ M'.limits = M.limits /\ M'.names = M.names /\ M'.resolutions = resolutions
<1>1. build'.k = build.k + 1 /\ build'.old = build.old /\ build'.phase = "parts"
  BY DEF Advances
<1>2. /\ M'.status = M.status /\ M'.end = M.end /\ M'.parts = parts
      /\ M'.limits = M.limits /\ M'.names = M.names /\ M'.resolutions = resolutions
  BY DEF Advances
<1> QED BY <1>1, <1>2

\* A build that has advanced with sound partitions that are on disk is sound.
LEMMA AdvancedSound ==
    ASSUME BuildAssumption, IInv, Running, NEW parts, NEW resolutions,
           Advances(parts, resolutions), M'.sessions \in Sessions \cup {0},
           resolutions \in Resolutions,
           PartsSound(parts, resolutions), PartsSound(build.old, resolutions),
           \A id \in DOMAIN parts : disk'[id] = parts[id].content
    PROVE  BuildSound' /\ EndSound'
<1>1. /\ build'.k = build.k + 1 /\ build'.old = build.old /\ build'.phase = "parts"
      /\ M'.status = M.status /\ M'.end = M.end /\ M'.parts = parts
      /\ M'.limits = M.limits /\ M'.names = M.names /\ M'.resolutions = resolutions
  BY AdvancedFields
<1>2. M.status = "building"
  BY DEF IInv, PlaceSound
<1>3. {M.limits, M.names} \subseteq {"not_requested", "available", "incomplete", "unavailable"}
  BY DEF IInv, BuildSound, ManifestSound
<1>4. build' = [k |-> build'.k, old |-> build'.old, m |-> build'.m,
                limitsFailed |-> build'.limitsFailed, clean |-> build'.clean,
                phase |-> build'.phase]
  BY <1>1 DEF Advances
<1>5. M' = [status |-> M'.status, end |-> M'.end, parts |-> M'.parts, absent |-> M'.absent,
            failed |-> M'.failed, sessions |-> M'.sessions, limits |-> M'.limits,
            names |-> M'.names, resolutions |-> M'.resolutions]
  BY <1>1 DEF Advances
<1>6. ManifestSound(M)'
  BY <1>1, <1>2, <1>3, <1>5 DEF ManifestSound
<1>7. PartsSound(build.old, M.resolutions)'
  BY <1>1
<1>8. (\A id \in DOMAIN M.parts : disk[id] = M.parts[id].content)'
  BY <1>1
<1>9. BuildSound'
  BY <1>1, <1>4, <1>6, <1>7, <1>8 DEF BuildSound
<1>10. EndSound'
  BY <1>1, <1>2 DEF EndSound
<1> QED BY <1>9, <1>10

\* A partition is listed, and the build goes on.
LEMMA StoredKeeps ==
    ASSUME BuildAssumption, IInv, Running, Id[1] # "names",
           NEW content, NEW absent, NEW resolutions \in Resolutions,
           Advances(Entry(M.parts, Id, content, absent), resolutions),
           M'.sessions = IF Id[1] = "calendar" THEN Cardinality(content) ELSE M.sessions,
           PartsSound(M.parts, resolutions), PartsSound(build.old, resolutions),
           MayList(Id, content, resolutions),
           Id[1] = "calendar" => 1..M.end \subseteq content,
           disk'[Id] = content, \A x \in Ids : x # Id => disk'[x] = disk[x]
    PROVE  BuildSound' /\ PlaceSound' /\ EndSound'
<1> DEFINE parts == Entry(M.parts, Id, content, absent)
<1>2. /\ Id \in Ids /\ M.end \in Ends /\ M.sessions \in Nat
      /\ build.k \in Nat /\ build.k >= 1
      /\ build.k = 1 => Id = <<"stock", 0>>
      /\ build.k = 2 => Id = <<"calendar", 0>>
      /\ build.k > 2 /\ build.k <= 2 + 2 * M.sessions =>
            /\ Id = DailyId(build.k - 2) /\ Id[1] \in Daily
      /\ build.k > 2 + 2 * M.sessions => Id[1] \in {"benchmark", "limits", "shard", "names"}
      /\ build.k + 1 <= Len(Plan(M.sessions, M.end))
  BY Place
<1>3. /\ DOMAIN parts = {Id} \cup DOMAIN M.parts
      /\ parts[Id].content = content
      /\ \A x \in DOMAIN M.parts : x # Id => parts[x] = M.parts[x]
  BY DEF Entry
<1>4. PartsSound(parts, resolutions)
  BY <1>2, PartsAdd
<1> HIDE DEF parts
<1>5. \A x \in DOMAIN parts : disk'[x] = parts[x].content
  <2>1. DOMAIN M.parts \subseteq Ids /\ \A x \in DOMAIN M.parts : disk[x] = M.parts[x].content
    BY DEF IInv, BuildSound, ManifestSound, PartsSound
  <2> QED BY <1>3, <2>1
<1>6. /\ build'.k = build.k + 1 /\ build'.old = build.old /\ build'.phase = "parts"
      /\ M'.status = M.status /\ M'.end = M.end /\ M'.parts = parts
  BY AdvancedFields DEF parts
<1>7. /\ M.status = "building" /\ Ends \subseteq Sessions /\ Sessions \subseteq Nat \ {0}
      /\ M.sessions \in Sessions \cup {0}
      /\ IF build.k <= 2 THEN M.sessions = 0 ELSE M.end <= M.sessions
      /\ \A j \in 1..(2 * M.sessions) : 2 + j < build.k => DailyId(j) \in DOMAIN M.parts
  BY DEF IInv, PlaceSound, BuildSound, ManifestSound, BuildAssumption, SessionsAssumption
<1>8. CASE build.k = 1
  <2>1. M'.sessions = 0
    BY <1>2, <1>7, <1>8
  <2>2. Len(Plan(0, M.end)) \in Nat /\ Len(Plan(0, M.end)) >= 4
    <3>1. 0 \in Sessions \cup {0} /\ 4 + 2 * 0 = 4
      OBVIOUS
    <3>2. Len(Plan(0, M.end)) \in Nat /\ Len(Plan(0, M.end)) >= 4 + 2 * 0
      BY <1>2, <3>1, PlanFacts
    <3> QED BY <3>1, <3>2
  <2>3. PlaceSound'
    BY <1>2, <1>6, <1>7, <1>8, <2>1, <2>2 DEF PlaceSound
  <2> QED BY <1>4, <1>5, <2>1, <2>3, AdvancedSound DEF parts
<1>9. CASE build.k = 2
  <2>1. PICK e \in Sessions : content = 1..e
    BY <1>2, <1>9 DEF MayList
  <2>2. e \in Nat /\ e >= 1 /\ Cardinality(1..e) = e
    <3>1. e \in Nat /\ e >= 1
      BY <1>7
    <3> QED BY <3>1, FS_Interval, 1 \in Int, e \in Int
  <2>3. M'.sessions = e
    BY <1>2, <1>9, <2>1, <2>2
  <2>4. M.end \in Nat /\ M.end >= 1
    <3>1. M.end \in Sessions
      BY <1>2, <1>7
    <3>2. \A d \in Sessions : d \in Nat /\ d >= 1
      BY <1>7
    <3> QED BY <3>1, <3>2
  <2>5. M.end <= e
    BY <1>2, <1>9, <2>1, <2>2, <2>4
  <2>6. Len(Plan(e, M.end)) \in Nat /\ Len(Plan(e, M.end)) >= 4
    BY <1>2, <2>2, PlanFacts
  <2>7. PlaceSound'
    BY <1>2, <1>6, <1>7, <1>9, <2>2, <2>3, <2>5, <2>6 DEF PlaceSound
  <2> QED BY <1>4, <1>5, <2>3, <2>7, AdvancedSound DEF parts
<1>10. CASE build.k > 2
  <2>1. Id[1] # "calendar" /\ M'.sessions = M.sessions
    BY <1>2, <1>10 DEF Daily
  <2>2. ASSUME NEW j \in 1..(2 * M.sessions), 2 + j < build.k + 1
        PROVE  DailyId(j) \in DOMAIN parts
    <3>1. CASE 2 + j < build.k
      BY <1>3, <1>7, <3>1
    <3>2. CASE 2 + j = build.k
      <4>1. build.k - 2 = j /\ build.k <= 2 + 2 * M.sessions
        BY <1>2, <3>2
      <4> QED BY <1>2, <1>3, <1>10, <4>1
    <3> QED BY <1>2, <2>2, <3>1, <3>2
  <2>3. PlaceSound'
    BY <1>2, <1>6, <1>7, <1>10, <2>1, <2>2 DEF PlaceSound
  <2> QED BY <1>4, <1>5, <1>7, <2>1, <2>3, AdvancedSound DEF parts
<1> QED BY <1>2, <1>8, <1>9, <1>10

\* An optional partition is left out, and the build goes on.
LEMMA SkippedKeeps ==
    ASSUME BuildAssumption, IInv, Running, Id[1] \in {"limits", "shard"},
           Advances(M.parts, M.resolutions), M'.sessions = M.sessions, UNCHANGED disk
    PROVE  BuildSound' /\ PlaceSound' /\ EndSound'
<1>1. /\ M.end \in Ends /\ M.sessions \in Nat /\ build.k \in Nat /\ build.k >= 1
      /\ build.k = 1 => Id = <<"stock", 0>>
      /\ build.k = 2 => Id = <<"calendar", 0>>
      /\ build.k > 2 /\ build.k <= 2 + 2 * M.sessions => Id[1] \in Daily
      /\ build.k + 1 <= Len(Plan(M.sessions, M.end))
  BY Place
<1>2. build.k > 2 + 2 * M.sessions /\ build.k > 2
  BY <1>1 DEF Daily
<1>3. /\ build'.k = build.k + 1 /\ build'.phase = "parts"
      /\ M'.status = M.status /\ M'.end = M.end /\ M'.parts = M.parts
  BY AdvancedFields
<1>4. /\ M.status = "building" /\ M.end <= M.sessions
      /\ \A j \in 1..(2 * M.sessions) : 2 + j < build.k => DailyId(j) \in DOMAIN M.parts
  BY <1>2 DEF IInv, PlaceSound
<1>5. PlaceSound'
  BY <1>1, <1>2, <1>3, <1>4 DEF PlaceSound
<1>6. /\ PartsSound(M.parts, M.resolutions) /\ PartsSound(build.old, M.resolutions)
      /\ M.sessions \in Sessions \cup {0} /\ M.resolutions \in Resolutions
      /\ \A id \in DOMAIN M.parts : disk[id] = M.parts[id].content
  BY DEF IInv, BuildSound, ManifestSound
<1> QED BY <1>5, <1>6, AdvancedSound

\* No build at all.
LEMMA NoBuildFacts ==
    ASSUME BuildAssumption
    PROVE  /\ NoBuild = [k |-> 0, old |-> <<>>, m |-> NoBuild.m,
                         limitsFailed |-> NoBuild.limitsFailed, clean |-> NoBuild.clean,
                         phase |-> "idle"]
           /\ ManifestSound(NoBuild.m) /\ PartsSound(<<>>, <<>>)
           /\ NoBuild.m.status = "building" /\ NoBuild.m.parts = <<>>
           /\ NoBuild.m.resolutions = <<>>
<1> DEFINE m == NoBuild.m
<1>1. m = [status |-> "building", end |-> 0, parts |-> <<>>, absent |-> {}, failed |-> FALSE,
           sessions |-> 0, limits |-> "not_requested", names |-> "not_requested",
           resolutions |-> <<>>]
  BY DEF NoBuild, Base
<1>2. PartsSound(<<>>, <<>>)
  BY DEF PartsSound
<1>3. <<>> \in Resolutions
  <2>1. <<>> = [c \in {} |-> Nil]
    OBVIOUS
  <2>2. [c \in {} |-> Nil] \in [{} -> Stocks \cup {Nil, "error"}]
    OBVIOUS
  <2> QED BY <2>1, <2>2 DEF Resolutions
<1>4. NoBuild = [k |-> 0, old |-> <<>>, m |-> m, limitsFailed |-> NoBuild.limitsFailed,
                 clean |-> NoBuild.clean, phase |-> "idle"]
  BY DEF NoBuild
<1> HIDE DEF m
<1>5. /\ m.status = "building" /\ m.parts = <<>> /\ m.sessions = 0
      /\ m.limits = "not_requested" /\ m.names = "not_requested" /\ m.resolutions = <<>>
  BY <1>1
<1>6. m = [status |-> m.status, end |-> m.end, parts |-> m.parts, absent |-> m.absent,
           failed |-> m.failed, sessions |-> m.sessions, limits |-> m.limits,
           names |-> m.names, resolutions |-> m.resolutions]
  BY <1>1
<1>7. ManifestSound(m)
  BY <1>2, <1>3, <1>5, <1>6 DEF ManifestSound
<1> QED BY <1>2, <1>4, <1>5, <1>7 DEF m

LEMMA InitSound ==
    ASSUME BuildAssumption, Init
    PROVE  IInv
<1>1. build = NoBuild /\ M = NoBuild.m
  BY DEF Init, M
<1>2. build.phase = "idle" /\ build.old = <<>>
  BY <1>1, NoBuildFacts
<1>3. /\ ManifestSound(M) /\ PartsSound(<<>>, <<>>)
      /\ M.status = "building" /\ M.parts = <<>> /\ M.resolutions = <<>>
  BY <1>1, NoBuildFacts
<1>4. BuildSound
  <2>1. build = [k |-> build.k, old |-> build.old, m |-> build.m,
                 limitsFailed |-> build.limitsFailed, clean |-> build.clean,
                 phase |-> build.phase]
    BY <1>1, NoBuildFacts
  <2> QED BY <1>2, <1>3, <2>1 DEF BuildSound
<1>5. PlaceSound /\ EndSound
  BY <1>2, <1>3 DEF PlaceSound, EndSound, Running
<1>6. DiskSound /\ manifest = Nil
  BY DEF DiskSound, Init
<1> QED BY <1>4, <1>5, <1>6 DEF IInv

\* A build that ended without its manifest, or before a damage.
LEMMA NoBuildSound ==
    ASSUME BuildAssumption, build' = NoBuild
    PROVE  BuildSound' /\ PlaceSound' /\ EndSound'
<1>1. M' = NoBuild.m
  BY DEF M
<1>2. build'.phase = "idle" /\ build'.old = <<>>
  BY NoBuildFacts
<1>3. /\ ManifestSound(M)' /\ PartsSound(<<>>, <<>>)
      /\ M'.status = "building" /\ M'.parts = <<>> /\ M'.resolutions = <<>>
  BY <1>1, NoBuildFacts DEF ManifestSound
<1>4. BuildSound'
  <2>1. build' = [k |-> build'.k, old |-> build'.old, m |-> build'.m,
                  limitsFailed |-> build'.limitsFailed, clean |-> build'.clean,
                  phase |-> build'.phase]
    BY NoBuildFacts
  <2> QED BY <1>2, <1>3, <2>1 DEF BuildSound
<1>5. PlaceSound' /\ EndSound'
  BY <1>2, <1>3 DEF PlaceSound, EndSound, Running
<1> QED BY <1>4, <1>5

LEMMA StartKeeps ==
    ASSUME BuildAssumption, IInv, NEW end \in Ends, Start(end)
    PROVE  IInv'
<1> DEFINE old == IF manifest = Nil THEN <<>> ELSE manifest.parts
           known == IF manifest = Nil THEN <<>> ELSE manifest.resolutions
<1>1. /\ build' = [k |-> 1, old |-> old, m |-> Base(end, known), limitsFailed |-> FALSE,
                   clean |-> TRUE, phase |-> "parts"]
      /\ UNCHANGED <<disk, manifest>>
  BY DEF Start, NoBuild
<1>2. PartsSound(old, known) /\ known \in Resolutions
  <2>1. CASE manifest = Nil
    <3>1. PartsSound(<<>>, <<>>)
      BY DEF PartsSound
    <3>2. <<>> = [c \in {} |-> Nil]
      OBVIOUS
    <3>3. [c \in {} |-> Nil] \in [{} -> Stocks \cup {Nil, "error"}]
      OBVIOUS
    <3> QED BY <2>1, <3>1, <3>2, <3>3 DEF Resolutions
  <2>2. CASE manifest # Nil
    BY <2>2 DEF IInv, ManifestSound
  <2> QED BY <2>1, <2>2
<1> HIDE DEF old, known
<1>3. /\ build'.k = 1 /\ build'.old = old /\ build'.phase = "parts"
      /\ M' = [status |-> "building", end |-> end, parts |-> <<>>, absent |-> {},
               failed |-> FALSE, sessions |-> 0, limits |-> "not_requested",
               names |-> "not_requested", resolutions |-> known]
  BY <1>1 DEF Base, M
<1>4. /\ M'.status = "building" /\ M'.end = end /\ M'.parts = <<>> /\ M'.sessions = 0
      /\ M'.limits = "not_requested" /\ M'.names = "not_requested" /\ M'.resolutions = known
  BY <1>3
<1>5. PartsSound(<<>>, known)
  BY DEF PartsSound
<1>6. M' = [status |-> M'.status, end |-> M'.end, parts |-> M'.parts, absent |-> M'.absent,
            failed |-> M'.failed, sessions |-> M'.sessions, limits |-> M'.limits,
            names |-> M'.names, resolutions |-> M'.resolutions]
  BY <1>3
<1>7. ManifestSound(M)'
  BY <1>2, <1>4, <1>5, <1>6 DEF ManifestSound
<1>8. BuildSound'
  BY <1>1, <1>2, <1>3, <1>4, <1>7 DEF BuildSound
<1>9. Len(Plan(0, end)) \in Nat /\ Len(Plan(0, end)) >= 4
  <2>1. 0 \in Sessions \cup {0} /\ 4 + 2 * 0 = 4
    OBVIOUS
  <2>2. Len(Plan(0, end)) \in Nat /\ Len(Plan(0, end)) >= 4 + 2 * 0
    BY <2>1, PlanFacts
  <2> QED BY <2>1, <2>2
<1>10. PlaceSound'
  BY <1>3, <1>4, <1>9 DEF PlaceSound
<1>11. EndSound'
  BY <1>3, <1>4 DEF EndSound
<1>12. DiskSound' /\ (manifest # Nil => ManifestSound(manifest))'
  <2>1. disk' = disk /\ manifest' = manifest
    BY <1>1
  <2> QED BY <2>1 DEF IInv, DiskSound, ManifestSound
<1> QED BY <1>8, <1>10, <1>11, <1>12 DEF IInv

\* What is not a step of the build itself leaves the disk and the manifest.
LEMMA RestKept ==
    ASSUME IInv, UNCHANGED <<disk, manifest>>
    PROVE  DiskSound' /\ (manifest # Nil => ManifestSound(manifest))'
<1>1. disk' = disk /\ manifest' = manifest
  OBVIOUS
<1> QED BY <1>1 DEF IInv, DiskSound, ManifestSound

\* The fields of a build, or of what becomes of it before a partition is listed.
IsBuild(b) ==
    /\ b = [k |-> b.k, old |-> b.old, m |-> b.m, limitsFailed |-> b.limitsFailed,
            clean |-> b.clean, phase |-> b.phase]
    /\ b.m = [status |-> b.m.status, end |-> b.m.end, parts |-> b.m.parts,
              absent |-> b.m.absent, failed |-> b.m.failed, sessions |-> b.m.sessions,
              limits |-> b.m.limits, names |-> b.m.names, resolutions |-> b.m.resolutions]

\* The same build at the same place, but for failures and resolutions.
Alike(b) ==
    /\ IsBuild(b) /\ b.k = build.k /\ b.old = build.old /\ b.phase = "parts"
    /\ b.m.status = M.status /\ b.m.end = M.end /\ b.m.parts = M.parts
    /\ b.m.sessions = M.sessions /\ b.m.limits = M.limits /\ b.m.names = M.names

LEMMA BuildAlike ==
    ASSUME IInv, Running
    PROVE  Alike(build)
BY DEF IInv, BuildSound, ManifestSound, M, Running, Alike, IsBuild

\* Where the build has listed a partition.
LEMMA StoredFields ==
    ASSUME NEW b, Alike(b), NEW id, NEW content, NEW absent,
           build' = Stored(b, id, content, absent)
    PROVE  /\ Advances(Entry(M.parts, id, content, absent), b.m.resolutions)
           /\ M'.sessions = IF id[1] = "calendar" THEN Cardinality(content) ELSE M.sessions
           /\ build'.clean = b.clean /\ M'.failed = b.m.failed
<1> DEFINE parts == Entry(M.parts, id, content, absent)
           n == IF id[1] = "calendar" THEN Cardinality(content) ELSE M.sessions
<1>1. build' = [b EXCEPT !.k = @ + 1, !.m.parts = parts, !.m.sessions = n]
  BY DEF Stored, Alike
<1> HIDE DEF parts, n
<1>2. IsBuild(b) /\ b.phase = "parts"
  BY DEF Alike
<1>3. build'.m = [b.m EXCEPT !.parts = parts, !.sessions = n]
  BY <1>1, <1>2 DEF IsBuild
<1>4. build' = [k |-> b.k + 1, old |-> b.old, m |-> build'.m,
                limitsFailed |-> build'.limitsFailed, clean |-> build'.clean,
                phase |-> "parts"]
  BY <1>1, <1>2 DEF IsBuild
<1>5. /\ build'.m = [status |-> b.m.status, end |-> b.m.end, parts |-> parts,
                     absent |-> build'.m.absent, failed |-> build'.m.failed,
                     sessions |-> build'.m.sessions, limits |-> b.m.limits,
                     names |-> b.m.names, resolutions |-> b.m.resolutions]
      /\ build'.m.sessions = n
  BY <1>2, <1>3 DEF IsBuild
<1>6. Advances(parts, b.m.resolutions)
  BY <1>4, <1>5 DEF Advances, M, Alike
<1>7. build'.clean = b.clean
  BY <1>1, <1>2 DEF IsBuild
<1>8. build'.m.failed = b.m.failed
  BY <1>2, <1>3 DEF IsBuild
<1> QED BY <1>5, <1>6, <1>7, <1>8 DEF M, parts, n

LEMMA TakeOverKeeps ==
    ASSUME BuildAssumption, IInv, TakeOver
    PROVE  IInv'
<1>1. /\ Running /\ Id[1] # "names" /\ Intact(Id) /\ Covers(Id, disk[Id])
      /\ build' = Stored(build, Id, build.old[Id].content, build.old[Id].absent)
      /\ UNCHANGED <<disk, manifest>>
  BY DEF TakeOver
<1>2. Id \in DOMAIN build.old /\ disk[Id] = build.old[Id].content
  BY <1>1 DEF Intact
<1>3. /\ PartsSound(M.parts, M.resolutions) /\ PartsSound(build.old, M.resolutions)
      /\ M.resolutions \in Resolutions
  BY DEF IInv, BuildSound, ManifestSound
<1>4. MayList(Id, build.old[Id].content, M.resolutions)
  BY <1>2, <1>3, ListedMay
<1>5. Id[1] = "calendar" => 1..M.end \subseteq build.old[Id].content
  BY <1>1, <1>2 DEF Covers
<1>6. /\ Advances(Entry(M.parts, Id, build.old[Id].content, build.old[Id].absent),
                   M.resolutions)
      /\ M'.sessions = IF Id[1] = "calendar" THEN Cardinality(build.old[Id].content)
                       ELSE M.sessions
  BY <1>1, StoredFields, BuildAlike DEF M
<1>7. disk'[Id] = build.old[Id].content /\ \A x \in Ids : x # Id => disk'[x] = disk[x]
  BY <1>1, <1>2
<1>8. BuildSound' /\ PlaceSound' /\ EndSound'
  BY <1>1, <1>3, <1>4, <1>5, <1>6, <1>7, StoredKeeps
<1> QED BY <1>1, <1>8, RestKept DEF IInv

\* A partition of values of its kind is written.
LEMMA WrittenSound ==
    ASSUME IInv, NEW id \in Ids, NEW content, content \subseteq Values(id),
           disk' = [disk EXCEPT ![id] = content]
    PROVE  /\ DiskSound' /\ disk'[id] = content
           /\ \A x \in Ids : x # id => disk'[x] = disk[x]
<1>1. /\ disk = [x \in Ids |-> disk[x]]
      /\ \A x \in Ids : disk[x] \in {Nil, Damaged} \/ disk[x] \subseteq Values(x)
  BY DEF IInv, DiskSound
<1>2. /\ disk' = [x \in Ids |-> disk'[x]] /\ disk'[id] = content
      /\ \A x \in Ids : x # id => disk'[x] = disk[x]
  BY <1>1
<1> QED BY <1>1, <1>2 DEF DiskSound

LEMMA FetchMasterKeeps ==
    ASSUME BuildAssumption, IInv, FetchMaster
    PROVE  IInv'
<1> DEFINE content == CASE Id[1] = "stock" -> Stocks
                        [] Id[1] = "calendar" -> 1..M.end
                        [] OTHER -> 1..M.sessions
<1>1. /\ Running /\ Id[1] \in {"stock", "calendar", "benchmark"}
      /\ build' = Stored(build, Id, content, {})
      /\ disk' = [disk EXCEPT ![Id] = content] /\ manifest' = manifest
  BY DEF FetchMaster, Needed, Filed
<1>2. Id \in Ids /\ M.end \in Ends
  BY <1>1, Place
<1>3. /\ PartsSound(M.parts, M.resolutions) /\ PartsSound(build.old, M.resolutions)
      /\ M.resolutions \in Resolutions /\ M.sessions \in Sessions \cup {0}
  BY DEF IInv, BuildSound, ManifestSound
<1>4. /\ M.end \in Sessions /\ 1..M.end \subseteq Sessions /\ 1..M.sessions \subseteq Sessions
  <2>1. \A d \in Sessions : 1..d \subseteq Sessions
    BY DEF BuildAssumption, SessionsAssumption
  <2>2. M.end \in Sessions
    BY <1>2 DEF BuildAssumption, SessionsAssumption
  <2>3. 1..0 = {}
    OBVIOUS
  <2> QED BY <1>3, <2>1, <2>2, <2>3
<1>5. Id[1] \notin Daily
  BY <1>1 DEF Daily
<1>6. content \subseteq Values(Id)
  BY <1>1, <1>4 DEF Values
<1>7. Id[1] = "calendar" => content = 1..M.end
  OBVIOUS
<1> HIDE DEF content
<1>8. MayList(Id, content, M.resolutions)
  BY <1>4, <1>5, <1>6, <1>7 DEF MayList
<1>9. /\ DiskSound' /\ disk'[Id] = content
      /\ \A x \in Ids : x # Id => disk'[x] = disk[x]
  BY <1>1, <1>2, <1>6, WrittenSound
<1>10. /\ Advances(Entry(M.parts, Id, content, {}), M.resolutions)
       /\ M'.sessions = IF Id[1] = "calendar" THEN Cardinality(content) ELSE M.sessions
  BY <1>1, StoredFields, BuildAlike DEF M
<1>11. Id[1] # "names" /\ (Id[1] = "calendar" => 1..M.end \subseteq content)
  BY <1>1, <1>7
<1>12. BuildSound' /\ PlaceSound' /\ EndSound'
  BY <1>1, <1>3, <1>8, <1>9, <1>10, <1>11, StoredKeeps
<1>13. (manifest # Nil => ManifestSound(manifest))'
  BY <1>1 DEF IInv, ManifestSound
<1> QED BY <1>9, <1>12, <1>13 DEF IInv

LEMMA FetchOptionalKeeps ==
    ASSUME BuildAssumption, IInv, FetchOptional
    PROVE  IInv'
<1>1. Running /\ Id[1] \in {"limits", "shard"}
  BY DEF FetchOptional, Needed
<1>2. PICK content :
        /\ content \subseteq Stocks \cup Historic /\ build' = Stored(build, Id, content, {})
        /\ disk' = [disk EXCEPT ![Id] = content] /\ manifest' = manifest
  <2>1. PICK rows \in IF Id[1] = "limits" THEN Responses("limits", Id[2])
                      ELSE {Shard(M.end, Id[2])} :
          LET content == IF Id[1] = "limits" THEN Kept(Id[2], rows, M.resolutions) ELSE rows
          IN /\ build' = Stored(build, Id, content, {})
             /\ disk' = [disk EXCEPT ![Id] = content] /\ manifest' = manifest
    BY DEF FetchOptional, Filed
  <2>2. CASE Id[1] = "limits"
    <3>1. Id[2] \in Sessions
      BY <1>1, <2>2, Place, IdFacts
    <3>2. rows \subseteq Stocks \cup Historic
      BY <2>1, <2>2, <3>1 DEF BuildAssumption, ResponsesAssumption
    <3>3. Kept(Id[2], rows, M.resolutions) \subseteq Stocks \cup Historic
      BY <3>2 DEF Kept
    <3> QED BY <2>1, <2>2, <3>3
  <2>3. CASE Id[1] = "shard"
    <3>1. rows = Shard(M.end, Id[2])
      BY <2>1, <2>3
    <3>2. rows \subseteq Stocks
      <4>1. \A q \in DOMAIN StockOrder : StockOrder[q] \in Stocks
        BY DEF BuildAssumption, CodesAssumption
      <4> QED BY <3>1, <4>1 DEF Shard, Planned
    <3> QED BY <2>1, <2>3, <3>2
  <2> QED BY <1>1, <2>2, <2>3
<1>3. /\ PartsSound(M.parts, M.resolutions) /\ PartsSound(build.old, M.resolutions)
      /\ M.resolutions \in Resolutions
  BY DEF IInv, BuildSound, ManifestSound
<1>4. content \subseteq Values(Id) /\ MayList(Id, content, M.resolutions)
  BY <1>1, <1>2 DEF Values, MayList, Daily
<1>5. Id \in Ids
  BY <1>1, Place
<1>6. /\ DiskSound' /\ disk'[Id] = content
      /\ \A x \in Ids : x # Id => disk'[x] = disk[x]
  BY <1>2, <1>4, <1>5, WrittenSound
<1>7. /\ Advances(Entry(M.parts, Id, content, {}), M.resolutions)
      /\ M'.sessions = IF Id[1] = "calendar" THEN Cardinality(content) ELSE M.sessions
  BY <1>1, <1>2, StoredFields, BuildAlike DEF M
<1>8. Id[1] # "names" /\ Id[1] # "calendar"
  BY <1>1
<1>9. BuildSound' /\ PlaceSound' /\ EndSound'
  BY <1>1, <1>3, <1>4, <1>6, <1>7, <1>8, StoredKeeps
<1>10. (manifest # Nil => ManifestSound(manifest))'
  BY <1>2 DEF IInv, ManifestSound
<1> QED BY <1>6, <1>9, <1>10 DEF IInv

\* The resolutions of a build after the look-ups of a session's rows.
LEMMA ResolvedFacts ==
    ASSUME BuildAssumption, IInv, NEW rows, rows \subseteq Stocks \cup Historic, NEW found,
           found \in Lookups(rows) \/ found = <<>>,
           NEW resolved,
           resolved = [c \in DOMAIN found \cup DOMAIN M.resolutions |->
                         IF c \in DOMAIN found THEN found[c] ELSE M.resolutions[c]]
    PROVE  /\ resolved \in Resolutions
           /\ PartsSound(M.parts, resolved) /\ PartsSound(build.old, resolved)
<1>1. /\ PartsSound(M.parts, M.resolutions) /\ PartsSound(build.old, M.resolutions)
      /\ M.resolutions \in Resolutions
  BY DEF IInv, BuildSound, ManifestSound
<1>2. PICK S \in SUBSET Historic : M.resolutions \in [S -> Stocks \cup {Nil, "error"}]
  BY <1>1 DEF Resolutions
<1>3. PICK T \in SUBSET Historic :
         found \in [T -> Stocks \cup {Nil, "error"}] /\ T \cap S = {}
  <2>1. CASE found = <<>>
    <3>1. <<>> = [c \in {} |-> Nil]
      OBVIOUS
    <3>2. [c \in {} |-> Nil] \in [{} -> Stocks \cup {Nil, "error"}]
      OBVIOUS
    <3>3. {} \in SUBSET Historic /\ {} \cap S = {}
      OBVIOUS
    <3>4. found \in [{} -> Stocks \cup {Nil, "error"}]
      BY <2>1, <3>1, <3>2
    <3> QED BY <3>3, <3>4
  <2>2. CASE found \in Lookups(rows)
    <3> DEFINE T == (rows \ Stocks) \ DOMAIN M.resolutions
    <3>1. found \in [T -> Stocks \cup {Nil, "error"}]
      BY <2>2 DEF Lookups
    <3>2. T \in SUBSET Historic /\ T \cap S = {}
      BY <1>2
    <3> QED BY <3>1, <3>2
  <2> QED BY <2>1, <2>2
<1>4. resolved \in [T \cup S -> Stocks \cup {Nil, "error"}] /\ T \cup S \in SUBSET Historic
  BY <1>2, <1>3
<1>5. resolved \in Resolutions
  BY <1>4 DEF Resolutions
<1>6. /\ DOMAIN M.resolutions \subseteq DOMAIN resolved
      /\ \A c \in DOMAIN M.resolutions : resolved[c] = M.resolutions[c]
  BY <1>2, <1>3
<1>7. \A parts : PartsSound(parts, M.resolutions) => PartsSound(parts, resolved)
  BY <1>6, PartsKeep
<1> QED BY <1>1, <1>5, <1>7

\* The build with other resolutions and failures recorded.
Recorded(resolved, failed, clean) ==
    [build EXCEPT !.m.resolutions = resolved, !.m.failed = failed, !.clean = clean]

LEMMA KnownAlike ==
    ASSUME IInv, Running, NEW resolved, NEW failed, NEW clean
    PROVE  /\ Alike(Recorded(resolved, failed, clean))
           /\ Recorded(resolved, failed, clean).m.resolutions = resolved
           /\ Recorded(resolved, failed, clean).m.failed = failed
           /\ Recorded(resolved, failed, clean).clean = clean
<1> PICK known : known = Recorded(resolved, failed, clean)
  OBVIOUS
<1>1. Alike(build) /\ build.m = M
  BY BuildAlike DEF M
<1>2. IsBuild(build)
  BY <1>1 DEF Alike
<1>3. known.m = [build.m EXCEPT !.resolutions = resolved, !.failed = failed]
  BY <1>2 DEF IsBuild, Recorded
<1>4. known = [k |-> build.k, old |-> build.old, m |-> known.m,
               limitsFailed |-> known.limitsFailed, clean |-> known.clean,
               phase |-> build.phase]
  BY <1>2 DEF IsBuild, Recorded
<1>5. known.m = [status |-> build.m.status, end |-> build.m.end, parts |-> build.m.parts,
                 absent |-> known.m.absent, failed |-> known.m.failed,
                 sessions |-> build.m.sessions, limits |-> build.m.limits,
                 names |-> build.m.names, resolutions |-> resolved]
  BY <1>2, <1>3 DEF IsBuild
<1>6. /\ known.m.status = build.m.status /\ known.m.end = build.m.end
      /\ known.m.parts = build.m.parts /\ known.m.sessions = build.m.sessions
      /\ known.m.limits = build.m.limits /\ known.m.names = build.m.names
      /\ known.m.resolutions = resolved
  BY <1>2, <1>3 DEF IsBuild
<1>7. known.k = build.k /\ known.old = build.old /\ known.phase = build.phase
  BY <1>4
<1>8. IsBuild(known)
  BY <1>4, <1>5, <1>6, <1>7 DEF IsBuild
<1>9. known.m.failed = failed
  BY <1>2, <1>3 DEF IsBuild
<1>10. known.clean = clean
  BY <1>2 DEF IsBuild, Recorded
<1> QED BY <1>1, <1>6, <1>7, <1>8, <1>9, <1>10 DEF Alike

\* A build comes to its end: its partitions stay, or the combined one is added.
LEMMA EndedSound ==
    ASSUME BuildAssumption, IInv, build'.phase = "ending", build'.old = build.old,
           build' = [k |-> build'.k, old |-> build'.old, m |-> build'.m,
                     limitsFailed |-> build'.limitsFailed, clean |-> build'.clean,
                     phase |-> build'.phase],
           M' = [status |-> "building", end |-> M'.end, parts |-> M'.parts,
                 absent |-> M'.absent, failed |-> M'.failed, sessions |-> M.sessions,
                 limits |-> M'.limits, names |-> M'.names, resolutions |-> M'.resolutions],
           {M'.limits, M'.names} \subseteq
              {"not_requested", "available", "incomplete", "unavailable"},
           M'.resolutions \in Resolutions,
           PartsSound(M'.parts, M'.resolutions), PartsSound(build.old, M'.resolutions),
           \A id \in DOMAIN M'.parts : disk'[id] = M'.parts[id].content,
           M'.failed \/ DailyListed'
    PROVE  BuildSound' /\ PlaceSound' /\ EndSound'
<1>1. M'.status = "building" /\ M'.sessions = M.sessions
  OBVIOUS
<1>2. M.sessions \in Sessions \cup {0}
  BY DEF IInv, BuildSound, ManifestSound
<1>3. M' = [status |-> M'.status, end |-> M'.end, parts |-> M'.parts, absent |-> M'.absent,
            failed |-> M'.failed, sessions |-> M'.sessions, limits |-> M'.limits,
            names |-> M'.names, resolutions |-> M'.resolutions]
  BY <1>1
<1>4. ManifestSound(M)'
  BY <1>1, <1>2, <1>3 DEF ManifestSound
<1>5. BuildSound'
  BY <1>4 DEF BuildSound
<1>6. PlaceSound' /\ EndSound'
  BY <1>1 DEF PlaceSound, EndSound, Running
<1> QED BY <1>5, <1>6

LEMMA FetchDailyKeeps ==
    ASSUME BuildAssumption, IInv, FetchDaily
    PROVE  IInv'
<1>1. Running /\ Id[1] \in Daily /\ Id \in Ids /\ Id[1] # "names" /\ Id[1] # "calendar"
  <2>1. Running /\ Id[1] \in Daily
    BY DEF FetchDaily, Needed
  <2> QED BY <2>1, Place DEF Daily
<1>2. PICK rows \in Responses(Id[1], Id[2]) :
         \E found \in IF Id[1] = "daily" THEN Lookups(rows) ELSE {<<>>} : Answered(rows, found)
  BY DEF FetchDaily
<1>3. PICK found \in IF Id[1] = "daily" THEN Lookups(rows) ELSE {<<>>} : Answered(rows, found)
  BY <1>2
<1> DEFINE resolved == [c \in DOMAIN found \cup DOMAIN M.resolutions |->
                          IF c \in DOMAIN found THEN found[c] ELSE M.resolutions[c]]
           kept == Kept(Id[2], rows, resolved)
           absent == IF Id[1] = "daily" THEN rows \ (kept \cup Stocks) ELSE {}
           failed == build.m.failed \/ absent # {}
           clean == build.clean /\ {c \in DOMAIN found : found[c] = "error"} = {}
           known == [build EXCEPT !.m.resolutions = resolved, !.m.failed = failed,
                                  !.clean = clean]
<1>4. IF kept = {} THEN /\ build' = [known EXCEPT !.phase = "ending", !.m.failed = TRUE]
                        /\ UNCHANGED <<disk, manifest>>
                   ELSE Filed(Stored(known, Id, kept, absent), kept)
  BY <1>3 DEF Answered
<1>5. rows \subseteq Stocks \cup Historic
  <2>1. Id[2] \in Sessions /\ Id[1] \in {"daily", "adj", "limits"}
    BY <1>1, IdFacts DEF Daily
  <2> QED BY <2>1 DEF BuildAssumption, ResponsesAssumption
<1>6. /\ resolved \in Resolutions
      /\ PartsSound(M.parts, resolved) /\ PartsSound(build.old, resolved)
  <2>1. found \in Lookups(rows) \/ found = <<>>
    BY <1>3
  <2> QED BY <1>5, <2>1, ResolvedFacts
<1>7. kept \subseteq rows /\ \A c \in kept : Explained(c, Id[2], resolved)
  BY DEF Kept, Explained
<1> HIDE DEF resolved, kept, absent, failed, clean
<1>8. Alike(known) /\ known.m.resolutions = resolved
  <2>1. known = Recorded(resolved, failed, clean)
    BY DEF Recorded
  <2> HIDE DEF known
  <2> QED BY <1>1, <2>1, KnownAlike
<1> HIDE DEF known
<1>9. CASE kept # {}
  <2>1. /\ build' = Stored(known, Id, kept, absent)
        /\ disk' = [disk EXCEPT ![Id] = kept] /\ manifest' = manifest
    BY <1>4, <1>9 DEF Filed
  <2>2. kept \subseteq Values(Id) /\ MayList(Id, kept, resolved)
    BY <1>1, <1>5, <1>7 DEF Values, MayList, Daily
  <2>3. /\ DiskSound' /\ disk'[Id] = kept
        /\ \A x \in Ids : x # Id => disk'[x] = disk[x]
    BY <1>1, <2>1, <2>2, WrittenSound
  <2>4. /\ Advances(Entry(M.parts, Id, kept, absent), resolved)
        /\ M'.sessions = IF Id[1] = "calendar" THEN Cardinality(kept) ELSE M.sessions
    BY <1>8, <2>1, StoredFields
  <2>5. BuildSound' /\ PlaceSound' /\ EndSound'
    BY <1>1, <1>6, <2>2, <2>3, <2>4, StoredKeeps
  <2>6. (manifest # Nil => ManifestSound(manifest))'
    BY <2>1 DEF IInv, ManifestSound
  <2> QED BY <2>3, <2>5, <2>6 DEF IInv
<1>10. CASE kept = {}
  <2>1. /\ build' = [known EXCEPT !.phase = "ending", !.m.failed = TRUE]
        /\ UNCHANGED <<disk, manifest>>
    BY <1>4, <1>10
  <2>2. IsBuild(known) /\ known.old = build.old /\ known.m.parts = M.parts
    BY <1>8 DEF Alike
  <2>3. /\ build'.phase = "ending" /\ build'.old = build.old
        /\ build' = [k |-> build'.k, old |-> build'.old, m |-> build'.m,
                     limitsFailed |-> build'.limitsFailed, clean |-> build'.clean,
                     phase |-> build'.phase]
    BY <2>1, <2>2 DEF IsBuild
  <2>4. build'.m = [known.m EXCEPT !.failed = TRUE]
    BY <2>1, <2>2 DEF IsBuild
  <2>5. /\ M'.end = known.m.end /\ M'.parts = M.parts /\ M'.failed = TRUE
        /\ M'.limits = M.limits /\ M'.names = M.names /\ M'.resolutions = resolved
    BY <1>8, <2>2, <2>4 DEF M, IsBuild, Alike
  <2>6. M' = [status |-> "building", end |-> M'.end, parts |-> M'.parts,
              absent |-> M'.absent, failed |-> M'.failed, sessions |-> M.sessions,
              limits |-> M'.limits, names |-> M'.names, resolutions |-> M'.resolutions]
    <3>1. M.status = "building"
      BY <1>1 DEF IInv, PlaceSound
    <3> QED BY <1>8, <2>2, <2>4, <3>1 DEF M, IsBuild, Alike
  <2>7. /\ {M.limits, M.names} \subseteq
              {"not_requested", "available", "incomplete", "unavailable"}
        /\ \A id \in DOMAIN M.parts : disk[id] = M.parts[id].content
    BY DEF IInv, BuildSound, ManifestSound
  <2>8. /\ {M'.limits, M'.names} \subseteq
              {"not_requested", "available", "incomplete", "unavailable"}
        /\ M'.resolutions \in Resolutions
        /\ PartsSound(M'.parts, M'.resolutions) /\ PartsSound(build.old, M'.resolutions)
        /\ \A id \in DOMAIN M'.parts : disk'[id] = M'.parts[id].content
        /\ (M'.failed \/ DailyListed')
    BY <1>6, <2>1, <2>5, <2>7
  <2>9. BuildSound' /\ PlaceSound' /\ EndSound'
    BY <2>3, <2>6, <2>8, EndedSound
  <2> QED BY <2>1, <2>9, RestKept DEF IInv
<1> QED BY <1>9, <1>10

LEMMA FetchFailsKeeps ==
    ASSUME BuildAssumption, IInv, FetchFails
    PROVE  IInv'
<1>1. Running /\ UNCHANGED <<disk, manifest>>
  BY DEF FetchFails, Needed
<1>2. IsBuild(build) /\ build.phase = "parts" /\ build.m = M /\ M.status = "building"
  BY <1>1, BuildAlike DEF Alike, M, IInv, PlaceSound
<1>3. /\ {M.limits, M.names} \subseteq
            {"not_requested", "available", "incomplete", "unavailable"}
      /\ \A id \in DOMAIN M.parts : disk[id] = M.parts[id].content
      /\ PartsSound(M.parts, M.resolutions) /\ PartsSound(build.old, M.resolutions)
      /\ M.resolutions \in Resolutions
  BY DEF IInv, BuildSound, ManifestSound
<1>4. CASE Id[1] \in {"limits", "shard"}
  <2>1. build' = [build EXCEPT !.k = @ + 1, !.clean = FALSE,
                               !.limitsFailed = @ \/ Id[1] = "limits"]
    BY <1>4 DEF FetchFails
  <2>2. build' = [k |-> build.k + 1, old |-> build.old, m |-> build'.m,
                  limitsFailed |-> build'.limitsFailed, clean |-> build'.clean,
                  phase |-> "parts"]
    BY <1>2, <2>1 DEF IsBuild
  <2>3. build'.m = build.m
    BY <1>2, <2>1 DEF IsBuild
  <2>4. Advances(M.parts, M.resolutions) /\ M'.sessions = M.sessions
    BY <1>2, <2>2, <2>3 DEF Advances, M, IsBuild
  <2> QED BY <1>1, <1>4, <2>4, SkippedKeeps, RestKept DEF IInv
<1>5. CASE Id[1] \notin {"limits", "shard"}
  <2>1. build' = [build EXCEPT !.phase = "ending", !.clean = FALSE, !.m.failed = TRUE]
    BY <1>5 DEF FetchFails
  <2>2. build'.m = [build.m EXCEPT !.failed = TRUE]
    BY <1>2, <2>1 DEF IsBuild
  <2>3. /\ build'.phase = "ending" /\ build'.old = build.old
        /\ build' = [k |-> build'.k, old |-> build'.old, m |-> build'.m,
                     limitsFailed |-> build'.limitsFailed, clean |-> build'.clean,
                     phase |-> build'.phase]
    BY <1>2, <2>1 DEF IsBuild
  <2>4. /\ M'.parts = M.parts /\ M'.failed = TRUE
        /\ M'.limits = M.limits /\ M'.names = M.names /\ M'.resolutions = M.resolutions
    BY <1>2, <2>2 DEF M, IsBuild
  <2>5. M' = [status |-> "building", end |-> M'.end, parts |-> M'.parts,
              absent |-> M'.absent, failed |-> M'.failed, sessions |-> M.sessions,
              limits |-> M'.limits, names |-> M'.names, resolutions |-> M'.resolutions]
    BY <1>2, <2>2 DEF M, IsBuild
  <2>6. /\ {M'.limits, M'.names} \subseteq
              {"not_requested", "available", "incomplete", "unavailable"}
        /\ M'.resolutions \in Resolutions
        /\ PartsSound(M'.parts, M'.resolutions) /\ PartsSound(build.old, M'.resolutions)
        /\ \A id \in DOMAIN M'.parts : disk'[id] = M'.parts[id].content
        /\ (M'.failed \/ DailyListed')
    BY <1>1, <1>3, <2>4
  <2>7. BuildSound' /\ PlaceSound' /\ EndSound'
    BY <2>3, <2>5, <2>6, EndedSound
  <2> QED BY <1>1, <2>7, RestKept DEF IInv
<1> QED BY <1>4, <1>5

\* At the last place every daily partition of the calendar is listed.
LEMMA LastPlace ==
    ASSUME BuildAssumption, IInv, Running, Id[1] = "names"
    PROVE  /\ DailyListed
           /\ \A d \in 1..M.sessions, x \in Daily : <<x, d>> \in DOMAIN M.parts
<1>1. M.sessions \in Nat /\ build.k \in Nat /\ build.k > 3 + 2 * M.sessions /\ build.k > 2
      /\ M.end \in Ends
  BY Place
<1>2. /\ M.end <= M.sessions
      /\ \A j \in 1..(2 * M.sessions) : 2 + j < build.k => DailyId(j) \in DOMAIN M.parts
  <2>1. ~ (build.k <= 2)
    BY <1>1
  <2>2. /\ IF build.k <= 2 THEN M.sessions = 0 ELSE M.end <= M.sessions
        /\ \A j \in 1..(2 * M.sessions) : 2 + j < build.k => DailyId(j) \in DOMAIN M.parts
    BY DEF IInv, PlaceSound
  <2> QED BY <2>1, <2>2
<1>3. M.end \in Nat
  <2>1. \A d \in Ends : d \in Nat
    BY DEF BuildAssumption, SessionsAssumption
  <2> QED BY <1>1, <2>1
<1>4. ASSUME NEW d \in 1..M.sessions, NEW x \in Daily PROVE <<x, d>> \in DOMAIN M.parts
  <2>1. PICK j \in 1..(2 * M.sessions) : DailyId(j) = <<x, d>>
    BY <1>1, DailyIds
  <2>2. 2 + j < build.k
    BY <1>1, <2>1
  <2> QED BY <1>2, <2>1, <2>2
<1>5. \A d \in 1..M.end : d \in 1..M.sessions
  BY <1>1, <1>2, <1>3
<1> QED BY <1>4, <1>5 DEF DailyListed

LEMMA CombineKeeps ==
    ASSUME BuildAssumption, IInv, Combine
    PROVE  IInv'
<1> DEFINE shards == {i \in 1..ShardCount(M.end) : <<"shard", i>> \in DOMAIN M.parts}
           days == {d \in 1..M.sessions : <<"limits", d>> \in DOMAIN M.parts}
           whole == shards = 1..ShardCount(M.end)
           content == UNION {disk[<<"shard", i>>] : i \in shards}
           names == Capability(whole, shards # {})
           limits == Capability(days = 1..M.sessions /\ ~ build.limitsFailed, days # {})
           m == [M EXCEPT !.names = names, !.limits = limits]
           parts == IF whole THEN Entry(M.parts, Id, content, {}) ELSE M.parts
<1>1. /\ Running /\ Id[1] = "names"
      /\ build' = [build EXCEPT !.phase = "ending", !.m = m,
                     !.m.parts = IF whole THEN Entry(@, Id, content, {}) ELSE @]
      /\ disk' = (IF whole THEN [disk EXCEPT ![Id] = content] ELSE disk)
      /\ manifest' = manifest
  BY DEF Combine
<1>2. IsBuild(build) /\ build.phase = "parts" /\ build.m = M /\ M.status = "building"
  BY <1>1, BuildAlike DEF Alike, M, IInv, PlaceSound
<1>3. m.parts = M.parts
  BY <1>2 DEF IsBuild
<1>4. build'.m = [m EXCEPT !.parts = parts]
  BY <1>1, <1>2, <1>3 DEF IsBuild
<1>5. {names, limits} \subseteq {"not_requested", "available", "incomplete", "unavailable"}
  BY DEF Capability
<1>6. /\ \A id \in DOMAIN M.parts : disk[id] = M.parts[id].content
      /\ PartsSound(M.parts, M.resolutions) /\ PartsSound(build.old, M.resolutions)
      /\ M.resolutions \in Resolutions
  BY DEF IInv, BuildSound, ManifestSound
<1>7. Id \in Ids
  BY <1>1, Place
<1>8. content \subseteq Values(Id)
  <2>1. ASSUME NEW i \in shards PROVE disk[<<"shard", i>>] \subseteq Stocks \cup Historic
    <3>1. M.parts[<<"shard", i>>].content \subseteq Values(<<"shard", i>>)
      BY <1>6 DEF PartsSound
    <3> QED BY <1>6, <3>1 DEF Values
  <2> QED BY <1>1, <2>1 DEF Values
<1> HIDE DEF names, limits, whole, content
<1>9. PartsSound(parts, M.resolutions)
  <2>1. MayList(Id, content, M.resolutions)
    BY <1>1, <1>8 DEF MayList, Daily
  <2> QED BY <1>6, <1>7, <2>1, PartsAdd
<1>10. DiskSound'
  BY <1>1, <1>7, <1>8, WrittenSound DEF IInv, DiskSound
<1>11. \A id \in DOMAIN parts : disk'[id] = parts[id].content
  <2>1. CASE whole
    <3>1. /\ disk'[Id] = content /\ \A x \in Ids : x # Id => disk'[x] = disk[x]
      BY <1>1, <1>7, <1>8, <2>1, WrittenSound
    <3> QED BY <1>6, <2>1, <3>1 DEF Entry, PartsSound
  <2>2. CASE ~ whole
    BY <1>1, <1>6, <2>2
  <2> QED BY <2>1, <2>2
<1>12. DailyListed /\ DOMAIN M.parts \subseteq DOMAIN parts
  BY <1>1, LastPlace DEF Entry
<1> HIDE DEF parts
<1>13. /\ build'.phase = "ending" /\ build'.old = build.old
       /\ build' = [k |-> build'.k, old |-> build'.old, m |-> build'.m,
                    limitsFailed |-> build'.limitsFailed, clean |-> build'.clean,
                    phase |-> build'.phase]
  BY <1>1, <1>2 DEF IsBuild
<1>14. /\ M'.parts = parts /\ M'.end = M.end
       /\ M'.limits = limits /\ M'.names = names /\ M'.resolutions = M.resolutions
  BY <1>2, <1>4 DEF M, IsBuild
<1>15. M' = [status |-> "building", end |-> M'.end, parts |-> M'.parts,
             absent |-> M'.absent, failed |-> M'.failed, sessions |-> M.sessions,
             limits |-> M'.limits, names |-> M'.names, resolutions |-> M'.resolutions]
  BY <1>2, <1>4 DEF M, IsBuild
<1>16. DailyListed'
  BY <1>12, <1>14 DEF DailyListed
<1>17. /\ {M'.limits, M'.names} \subseteq
             {"not_requested", "available", "incomplete", "unavailable"}
       /\ M'.resolutions \in Resolutions
       /\ PartsSound(M'.parts, M'.resolutions) /\ PartsSound(build.old, M'.resolutions)
       /\ \A id \in DOMAIN M'.parts : disk'[id] = M'.parts[id].content
       /\ (M'.failed \/ DailyListed')
  BY <1>5, <1>6, <1>9, <1>11, <1>14, <1>16
<1>18. BuildSound' /\ PlaceSound' /\ EndSound'
  BY <1>13, <1>15, <1>17, EndedSound
<1>19. (manifest # Nil => ManifestSound(manifest))'
  BY <1>1 DEF IInv, ManifestSound
<1> QED BY <1>10, <1>18, <1>19 DEF IInv

LEMMA WriteManifestKeeps ==
    ASSUME BuildAssumption, IInv, WriteManifest
    PROVE  IInv'
<1> DEFINE m == [M EXCEPT !.status = IF M.failed THEN "incomplete" ELSE "completed"]
<1>1. /\ build.phase = "ending" /\ manifest' = m /\ disk' = disk
      /\ build' = [build EXCEPT !.m = m, !.phase = "written"]
  BY DEF WriteManifest
<1>2. IsBuild(build) /\ build.m = M
  BY DEF IInv, BuildSound, ManifestSound, M, IsBuild
<1>3. /\ m.end = M.end /\ m.parts = M.parts /\ m.sessions = M.sessions
      /\ m.limits = M.limits /\ m.names = M.names /\ m.resolutions = M.resolutions
      /\ m.status = (IF M.failed THEN "incomplete" ELSE "completed")
  BY <1>2 DEF IsBuild
<1>4. m = [status |-> m.status, end |-> m.end, parts |-> m.parts, absent |-> m.absent,
           failed |-> m.failed, sessions |-> m.sessions, limits |-> m.limits,
           names |-> m.names, resolutions |-> m.resolutions]
  BY <1>2 DEF IsBuild
<1> HIDE DEF m
<1>5. ManifestSound(M)
  BY DEF IInv, BuildSound
<1>6. ManifestSound(m)
  BY <1>3, <1>4, <1>5 DEF ManifestSound
<1>7. build' = [k |-> build.k, old |-> build.old, m |-> m,
                limitsFailed |-> build.limitsFailed, clean |-> build.clean, phase |-> "written"]
  BY <1>1, <1>2 DEF IsBuild
<1>8. build'.phase = "written" /\ build'.old = build.old /\ M' = m
  BY <1>7 DEF M
<1>9. build' = [k |-> build'.k, old |-> build'.old, m |-> build'.m,
                limitsFailed |-> build'.limitsFailed, clean |-> build'.clean,
                phase |-> build'.phase]
  BY <1>7
<1>10. BuildSound'
  <2>1. ManifestSound(M)'
    BY <1>6, <1>8 DEF ManifestSound
  <2>2. PartsSound(build.old, M.resolutions)'
    BY <1>3, <1>8 DEF IInv, BuildSound
  <2>3. (\A id \in DOMAIN M.parts : disk[id] = M.parts[id].content)'
    BY <1>1, <1>3, <1>8 DEF IInv, BuildSound
  <2> QED BY <1>8, <1>9, <2>1, <2>2, <2>3 DEF BuildSound
<1>11. EndSound' /\ PlaceSound'
  <2>1. M.failed \/ DailyListed
    BY <1>1 DEF IInv, EndSound
  <2>2. m.status = "completed" => DailyListed
    BY <1>3, <2>1
  <2>3. DailyListed => DailyListed'
    BY <1>3, <1>8 DEF DailyListed
  <2> QED BY <1>8, <2>2, <2>3 DEF EndSound, PlaceSound, Running
<1>12. DiskSound' /\ (manifest # Nil => ManifestSound(manifest))'
  BY <1>1, <1>6 DEF IInv, DiskSound, ManifestSound
<1> QED BY <1>10, <1>11, <1>12 DEF IInv

\* A manifest that is revised keeps its partitions; completed is only withdrawn.
LEMMA RevisedFacts ==
    ASSUME IInv
    PROVE  /\ ManifestSound(Revised(M)) /\ Revised(M).parts = M.parts
           /\ Revised(M).resolutions = M.resolutions /\ Revised(M).end = M.end
           /\ Revised(M).status = "completed" => M.status = "completed"
<1> DEFINE limits == IF LimitsErrors(M) THEN "incomplete" ELSE M.limits
           names == IF NamesErrors(M) THEN "incomplete" ELSE M.names
           downgraded == [M EXCEPT !.limits = limits, !.names = names]
           failed == [M EXCEPT !.failed = TRUE, !.status = "incomplete"]
<1>1. Revised(M) = M \/ Revised(M) = downgraded \/ Revised(M) = failed
  BY DEF Revised
<1>2. {limits, names} \subseteq {"not_requested", "available", "incomplete", "unavailable"}
  BY DEF IInv, BuildSound, ManifestSound
<1>3. IsBuild(build) /\ build.m = M /\ ManifestSound(M)
  BY DEF IInv, BuildSound, ManifestSound, M, IsBuild
<1> HIDE DEF limits, names
<1> PICK m : m = Revised(M)
  OBVIOUS
<1>4. CASE m = M
  BY <1>3, <1>4
<1>5. CASE m = downgraded
  <2>1. m = [status |-> m.status, end |-> m.end, parts |-> m.parts, absent |-> m.absent,
             failed |-> m.failed, sessions |-> m.sessions, limits |-> m.limits,
             names |-> m.names, resolutions |-> m.resolutions]
    BY <1>3, <1>5 DEF IsBuild
  <2>2. /\ m.status = M.status /\ m.end = M.end /\ m.parts = M.parts
        /\ m.sessions = M.sessions /\ m.limits = limits /\ m.names = names
        /\ m.resolutions = M.resolutions
    BY <1>3, <1>5 DEF IsBuild
  <2>3. ManifestSound(m)
    BY <1>2, <1>3, <2>1, <2>2 DEF ManifestSound
  <2> QED BY <2>2, <2>3
<1>6. CASE m = failed
  <2>1. m = [status |-> m.status, end |-> m.end, parts |-> m.parts, absent |-> m.absent,
             failed |-> m.failed, sessions |-> m.sessions, limits |-> m.limits,
             names |-> m.names, resolutions |-> m.resolutions]
    BY <1>3, <1>6 DEF IsBuild
  <2>2. /\ m.status = "incomplete" /\ m.end = M.end /\ m.parts = M.parts
        /\ m.sessions = M.sessions /\ m.limits = M.limits /\ m.names = M.names
        /\ m.resolutions = M.resolutions
    BY <1>3, <1>6 DEF IsBuild
  <2>3. ManifestSound(m)
    BY <1>3, <2>1, <2>2 DEF ManifestSound
  <2> QED BY <2>2, <2>3
<1> QED BY <1>1, <1>4, <1>5, <1>6

LEMMA ValidateKeeps ==
    ASSUME BuildAssumption, IInv, Validate
    PROVE  IInv'
<1> PICK m : m = Revised(M)
  OBVIOUS
<1>1. /\ build.phase = "written" /\ manifest' = m /\ disk' = disk
      /\ build' = [build EXCEPT !.m = m, !.phase = "idle"]
  BY DEF Validate
<1>2. IsBuild(build)
  BY DEF IInv, BuildSound, ManifestSound, M, IsBuild
<1>3. ManifestSound(M)
  BY DEF IInv, BuildSound
<1>4. /\ ManifestSound(m) /\ m.parts = M.parts /\ m.resolutions = M.resolutions
      /\ m.end = M.end /\ (m.status = "completed" => M.status = "completed")
  BY RevisedFacts
<1>5. build' = [k |-> build.k, old |-> build.old, m |-> m,
                limitsFailed |-> build.limitsFailed, clean |-> build.clean, phase |-> "idle"]
  BY <1>1, <1>2 DEF IsBuild
<1>6. build'.phase = "idle" /\ build'.old = build.old /\ M' = m
  BY <1>5 DEF M
<1>7. build' = [k |-> build'.k, old |-> build'.old, m |-> build'.m,
                limitsFailed |-> build'.limitsFailed, clean |-> build'.clean,
                phase |-> build'.phase]
  BY <1>5
<1>8. BuildSound'
  <2>1. ManifestSound(M)'
    BY <1>4, <1>6 DEF ManifestSound
  <2>2. PartsSound(build.old, M.resolutions)'
    BY <1>4, <1>6 DEF IInv, BuildSound
  <2>3. (\A id \in DOMAIN M.parts : disk[id] = M.parts[id].content)'
    BY <1>1, <1>4, <1>6 DEF IInv, BuildSound
  <2> QED BY <1>6, <1>7, <2>1, <2>2, <2>3 DEF BuildSound
<1>9. EndSound' /\ PlaceSound'
  <2>1. M.status = "completed" => DailyListed
    BY DEF IInv, EndSound
  <2>2. DailyListed => DailyListed'
    BY <1>4, <1>6 DEF DailyListed
  <2> QED BY <1>4, <1>6, <2>1, <2>2 DEF EndSound, PlaceSound, Running
<1>10. DiskSound' /\ (manifest # Nil => ManifestSound(manifest))'
  BY <1>1, <1>4 DEF IInv, DiskSound, ManifestSound
<1> QED BY <1>8, <1>9, <1>10 DEF IInv

LEMMA CrashKeeps ==
    ASSUME BuildAssumption, IInv, Crash
    PROVE  IInv'
<1>1. build' = NoBuild /\ UNCHANGED <<disk, manifest>>
  BY DEF Crash
<1> QED BY <1>1, NoBuildSound, RestKept DEF IInv

LEMMA DamageKeeps ==
    ASSUME BuildAssumption, IInv, Damage
    PROVE  IInv'
<1>1. build' = NoBuild /\ manifest' = manifest
  BY DEF Damage
<1>2. PICK id \in Ids : disk' = [disk EXCEPT ![id] = Damaged]
  BY DEF Damage
<1>3. disk = [x \in Ids |-> disk[x]]
  BY DEF IInv, DiskSound
<1>4. /\ disk' = [x \in Ids |-> disk'[x]] /\ disk'[id] = Damaged
      /\ \A x \in Ids : x # id => disk'[x] = disk[x]
  BY <1>2, <1>3
<1>5. DiskSound'
  BY <1>4 DEF IInv, DiskSound
<1>6. (manifest # Nil => ManifestSound(manifest))'
  BY <1>1 DEF IInv, ManifestSound
<1> QED BY <1>1, <1>5, <1>6, NoBuildSound DEF IInv

LEMMA StepKeeps ==
    ASSUME BuildAssumption, IInv, [Next]_vars
    PROVE  IInv'
<1>1. CASE \E end \in Ends : Start(end)
  BY <1>1, StartKeeps
<1>2. CASE TakeOver
  BY <1>2, TakeOverKeeps
<1>3. CASE FetchMaster
  BY <1>3, FetchMasterKeeps
<1>4. CASE FetchDaily
  BY <1>4, FetchDailyKeeps
<1>5. CASE FetchOptional
  BY <1>5, FetchOptionalKeeps
<1>6. CASE FetchFails
  BY <1>6, FetchFailsKeeps
<1>7. CASE Combine
  BY <1>7, CombineKeeps
<1>8. CASE WriteManifest
  BY <1>8, WriteManifestKeeps
<1>9. CASE Validate
  BY <1>9, ValidateKeeps
<1>10. CASE Crash
  BY <1>10, CrashKeeps
<1>11. CASE Damage
  BY <1>11, DamageKeeps
<1>12. CASE UNCHANGED vars
  <2>1. disk' = disk /\ manifest' = manifest /\ build' = build
    BY <1>12 DEF vars
  <2>2. DiskSound' /\ (manifest # Nil => ManifestSound(manifest))'
    BY <2>1, RestKept
  <2>3. BuildSound'
    BY <2>1 DEF IInv, BuildSound, ManifestSound, M
  <2>4. PlaceSound'
    BY <2>1 DEF IInv, PlaceSound, Running, M
  <2>5. EndSound'
    BY <2>1 DEF IInv, EndSound, DailyListed, M
  <2> QED BY <2>2, <2>3, <2>4, <2>5 DEF IInv
<1> QED BY <1>1, <1>2, <1>3, <1>4, <1>5, <1>6, <1>7, <1>8, <1>9, <1>10, <1>11, <1>12 DEF Next

\* The inductive invariant: what the manifests list is typed, on disk and
\* explained, and a build at a place has listed the daily partitions before.
THEOREM BuildInvariant ==
    ASSUME BuildAssumption
    PROVE  Spec => []IInv
<1>1. Init => IInv
  BY InitSound
<1>2. IInv /\ [Next]_vars => IInv'
  BY StepKeeps
<1> QED BY <1>1, <1>2, PTL DEF Spec

\* Types: files, manifests, capabilities, and the place in the plan.
THEOREM TypeCorrect ==
    ASSUME BuildAssumption
    PROVE  Spec => []TypeOK
<1>1. IInv => TypeOK
  <2> SUFFICES ASSUME IInv PROVE TypeOK
    OBVIOUS
  <2>1. \A id \in Ids : \/ disk[id] \in {Nil, Damaged}
                         \/ disk[id] \subseteq IF id[1] \in {"calendar", "benchmark"} THEN Sessions
                                               ELSE Stocks \cup Historic
    BY DEF IInv, DiskSound, Values
  <2>2. \A m \in {manifest, M} \ {Nil} : ManifestSound(m)
    BY DEF IInv, BuildSound
  <2>3. \A m \in {manifest, M} \ {Nil} :
          /\ m.status \in {"building", "completed", "incomplete"}
          /\ DOMAIN m.parts \subseteq Ids /\ m.sessions \in Sessions \cup {0}
          /\ m.resolutions \in UNION {[S -> Stocks \cup {Nil, "error"}] : S \in SUBSET Historic}
          /\ {m.limits, m.names} \subseteq
                {"not_requested", "available", "incomplete", "unavailable"}
    BY <2>2 DEF ManifestSound, PartsSound, Resolutions
  <2>4. build.phase \in {"idle", "parts", "ending", "written"}
    BY DEF IInv, BuildSound
  <2>5. Running => build.k \in DOMAIN Plan(M.sessions, M.end)
    <3> SUFFICES ASSUME Running PROVE build.k \in DOMAIN Plan(M.sessions, M.end)
      OBVIOUS
    <3>1. M.sessions \in Sessions \cup {0} /\ M.end \in Ends
      BY DEF IInv, BuildSound, ManifestSound, PlaceSound
    <3>2. Plan(M.sessions, M.end) \in Seq(Ids)
      BY <3>1, PlanFacts
    <3> QED BY <3>2 DEF IInv, PlaceSound
  <2> QED BY <2>1, <2>3, <2>4, <2>5 DEF TypeOK
<1> QED BY <1>1, BuildInvariant, PTL

\* Whatever its history of crashes, damaged files, failed look-ups and wider
\* requests, the daily rows of a finished build are of stocks listed that day or
\* of codes whose resolution its manifest records.
THEOREM RowsAlwaysExplained ==
    ASSUME BuildAssumption
    PROVE  Spec => []RowsAreExplained
<1>1. IInv => RowsAreExplained
  BY DEF IInv, BuildSound, ManifestSound, PartsSound, Explained, RowsAreExplained
<1> QED BY <1>1, BuildInvariant, PTL

\* A build that reports completed has the rows of every session it was asked
\* for, on disk as its manifest lists them.
THEOREM CompletedAlwaysCovers ==
    ASSUME BuildAssumption
    PROVE  Spec => []CompletedCovers
<1>1. IInv => CompletedCovers
  BY DEF IInv, BuildSound, EndSound, DailyListed, CompletedCovers
<1> QED BY <1>1, BuildInvariant, PTL

-----------------------------------------------------------------------------
(* A provider that answers every session with the daily rows of all listed    *)
(* stocks, and with no code that stock_basic does not have; a damaged file is *)
(* none that was written.                                                     *)

CompleteAnswers ==
    /\ \A x \in Daily, d \in Sessions : \A rows \in Responses(x, d) :
          Pit(d) \subseteq rows /\ rows \subseteq Stocks
    /\ \A d \in Sessions : Pit(d) # {}
    /\ \A s \in SUBSET Sessions : s # {} => s \notin {Nil, Damaged}
    /\ \A s \in SUBSET Stocks : s # {} => s \notin {Nil, Damaged}

\* Then the daily partitions are those of the listed stocks, and no code is
\* missing from stock_basic.
RightParts(parts) ==
    \A id \in DOMAIN parts :
       parts[id].absent = {} /\ (id[1] \in Daily => parts[id].content = Pit(id[2]))

StockListed == <<"stock", 0>> \in DOMAIN M.parts
CalendarListed ==
    /\ M.end \in Ends /\ M.end <= M.sessions
    /\ <<"calendar", 0>> \in DOMAIN M.parts
    /\ M.parts[<<"calendar", 0>>].content = 1..M.sessions
BenchmarkListed ==
    /\ <<"benchmark", 0>> \in DOMAIN M.parts
    /\ 1..M.sessions \subseteq M.parts[<<"benchmark", 0>>].content

\* A clean build has no failure, and lists what it passed.
Clean ==
    /\ Running =>
          /\ build.k > 1 => StockListed
          /\ build.k > 2 => CalendarListed
          /\ build.k > 3 + 2 * M.sessions => BenchmarkListed
          /\ build.clean => ~ M.failed
    /\ build.phase \in {"ending", "written"} /\ build.clean =>
          /\ ~ M.failed /\ StockListed /\ CalendarListed /\ BenchmarkListed
          /\ \A d \in 1..M.sessions, x \in Daily : <<x, d>> \in DOMAIN M.parts
    /\ build.phase = "written" /\ build.clean => M.status = "completed"

CleanInv ==
    /\ RightParts(M.parts) /\ RightParts(build.old)
    /\ manifest # Nil => RightParts(manifest.parts)
    /\ Clean /\ CleanBuildCompletes

LEMMA RightAdd ==
    ASSUME NEW parts, RightParts(parts), NEW id, NEW content,
           id[1] \in Daily => content = Pit(id[2])
    PROVE  RightParts(Entry(parts, id, content, {}))
<1> DEFINE added == Entry(parts, id, content, {})
<1>1. /\ DOMAIN added = {id} \cup DOMAIN parts
      /\ added[id].content = content /\ added[id].absent = {}
      /\ \A x \in DOMAIN parts : x # id => added[x] = parts[x]
  BY DEF Entry
<1> HIDE DEF added
<1>2. RightParts(added)
  BY <1>1 DEF RightParts
<1> QED BY <1>2 DEF added

\* What a step does to the masters that are listed.
LEMMA MastersKept ==
    ASSUME NEW id, NEW content, NEW absent, M'.parts = Entry(M.parts, id, content, absent),
           M'.end = M.end, M'.sessions = M.sessions
    PROVE  /\ StockListed => StockListed'
           /\ id[1] # "calendar" /\ CalendarListed => CalendarListed'
           /\ id[1] # "benchmark" /\ BenchmarkListed => BenchmarkListed'
<1> DEFINE added == Entry(M.parts, id, content, absent)
<1>1. /\ DOMAIN M.parts \subseteq DOMAIN added
      /\ \A x \in DOMAIN M.parts : x # id => added[x] = M.parts[x]
  BY DEF Entry
<1> HIDE DEF added
<1>2. M'.parts = added
  BY DEF added
<1>3. StockListed => StockListed'
  BY <1>1, <1>2 DEF StockListed
<1>4. id[1] # "calendar" /\ CalendarListed => CalendarListed'
  BY <1>1, <1>2 DEF CalendarListed
<1>5. id[1] # "benchmark" /\ BenchmarkListed => BenchmarkListed'
  BY <1>1, <1>2 DEF BenchmarkListed
<1> QED BY <1>3, <1>4, <1>5

LEMMA CleanStored ==
    ASSUME BuildAssumption, IInv, CleanInv, Running, Id[1] # "names",
           NEW content, NEW resolutions,
           Advances(Entry(M.parts, Id, content, {}), resolutions),
           M'.sessions = IF Id[1] = "calendar" THEN Cardinality(content) ELSE M.sessions,
           Id[1] \in Daily => content = Pit(Id[2]),
           Id[1] = "calendar" => /\ 1..M.end \subseteq content
                                 /\ \E e \in Sessions : content = 1..e,
           Id[1] = "benchmark" => 1..M.sessions \subseteq content,
           build'.clean => ~ M'.failed, manifest' = manifest
    PROVE  CleanInv'
<1> DEFINE added == Entry(M.parts, Id, content, {})
<1>1. /\ M.end \in Ends /\ M.sessions \in Nat /\ build.k \in Nat /\ build.k >= 1
      /\ build.k = 1 => Id = <<"stock", 0>>
      /\ build.k = 2 => Id = <<"calendar", 0>>
      /\ build.k > 2 /\ build.k <= 2 + 2 * M.sessions => Id[1] \in Daily
      /\ build.k > 2 + 2 * M.sessions => Id[1] \in {"benchmark", "limits", "shard", "names"}
      /\ build.k > 2 /\ build.k = 3 + 2 * M.sessions => Id = <<"benchmark", 0>>
      /\ build.k > 3 + 2 * M.sessions => Id[1] \in {"limits", "shard", "names"}
  BY Place
<1>2. /\ build'.k = build.k + 1 /\ build'.old = build.old /\ build'.phase = "parts"
      /\ M'.end = M.end /\ M'.parts = added
  BY AdvancedFields
<1>3. Id \in DOMAIN added /\ added[Id].content = content
  BY DEF Entry
<1>4. RightParts(added)
  BY RightAdd DEF CleanInv
<1>5. /\ build.k > 1 => StockListed
      /\ build.k > 2 => CalendarListed
      /\ build.k > 3 + 2 * M.sessions => BenchmarkListed
  BY DEF CleanInv, Clean
<1>6. /\ M'.sessions = M.sessions /\ StockListed => StockListed'
      /\ M'.sessions = M.sessions /\ Id[1] # "calendar" /\ CalendarListed => CalendarListed'
      /\ M'.sessions = M.sessions /\ Id[1] # "benchmark" /\ BenchmarkListed => BenchmarkListed'
  BY <1>2, MastersKept
<1> HIDE DEF added
<1>7. /\ build'.k > 1 => StockListed'
      /\ build'.k > 2 => CalendarListed'
      /\ build'.k > 3 + 2 * M'.sessions => BenchmarkListed'
  <2>1. CASE build.k = 1
    <3>1. M.sessions = 0 /\ M'.sessions = 0
      BY <1>1, <2>1 DEF IInv, PlaceSound
    <3>2. StockListed'
      BY <1>1, <1>2, <1>3, <2>1 DEF StockListed
    <3> QED BY <1>2, <2>1, <3>1, <3>2
  <2>2. CASE build.k = 2
    <3>1. PICK e \in Sessions : content = 1..e
      BY <1>1, <2>2
    <3>2. e \in Nat /\ e >= 1 /\ Cardinality(1..e) = e
      <4>1. \A d \in Sessions : d \in Nat /\ d >= 1
        BY DEF BuildAssumption, SessionsAssumption
      <4>2. e \in Nat /\ e >= 1
        BY <4>1
      <4> QED BY <4>2, FS_Interval, 1 \in Int, e \in Int
    <3>3. M'.sessions = e
      BY <1>1, <2>2, <3>1, <3>2
    <3>4. M.end \in Nat /\ M.end >= 1
      <4>1. M.end \in Sessions
        BY <1>1 DEF BuildAssumption, SessionsAssumption
      <4>2. \A d \in Sessions : d \in Nat /\ d >= 1
        BY DEF BuildAssumption, SessionsAssumption
      <4> QED BY <4>1, <4>2
    <3>5. M.end <= e
      BY <1>1, <2>2, <3>1, <3>2, <3>4
    <3>6. StockListed'
      BY <1>2, <1>5, <2>2 DEF StockListed, added, Entry
    <3>7. CalendarListed'
      BY <1>1, <1>2, <1>3, <2>2, <3>1, <3>3, <3>5 DEF CalendarListed
    <3> QED BY <1>2, <2>2, <3>2, <3>3, <3>6, <3>7
  <2>3. CASE build.k > 2
    <3>1. Id[1] # "calendar" /\ M'.sessions = M.sessions
      BY <1>1, <2>3 DEF Daily
    <3>2. StockListed' /\ CalendarListed'
      BY <1>1, <1>5, <1>6, <2>3, <3>1
    <3>3. build.k > 3 + 2 * M.sessions => BenchmarkListed'
      BY <1>1, <1>5, <1>6, <3>1
    <3>4. build.k = 3 + 2 * M.sessions => BenchmarkListed'
      BY <1>1, <1>2, <1>3, <2>3, <3>1 DEF BenchmarkListed
    <3> QED BY <1>1, <1>2, <2>3, <3>1, <3>2, <3>3, <3>4
  <2> QED BY <1>1, <2>1, <2>2, <2>3
<1>8. Clean'
  BY <1>2, <1>7 DEF Clean
<1>9. CleanBuildCompletes'
  BY <1>2 DEF CleanBuildCompletes, Finished
<1>10. RightParts(M.parts)' /\ RightParts(build.old)' /\ (manifest # Nil => RightParts(manifest.parts))'
  BY <1>2, <1>4 DEF CleanInv, RightParts
<1> QED BY <1>8, <1>9, <1>10 DEF CleanInv

LEMMA CleanTakeOver ==
    ASSUME BuildAssumption, IInv, CleanInv, TakeOver
    PROVE  CleanInv'
<1> DEFINE content == build.old[Id].content
<1>1. /\ Running /\ Id[1] # "names" /\ Intact(Id) /\ Covers(Id, disk[Id])
      /\ build' = Stored(build, Id, build.old[Id].content, build.old[Id].absent)
      /\ manifest' = manifest
  BY DEF TakeOver
<1>2. Id \in DOMAIN build.old /\ disk[Id] = content
  BY <1>1 DEF Intact
<1>3. build.old[Id].absent = {} /\ (Id[1] \in Daily => content = Pit(Id[2]))
  BY <1>2 DEF CleanInv, RightParts
<1>4. Id[1] = "calendar" => \E e \in Sessions : content = 1..e
  BY <1>2, ListedMay DEF IInv, BuildSound, MayList
<1>5. /\ Id[1] = "calendar" => 1..M.end \subseteq content
      /\ Id[1] = "benchmark" => 1..M.sessions \subseteq content
  BY <1>1, <1>2 DEF Covers
<1>6. /\ Advances(Entry(M.parts, Id, content, {}), M.resolutions)
      /\ M'.sessions = IF Id[1] = "calendar" THEN Cardinality(content) ELSE M.sessions
      /\ build'.clean = build.clean /\ M'.failed = M.failed
  BY <1>1, <1>3, StoredFields, BuildAlike DEF M
<1>7. build'.clean => ~ M'.failed
  BY <1>1, <1>6 DEF CleanInv, Clean
<1> HIDE DEF content
<1> QED BY <1>1, <1>3, <1>4, <1>5, <1>6, <1>7, CleanStored

LEMMA CleanFetchMaster ==
    ASSUME BuildAssumption, IInv, CleanInv, FetchMaster
    PROVE  CleanInv'
<1> DEFINE content == CASE Id[1] = "stock" -> Stocks
                        [] Id[1] = "calendar" -> 1..M.end
                        [] OTHER -> 1..M.sessions
<1>1. /\ Running /\ Id[1] \in {"stock", "calendar", "benchmark"}
      /\ build' = Stored(build, Id, content, {}) /\ manifest' = manifest
  BY DEF FetchMaster, Needed, Filed
<1>2. /\ Id[1] = "calendar" => content = 1..M.end
      /\ Id[1] = "benchmark" => content = 1..M.sessions
  OBVIOUS
<1> HIDE DEF content
<1>3. M.end \in Sessions
  BY <1>1, Place DEF BuildAssumption, SessionsAssumption
<1>4. /\ Advances(Entry(M.parts, Id, content, {}), M.resolutions)
      /\ M'.sessions = IF Id[1] = "calendar" THEN Cardinality(content) ELSE M.sessions
      /\ build'.clean = build.clean /\ M'.failed = M.failed
  BY <1>1, StoredFields, BuildAlike DEF M
<1>5. build'.clean => ~ M'.failed
  BY <1>1, <1>4 DEF CleanInv, Clean
<1>6. Id[1] # "names" /\ Id[1] \notin Daily
  BY <1>1 DEF Daily
<1> QED BY <1>1, <1>2, <1>3, <1>4, <1>5, <1>6, CleanStored

LEMMA CleanFetchOptional ==
    ASSUME BuildAssumption, IInv, CleanInv, FetchOptional
    PROVE  CleanInv'
<1>1. Running /\ Id[1] \in {"limits", "shard"} /\ manifest' = manifest
  BY DEF FetchOptional, Needed, Filed
<1>2. PICK content : build' = Stored(build, Id, content, {})
  BY DEF FetchOptional, Filed
<1>3. /\ Advances(Entry(M.parts, Id, content, {}), M.resolutions)
      /\ M'.sessions = IF Id[1] = "calendar" THEN Cardinality(content) ELSE M.sessions
      /\ build'.clean = build.clean /\ M'.failed = M.failed
  BY <1>1, <1>2, StoredFields, BuildAlike DEF M
<1>4. build'.clean => ~ M'.failed
  BY <1>1, <1>3 DEF CleanInv, Clean
<1>5. Id[1] # "names" /\ Id[1] \notin Daily /\ Id[1] # "calendar" /\ Id[1] # "benchmark"
  BY <1>1 DEF Daily
<1> QED BY <1>1, <1>3, <1>4, <1>5, CleanStored

LEMMA CleanFetchDaily ==
    ASSUME BuildAssumption, CompleteAnswers, IInv, CleanInv, FetchDaily
    PROVE  CleanInv'
<1>1. Running /\ Id[1] \in Daily /\ Id \in Ids /\ Id[1] \notin {"names", "calendar", "benchmark"}
  <2>1. Running /\ Id[1] \in Daily
    BY DEF FetchDaily, Needed
  <2> QED BY <2>1, Place DEF Daily
<1>2. PICK rows \in Responses(Id[1], Id[2]) :
         \E found \in IF Id[1] = "daily" THEN Lookups(rows) ELSE {<<>>} : Answered(rows, found)
  BY DEF FetchDaily
<1>3. PICK found \in IF Id[1] = "daily" THEN Lookups(rows) ELSE {<<>>} : Answered(rows, found)
  BY <1>2
<1> DEFINE resolved == [c \in DOMAIN found \cup DOMAIN M.resolutions |->
                          IF c \in DOMAIN found THEN found[c] ELSE M.resolutions[c]]
           kept == Kept(Id[2], rows, resolved)
           absent == IF Id[1] = "daily" THEN rows \ (kept \cup Stocks) ELSE {}
           failed == build.m.failed \/ absent # {}
           clean == build.clean /\ {c \in DOMAIN found : found[c] = "error"} = {}
           known == [build EXCEPT !.m.resolutions = resolved, !.m.failed = failed,
                                  !.clean = clean]
<1>4. kept # {} => Filed(Stored(known, Id, kept, absent), kept)
  BY <1>3 DEF Answered
<1>5. Id[2] \in Sessions
  BY <1>1, IdFacts
<1>6. Pit(Id[2]) \subseteq rows /\ rows \subseteq Stocks /\ Pit(Id[2]) # {}
  BY <1>1, <1>5 DEF CompleteAnswers
<1>7. resolved \in Resolutions
  <2>1. found \in Lookups(rows) \/ found = <<>>
    BY <1>3
  <2>2. rows \subseteq Stocks \cup Historic
    BY <1>6
  <2> HIDE DEF kept, absent, failed, clean, known
  <2> QED BY <2>1, <2>2, ResolvedFacts
<1>8. kept = Pit(Id[2])
  <2>1. DOMAIN resolved \subseteq Historic
    BY <1>7 DEF Resolutions
  <2> HIDE DEF resolved
  <2> QED BY <1>6, <2>1 DEF Kept, BuildAssumption, CodesAssumption
<1>9. absent = {}
  BY <1>6
<1>10. build' = Stored(known, Id, kept, {}) /\ manifest' = manifest
  BY <1>4, <1>6, <1>8, <1>9 DEF Filed
<1>11. clean => build.clean
  OBVIOUS
<1>12. failed <=> build.m.failed = TRUE
  BY <1>9
<1> HIDE DEF resolved, kept, absent, failed, clean
<1>13. /\ Alike(known) /\ known.m.resolutions = resolved
       /\ known.m.failed = failed /\ known.clean = clean
  <2>1. known = Recorded(resolved, failed, clean)
    BY DEF Recorded
  <2> HIDE DEF known
  <2> QED BY <1>1, <2>1, KnownAlike
<1> HIDE DEF known
<1>14. /\ Advances(Entry(M.parts, Id, kept, {}), resolved)
       /\ M'.sessions = IF Id[1] = "calendar" THEN Cardinality(kept) ELSE M.sessions
       /\ build'.clean = known.clean /\ M'.failed = known.m.failed
  BY <1>10, <1>13, StoredFields
<1>15. build'.clean => ~ M'.failed
  BY <1>1, <1>11, <1>12, <1>13, <1>14 DEF CleanInv, Clean, M
<1> QED BY <1>1, <1>8, <1>10, <1>14, <1>15, CleanStored

LEMMA CleanFetchFails ==
    ASSUME BuildAssumption, IInv, CleanInv, FetchFails
    PROVE  CleanInv'
<1>1. Running /\ manifest' = manifest
  BY DEF FetchFails, Needed
<1>2. IsBuild(build)
  BY <1>1, BuildAlike DEF Alike
<1>3. CASE Id[1] \in {"limits", "shard"}
  <2>1. build' = [build EXCEPT !.k = @ + 1, !.clean = FALSE,
                               !.limitsFailed = @ \/ Id[1] = "limits"]
    BY <1>3 DEF FetchFails
  <2>2. /\ build'.k = build.k + 1 /\ build'.clean = FALSE /\ build'.old = build.old
        /\ build'.phase = build.phase /\ M' = M
    BY <1>2, <2>1 DEF IsBuild, M
  <2>3. build.k \in Nat /\ M.sessions \in Nat /\ build.k > 2 + 2 * M.sessions /\ build.k > 2
        /\ build.k # 3 + 2 * M.sessions
    BY <1>1, <1>3, Place DEF Daily
  <2>4. /\ build.k > 1 => StockListed
        /\ build.k > 2 => CalendarListed
        /\ build.k > 3 + 2 * M.sessions => BenchmarkListed
    BY <1>1 DEF CleanInv, Clean
  <2>5. StockListed' /\ CalendarListed' /\ BenchmarkListed'
    BY <2>2, <2>3, <2>4 DEF StockListed, CalendarListed, BenchmarkListed
  <2>6. Clean' /\ CleanBuildCompletes'
    BY <1>1, <2>2, <2>5 DEF Clean, CleanBuildCompletes, Finished, Running
  <2> QED BY <1>1, <2>2, <2>6 DEF CleanInv, RightParts
<1>4. CASE Id[1] \notin {"limits", "shard"}
  <2>1. build' = [build EXCEPT !.phase = "ending", !.clean = FALSE, !.m.failed = TRUE]
    BY <1>4 DEF FetchFails
  <2>2. build'.m = [build.m EXCEPT !.failed = TRUE]
    BY <1>2, <2>1 DEF IsBuild
  <2>3. build'.phase = "ending" /\ build'.clean = FALSE /\ build'.old = build.old
    BY <1>2, <2>1 DEF IsBuild
  <2>4. M'.parts = M.parts
    BY <1>2, <2>2 DEF IsBuild, M
  <2>5. Clean' /\ CleanBuildCompletes'
    BY <2>3 DEF Clean, CleanBuildCompletes, Finished, Running
  <2> QED BY <1>1, <2>3, <2>4, <2>5 DEF CleanInv, RightParts
<1> QED BY <1>3, <1>4

LEMMA CleanCombine ==
    ASSUME BuildAssumption, IInv, CleanInv, Combine
    PROVE  CleanInv'
<1>1. PICK limits, names, whole, content :
        /\ Running /\ Id[1] = "names" /\ manifest' = manifest
        /\ build' = [build EXCEPT !.phase = "ending",
                       !.m = [M EXCEPT !.names = names, !.limits = limits],
                       !.m.parts = IF whole = TRUE THEN Entry(@, Id, content, {}) ELSE @]
  <2> DEFINE shards == {i \in 1..ShardCount(M.end) : <<"shard", i>> \in DOMAIN M.parts}
             days == {d \in 1..M.sessions : <<"limits", d>> \in DOMAIN M.parts}
             whole == shards = 1..ShardCount(M.end)
             content == UNION {disk[<<"shard", i>>] : i \in shards}
             names == Capability(whole, shards # {})
             limits == Capability(days = 1..M.sessions /\ ~ build.limitsFailed, days # {})
  <2>1. /\ Running /\ Id[1] = "names" /\ manifest' = manifest
        /\ build' = [build EXCEPT !.phase = "ending",
                       !.m = [M EXCEPT !.names = names, !.limits = limits],
                       !.m.parts = IF whole THEN Entry(@, Id, content, {}) ELSE @]
    BY DEF Combine
  <2>2. whole = TRUE \/ whole = FALSE
    OBVIOUS
  <2> HIDE DEF names, limits, content, whole
  <2> QED BY <2>1, <2>2
<1> DEFINE m == [M EXCEPT !.names = names, !.limits = limits]
           parts == IF whole = TRUE THEN Entry(M.parts, Id, content, {}) ELSE M.parts
<1>2. IsBuild(build) /\ build.m = M /\ build.phase = "parts"
  BY <1>1, BuildAlike DEF Alike, M
<1>3. m.parts = M.parts
  BY <1>2 DEF IsBuild
<1>4. build'.m = [m EXCEPT !.parts = parts]
  BY <1>1, <1>2, <1>3 DEF IsBuild
<1>5. build'.phase = "ending" /\ build'.clean = build.clean /\ build'.old = build.old
  BY <1>1, <1>2 DEF IsBuild
<1>6. /\ M'.parts = parts /\ M'.end = M.end /\ M'.sessions = M.sessions
      /\ M'.failed = M.failed
  BY <1>2, <1>4 DEF M, IsBuild
<1>7. RightParts(parts)
  <2>1. RightParts(M.parts)
    BY DEF CleanInv
  <2>2. Id[1] \notin Daily
    BY <1>1 DEF Daily
  <2> QED BY <2>1, <2>2, RightAdd
<1>8. /\ build.k \in Nat /\ M.sessions \in Nat
      /\ build.k > 3 + 2 * M.sessions /\ build.k > 2
  BY <1>1, Place
<1>9. StockListed /\ CalendarListed /\ BenchmarkListed /\ (build.clean => ~ M.failed)
  BY <1>1, <1>8 DEF CleanInv, Clean
<1>10. StockListed' /\ CalendarListed' /\ BenchmarkListed'
  <2>1. CASE whole = TRUE
    <3>1. M'.parts = Entry(M.parts, Id, content, {})
      BY <1>6, <2>1
    <3>2. Id[1] # "calendar" /\ Id[1] # "benchmark"
      BY <1>1
    <3> QED BY <1>6, <1>9, <3>1, <3>2, MastersKept
  <2>2. CASE whole # TRUE
    BY <1>6, <1>9, <2>2 DEF StockListed, CalendarListed, BenchmarkListed
  <2> QED BY <2>1, <2>2
<1>11. \A d \in 1..M'.sessions, x \in Daily : <<x, d>> \in DOMAIN M'.parts
  <2>1. \A d \in 1..M.sessions, x \in Daily : <<x, d>> \in DOMAIN M.parts
    BY <1>1, LastPlace
  <2>2. DOMAIN M.parts \subseteq DOMAIN parts
    BY DEF Entry
  <2> QED BY <1>6, <2>1, <2>2
<1> HIDE DEF m, parts
<1>12. Clean'
  BY <1>5, <1>6, <1>9, <1>10, <1>11 DEF Clean, Running
<1>13. CleanBuildCompletes'
  BY <1>5 DEF CleanBuildCompletes, Finished
<1> QED BY <1>1, <1>5, <1>6, <1>7, <1>12, <1>13 DEF CleanInv, RightParts

LEMMA CleanWriteManifest ==
    ASSUME BuildAssumption, IInv, CleanInv, WriteManifest
    PROVE  CleanInv'
<1> DEFINE m == [M EXCEPT !.status = IF M.failed THEN "incomplete" ELSE "completed"]
<1>1. /\ build.phase = "ending" /\ manifest' = m
      /\ build' = [build EXCEPT !.m = m, !.phase = "written"]
  BY DEF WriteManifest
<1>2. IsBuild(build) /\ build.m = M
  BY DEF IInv, BuildSound, ManifestSound, M, IsBuild
<1>3. /\ m.end = M.end /\ m.parts = M.parts /\ m.sessions = M.sessions
      /\ m.failed = M.failed /\ m.status = (IF M.failed THEN "incomplete" ELSE "completed")
  BY <1>2 DEF IsBuild
<1> HIDE DEF m
<1>4. /\ build'.phase = "written" /\ build'.clean = build.clean /\ build'.old = build.old
      /\ M' = m
  BY <1>1, <1>2 DEF IsBuild, M
<1>5. build.clean =>
        /\ ~ M.failed /\ StockListed /\ CalendarListed /\ BenchmarkListed
        /\ \A d \in 1..M.sessions, x \in Daily : <<x, d>> \in DOMAIN M.parts
  BY <1>1 DEF CleanInv, Clean
<1>6. Clean'
  <2> SUFFICES ASSUME build.clean PROVE Clean'
    BY <1>4 DEF Clean, Running
  <2>1. /\ ~ M'.failed /\ M'.status = "completed"
        /\ \A d \in 1..M'.sessions, x \in Daily : <<x, d>> \in DOMAIN M'.parts
    BY <1>3, <1>4, <1>5
  <2>2. StockListed' /\ CalendarListed' /\ BenchmarkListed'
    BY <1>3, <1>4, <1>5 DEF StockListed, CalendarListed, BenchmarkListed
  <2> QED BY <1>4, <2>1, <2>2 DEF Clean, Running
<1>7. CleanBuildCompletes'
  BY <1>4 DEF CleanBuildCompletes, Finished
<1> QED BY <1>1, <1>3, <1>4, <1>6, <1>7 DEF CleanInv, RightParts

\* The manifest of a clean build of its whole calendar has no errors.
LEMMA NoErrors ==
    ASSUME BuildAssumption, CompleteAnswers, IInv, CleanInv, build.phase = "written",
           build.clean, M.sessions <= M.end
    PROVE  ~ RequiredErrors(M)
<1> DEFINE n == M.sessions
<1>1. /\ ~ M.failed /\ StockListed /\ CalendarListed /\ BenchmarkListed
      /\ \A d \in 1..n, x \in Daily : <<x, d>> \in DOMAIN M.parts
  BY DEF CleanInv, Clean
<1>2. n = M.end /\ n \in Nat /\ n \in Sessions /\ 1..n \subseteq Sessions /\ 1 \in 1..n
  <2>1. M.end \in Sessions /\ M.end <= n
    BY <1>1 DEF CalendarListed, BuildAssumption, SessionsAssumption
  <2>2. n \in Nat /\ M.end \in Nat
    <3>1. n \in Sessions \cup {0}
      BY DEF IInv, BuildSound, ManifestSound
    <3>2. \A d \in Sessions : d \in Nat
      BY DEF BuildAssumption, SessionsAssumption
    <3> HIDE DEF n
    <3>3. M.end \in Nat
      BY <2>1, <3>2
    <3>4. n \in Nat
      BY <3>1, <3>2
    <3> QED BY <3>3, <3>4
  <2>3. n = M.end
    BY <2>1, <2>2
  <2>4. n # 0 /\ 1..n \subseteq Sessions
    BY <2>1, <2>3 DEF BuildAssumption, SessionsAssumption
  <2> HIDE DEF n
  <2> QED BY <2>1, <2>2, <2>3, <2>4
<1>3. /\ \A id \in DOMAIN M.parts : disk[id] = M.parts[id].content
      /\ \A id \in DOMAIN M.parts : M.parts[id].content \subseteq Values(id)
  BY DEF IInv, BuildSound, ManifestSound, PartsSound
<1>4. \A id \in DOMAIN M.parts :
         M.parts[id].absent = {} /\ (id[1] \in Daily => M.parts[id].content = Pit(id[2]))
  BY DEF CleanInv, RightParts
<1> HIDE DEF n
<1>5. /\ \A s \in SUBSET Sessions : s # {} => s \notin {Nil, Damaged}
      /\ \A s \in SUBSET Stocks : s # {} => s \notin {Nil, Damaged}
  BY DEF CompleteAnswers
<1>6. CalendarOf(M) = 1..n
  <2>1. <<"calendar", 0>> \in DOMAIN M.parts /\ disk[<<"calendar", 0>>] = 1..n
    BY <1>1, <1>3 DEF CalendarListed, n
  <2>2. 1..n \notin {Nil, Damaged}
    BY <1>2, <1>5
  <2> QED BY <2>1, <2>2 DEF CalendarOf, Table
<1>7. 1..n \subseteq Table(M, <<"benchmark", 0>>)
  <2>1. /\ <<"benchmark", 0>> \in DOMAIN M.parts
        /\ 1..n \subseteq M.parts[<<"benchmark", 0>>].content
    BY <1>1 DEF BenchmarkListed, n
  <2>2. disk[<<"benchmark", 0>>] \in SUBSET Sessions
    BY <1>3, <2>1 DEF Values
  <2>3. disk[<<"benchmark", 0>>] \notin {Nil, Damaged}
    BY <1>2, <1>3, <1>5, <2>1, <2>2
  <2> QED BY <1>3, <2>1, <2>3 DEF Table
<1>8. ASSUME NEW x \in Daily, NEW d \in 1..n
      PROVE  Table(M, <<x, d>>) = Pit(d)
  <2>1. <<x, d>> \in DOMAIN M.parts /\ <<x, d>>[1] \in Daily /\ <<x, d>>[2] = d
    BY <1>1, <1>8
  <2>2. disk[<<x, d>>] = Pit(d)
    BY <1>3, <1>4, <2>1
  <2>3. Pit(d) \in SUBSET Stocks
    BY DEF Pit
  <2>4. Pit(d) \notin {Nil, Damaged}
    BY <1>2, <1>5, <2>3 DEF CompleteAnswers
  <2> QED BY <2>1, <2>2, <2>4 DEF Table
<1>9. \A x \in Single \ {"names"} : <<x, 0>> \in DOMAIN M.parts
  BY <1>1 DEF Single, StockListed, CalendarListed, BenchmarkListed
<1>10. \A d \in 1..n : Table(M, <<"daily", d>>) = Table(M, <<"adj", d>>)
  BY <1>8 DEF Daily
<1>11. \A d \in 1..n, c \in Historic : c \notin Table(M, <<"daily", d>>)
  <2>1. \A d \in 1..n : Table(M, <<"daily", d>>) = Pit(d)
    BY <1>8 DEF Daily
  <2> QED BY <2>1 DEF Pit, BuildAssumption, CodesAssumption
<1>12. CalendarOf(M) = 1..M.sessions /\ 1..M.end = 1..n
  BY <1>2, <1>6 DEF n
<1> QED BY <1>1, <1>3, <1>4, <1>6, <1>7, <1>9, <1>10, <1>11, <1>12 DEF RequiredErrors

LEMMA CleanValidate ==
    ASSUME BuildAssumption, CompleteAnswers, IInv, CleanInv, Validate
    PROVE  CleanInv'
<1> PICK m : m = Revised(M)
  OBVIOUS
<1>1. /\ build.phase = "written" /\ manifest' = m
      /\ build' = [build EXCEPT !.m = m, !.phase = "idle"]
  BY DEF Validate
<1>2. IsBuild(build) /\ build.m = M
  BY DEF IInv, BuildSound, ManifestSound, M, IsBuild
<1>3. m.parts = M.parts /\ m.end = M.end
  BY RevisedFacts
<1>4. /\ build'.phase = "idle" /\ build'.clean = build.clean /\ build'.old = build.old
      /\ M' = m
  BY <1>1, <1>2 DEF IsBuild, M
<1>5. m.sessions = M.sessions
  <2>1. ManifestSound(M)
    BY DEF IInv, BuildSound
  <2> QED BY <2>1 DEF ManifestSound, Revised
<1>6. CleanBuildCompletes'
  <2> SUFFICES ASSUME build.clean, M.sessions <= M.end PROVE m.status = "completed"
    BY <1>3, <1>4, <1>5 DEF CleanBuildCompletes, Finished
  <2>1. ~ M.failed /\ M.status = "completed"
    BY <1>1 DEF CleanInv, Clean
  <2>2. ~ RequiredErrors(M)
    BY <1>1, NoErrors
  <2>3. ValidManifest(M) \/ LimitsErrors(M) \/ NamesErrors(M)
    BY <2>1, <2>2 DEF ValidManifest
  <2> DEFINE limits == IF LimitsErrors(M) THEN "incomplete" ELSE M.limits
             names == IF NamesErrors(M) THEN "incomplete" ELSE M.names
             downgraded == [M EXCEPT !.limits = limits, !.names = names]
  <2>4. m = M \/ m = downgraded
    BY <2>1, <2>3 DEF Revised
  <2> HIDE DEF limits, names
  <2>5. downgraded.status = M.status
    BY <1>2 DEF IsBuild
  <2> QED BY <2>1, <2>4, <2>5
<1>7. Clean'
  BY <1>4 DEF Clean, Running
<1> QED BY <1>1, <1>3, <1>4, <1>6, <1>7 DEF CleanInv, RightParts

\* A build that has not begun is sound.
LEMMA CleanNoBuild ==
    ASSUME BuildAssumption, CleanInv, build' = NoBuild, manifest' = manifest
    PROVE  CleanInv'
<1>1. /\ build'.k = 0 /\ build'.old = <<>> /\ build'.phase = "idle" /\ M'.parts = <<>>
  BY NoBuildFacts DEF M
<1>2. Clean' /\ CleanBuildCompletes'
  BY <1>1 DEF Clean, CleanBuildCompletes, Finished, Running
<1> QED BY <1>1, <1>2 DEF CleanInv, RightParts

LEMMA CleanInit ==
    ASSUME BuildAssumption, Init
    PROVE  CleanInv
<1>1. build = NoBuild /\ manifest = Nil
  BY DEF Init
<1>2. /\ build.k = 0 /\ build.old = <<>> /\ build.phase = "idle" /\ M.parts = <<>>
  BY <1>1, NoBuildFacts DEF M
<1>3. Clean /\ CleanBuildCompletes
  BY <1>2 DEF Clean, CleanBuildCompletes, Finished, Running
<1> QED BY <1>1, <1>2, <1>3 DEF CleanInv, RightParts

LEMMA CleanStart ==
    ASSUME BuildAssumption, CleanInv, NEW end \in Ends, Start(end)
    PROVE  CleanInv'
<1> DEFINE old == IF manifest = Nil THEN <<>> ELSE manifest.parts
           known == IF manifest = Nil THEN <<>> ELSE manifest.resolutions
<1>1. /\ build' = [k |-> 1, old |-> old, m |-> Base(end, known), limitsFailed |-> FALSE,
                   clean |-> TRUE, phase |-> "parts"]
      /\ manifest' = manifest
  BY DEF Start, NoBuild
<1>2. RightParts(old) /\ RightParts(<<>>)
  BY DEF CleanInv, RightParts
<1> HIDE DEF old, known
<1>3. /\ build'.k = 1 /\ build'.old = old /\ build'.phase = "parts"
      /\ M'.parts = <<>> /\ M'.sessions = 0 /\ M'.failed = FALSE
  BY <1>1 DEF Base, M
<1>4. Clean' /\ CleanBuildCompletes'
  <2>1. ~ (build'.k > 3 + 2 * M'.sessions) /\ ~ (build'.k > 1) /\ ~ (build'.k > 2)
    BY <1>3
  <2> QED BY <1>3, <2>1 DEF Clean, CleanBuildCompletes, Finished, Running
<1> QED BY <1>1, <1>2, <1>3, <1>4 DEF CleanInv, RightParts

LEMMA CleanStep ==
    ASSUME BuildAssumption, CompleteAnswers, IInv, CleanInv, [Next]_vars
    PROVE  CleanInv'
<1>1. CASE \E end \in Ends : Start(end)
  BY <1>1, CleanStart
<1>2. CASE TakeOver
  BY <1>2, CleanTakeOver
<1>3. CASE FetchMaster
  BY <1>3, CleanFetchMaster
<1>4. CASE FetchDaily
  BY <1>4, CleanFetchDaily
<1>5. CASE FetchOptional
  BY <1>5, CleanFetchOptional
<1>6. CASE FetchFails
  BY <1>6, CleanFetchFails
<1>7. CASE Combine
  BY <1>7, CleanCombine
<1>8. CASE WriteManifest
  BY <1>8, CleanWriteManifest
<1>9. CASE Validate
  BY <1>9, CleanValidate
<1>10. CASE Crash
  BY <1>10, CleanNoBuild DEF Crash
<1>11. CASE Damage
  BY <1>11, CleanNoBuild DEF Damage
<1>12. CASE UNCHANGED vars
  <2>1. manifest' = manifest /\ build' = build /\ M' = M
    BY <1>12 DEF vars, M
  <2>2. Clean'
    BY <2>1 DEF CleanInv, Clean, Running, StockListed, CalendarListed, BenchmarkListed
  <2>3. CleanBuildCompletes'
    BY <2>1 DEF CleanInv, CleanBuildCompletes, Finished
  <2> QED BY <2>1, <2>2, <2>3 DEF CleanInv, RightParts
<1> QED BY <1>1, <1>2, <1>3, <1>4, <1>5, <1>6, <1>7, <1>8, <1>9, <1>10, <1>11, <1>12 DEF Next

\* A build during which no call failed completes, whatever earlier builds,
\* crashes and damaged files left, when it was asked for its whole calendar
\* and the provider answers with all the listed stocks.
THEOREM CleanBuildsComplete ==
    ASSUME BuildAssumption, CompleteAnswers
    PROVE  Spec => []CleanBuildCompletes
<1>1. Init => CleanInv
  BY CleanInit
<1>2. IInv /\ CleanInv /\ [Next]_vars => CleanInv'
  BY CleanStep
<1>3. CleanInv => CleanBuildCompletes
  BY DEF CleanInv
<1>4. Spec => []IInv
  BY BuildInvariant
<1> QED BY <1>1, <1>2, <1>3, <1>4, PTL DEF Spec

====
