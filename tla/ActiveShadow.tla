---- MODULE ActiveShadow ----
(* The active shadow of a paper cycle (continuous_paper/active_shadow.py):    *)
(* every allowed role of the quant firm is asked for advice once per evidence,*)
(* within a budget of calls and cost, and the answers are kept in files.      *)
(* Runs share the cache directory: a retried or rescheduled cycle asks again, *)
(* and two cycles may overlap.  The temporary file of a key has a fixed name; *)
(* a file that is renamed while another run has it open goes on being         *)
(* written, so files are modelled apart from their names.                     *)
EXTENDS Naturals, Sequences, FiniteSets, SequencesExt, 
        FiniteSetTheorems, SequenceTheorems, TLAPS

CONSTANTS AllowedRoles,   \* allow_roles, in the order configured
          Committee,      \* INVESTMENT_COMMITTEE
          Evidences,      \* pit_evidence_digest: one per form of a session's report
          Runs,           \* the processes that may run a shadow
          Live,           \* enable_live_calls
          MaxCalls, MaxCost, CallCost,    \* the budget of one run
          PromptFits,     \* the evidence is short enough for the prompt to show all of it
          MaxAttempts,    \* bound: runs per process
          Nil, Abstain,   \* no value; an abstention
          Empty, Torn     \* the content of a file just opened, or written by two

\* The roles are unique (normalize_active_shadow_roles).
RolesAssumption ==
    /\ AllowedRoles \in Seq(ToSet(AllowedRoles)) /\ AllowedRoles # <<>>
    /\ IsInjective(AllowedRoles)
BudgetAssumption == MaxCalls \in Nat /\ MaxCost \in Nat /\ CallCost \in Nat \ {0}
FiniteAssumption == IsFiniteSet(Evidences) /\ IsFiniteSet(Runs) /\ MaxAttempts \in Nat

VARIABLES final, temporary,   \* per key, the file its name stands for
          content,            \* per file
          run,                \* per process, its current run
          attempts,           \* per process, runs started
          asked,              \* history: requests the current run sent
          paid                \* history: keys whose answer a run has taken and filed

names == <<final, temporary>>
history == <<asked, paid>>
vars == <<names, content, run, attempts, history>>

Role == ToSet(AllowedRoles)
\* The committee comes last, wherever it was configured, if it is allowed at all.
Order ==
    IF Committee \notin Role THEN AllowedRoles
    ELSE LET c == CHOOSE i \in DOMAIN AllowedRoles : AllowedRoles[i] = Committee
         IN RemoveAt(AllowedRoles, c) \o <<Committee>>

\* The cache key of a role and an evidence; the committee's has no more.
Key(role, e) == <<role, e>>

Keys == Role \X Evidences
FileIds == 1..(2 * Cardinality(Keys) + Cardinality(Runs))

\* An answer: what it was asked for, by whom, and which advice its prompt showed.
Answers == Runs \X (1..MaxAttempts)
Payloads == [role : Role, evidence : Evidences, by : Answers,
             seen : SUBSET (Role \X Answers)]
IsPayload(x) == x \notin {Nil, Abstain, Empty, Torn}

Places == {"idle", "role", "asking", "open", "fill", "move", "done"}
NoRun == [place |-> "idle", evidence |-> Nil, k |-> 1, calls |-> 0, hits |-> 0,
          result |-> [x \in Role |-> Nil], answer |-> Nil, file |-> 0]

\* What stands for no answer is none.
ValuesAssumption == Nil # Abstain /\ \A v \in {Nil, Abstain, Empty, Torn} : v \notin Payloads

RunStates ==
    [place : Places, evidence : Evidences \cup {Nil}, k : 1..(Len(Order) + 1),
     calls : 0..MaxCalls, hits : 0..Len(Order), file : FileIds \cup {0},
     result : [Role -> {Nil, Abstain} \cup Payloads], answer : {Nil} \cup Payloads]

TypeOK ==
    /\ final \in [Keys -> FileIds \cup {0}] /\ temporary \in [Keys -> FileIds \cup {0}]
    /\ content \in [FileIds -> {Nil, Empty, Torn} \cup Payloads]
    /\ run \in [Runs -> RunStates]
    /\ attempts \in [Runs -> 0..MaxAttempts]
    /\ asked \in [Runs -> Nat] /\ paid \subseteq Keys

Init ==
    /\ final = [key \in Keys |-> 0] /\ temporary = [key \in Keys |-> 0]
    /\ content = [f \in FileIds |-> Nil]
    /\ run = [r \in Runs |-> NoRun] /\ attempts = [r \in Runs |-> 0]
    /\ asked = [r \in Runs |-> 0] /\ paid = {}

-----------------------------------------------------------------------------
Now(r) == Order[run[r].k]
KeyNow(r) == Key(Now(r), run[r].evidence)

\* _read_cache: a file that is absent, not JSON or not its own digest is none.
Cached(key) ==
    IF final[key] # 0 /\ IsPayload(content[final[key]]) THEN content[final[key]] ELSE Nil

\* The next role, with this outcome for the current one.
Next1(r, outcome) ==
    [run[r] EXCEPT !.result[Now(r)] = outcome, !.k = @ + 1, !.answer = Nil, !.file = 0,
                   !.place = IF run[r].k = Len(Order) THEN "done" ELSE "role"]

Start(r, e) ==
    /\ run[r].place \in {"idle", "done"} /\ attempts[r] < MaxAttempts
    /\ attempts' = [attempts EXCEPT ![r] = @ + 1]
    /\ run' = [run EXCEPT ![r] = [NoRun EXCEPT !.place = "role", !.evidence = e]]
    /\ asked' = [asked EXCEPT ![r] = 0]
    /\ UNCHANGED <<names, content, paid>>

FromCache(r) ==
    /\ run[r].place = "role" /\ Cached(KeyNow(r)) # Nil
    /\ run' = [run EXCEPT ![r] = [Next1(r, Cached(KeyNow(r))) EXCEPT !.hits = @ + 1]]
    /\ UNCHANGED <<names, content, attempts, history>>

OverBudget(r) == run[r].calls >= MaxCalls \/ (run[r].calls + 1) * CallCost > MaxCost

\* _abstain without a request.
NotAsked(r) ==
    /\ run[r].place = "role" /\ Cached(KeyNow(r)) = Nil
    /\ ~ Live \/ OverBudget(r)
    /\ run' = [run EXCEPT ![r] = Next1(r, Abstain)]
    /\ UNCHANGED <<names, content, attempts, history>>

\* The call is counted, then made.
Ask(r) ==
    /\ run[r].place = "role" /\ Cached(KeyNow(r)) = Nil
    /\ Live /\ ~ OverBudget(r)
    /\ run' = [run EXCEPT ![r].place = "asking", ![r].calls = @ + 1]
    /\ asked' = [asked EXCEPT ![r] = @ + 1]
    /\ UNCHANGED <<names, content, attempts, paid>>

\* The advice of the specialists that did not abstain, whose digests go into
\* the committee's evidence; the prompt shows an evidence's first 897 characters.
SpecialistAdvice(r) ==
    {<<x, run[r].result[x].by>> : x \in {y \in Role \ {Committee} : IsPayload(run[r].result[y])}}
Shown(r) == IF Now(r) = Committee /\ PromptFits THEN SpecialistAdvice(r) ELSE {}

\* advise returns an answer.
Answered(r) ==
    /\ run[r].place = "asking"
    /\ run' = [run EXCEPT ![r].place = "open",
                  ![r].answer = [role |-> Now(r), evidence |-> run[r].evidence,
                                 by |-> <<r, attempts[r]>>, seen |-> Shown(r)]]
    /\ UNCHANGED <<names, content, attempts, history>>

\* It raises or falls back, or writing the answer's file raises: an abstention.
Fails(r) ==
    /\ run[r].place \in {"asking", "open", "fill", "move"}
    /\ run' = [run EXCEPT ![r] = Next1(r, Abstain)]
    /\ UNCHANGED <<names, content, attempts, history>>

-----------------------------------------------------------------------------
(* _write_cache. *)

InUse(f) == \/ \E key \in Keys : f \in {final[key], temporary[key]}
            \/ \E r \in Runs : run[r].file = f
Unused == CHOOSE f \in FileIds : ~ InUse(f) /\ \A g \in FileIds : ~ InUse(g) => f <= g

\* open("w") empties the file that has the temporary name, or creates one.
Open(r) ==
    LET f == IF temporary[KeyNow(r)] # 0 THEN temporary[KeyNow(r)] ELSE Unused
    IN /\ run[r].place = "open"
       /\ temporary' = [temporary EXCEPT ![KeyNow(r)] = f]
       /\ content' = [content EXCEPT ![f] = Empty]
       /\ run' = [run EXCEPT ![r].place = "fill", ![r].file = f]
       /\ UNCHANGED <<final, attempts, history>>

\* A file another run has written since it was opened, or has open, may end
\* with bytes of both.
Fill(r) ==
    LET f == run[r].file
        shared == content[f] # Empty \/ \E q \in Runs \ {r} : run[q].file = f
    IN /\ run[r].place = "fill"
       /\ \E c \in {run[r].answer} \cup (IF shared THEN {Torn} ELSE {}) :
             content' = [content EXCEPT ![f] = c]
       /\ run' = [run EXCEPT ![r].place = "move", ![r].file = 0]
       /\ UNCHANGED <<names, attempts, history>>

\* Mutant: the answer is returned, its file stays temporary.
MoveForgets(r) ==
    /\ run[r].place = "move"
    /\ paid' = paid \cup {KeyNow(r)}
    /\ run' = [run EXCEPT ![r] = Next1(r, run[r].answer)]
    /\ UNCHANGED <<names, content, attempts, asked>>

\* os.replace moves the temporary name, unless another run has done so.
Move(r) ==
    LET key == KeyNow(r) IN
    /\ run[r].place = "move" /\ temporary[key] # 0
    /\ final' = [final EXCEPT ![key] = temporary[key]]
    /\ temporary' = [temporary EXCEPT ![key] = 0]
    /\ content' = [f \in FileIds |-> IF f = final[key] THEN Nil ELSE content[f]]
    /\ paid' = paid \cup {key}
    /\ run' = [run EXCEPT ![r] = Next1(r, run[r].answer)]
    /\ UNCHANGED <<attempts, asked>>

\* The process ends anywhere.
Crash(r) ==
    /\ run[r].place \notin {"idle", "done"}
    /\ run' = [run EXCEPT ![r] = NoRun]
    /\ UNCHANGED <<names, content, attempts, history>>

-----------------------------------------------------------------------------
Next == \E r \in Runs :
           \/ \E e \in Evidences : Start(r, e)
           \/ FromCache(r) \/ NotAsked(r) \/ Ask(r) \/ Answered(r) \/ Fails(r)
           \/ Open(r) \/ Fill(r) \/ Move(r) \/ Crash(r)

Spec == Init /\ [][Next]_vars

-----------------------------------------------------------------------------
(* Properties. *)

\* The advice in a result was given to this role for this evidence, also when
\* it comes from a file two runs have written at once (_read_cache's digest).
AdviceIsOfItsEvidence ==
    \A r \in Runs, x \in Role : IsPayload(run[r].result[x]) =>
        run[r].result[x].role = x /\ run[r].result[x].evidence = run[r].evidence

\* A run never sends more requests, nor more costly ones, than its budget,
\* counting those that failed, and its report counts them all.
BudgetKept ==
    \A r \in Runs : /\ asked[r] <= MaxCalls /\ asked[r] * CallCost <= MaxCost
                    /\ run[r].place = "done" => run[r].calls = asked[r]

\* A finished run has an outcome for every role, and what its report counts as
\* hits and calls explains every piece of advice in it.
OutcomesExplained ==
    \A r \in Runs : run[r].place = "done" =>
        LET own == {x \in Role : IsPayload(run[r].result[x])
                                 /\ run[r].result[x].by = <<r, attempts[r]>>}
            others == {x \in Role : IsPayload(run[r].result[x])} \ own
        IN /\ \A x \in Role : run[r].result[x] # Nil
           /\ run[r].hits = Cardinality(others) /\ run[r].calls >= Cardinality(own)

\* With one run at a time no answer is asked for twice: once taken it is filed
\* (retries and repeated cycles do not spend again).
PaidOnce == \A r \in Runs : run[r].place = "asking" => KeyNow(r) \notin paid

-----------------------------------------------------------------------------
(* Theorems: the properties hold for any roles, evidences and budget, and for *)
(* any number of runs that overlap (PaidOnce for one run at a time).  The     *)
(* inductive invariant says what each run holds, which key a file serves, and *)
(* whose answers there can be.                                                *)

\* What a run is doing: it has a role to ask while it works, an answer to this
\* role from the response until it is filed, a file open only while it writes.
Asking == {"asking", "open", "fill", "move"}
AtWork == {"role"} \cup Asking
RunSound(r) ==
    /\ run[r].place = "idle" => run[r] = NoRun
    /\ run[r].place # "idle" =>
          run[r].evidence \in Evidences /\ run[r].calls = asked[r] /\ attempts[r] >= 1
    /\ run[r].place \in AtWork <=> (run[r].place # "idle" /\ run[r].k <= Len(Order))
    /\ run[r].place \in {"open", "fill", "move"} =>
          /\ run[r].answer \in Payloads
          /\ run[r].answer.role = Now(r) /\ run[r].answer.evidence = run[r].evidence
          /\ run[r].answer.by = <<r, attempts[r]>>
    /\ run[r].file # 0 <=> run[r].place = "fill"
    /\ run[r].hits < run[r].k
    /\ asked[r] <= MaxCalls /\ asked[r] * CallCost <= MaxCost

AdviceSound(r) ==
    \A x \in Role : run[r].result[x] \in Payloads =>
        run[r].result[x].role = x /\ run[r].result[x].evidence = run[r].evidence

\* Outcomes are there for the roles before the current one; an answer of the
\* current run is of one of these, or of the current role when it is filed.
Others(r) == {x \in Role : run[r].result[x] \in Payloads /\ run[r].result[x].by # <<r, attempts[r]>>}
Own(r) == {x \in Role : run[r].result[x] \in Payloads /\ run[r].result[x].by = <<r, attempts[r]>>}
OutcomesSound(r) ==
    /\ \A j \in 1..Len(Order) : run[r].result[Order[j]] # Nil <=> j < run[r].k
    /\ \A f \in FileIds : content[f] \in Payloads /\ content[f].by = <<r, attempts[r]>> =>
          \E j \in 1..Len(Order) :
             /\ Order[j] = content[f].role
             /\ j < run[r].k \/ (j = run[r].k /\ run[r].place = "move")
    /\ run[r].hits = Cardinality(Others(r))
    /\ run[r].calls >= Cardinality(Own(r))
    /\ run[r].place \in Asking => run[r].calls > Cardinality(Own(r))

\* A file serves one key: its name, its temporary name, or a run that still
\* writes it after it was renamed; and it answers that key.
Serves(f, key) ==
    \/ final[key] = f
    \/ temporary[key] = f
    \/ \E r \in Runs : run[r].file = f /\ KeyNow(r) = key
FilesSound ==
    /\ \A f \in FileIds : \A key, other \in Keys : Serves(f, key) /\ Serves(f, other) => key = other
    /\ \A f \in FileIds : \A key \in Keys :
          Serves(f, key) /\ content[f] \in Payloads => Key(content[f].role, content[f].evidence) = key
    /\ \A key \in Keys : temporary[key] # 0 => temporary[key] # final[key]

\* No answer is of a run that is still to start.
AnswersStarted ==
    \A f \in FileIds : content[f] \in Payloads => content[f].by[2] <= attempts[content[f].by[1]]

IInv ==
    /\ TypeOK /\ FilesSound /\ AnswersStarted
    /\ \A r \in Runs : /\ RunSound(r) /\ AdviceSound(r)
                       /\ run[r].place # "idle" => OutcomesSound(r)

\* One run at a time: what was paid for is cached, and a file is as it was left.
FiledSound ==
    /\ \A key \in paid : Cached(key) # Nil
    /\ \A r \in Runs :
          /\ run[r].place = "asking" => KeyNow(r) \notin paid
          /\ run[r].place = "fill" =>
                run[r].file = temporary[KeyNow(r)] /\ content[run[r].file] = Empty
          /\ run[r].place = "move" =>
                temporary[KeyNow(r)] # 0 /\ content[temporary[KeyNow(r)]] = run[r].answer

\* What the theorems assume of the constants.
ShadowAssumption == RolesAssumption /\ BudgetAssumption /\ FiniteAssumption /\ ValuesAssumption

\* The order asks every allowed role once.
LEMMA OrderFacts ==
    ASSUME RolesAssumption
    PROVE  /\ Len(Order) \in Nat \ {0}
           /\ \A j \in 1..Len(Order) : Order[j] \in Role
           /\ \A i, j \in 1..Len(Order) : Order[i] = Order[j] => i = j
           /\ \A x \in Role : \E j \in 1..Len(Order) : Order[j] = x
<1> DEFINE s == AllowedRoles
           n == Len(s)
<1>1. /\ s \in Seq(Role) /\ n \in Nat \ {0} /\ DOMAIN s = 1..n
      /\ \A i \in 1..n : s[i] \in Role
      /\ \A i, j \in 1..n : s[i] = s[j] => i = j
      /\ \A x \in Role : \E i \in 1..n : s[i] = x
      BY DEF RolesAssumption, Role, ToSet, IsInjective
<1>2. CASE Committee \notin Role
      BY <1>1, <1>2 DEF Order
<1> HIDE DEF s, n
<1>3. CASE Committee \in Role
  <2> DEFINE c == CHOOSE i \in DOMAIN s : s[i] = Committee
             a == SubSeq(s, 1, c - 1)
             b == SubSeq(s, c + 1, n)
  <2>1. c \in 1..n /\ s[c] = Committee
        BY <1>1, <1>3
  <2>2. Order = (a \o b) \o <<Committee>>
        BY <1>3 DEF Order, RemoveAt, s, n
  <2> HIDE DEF c
  <2>3. /\ a \in Seq(Role) /\ Len(a) = c - 1
        /\ \A i \in 1..(c - 1) : a[i] = s[i]
    <3>1. \A i \in 1..(c - 1) : s[i] \in Role
          BY <1>1, <2>1
    <3> QED BY <3>1, <2>1, SubSeqProperties
  <2>4. /\ b \in Seq(Role) /\ Len(b) = n - c
        /\ \A i \in 1..(n - c) : b[i] = s[c + i]
    <3>1. \A i \in (c + 1)..n : s[i] \in Role
          BY <1>1, <2>1
    <3>2. /\ b \in Seq(Role) /\ Len(b) = IF c + 1 <= n THEN n - (c + 1) + 1 ELSE 0
          /\ \A i \in 1..(n - (c + 1) + 1) : b[i] = s[c + 1 + i - 1]
          BY <3>1, <2>1, <1>1, SubSeqProperties
    <3> QED BY <3>2, <2>1, <1>1
  <2> HIDE DEF a, b
  <2> DEFINE d == a \o b
  <2>5. /\ d \in Seq(Role) /\ Len(d) = n - 1
        /\ \A i \in 1..(n - 1) : d[i] = IF i < c THEN s[i] ELSE s[i + 1]
    <3>1. /\ d \in Seq(Role) /\ Len(d) = Len(a) + Len(b)
          /\ \A i \in 1..(Len(a) + Len(b)) : d[i] = IF i <= Len(a) THEN a[i] ELSE b[i - Len(a)]
          BY <2>3, <2>4, ConcatProperties
    <3> HIDE DEF d
    <3>2. ASSUME NEW i \in 1..(n - 1)
          PROVE  d[i] = IF i < c THEN s[i] ELSE s[i + 1]
      <4>1. CASE i < c
            BY <4>1, <3>1, <2>3, <2>4, <2>1, <1>1
      <4>2. CASE i >= c
        <5>1. PICK j \in 1..(n - c) : j = i - (c - 1)
              BY <4>2, <2>1, <1>1
        <5>2. c + j = i + 1 /\ ~(i < c)
              BY <5>1, <4>2, <2>1, <1>1
        <5>3. d[i] = b[j]
              BY <5>1, <4>2, <3>1, <2>3, <2>4, <2>1, <1>1
        <5>4. b[j] = s[c + j]
              BY <2>4
        <5> QED BY <5>2, <5>3, <5>4
      <4> QED BY <4>1, <4>2, <2>1, <1>1
    <3>3. Len(d) = n - 1
          BY <3>1, <2>3, <2>4, <2>1, <1>1
    <3> QED BY <3>1, <3>2, <3>3
  <2>6. /\ Len(Order) = n
        /\ \A i \in 1..n : Order[i] = IF i = n THEN Committee ELSE IF i < c THEN s[i] ELSE s[i + 1]
    <3>0. Order = d \o <<Committee>>
          BY <2>2
    <3> HIDE DEF d
    <3>1. d \in Seq(Role) /\ Len(d) = n - 1 /\ <<Committee>> \in Seq(Role) /\ Len(<<Committee>>) = 1
          BY <2>5, <1>3
    <3> DEFINE e == <<Committee>>
    <3>4. e[1] = Committee
          OBVIOUS
    <3> HIDE DEF e
    <3>2. /\ Len(d \o e) = n
          /\ \A i \in 1..n : (d \o e)[i] = IF i <= n - 1 THEN d[i] ELSE e[i - (n - 1)]
          BY <3>1, <1>1, ConcatProperties DEF e
    <3> DEFINE o == d \o e
    <3>5. Order = o
          BY <3>0 DEF e
    <3>6. Len(o) = n /\ \A i \in 1..n : o[i] = IF i <= n - 1 THEN d[i] ELSE e[i - (n - 1)]
          BY <3>2
    <3> HIDE DEF o
    <3>7. ASSUME NEW i \in 1..n
          PROVE  o[i] = IF i = n THEN Committee ELSE d[i]
      <4>1. CASE i = n
        <5>1. i - (n - 1) = 1 /\ ~(i <= n - 1)
              BY <4>1, <1>1
        <5> QED BY <5>1, <4>1, <3>4, <3>6
      <4>2. CASE i # n
            BY <4>2, <3>6, <1>1
      <4> QED BY <4>1, <4>2
    <3>8. ASSUME NEW i \in 1..n, i # n
          PROVE  d[i] = IF i < c THEN s[i] ELSE s[i + 1]
          BY <2>5, <3>8, <1>1
    <3> QED BY <3>5, <3>6, <3>7, <3>8
  <2>7. \A x \in Role : \E j \in 1..n : Order[j] = x
    <3> SUFFICES ASSUME NEW x \in Role PROVE \E j \in 1..n : Order[j] = x
        OBVIOUS
    <3>1. PICK i \in 1..n : s[i] = x
          BY <1>1
    <3>2. CASE i < c
          BY <3>1, <3>2, <2>1, <2>6, <1>1
    <3>3. CASE i = c
          BY <3>1, <3>3, <2>1, <2>6, <1>1
    <3>4. CASE i > c
      <4>1. i - 1 \in 1..n /\ i - 1 # n /\ ~(i - 1 < c) /\ (i - 1) + 1 = i
            BY <3>4, <2>1, <1>1
      <4>2. Order[i - 1] = x
            BY <4>1, <3>1, <2>6
      <4> QED BY <4>1, <4>2
    <3> QED BY <3>2, <3>3, <3>4, <2>1, <1>1
  <2>8. \A j \in 1..n : Order[j] \in Role
        BY <2>6, <1>1, <1>3, <2>1
  <2>9. \A i, j \in 1..n : Order[i] = Order[j] => i = j
    <3> DEFINE At(i) == IF i = n THEN c ELSE IF i < c THEN i ELSE i + 1
    <3>1. \A i \in 1..n : At(i) \in 1..n /\ Order[i] = s[At(i)]
          BY <2>6, <2>1, <1>1
    <3>2. \A i, j \in 1..n : At(i) = At(j) => i = j
          BY <2>1, <1>1
    <3> HIDE DEF At
    <3> QED BY <3>1, <3>2, <1>1
  <2> QED BY <2>6, <2>7, <2>8, <2>9, <1>1
<1> QED BY <1>2, <1>3

\* There are finitely many keys.
LEMMA KeysFinite ==
    ASSUME RolesAssumption, FiniteAssumption
    PROVE  IsFiniteSet(Keys) /\ Cardinality(Keys) \in Nat /\ IsFiniteSet(Role)
<1>1. IsFiniteSet(Role)
  <2>1. AllowedRoles \in Surjection(1..Len(AllowedRoles), Role) /\ Len(AllowedRoles) \in Nat
        BY DEF RolesAssumption, Role, ToSet, Surjection
  <2>2. IsFiniteSet(1..Len(AllowedRoles))
        BY <2>1, FS_Interval
  <2> QED BY <2>1, <2>2, FS_Surjection
<1>2. IsFiniteSet(Keys)
      BY <1>1, FS_Product DEF Keys, FiniteAssumption
<1> QED BY <1>1, <1>2, FS_CardinalityType

\* The names of S's members are no more than S has members.
LEMMA NoMoreNames ==
    ASSUME NEW S, IsFiniteSet(S), NEW T, NEW g \in [S -> T]
    PROVE  /\ IsFiniteSet({g[x] : x \in S})
           /\ Cardinality({g[x] : x \in S}) <= Cardinality(S)
<1>1. g \in Surjection(S, {g[x] : x \in S})
      BY DEF Surjection
<1> QED BY <1>1, FS_Surjection

\* Open finds an unused file: every key has two names at most, every other run
\* one open file.
LEMMA UnusedIsFree ==
    ASSUME ShadowAssumption, TypeOK, NEW r \in Runs, run[r].file = 0
    PROVE  Unused \in FileIds /\ ~ InUse(Unused)
<1> USE DEF ShadowAssumption
<1> DEFINE others == Runs \ {r}
           open == [q \in others |-> run[q].file]
           A == {final[x] : x \in Keys}
           B == {temporary[x] : x \in Keys}
           C == {open[q] : q \in others}
           nk == Cardinality(Keys)
           nr == Cardinality(Runs)
<1>1. nk \in Nat /\ IsFiniteSet(Keys) /\ IsFiniteSet(Runs) /\ nr \in Nat
      BY KeysFinite, FS_CardinalityType DEF FiniteAssumption
<1>2. IsFiniteSet(others) /\ Cardinality(others) = nr - 1
      BY <1>1, FS_RemoveElement
<1>3. IsFiniteSet(A) /\ Cardinality(A) <= nk
      BY <1>1, NoMoreNames DEF TypeOK
<1>4. IsFiniteSet(B) /\ Cardinality(B) <= nk
      BY <1>1, NoMoreNames DEF TypeOK
<1>5. IsFiniteSet(C) /\ Cardinality(C) <= nr - 1
  <2>1. open \in [others -> {run[q].file : q \in others}]
        OBVIOUS
  <2>2. C = {open[q] : q \in others}
        OBVIOUS
  <2> HIDE DEF open, others, C
  <2>3. IsFiniteSet({open[q] : q \in others}) /\ Cardinality({open[q] : q \in others}) <= Cardinality(others)
        BY <1>2, <2>1, NoMoreNames
  <2> QED BY <1>2, <2>2, <2>3
<1> HIDE DEF A, B, C
<1>6. /\ Cardinality(A) \in Nat /\ Cardinality(B) \in Nat /\ Cardinality(C) \in Nat
      /\ IsFiniteSet(A \cup B) /\ Cardinality(A \cup B) \in Nat
      /\ IsFiniteSet(A \cap B) /\ Cardinality(A \cap B) \in Nat
      /\ IsFiniteSet((A \cup B) \cap C) /\ Cardinality((A \cup B) \cap C) \in Nat
  <2>1. IsFiniteSet(A \cup B) /\ IsFiniteSet(A \cap B)
        BY <1>3, <1>4, FS_Union, FS_Intersection
  <2>2. IsFiniteSet((A \cup B) \cap C)
        BY <2>1, <1>5, FS_Intersection
  <2> QED BY <2>1, <2>2, <1>3, <1>4, <1>5, FS_CardinalityType
<1>7. Cardinality(A \cup B) <= nk + nk
  <2>1. Cardinality(A \cup B) = Cardinality(A) + Cardinality(B) - Cardinality(A \cap B)
        BY <1>3, <1>4, FS_Union
  <2> QED BY <2>1, <1>1, <1>3, <1>4, <1>6
<1>8. /\ IsFiniteSet((A \cup B) \cup C)
      /\ Cardinality((A \cup B) \cup C) <= nk + nk + nr - 1
  <2>1. /\ IsFiniteSet((A \cup B) \cup C)
        /\ Cardinality((A \cup B) \cup C) =
              Cardinality(A \cup B) + Cardinality(C) - Cardinality((A \cup B) \cap C)
        BY <1>5, <1>6, FS_Union
  <2> QED BY <2>1, <1>1, <1>5, <1>6, <1>7
<1>9. IsFiniteSet(FileIds) /\ Cardinality(FileIds) = nk + nk + nr
  <2>1. 2 * nk + nr \in Nat /\ 2 * nk + nr = nk + nk + nr
        BY <1>1
  <2>2. IsFiniteSet(1..(2 * nk + nr)) /\ Cardinality(1..(2 * nk + nr)) = nk + nk + nr
        BY <2>1, FS_Interval
  <2> QED BY <2>2 DEF FileIds
<1>10. ~(FileIds \subseteq (A \cup B) \cup C)
  <2> SUFFICES ASSUME FileIds \subseteq (A \cup B) \cup C PROVE FALSE
      OBVIOUS
  <2>1. Cardinality(FileIds) <= Cardinality((A \cup B) \cup C)
        BY <1>8, FS_Subset
  <2>2. Cardinality((A \cup B) \cup C) \in Nat
        BY <1>8, FS_CardinalityType
  <2> QED BY <2>1, <2>2, <1>8, <1>9, <1>1
<1>11. PICK f \in FileIds : f \notin (A \cup B) \cup C
      BY <1>10
<1>12. ~ InUse(f)
  <2>1. f # 0
        BY <1>1, <1>11 DEF FileIds
  <2> QED BY <1>11, <2>1 DEF InUse, A, B, C
<1> DEFINE free == {g \in FileIds : ~ InUse(g)}
<1>13. PICK m \in free : \A y \in free : ~(<<y, m>> \in OpToRel(<, Nat))
  <2>1. free \in SUBSET Nat /\ free # {}
        BY <1>11, <1>12, <1>1 DEF FileIds
  <2> HIDE DEF free
  <2> QED BY <2>1, NatLessThanWellFounded, WFMin
<1>14. \A y \in free : m <= y
  <2> SUFFICES ASSUME NEW y \in free PROVE m <= y
      OBVIOUS
  <2>1. m \in Nat /\ y \in Nat
        BY <1>1 DEF FileIds
  <2>2. ~(y < m)
        BY <1>13, <2>1 DEF OpToRel
  <2> QED BY <2>1, <2>2
<1>15. m \in FileIds /\ ~ InUse(m) /\ \A g \in FileIds : ~ InUse(g) => m <= g
      BY <1>14
<1> HIDE DEF free
<1> QED BY <1>15 DEF Unused

-----------------------------------------------------------------------------
\* A run at work has a role to ask about and a key to file under.
LEMMA NowFacts ==
    ASSUME ShadowAssumption, TypeOK, NEW r \in Runs, RunSound(r), run[r].place \in AtWork
    PROVE  /\ run[r].k \in 1..Len(Order) /\ Now(r) \in Role
           /\ run[r].evidence \in Evidences /\ KeyNow(r) \in Keys
           /\ KeyNow(r) = <<Now(r), run[r].evidence>>
           /\ attempts[r] \in 1..MaxAttempts
<1>1. run[r].k \in 1..Len(Order) /\ run[r].evidence \in Evidences /\ attempts[r] \in 1..MaxAttempts
      BY OrderFacts DEF ShadowAssumption, FiniteAssumption, TypeOK, RunStates, RunSound, AtWork, Asking
<1>2. Now(r) \in Role
      BY <1>1, OrderFacts DEF Now, ShadowAssumption
<1> QED BY <1>1, <1>2 DEF KeyNow, Key, Keys

\* A step of one run that writes no answer but its own leaves the others sound.
LEMMA OthersKept ==
    ASSUME IInv, NEW r \in Runs,
           \A q \in Runs \ {r} : /\ run'[q] = run[q] /\ attempts'[q] = attempts[q]
                                 /\ asked'[q] = asked[q],
           \A f \in FileIds : content'[f] \in Payloads =>
               content'[f] = content[f] \/ content'[f].by[1] = r
    PROVE  \A q \in Runs \ {r} : /\ RunSound(q)' /\ AdviceSound(q)'
                                 /\ run'[q].place # "idle" => OutcomesSound(q)'
<1> SUFFICES ASSUME NEW q \in Runs \ {r}
             PROVE  /\ RunSound(q)' /\ AdviceSound(q)'
                    /\ run'[q].place # "idle" => OutcomesSound(q)'
    OBVIOUS
<1>1. RunSound(q) /\ AdviceSound(q) /\ (run[q].place # "idle" => OutcomesSound(q))
      BY DEF IInv
<1>2. RunSound(q)'
      BY <1>1 DEF RunSound, Now
<1>3. AdviceSound(q)'
      BY <1>1 DEF AdviceSound
<1>4. ASSUME run'[q].place # "idle"
      PROVE  OutcomesSound(q)'
  <2>1. OutcomesSound(q)
        BY <1>1, <1>4
  <2>2. Others(q)' = Others(q) /\ Own(q)' = Own(q)
        BY DEF Others, Own
  <2>3. \A f \in FileIds : content'[f] \in Payloads /\ content'[f].by = <<q, attempts[q]>> =>
            content'[f] = content[f]
        OBVIOUS
  <2> QED BY <2>1, <2>2, <2>3 DEF OutcomesSound
<1> QED BY <1>2, <1>3, <1>4

\* A step that gives no file another key and writes no answer keeps the files sound.
LEMMA FilesKept ==
    ASSUME FilesSound,
           \A f \in FileIds : \A key \in Keys : Serves(f, key)' => Serves(f, key),
           \A f \in FileIds : content'[f] \in Payloads => content'[f] = content[f],
           \A key \in Keys : temporary'[key] # 0 => temporary'[key] # final'[key]
    PROVE  FilesSound'
<1>1. \A f \in FileIds : \A key, other \in Keys :
        Serves(f, key)' /\ Serves(f, other)' => key = other
      BY DEF FilesSound
<1>2. \A f \in FileIds : \A key \in Keys :
        Serves(f, key)' /\ content'[f] \in Payloads =>
            Key(content'[f].role, content'[f].evidence) = key
      BY DEF FilesSound
<1> QED BY <1>1, <1>2 DEF FilesSound, Key

\* The same when only runs change, and the file of one is closed or as it was.
LEMMA FilesKeptByRuns ==
    ASSUME FilesSound, NEW r \in Runs, UNCHANGED <<names, content>>,
           \A q \in Runs \ {r} : run'[q] = run[q], run'[r].file = 0
    PROVE  FilesSound'
<1>1. \A f \in FileIds : \A key \in Keys : Serves(f, key)' => Serves(f, key)
      BY DEF Serves, KeyNow, Now, Key, FileIds, names
<1> QED BY <1>1, FilesKept DEF FilesSound, names

-----------------------------------------------------------------------------
\* The current role gets an outcome, counted as a hit or not, and the next is up.
Recorded(r, outcome, hit) ==
    /\ run' \in [Runs -> RunStates]
    /\ \A q \in Runs \ {r} : run'[q] = run[q]
    /\ run'[r].place = IF run[r].k = Len(Order) THEN "done" ELSE "role"
    /\ run'[r].k = run[r].k + 1 /\ run'[r].evidence = run[r].evidence
    /\ run'[r].calls = run[r].calls /\ run'[r].hits = run[r].hits + hit
    /\ run'[r].result = [run[r].result EXCEPT ![Now(r)] = outcome]
    /\ run'[r].file = 0

\* Next1 does just that, FromCache with a hit.
LEMMA RecordedByNext1 ==
    ASSUME ShadowAssumption, TypeOK, NEW r \in Runs, RunSound(r), run[r].place \in AtWork,
           NEW outcome \in {Abstain} \cup Payloads
    PROVE  /\ run' = [run EXCEPT ![r] = Next1(r, outcome)] => Recorded(r, outcome, 0)
           /\ run' = [run EXCEPT ![r] = [Next1(r, outcome) EXCEPT !.hits = @ + 1]] =>
                Recorded(r, outcome, 1)
<1> DEFINE next == Next1(r, outcome)
           hit == [Next1(r, outcome) EXCEPT !.hits = @ + 1]
<1>1. run[r] \in RunStates /\ run[r].k \in 1..Len(Order) /\ Now(r) \in Role /\ Len(Order) \in Nat
      /\ run[r].hits < run[r].k
      BY NowFacts, OrderFacts DEF TypeOK, RunSound, ShadowAssumption
<1>2. /\ next \in RunStates
      /\ next.place = IF run[r].k = Len(Order) THEN "done" ELSE "role"
      /\ next.k = run[r].k + 1 /\ next.evidence = run[r].evidence
      /\ next.calls = run[r].calls /\ next.hits = run[r].hits
      /\ next.result = [run[r].result EXCEPT ![Now(r)] = outcome]
      /\ next.file = 0
  <2>1. [run[r].result EXCEPT ![Now(r)] = outcome] \in [Role -> {Nil, Abstain} \cup Payloads]
        BY <1>1 DEF RunStates
  <2>2. /\ next.place = IF run[r].k = Len(Order) THEN "done" ELSE "role"
        /\ next.k = run[r].k + 1 /\ next.evidence = run[r].evidence
        /\ next.calls = run[r].calls /\ next.hits = run[r].hits
        /\ next.result = [run[r].result EXCEPT ![Now(r)] = outcome]
        /\ next.file = 0 /\ next.answer = Nil
        BY <1>1 DEF Next1, RunStates
  <2>3. next \in [place : {"done", "role"}, evidence : {run[r].evidence}, k : {run[r].k + 1},
                 calls : {run[r].calls}, hits : {run[r].hits}, file : {0},
                 result : {[run[r].result EXCEPT ![Now(r)] = outcome]}, answer : {Nil}]
        BY <1>1 DEF Next1, RunStates
  <2>4. /\ run[r].k + 1 \in 1..(Len(Order) + 1) /\ run[r].evidence \in Evidences \cup {Nil}
        /\ run[r].calls \in 0..MaxCalls /\ run[r].hits \in 0..Len(Order)
        BY <1>1 DEF RunStates
  <2>5. next \in RunStates
    <3> HIDE DEF next
    <3> QED BY <2>1, <2>3, <2>4 DEF RunStates, Places
  <2> QED BY <2>2, <2>5
<1>3. hit = [next EXCEPT !.hits = @ + 1]
      OBVIOUS
<1> HIDE DEF next
<1>4. /\ hit \in RunStates
      /\ hit.place = next.place /\ hit.k = next.k /\ hit.evidence = next.evidence
      /\ hit.calls = next.calls /\ hit.hits = next.hits + 1 /\ hit.result = next.result
      /\ hit.file = next.file
      BY <1>1, <1>2, <1>3 DEF RunStates
<1> HIDE DEF hit
<1>5. ASSUME run' = [run EXCEPT ![r] = next]
      PROVE  Recorded(r, outcome, 0)
  <2>1. run'[r] = next /\ \A q \in Runs \ {r} : run'[q] = run[q]
        BY <1>5 DEF TypeOK
  <2>2. run' \in [Runs -> RunStates]
        BY <1>5, <1>2 DEF TypeOK
  <2>3. next.hits = run[r].hits + 0
        BY <1>1, <1>2 DEF RunStates
  <2> QED BY <2>1, <2>2, <2>3, <1>2 DEF Recorded
<1>6. ASSUME run' = [run EXCEPT ![r] = hit]
      PROVE  Recorded(r, outcome, 1)
  <2>1. run'[r] = hit /\ \A q \in Runs \ {r} : run'[q] = run[q]
        BY <1>6 DEF TypeOK
  <2>2. run' \in [Runs -> RunStates]
        BY <1>6, <1>4 DEF TypeOK
  <2> QED BY <2>1, <2>2, <1>2, <1>4 DEF Recorded
<1> QED BY <1>5, <1>6 DEF next, hit

\* Such a step keeps the run sound, when the outcome is an abstention, an answer
\* to a request of this run, or one of another run found in the cache.
LEMMA RecordedKeeps ==
    ASSUME ShadowAssumption, IInv, NEW r \in Runs, run[r].place \in AtWork,
           NEW outcome \in {Abstain} \cup Payloads, NEW hit \in {0, 1},
           Recorded(r, outcome, hit), UNCHANGED <<attempts, asked>>,
           outcome \in Payloads =>
               /\ outcome.role = Now(r) /\ outcome.evidence = run[r].evidence
               /\ IF outcome.by = <<r, attempts[r]>> THEN hit = 0 /\ run[r].place \in Asking
                  ELSE hit = 1,
           outcome = Abstain => hit = 0,
           \A f \in FileIds : content'[f] \in Payloads => content'[f] = content[f]
    PROVE  \A q \in Runs : /\ RunSound(q)' /\ AdviceSound(q)'
                           /\ run'[q].place # "idle" => OutcomesSound(q)'
<1>1. /\ RunSound(r) /\ AdviceSound(r) /\ OutcomesSound(r) /\ run[r].place # "idle"
      /\ TypeOK /\ run[r] \in RunStates
      BY DEF IInv, AtWork, Asking, TypeOK
<1>2. /\ run[r].k \in 1..Len(Order) /\ Now(r) \in Role /\ run[r].evidence \in Evidences
      /\ attempts[r] \in 1..MaxAttempts /\ Len(Order) \in Nat
      BY <1>1, NowFacts, OrderFacts DEF ShadowAssumption
<1>3. RunSound(r)'
  <2>1. run'[r].place \in {"done", "role"} /\ (run'[r].place = "role" <=> run'[r].k <= Len(Order))
        BY <1>2 DEF Recorded
  <2>2. run'[r].hits < run'[r].k
        BY <1>1, <1>2 DEF Recorded, RunSound, RunStates
  <2>3. run'[r].calls = asked'[r] /\ run'[r].evidence \in Evidences /\ attempts'[r] >= 1
        BY <1>1, <1>2 DEF Recorded, RunSound
  <2>4. run'[r].file = 0
        BY DEF Recorded
  <2>5. asked'[r] <= MaxCalls /\ asked'[r] * CallCost <= MaxCost
        BY <1>1 DEF RunSound
  <2> QED BY <2>1, <2>2, <2>3, <2>4, <2>5 DEF RunSound, AtWork, Asking
<1>4. \A x \in Role : run'[r].result[x] = IF x = Now(r) THEN outcome ELSE run[r].result[x]
      BY <1>1 DEF Recorded, RunStates
<1>5. AdviceSound(r)'
      BY <1>1, <1>4 DEF AdviceSound, Recorded
<1>6. OutcomesSound(r)'
  <2>1. Abstain \notin Payloads /\ Nil \notin Payloads /\ Abstain # Nil
        BY DEF ShadowAssumption, ValuesAssumption
  <2>2. ASSUME NEW j \in 1..Len(Order)
        PROVE  run'[r].result[Order[j]] # Nil <=> j < run'[r].k
    <3>1. Order[j] \in Role /\ (Order[j] = Now(r) <=> j = run[r].k)
          BY <1>2, OrderFacts DEF Now, ShadowAssumption
    <3>2. run[r].result[Order[j]] # Nil <=> j < run[r].k
          BY <1>1 DEF OutcomesSound
    <3> QED BY <3>1, <3>2, <1>2, <1>4, <2>1 DEF Recorded
  <2>3. ASSUME NEW f \in FileIds, content'[f] \in Payloads, content'[f].by = <<r, attempts'[r]>>
        PROVE  \E j \in 1..Len(Order) :
                  /\ Order[j] = content'[f].role
                  /\ j < run'[r].k \/ (j = run'[r].k /\ run'[r].place = "move")
    <3>1. content'[f] = content[f]
          BY <2>3
    <3>2. PICK j \in 1..Len(Order) : /\ Order[j] = content[f].role
                                     /\ j < run[r].k \/ j = run[r].k
          BY <1>1, <2>3, <3>1 DEF OutcomesSound
    <3>3. j < run'[r].k
          BY <3>2, <1>2 DEF Recorded
    <3> QED BY <3>1, <3>2, <3>3
  <2>4. run[r].result[Now(r)] = Nil
        BY <1>1, <1>2 DEF OutcomesSound, Now
  <2>5. Now(r) \notin Others(r) /\ Now(r) \notin Own(r)
        BY <2>4, <2>1 DEF Others, Own
  <2>6. IsFiniteSet(Others(r)) /\ IsFiniteSet(Own(r))
        /\ Cardinality(Others(r)) \in Nat /\ Cardinality(Own(r)) \in Nat
    <3>1. Others(r) \in SUBSET Role /\ Own(r) \in SUBSET Role /\ IsFiniteSet(Role)
          BY KeysFinite DEF Others, Own, ShadowAssumption
    <3> QED BY <3>1, FS_Subset, FS_CardinalityType
  <2>7. run[r].hits = Cardinality(Others(r)) /\ run[r].calls >= Cardinality(Own(r))
        /\ (run[r].place \in Asking => run[r].calls > Cardinality(Own(r)))
        BY <1>1 DEF OutcomesSound
  <2>8. run[r].calls \in Nat /\ run[r].hits \in Nat
        BY <1>1, <1>2 DEF RunStates, ShadowAssumption, BudgetAssumption
  <2>9. run'[r].place \notin Asking
        BY DEF Recorded, Asking
  <2>10. /\ Others(r)' = {x \in Role : run'[r].result[x] \in Payloads
                                      /\ run'[r].result[x].by # <<r, attempts[r]>>}
         /\ Own(r)' = {x \in Role : run'[r].result[x] \in Payloads
                                   /\ run'[r].result[x].by = <<r, attempts[r]>>}
        BY DEF Others, Own
  <2>11. /\ Others(r) = {x \in Role : run[r].result[x] \in Payloads
                                     /\ run[r].result[x].by # <<r, attempts[r]>>}
         /\ Own(r) = {x \in Role : run[r].result[x] \in Payloads
                                  /\ run[r].result[x].by = <<r, attempts[r]>>}
        BY DEF Others, Own
  <2>12. CASE outcome = Abstain
    <3>1. Others(r)' = Others(r) /\ Own(r)' = Own(r)
          BY <1>4, <2>12, <2>5, <2>1 DEF Others, Own
    <3>2. run'[r].hits = Cardinality(Others(r)') /\ run'[r].calls >= Cardinality(Own(r)')
          BY <3>1, <2>12, <2>7, <2>8 DEF Recorded
    <3> QED BY <3>2, <2>2, <2>3, <2>9 DEF OutcomesSound
  <2>13. CASE outcome \in Payloads /\ outcome.by = <<r, attempts[r]>>
    <3>0. ASSUME NEW x \in Role
          PROVE  /\ x \in Others(r)' <=> x \in Others(r)
                 /\ x \in Own(r)' <=> x \in Own(r) \/ x = Now(r)
      <4>1. CASE x = Now(r)
            BY <1>4, <2>13, <2>5, <2>10, <4>1
      <4>2. CASE x # Now(r)
            BY <1>4, <2>10, <2>11, <4>2
      <4> QED BY <4>1, <4>2
    <3>1. Others(r)' = Others(r) /\ Own(r)' = Own(r) \cup {Now(r)}
          BY <1>2, <2>10, <2>11, <3>0
    <3>2. Cardinality(Own(r) \cup {Now(r)}) = Cardinality(Own(r)) + 1
          BY <2>5, <2>6, FS_AddElement
    <3>3. hit = 0 /\ run[r].place \in Asking
          BY <2>13
    <3>4. run'[r].hits = Cardinality(Others(r)') /\ run'[r].calls >= Cardinality(Own(r)')
          BY <3>1, <3>2, <3>3, <2>6, <2>7, <2>8 DEF Recorded
    <3> QED BY <3>4, <2>2, <2>3, <2>9 DEF OutcomesSound
  <2>14. CASE outcome \in Payloads /\ outcome.by # <<r, attempts[r]>>
    <3>0. ASSUME NEW x \in Role
          PROVE  /\ x \in Others(r)' <=> x \in Others(r) \/ x = Now(r)
                 /\ x \in Own(r)' <=> x \in Own(r)
      <4>1. CASE x = Now(r)
            BY <1>4, <2>14, <2>5, <2>10, <4>1
      <4>2. CASE x # Now(r)
            BY <1>4, <2>10, <2>11, <4>2
      <4> QED BY <4>1, <4>2
    <3>1. Others(r)' = Others(r) \cup {Now(r)} /\ Own(r)' = Own(r)
          BY <1>2, <2>10, <2>11, <3>0
    <3>2. Cardinality(Others(r) \cup {Now(r)}) = Cardinality(Others(r)) + 1
          BY <2>5, <2>6, FS_AddElement
    <3>3. hit = 1
          BY <2>14
    <3>4. run'[r].hits = Cardinality(Others(r)') /\ run'[r].calls >= Cardinality(Own(r)')
          BY <3>1, <3>2, <3>3, <2>6, <2>7, <2>8 DEF Recorded
    <3> QED BY <3>4, <2>2, <2>3, <2>9 DEF OutcomesSound
  <2> QED BY <2>12, <2>13, <2>14
<1>7. \A q \in Runs \ {r} : /\ RunSound(q)' /\ AdviceSound(q)'
                            /\ run'[q].place # "idle" => OutcomesSound(q)'
      BY OthersKept DEF Recorded
<1> QED BY <1>3, <1>5, <1>6, <1>7

-----------------------------------------------------------------------------
(* Each step keeps the invariant. *)

\* Before any run there is nothing to be sound about.
LEMMA InitSound ==
    ASSUME ShadowAssumption, Init
    PROVE  IInv
<1>1. NoRun \in RunStates /\ NoRun.place = "idle" /\ NoRun.file = 0 /\ NoRun.hits = 0 /\ NoRun.k = 1
      /\ \A x \in Role : NoRun.result[x] = Nil
      BY OrderFacts DEF NoRun, RunStates, Places, ShadowAssumption, BudgetAssumption
<1>2. TypeOK
      BY <1>1 DEF Init, TypeOK, ShadowAssumption, FiniteAssumption
<1>3. 0 \notin FileIds /\ Nil \notin Payloads
      BY DEF FileIds, ShadowAssumption, ValuesAssumption
<1>4. FilesSound /\ AnswersStarted
      BY <1>1, <1>3 DEF Init, FilesSound, AnswersStarted, Serves
<1>5. ASSUME NEW r \in Runs
      PROVE  RunSound(r) /\ AdviceSound(r) /\ run[r].place = "idle"
  <2>1. run[r] = NoRun /\ asked[r] = 0
        BY DEF Init
  <2>2. asked[r] <= MaxCalls /\ asked[r] * CallCost <= MaxCost
        BY <2>1 DEF ShadowAssumption, BudgetAssumption
  <2>3. RunSound(r)
        BY <1>1, <2>1, <2>2 DEF RunSound, AtWork, Asking
  <2> QED BY <1>1, <1>3, <2>1, <2>3 DEF AdviceSound
<1> QED BY <1>2, <1>4, <1>5 DEF IInv

\* A new run has no outcome yet, and no answer is its own: its attempt is new.
LEMMA StartKeeps ==
    ASSUME ShadowAssumption, IInv, NEW r \in Runs, NEW e \in Evidences, Start(r, e)
    PROVE  IInv'
<1> DEFINE new == [NoRun EXCEPT !.place = "role", !.evidence = e]
<1>1. /\ new \in RunStates /\ new.place = "role" /\ new.evidence = e /\ new.k = 1 /\ new.calls = 0
      /\ new.hits = 0 /\ new.file = 0 /\ \A x \in Role : new.result[x] = Nil
  <2>1. new \in [place : {"role"}, evidence : {e}, k : {1}, calls : {0}, hits : {0}, file : {0},
                result : {[x \in Role |-> Nil]}, answer : {Nil}]
        BY DEF NoRun
  <2> HIDE DEF new
  <2>2. 1 \in 1..(Len(Order) + 1) /\ 0 \in 0..MaxCalls /\ 0 \in 0..Len(Order)
        BY OrderFacts DEF ShadowAssumption, BudgetAssumption
  <2> QED BY <2>1, <2>2 DEF RunStates, Places
<1> HIDE DEF new
<1>2. TypeOK /\ (\A q \in Runs : RunSound(q)) /\ FilesSound /\ AnswersStarted
      BY DEF IInv
<1>3. /\ run'[r] = new /\ attempts'[r] = attempts[r] + 1 /\ asked'[r] = 0
      /\ attempts[r] \in 0..MaxAttempts /\ attempts[r] < MaxAttempts /\ MaxAttempts \in Nat
      /\ \A q \in Runs \ {r} : run'[q] = run[q] /\ attempts'[q] = attempts[q] /\ asked'[q] = asked[q]
      BY <1>2 DEF Start, TypeOK, new, ShadowAssumption, FiniteAssumption
<1>4. TypeOK'
  <2>1. run' \in [Runs -> RunStates]
        BY <1>1, <1>2 DEF Start, TypeOK, new
  <2>2. attempts' \in [Runs -> 0..MaxAttempts]
        BY <1>2, <1>3 DEF Start, TypeOK
  <2>3. asked' \in [Runs -> Nat]
        BY <1>2 DEF Start, TypeOK
  <2> QED BY <2>1, <2>2, <2>3, <1>2 DEF Start, TypeOK, names
<1>5. UNCHANGED <<names, content>>
      BY DEF Start
<1>6. FilesSound'
      BY <1>1, <1>2, <1>3, <1>5, FilesKeptByRuns
<1>7. \A q \in Runs : attempts[q] <= attempts'[q]
      BY <1>2, <1>3 DEF TypeOK
<1>8. \A f \in FileIds : content[f] \in Payloads =>
        content[f].by \in Runs \X (1..MaxAttempts) /\ content[f].by[2] <= attempts[content[f].by[1]]
      BY <1>2 DEF AnswersStarted, Payloads, Answers
<1>9. AnswersStarted'
  <2> SUFFICES ASSUME NEW f \in FileIds, content[f] \in Payloads
               PROVE  content[f].by[2] <= attempts'[content[f].by[1]]
      BY <1>5 DEF AnswersStarted
  <2>1. content[f].by[1] \in Runs /\ content[f].by[2] \in 1..MaxAttempts
        BY <1>8
  <2>2. attempts[content[f].by[1]] \in Nat /\ attempts'[content[f].by[1]] \in Nat
        BY <2>1, <1>2, <1>4, <1>3 DEF TypeOK
  <2> QED BY <2>1, <2>2, <1>7, <1>8, <1>3
<1>10. RunSound(r)'
  <2>1. Len(Order) \in Nat \ {0}
        BY OrderFacts DEF ShadowAssumption
  <2>2. asked'[r] <= MaxCalls /\ asked'[r] * CallCost <= MaxCost
        BY <1>3 DEF ShadowAssumption, BudgetAssumption
  <2> QED BY <1>1, <1>3, <2>1, <2>2 DEF RunSound, AtWork, Asking
<1>11. Nil \notin Payloads
      BY DEF ShadowAssumption, ValuesAssumption
<1>12. AdviceSound(r)'
      BY <1>1, <1>3, <1>11 DEF AdviceSound
<1>13. OutcomesSound(r)'
  <2>1. Others(r)' = {} /\ Own(r)' = {}
        BY <1>1, <1>3, <1>11 DEF Others, Own
  <2>2. \A j \in 1..Len(Order) : run'[r].result[Order[j]] # Nil <=> j < run'[r].k
        BY <1>1, <1>3, OrderFacts DEF ShadowAssumption
  <2>3. \A f \in FileIds : ~(content'[f] \in Payloads /\ content'[f].by = <<r, attempts'[r]>>)
    <3> SUFFICES ASSUME NEW f \in FileIds, content[f] \in Payloads, content[f].by = <<r, attempts'[r]>>
                 PROVE  FALSE
        BY <1>5
    <3>1. content[f].by[1] = r /\ content[f].by[2] = attempts'[r]
          OBVIOUS
    <3> QED BY <3>1, <1>3, <1>8
  <2>4. Cardinality({}) = 0
        BY FS_EmptySet
  <2>5. run'[r].hits = Cardinality(Others(r)') /\ run'[r].calls >= Cardinality(Own(r)')
        /\ run'[r].place \notin Asking
        BY <1>1, <1>3, <2>1, <2>4 DEF Asking
  <2> QED BY <2>2, <2>3, <2>5 DEF OutcomesSound
<1>14. \A q \in Runs \ {r} : /\ RunSound(q)' /\ AdviceSound(q)'
                             /\ run'[q].place # "idle" => OutcomesSound(q)'
      BY <1>3, <1>5, OthersKept
<1> QED BY <1>4, <1>6, <1>9, <1>10, <1>12, <1>13, <1>14 DEF IInv

\* The three steps that only record an outcome.
LEMMA OnlyRecordedKeeps ==
    ASSUME ShadowAssumption, IInv, NEW r \in Runs, run[r].place \in AtWork,
           NEW outcome \in {Abstain} \cup Payloads, NEW hit \in {0, 1},
           Recorded(r, outcome, hit), UNCHANGED <<names, content, attempts, history>>,
           outcome \in Payloads =>
               /\ outcome.role = Now(r) /\ outcome.evidence = run[r].evidence
               /\ IF outcome.by = <<r, attempts[r]>> THEN hit = 0 /\ run[r].place \in Asking
                  ELSE hit = 1,
           outcome = Abstain => hit = 0
    PROVE  IInv'
<1>1. TypeOK'
      BY DEF Recorded, IInv, TypeOK, names, history
<1>2. FilesSound'
      BY FilesKeptByRuns DEF Recorded, IInv
<1>3. AnswersStarted'
      BY DEF IInv, AnswersStarted
<1>4. \A q \in Runs : /\ RunSound(q)' /\ AdviceSound(q)'
                      /\ run'[q].place # "idle" => OutcomesSound(q)'
      BY RecordedKeeps DEF history
<1> QED BY <1>1, <1>2, <1>3, <1>4 DEF IInv

\* NotAsked and Fails: an abstention is no answer.
LEMMA AbstainKeeps ==
    ASSUME ShadowAssumption, IInv, NEW r \in Runs, NotAsked(r) \/ Fails(r)
    PROVE  IInv'
<1>1. TypeOK /\ RunSound(r) /\ run[r].place \in AtWork
      BY DEF IInv, NotAsked, Fails, AtWork, Asking
<1>2. Recorded(r, Abstain, 0)
      BY <1>1, RecordedByNext1 DEF NotAsked, Fails
<1>3. Abstain \notin Payloads
      BY DEF ShadowAssumption, ValuesAssumption
<1>4. UNCHANGED <<names, content, attempts, history>>
      BY DEF NotAsked, Fails
<1> QED BY <1>1, <1>2, <1>3, <1>4, OnlyRecordedKeeps

\* FromCache: the file answers this key, and another run: this run has filed
\* answers of earlier roles only, and no role comes twice.
LEMMA FromCacheKeeps ==
    ASSUME ShadowAssumption, IInv, NEW r \in Runs, FromCache(r)
    PROVE  IInv'
<1>1. TypeOK /\ RunSound(r) /\ run[r].place \in AtWork /\ run[r].place = "role" /\ OutcomesSound(r)
      /\ FilesSound
      BY DEF IInv, FromCache, AtWork, Asking
<1> DEFINE key == KeyNow(r)
           f == final[key]
<1>2. /\ key \in Keys /\ key = <<Now(r), run[r].evidence>> /\ Now(r) \in Role
      /\ run[r].k \in 1..Len(Order)
      BY <1>1, NowFacts
<1>3. f # 0 /\ Cached(key) = content[f] /\ IsPayload(content[f])
      BY DEF FromCache, Cached
<1>4. f \in FileIds /\ content[f] \in Payloads
      BY <1>1, <1>2, <1>3 DEF TypeOK, IsPayload
<1>5. Key(content[f].role, content[f].evidence) = key
      BY <1>1, <1>2, <1>4 DEF FilesSound, Serves
<1>6. content[f].role = Now(r) /\ content[f].evidence = run[r].evidence
      BY <1>5, <1>2 DEF Key
<1>7. content[f].by # <<r, attempts[r]>>
  <2> SUFFICES ASSUME content[f].by = <<r, attempts[r]>> PROVE FALSE
      OBVIOUS
  <2>1. PICK j \in 1..Len(Order) : Order[j] = content[f].role /\ j < run[r].k
        BY <1>1, <1>4 DEF OutcomesSound
  <2>2. Order[j] = Order[run[r].k]
        BY <2>1, <1>6 DEF Now
  <2> QED BY <2>1, <2>2, <1>2, OrderFacts DEF ShadowAssumption
<1>8. Recorded(r, content[f], 1)
      BY <1>1, <1>3, <1>4, RecordedByNext1 DEF FromCache
<1>9. Abstain \notin Payloads /\ UNCHANGED <<names, content, attempts, history>>
      BY DEF ShadowAssumption, ValuesAssumption, FromCache
<1> HIDE DEF f, key
<1> QED BY <1>1, <1>4, <1>6, <1>7, <1>8, <1>9, OnlyRecordedKeeps

\* Ask: the budget was looked at with this call in it.
LEMMA AskKeeps ==
    ASSUME ShadowAssumption, IInv, NEW r \in Runs, Ask(r)
    PROVE  IInv'
<1>1. /\ TypeOK /\ RunSound(r) /\ AdviceSound(r) /\ OutcomesSound(r) /\ run[r].place = "role"
      /\ run[r] \in RunStates /\ FilesSound /\ AnswersStarted
      BY DEF IInv, Ask, TypeOK
<1>2. /\ run[r].k \in 1..Len(Order) /\ run[r].evidence \in Evidences
      BY <1>1, NowFacts DEF AtWork
<1> DEFINE new == [run[r] EXCEPT !.place = "asking", !.calls = @ + 1]
<1>3. run' = [run EXCEPT ![r] = new]
      BY <1>1 DEF Ask, TypeOK
<1>4. /\ new.place = "asking" /\ new.evidence = run[r].evidence /\ new.k = run[r].k
      /\ new.calls = run[r].calls + 1 /\ new.hits = run[r].hits /\ new.result = run[r].result
      /\ new.file = run[r].file /\ new.answer = run[r].answer
      BY <1>1 DEF RunStates
<1>5. /\ run[r].calls \in Nat /\ run[r].calls + 1 <= MaxCalls
      /\ (run[r].calls + 1) * CallCost <= MaxCost
      /\ (run[r].calls + 1) * CallCost \in Nat /\ run[r].calls + 1 \in 0..MaxCalls
      BY <1>1 DEF RunStates, Ask, OverBudget, ShadowAssumption, BudgetAssumption
<1>6. new \in RunStates
      BY <1>1, <1>5 DEF RunStates, Places
<1> HIDE DEF new
<1>7. run'[r] = new /\ (\A q \in Runs \ {r} : run'[q] = run[q]) /\ run' \in [Runs -> RunStates]
      BY <1>1, <1>3, <1>6 DEF TypeOK
<1>8. run[r].calls = asked[r] /\ asked'[r] = run[r].calls + 1 /\ UNCHANGED <<names, content, attempts, paid>>
      /\ \A q \in Runs \ {r} : asked'[q] = asked[q]
      BY <1>1 DEF Ask, TypeOK, RunSound
<1>9. TypeOK'
  <2>1. asked' \in [Runs -> Nat]
        BY <1>1 DEF Ask, TypeOK
  <2> QED BY <1>1, <1>7, <1>8, <2>1 DEF TypeOK, names
<1>10. run[r].file = 0
       BY <1>1 DEF RunSound
<1>11. FilesSound'
       BY <1>1, <1>4, <1>7, <1>8, <1>10, FilesKeptByRuns
<1>12. AnswersStarted'
       BY <1>1, <1>8 DEF AnswersStarted
<1>13. RunSound(r)'
       BY <1>1, <1>2, <1>4, <1>5, <1>7, <1>8, <1>10 DEF RunSound, AtWork, Asking, Now
<1>14. AdviceSound(r)'
       BY <1>1, <1>4, <1>7 DEF AdviceSound
<1>15. OutcomesSound(r)'
  <2>1. Others(r)' = Others(r) /\ Own(r)' = Own(r)
        BY <1>4, <1>7, <1>8 DEF Others, Own
  <2>2. Cardinality(Own(r)) \in Nat
    <3>1. Own(r) \in SUBSET Role /\ IsFiniteSet(Role)
          BY KeysFinite DEF Own, ShadowAssumption
    <3> QED BY <3>1, FS_Subset, FS_CardinalityType
  <2>3. run'[r].calls > Cardinality(Own(r))
        BY <1>1, <1>4, <1>5, <1>7, <2>2 DEF OutcomesSound
  <2>4. \A f \in FileIds : content'[f] \in Payloads /\ content'[f].by = <<r, attempts'[r]>> =>
          \E j \in 1..Len(Order) : Order[j] = content'[f].role /\ j < run'[r].k
        BY <1>1, <1>4, <1>7, <1>8 DEF OutcomesSound
  <2>5. run'[r].calls >= Cardinality(Own(r))
        BY <2>2, <2>3, <1>4, <1>5, <1>7
  <2> QED BY <1>1, <1>4, <1>7, <2>1, <2>3, <2>4, <2>5 DEF OutcomesSound
<1>16. \A q \in Runs \ {r} : /\ RunSound(q)' /\ AdviceSound(q)'
                             /\ run'[q].place # "idle" => OutcomesSound(q)'
       BY <1>7, <1>8, OthersKept
<1> QED BY <1>9, <1>11, <1>12, <1>13, <1>14, <1>15, <1>16 DEF IInv

\* The steps that change a run's place and, with it, its answer or its file.
Placed(r, place) ==
    /\ run' \in [Runs -> RunStates]
    /\ \A q \in Runs \ {r} : run'[q] = run[q]
    /\ run'[r].place = place /\ run'[r].evidence = run[r].evidence /\ run'[r].k = run[r].k
    /\ run'[r].calls = run[r].calls /\ run'[r].hits = run[r].hits /\ run'[r].result = run[r].result

\* Such a step keeps every run sound.
LEMMA PlacedKeeps ==
    ASSUME ShadowAssumption, IInv, NEW r \in Runs, run[r].place \in Asking,
           NEW place \in {"open", "fill", "move"}, Placed(r, place),
           UNCHANGED <<attempts, asked>>,
           run'[r].answer \in Payloads, run'[r].answer.role = Now(r),
           run'[r].answer.evidence = run[r].evidence, run'[r].answer.by = <<r, attempts[r]>>,
           run'[r].file # 0 <=> place = "fill",
           \A f \in FileIds : content'[f] \in Payloads =>
               \/ content'[f] = content[f] /\ run[r].place # "move"
               \/ content'[f] = run'[r].answer /\ place = "move"
    PROVE  \A q \in Runs : /\ RunSound(q)' /\ AdviceSound(q)'
                           /\ run'[q].place # "idle" => OutcomesSound(q)'
<1>1. /\ TypeOK /\ RunSound(r) /\ AdviceSound(r) /\ OutcomesSound(r)
      BY DEF IInv, Asking
<1>2. run[r].k \in 1..Len(Order)
      BY <1>1, NowFacts DEF AtWork
<1>3. RunSound(r)'
      BY <1>1, <1>2 DEF Placed, RunSound, AtWork, Asking, Now
<1>4. AdviceSound(r)'
      BY <1>1 DEF Placed, AdviceSound
<1>5. OutcomesSound(r)'
  <2>1. Others(r)' = Others(r) /\ Own(r)' = Own(r)
        BY DEF Placed, Others, Own
  <2>2. ASSUME NEW f \in FileIds, content'[f] \in Payloads, content'[f].by = <<r, attempts'[r]>>
        PROVE  \E j \in 1..Len(Order) :
                  /\ Order[j] = content'[f].role
                  /\ j < run'[r].k \/ (j = run'[r].k /\ run'[r].place = "move")
    <3>1. CASE content'[f] = content[f] /\ run[r].place # "move"
          BY <3>1, <2>2, <1>1 DEF OutcomesSound, Placed
    <3>2. CASE content'[f] = run'[r].answer /\ place = "move"
          BY <3>2, <1>2 DEF Placed, Now
    <3> QED BY <3>1, <3>2, <2>2
  <2>3. run'[r].hits = Cardinality(Others(r)') /\ run'[r].calls > Cardinality(Own(r)')
        /\ run'[r].calls >= Cardinality(Own(r)')
        BY <1>1, <2>1 DEF OutcomesSound, Placed
  <2>4. \A j \in 1..Len(Order) : run'[r].result[Order[j]] # Nil <=> j < run'[r].k
        BY <1>1 DEF OutcomesSound, Placed
  <2> QED BY <2>2, <2>3, <2>4 DEF OutcomesSound
<1>6. \A q \in Runs \ {r} : /\ RunSound(q)' /\ AdviceSound(q)'
                            /\ run'[q].place # "idle" => OutcomesSound(q)'
      BY OthersKept DEF Placed
<1> QED BY <1>3, <1>4, <1>5, <1>6

\* Answered: the answer is of the role and the evidence asked about.
LEMMA AnsweredKeeps ==
    ASSUME ShadowAssumption, IInv, NEW r \in Runs, Answered(r)
    PROVE  IInv'
<1>1. /\ TypeOK /\ RunSound(r) /\ run[r].place = "asking" /\ run[r] \in RunStates
      /\ FilesSound /\ AnswersStarted
      BY DEF IInv, Answered, TypeOK
<1>2. /\ Now(r) \in Role /\ run[r].evidence \in Evidences /\ attempts[r] \in 1..MaxAttempts
      BY <1>1, NowFacts DEF AtWork, Asking
<1> DEFINE answer == [role |-> Now(r), evidence |-> run[r].evidence,
                      by |-> <<r, attempts[r]>>, seen |-> Shown(r)]
           new == [run[r] EXCEPT !.place = "open", !.answer = answer]
<1>3. SpecialistAdvice(r) \subseteq Role \X Answers
  <2>1. \A x \in Role : IsPayload(run[r].result[x]) => run[r].result[x].by \in Answers
    <3> SUFFICES ASSUME NEW x \in Role, IsPayload(run[r].result[x])
                 PROVE  run[r].result[x].by \in Answers
        OBVIOUS
    <3>1. run[r].result[x] \in Payloads
          BY <1>1 DEF RunStates, IsPayload
    <3> QED BY <3>1 DEF Payloads
  <2> QED BY <2>1 DEF SpecialistAdvice
<1>4. Shown(r) \in SUBSET (Role \X Answers)
      BY <1>3 DEF Shown
<1>5. answer \in Payloads
      BY <1>2, <1>4 DEF Payloads, Answers
<1>6. /\ answer.role = Now(r) /\ answer.evidence = run[r].evidence
      /\ answer.by = <<r, attempts[r]>>
      OBVIOUS
<1>7. run' = [run EXCEPT ![r] = new]
      BY <1>1 DEF Answered, TypeOK
<1> HIDE DEF answer
<1>8. /\ new \in RunStates /\ new.place = "open" /\ new.evidence = run[r].evidence
      /\ new.k = run[r].k /\ new.calls = run[r].calls /\ new.hits = run[r].hits
      /\ new.result = run[r].result /\ new.file = run[r].file /\ new.answer = answer
      BY <1>1, <1>5 DEF RunStates, Places
<1> HIDE DEF new
<1>9. run'[r] = new /\ (\A q \in Runs \ {r} : run'[q] = run[q]) /\ run' \in [Runs -> RunStates]
      BY <1>1, <1>7, <1>8 DEF TypeOK
<1>10. UNCHANGED <<names, content, attempts, history>>
       BY DEF Answered
<1>11. Placed(r, "open") /\ run'[r].answer = answer /\ run'[r].file = 0
       BY <1>1, <1>8, <1>9 DEF Placed, RunSound
<1>12. TypeOK'
       BY <1>1, <1>9, <1>10 DEF TypeOK, names, history
<1>13. FilesSound'
       BY <1>1, <1>9, <1>10, <1>11, FilesKeptByRuns
<1>14. AnswersStarted'
       BY <1>1, <1>10 DEF AnswersStarted
<1>15. \A q \in Runs : /\ RunSound(q)' /\ AdviceSound(q)'
                       /\ run'[q].place # "idle" => OutcomesSound(q)'
       BY <1>1, <1>5, <1>6, <1>10, <1>11, PlacedKeeps DEF Asking, history
<1> QED BY <1>12, <1>13, <1>14, <1>15 DEF IInv

\* Open: the file opened has the key's temporary name already, or no use at all.
LEMMA OpenKeeps ==
    ASSUME ShadowAssumption, IInv, NEW r \in Runs, Open(r)
    PROVE  IInv'
<1> DEFINE key == KeyNow(r)
           f == IF temporary[key] # 0 THEN temporary[key] ELSE Unused
           new == [run[r] EXCEPT !.place = "fill", !.file = f]
<1>1. /\ TypeOK /\ RunSound(r) /\ run[r].place = "open" /\ run[r] \in RunStates
      /\ FilesSound /\ AnswersStarted /\ run[r].file = 0
      BY DEF IInv, Open, TypeOK, RunSound
<1>2. key \in Keys
      BY <1>1, NowFacts DEF AtWork, Asking
<1>3. f \in FileIds /\ f # 0 /\ (f = temporary[key] \/ ~ InUse(f))
  <2>1. 0 \notin FileIds
        BY DEF FileIds
  <2>2. CASE temporary[key] # 0
        BY <1>1, <1>2, <2>2 DEF TypeOK
  <2>3. CASE temporary[key] = 0
        BY <1>1, <2>1, <2>3, UnusedIsFree
  <2> QED BY <2>2, <2>3
<1>4. /\ temporary' = [temporary EXCEPT ![key] = f] /\ content' = [content EXCEPT ![f] = Empty]
      /\ run' = [run EXCEPT ![r] = new] /\ UNCHANGED <<final, attempts, history>>
      BY <1>1 DEF Open, TypeOK
<1> HIDE DEF f
<1>5. /\ new \in RunStates /\ new.place = "fill" /\ new.evidence = run[r].evidence
      /\ new.k = run[r].k /\ new.calls = run[r].calls /\ new.hits = run[r].hits
      /\ new.result = run[r].result /\ new.file = f /\ new.answer = run[r].answer
      BY <1>1, <1>3 DEF RunStates, Places
<1> HIDE DEF new
<1>6. run'[r] = new /\ (\A q \in Runs \ {r} : run'[q] = run[q]) /\ run' \in [Runs -> RunStates]
      BY <1>1, <1>4, <1>5 DEF TypeOK
<1>7. Empty \notin Payloads
      BY DEF ShadowAssumption, ValuesAssumption
<1>8. /\ \A g \in FileIds : content'[g] \in Payloads => content'[g] = content[g] /\ g # f
      /\ \A k \in Keys : temporary'[k] = IF k = key THEN f ELSE temporary[k]
      BY <1>1, <1>4, <1>7 DEF TypeOK
<1>9. TypeOK'
  <2>1. temporary' \in [Keys -> FileIds \cup {0}] /\ content' \in [FileIds -> {Nil, Empty, Torn} \cup Payloads]
        BY <1>1, <1>3, <1>4 DEF TypeOK
  <2> QED BY <1>1, <1>4, <1>6, <2>1 DEF TypeOK, history
<1>10. Placed(r, "fill") /\ run'[r].answer = run[r].answer /\ run'[r].file = f
       BY <1>5, <1>6 DEF Placed
<1>11. KeyNow(r)' = key /\ \A q \in Runs \ {r} : KeyNow(q)' = KeyNow(q)
       BY <1>5, <1>6 DEF KeyNow, Now, Key
<1>12. FilesSound'
  <2>1. \A g \in FileIds : \A k \in Keys : Serves(g, k)' => Serves(g, k) \/ (g = f /\ k = key)
        BY <1>2, <1>4, <1>6, <1>8, <1>10, <1>11 DEF Serves
  <2>2. \A k \in Keys : Serves(f, k) => k = key
    <3>1. CASE f = temporary[key]
          BY <3>1, <1>1, <1>2, <1>3 DEF FilesSound, Serves
    <3>2. CASE ~ InUse(f)
          BY <3>2 DEF InUse, Serves
    <3> QED BY <3>1, <3>2, <1>3
  <2>3. \A g \in FileIds : \A k, other \in Keys : Serves(g, k)' /\ Serves(g, other)' => k = other
        BY <1>1, <1>2, <1>3, <2>1, <2>2 DEF FilesSound
  <2>4. \A g \in FileIds : \A k \in Keys :
          Serves(g, k)' /\ content'[g] \in Payloads => Key(content'[g].role, content'[g].evidence) = k
        BY <1>1, <1>8, <2>1 DEF FilesSound
  <2>5. f # final[key]
    <3>1. CASE temporary[key] # 0 /\ f = temporary[key]
          BY <3>1, <1>1, <1>2 DEF FilesSound
    <3>2. CASE ~ InUse(f)
          BY <3>2, <1>2 DEF InUse
    <3> QED BY <3>1, <3>2, <1>3
  <2>6. \A k \in Keys : temporary'[k] # 0 => temporary'[k] # final'[k]
        BY <1>1, <1>4, <1>8, <2>5 DEF FilesSound
  <2> HIDE DEF key
  <2> QED BY <2>3, <2>4, <2>6 DEF FilesSound, Key
<1>13. AnswersStarted'
       BY <1>1, <1>4, <1>8 DEF AnswersStarted
<1>14. \A q \in Runs : /\ RunSound(q)' /\ AdviceSound(q)'
                       /\ run'[q].place # "idle" => OutcomesSound(q)'
  <2>1. /\ run[r].answer \in Payloads /\ run[r].answer.role = Now(r)
        /\ run[r].answer.evidence = run[r].evidence /\ run[r].answer.by = <<r, attempts[r]>>
        BY <1>1 DEF RunSound
  <2> QED BY <1>1, <1>3, <1>4, <1>8, <1>10, <2>1, PlacedKeeps DEF Asking, history
<1> QED BY <1>9, <1>12, <1>13, <1>14 DEF IInv

\* Fill: the file may be final by now or have lost its name, but never to another key.
LEMMA FillKeeps ==
    ASSUME ShadowAssumption, IInv, NEW r \in Runs, Fill(r)
    PROVE  IInv'
<1> DEFINE key == KeyNow(r)
           f == run[r].file
           new == [run[r] EXCEPT !.place = "move", !.file = 0]
<1>1. /\ TypeOK /\ RunSound(r) /\ run[r].place = "fill" /\ run[r] \in RunStates
      /\ FilesSound /\ AnswersStarted
      BY DEF IInv, Fill, TypeOK
<1>2. /\ run[r].answer \in Payloads /\ run[r].answer.role = Now(r)
      /\ run[r].answer.evidence = run[r].evidence /\ run[r].answer.by = <<r, attempts[r]>>
      BY <1>1 DEF RunSound
<1>3. key \in Keys /\ key = <<Now(r), run[r].evidence>>
      BY <1>1, NowFacts DEF AtWork, Asking
<1>4. f \in FileIds /\ f # 0
      BY <1>1 DEF RunSound, RunStates
<1>5. Serves(f, key)
      BY <1>3 DEF Serves
<1>6. PICK c \in {run[r].answer, Torn} : content' = [content EXCEPT ![f] = c]
      BY DEF Fill
<1>7. run' = [run EXCEPT ![r] = new] /\ UNCHANGED <<names, attempts, history>>
      BY <1>1 DEF Fill, TypeOK
<1>8. /\ new \in RunStates /\ new.place = "move" /\ new.evidence = run[r].evidence
      /\ new.k = run[r].k /\ new.calls = run[r].calls /\ new.hits = run[r].hits
      /\ new.result = run[r].result /\ new.file = 0 /\ new.answer = run[r].answer
      BY <1>1 DEF RunStates, Places
<1> HIDE DEF new
<1>9. run'[r] = new /\ (\A q \in Runs \ {r} : run'[q] = run[q]) /\ run' \in [Runs -> RunStates]
      BY <1>1, <1>7, <1>8 DEF TypeOK
<1>10. Torn \notin Payloads
       BY DEF ShadowAssumption, ValuesAssumption
<1>11. \A g \in FileIds : content'[g] \in Payloads =>
         content'[g] = content[g] \/ (g = f /\ content'[g] = run[r].answer)
       BY <1>1, <1>6, <1>10 DEF TypeOK
<1>12. TypeOK'
  <2>1. content' \in [FileIds -> {Nil, Empty, Torn} \cup Payloads]
        BY <1>1, <1>2, <1>6 DEF TypeOK
  <2> QED BY <1>1, <1>7, <1>9, <2>1 DEF TypeOK, names, history
<1>13. Placed(r, "move") /\ run'[r].answer = run[r].answer /\ run'[r].file = 0
       BY <1>8, <1>9 DEF Placed
<1>14. FilesSound'
  <2>1. \A q \in Runs \ {r} : KeyNow(q)' = KeyNow(q)
        BY <1>9 DEF KeyNow, Now, Key
  <2>2. \A g \in FileIds : \A k \in Keys : Serves(g, k)' => Serves(g, k)
        BY <1>7, <1>9, <1>13, <2>1 DEF Serves, names, FileIds
  <2>3. \A g \in FileIds : \A k, other \in Keys : Serves(g, k)' /\ Serves(g, other)' => k = other
        BY <1>1, <2>2 DEF FilesSound
  <2>4. ASSUME NEW g \in FileIds, NEW k \in Keys, Serves(g, k)', content'[g] \in Payloads
        PROVE  Key(content'[g].role, content'[g].evidence) = k
    <3>1. CASE content'[g] = content[g]
          BY <3>1, <2>2, <2>4, <1>1 DEF FilesSound
    <3>2. CASE g = f /\ content'[g] = run[r].answer
      <4>1. k = key
            BY <3>2, <2>2, <2>4, <1>1, <1>3, <1>4, <1>5 DEF FilesSound
      <4> QED BY <4>1, <3>2, <1>2, <1>3 DEF Key
    <3> QED BY <3>1, <3>2, <2>4, <1>11
  <2>5. \A k \in Keys : temporary'[k] # 0 => temporary'[k] # final'[k]
        BY <1>1, <1>7 DEF FilesSound, names
  <2> QED BY <2>3, <2>4, <2>5 DEF FilesSound, Key
<1>15. AnswersStarted'
  <2> SUFFICES ASSUME NEW g \in FileIds, content'[g] \in Payloads
               PROVE  content'[g].by[2] <= attempts[content'[g].by[1]]
      BY <1>7 DEF AnswersStarted
  <2>1. CASE content'[g] = content[g]
        BY <2>1, <1>1 DEF AnswersStarted
  <2>2. CASE content'[g] = run[r].answer
    <3>1. attempts[r] \in 0..MaxAttempts /\ MaxAttempts \in Nat
          BY <1>1 DEF TypeOK, ShadowAssumption, FiniteAssumption
    <3> QED BY <2>2, <3>1, <1>2
  <2> QED BY <2>1, <2>2, <1>11
<1>16. \A q \in Runs : /\ RunSound(q)' /\ AdviceSound(q)'
                       /\ run'[q].place # "idle" => OutcomesSound(q)'
       BY <1>1, <1>2, <1>7, <1>11, <1>13, PlacedKeeps DEF Asking, history
<1> QED BY <1>12, <1>14, <1>15, <1>16 DEF IInv

\* Move: the name moves within its key.
LEMMA MoveKeeps ==
    ASSUME ShadowAssumption, IInv, NEW r \in Runs, Move(r)
    PROVE  IInv'
<1> DEFINE key == KeyNow(r)
<1>1. /\ TypeOK /\ RunSound(r) /\ run[r].place = "move" /\ run[r].place \in AtWork
      /\ FilesSound /\ AnswersStarted
      BY DEF IInv, Move, TypeOK, AtWork, Asking
<1>2. /\ run[r].answer \in Payloads /\ run[r].answer.role = Now(r)
      /\ run[r].answer.evidence = run[r].evidence /\ run[r].answer.by = <<r, attempts[r]>>
      BY <1>1 DEF RunSound
<1>3. key \in Keys
      BY <1>1, NowFacts
<1>4. Recorded(r, run[r].answer, 0)
      BY <1>1, <1>2, RecordedByNext1 DEF Move
<1>5. /\ temporary[key] # 0 /\ final' = [final EXCEPT ![key] = temporary[key]]
      /\ temporary' = [temporary EXCEPT ![key] = 0]
      /\ content' = [f \in FileIds |-> IF f = final[key] THEN Nil ELSE content[f]]
      /\ paid' = paid \cup {key} /\ UNCHANGED <<attempts, asked>>
      BY DEF Move
<1>6. Nil \notin Payloads /\ Abstain \notin Payloads
      BY DEF ShadowAssumption, ValuesAssumption
<1> HIDE DEF key
<1>7. \A f \in FileIds : content'[f] \in Payloads => content'[f] = content[f]
      BY <1>5, <1>6
<1>8. TypeOK'
  <2>1. /\ final' \in [Keys -> FileIds \cup {0}] /\ temporary' \in [Keys -> FileIds \cup {0}]
        /\ content' \in [FileIds -> {Nil, Empty, Torn} \cup Payloads] /\ paid' \subseteq Keys
        BY <1>1, <1>3, <1>5 DEF TypeOK
  <2> QED BY <1>1, <1>4, <1>5, <2>1 DEF TypeOK, Recorded
<1>9. FilesSound'
  <2>1. \A q \in Runs \ {r} : KeyNow(q)' = KeyNow(q) /\ run'[q].file = run[q].file
        BY <1>4 DEF KeyNow, Now, Key, Recorded
  <2>2. /\ \A k \in Keys : final'[k] = IF k = key THEN temporary[key] ELSE final[k]
        /\ \A k \in Keys : temporary'[k] = IF k = key THEN 0 ELSE temporary[k]
        BY <1>1, <1>3, <1>5 DEF TypeOK
  <2>3. run'[r].file = 0 /\ 0 \notin FileIds
        BY <1>4 DEF Recorded, FileIds
  <2>4. \A f \in FileIds : \A k \in Keys : Serves(f, k)' => Serves(f, k)
        BY <2>1, <2>2, <2>3 DEF Serves
  <2>5. \A k \in Keys : temporary'[k] # 0 => temporary'[k] # final'[k]
        BY <1>1, <2>2 DEF FilesSound
  <2> QED BY <1>1, <1>7, <2>4, <2>5, FilesKept
<1>10. AnswersStarted'
       BY <1>1, <1>5, <1>7 DEF AnswersStarted
<1>11. \A q \in Runs : /\ RunSound(q)' /\ AdviceSound(q)'
                       /\ run'[q].place # "idle" => OutcomesSound(q)'
  <2>1. run[r].place \in Asking /\ run[r].answer # Abstain
        BY <1>1, <1>2, <1>6 DEF Asking
  <2> QED BY <1>1, <1>2, <1>4, <1>5, <1>7, <2>1, RecordedKeeps
<1> QED BY <1>8, <1>9, <1>10, <1>11 DEF IInv

\* Crash: the files stay as they are.
LEMMA CrashKeeps ==
    ASSUME ShadowAssumption, IInv, NEW r \in Runs, Crash(r)
    PROVE  IInv'
<1>1. /\ NoRun \in RunStates /\ NoRun.place = "idle" /\ NoRun.file = 0 /\ NoRun.hits = 0
      /\ NoRun.k = 1 /\ \A x \in Role : NoRun.result[x] = Nil
      BY OrderFacts DEF NoRun, RunStates, Places, ShadowAssumption, BudgetAssumption
<1>2. TypeOK /\ RunSound(r) /\ FilesSound /\ AnswersStarted /\ Nil \notin Payloads
      BY DEF IInv, ShadowAssumption, ValuesAssumption
<1>3. /\ run'[r] = NoRun /\ (\A q \in Runs \ {r} : run'[q] = run[q]) /\ run' \in [Runs -> RunStates]
      /\ UNCHANGED <<names, content, attempts, history>>
      BY <1>1, <1>2 DEF Crash, TypeOK
<1>4. TypeOK'
      BY <1>2, <1>3 DEF TypeOK, names, history
<1>5. FilesSound'
      BY <1>1, <1>2, <1>3, FilesKeptByRuns
<1>6. AnswersStarted'
      BY <1>2, <1>3 DEF AnswersStarted
<1>7. RunSound(r)'
      BY <1>1, <1>2, <1>3 DEF RunSound, AtWork, Asking, history
<1>8. AdviceSound(r)' /\ run'[r].place = "idle"
      BY <1>1, <1>2, <1>3 DEF AdviceSound
<1>9. \A q \in Runs \ {r} : /\ RunSound(q)' /\ AdviceSound(q)'
                            /\ run'[q].place # "idle" => OutcomesSound(q)'
      BY <1>3, OthersKept DEF history
<1> QED BY <1>4, <1>5, <1>6, <1>7, <1>8, <1>9 DEF IInv

\* Every step keeps the invariant, as does none.
LEMMA StepKeeps ==
    ASSUME ShadowAssumption, IInv, [Next]_vars
    PROVE  IInv'
<1>1. CASE UNCHANGED vars
  <2>1. TypeOK' /\ FilesSound' /\ AnswersStarted'
        BY <1>1 DEF IInv, vars, names, history, TypeOK, FilesSound, AnswersStarted, Serves, KeyNow, Now
  <2>2. \A r \in Runs : RunSound(r)' /\ AdviceSound(r)'
        BY <1>1 DEF IInv, vars, names, history, RunSound, AdviceSound, Now
  <2>3. \A r \in Runs : run'[r].place # "idle" => OutcomesSound(r)'
        BY <1>1 DEF IInv, vars, names, history, OutcomesSound, Own, Others
  <2> QED BY <2>1, <2>2, <2>3 DEF IInv
<1>2. CASE Next
  <2>1. PICK r \in Runs :
           \/ \E e \in Evidences : Start(r, e)
           \/ FromCache(r) \/ NotAsked(r) \/ Ask(r) \/ Answered(r) \/ Fails(r)
           \/ Open(r) \/ Fill(r) \/ Move(r) \/ Crash(r)
        BY <1>2 DEF Next
  <2> QED BY <2>1, StartKeeps, FromCacheKeeps, AbstainKeeps, AskKeeps, AnsweredKeeps, OpenKeeps,
             FillKeeps, MoveKeeps, CrashKeeps
<1> QED BY <1>1, <1>2

\* The invariant the properties rest on.
THEOREM ShadowInvariant ==
    ASSUME ShadowAssumption
    PROVE  Spec => []IInv
<1>1. Init => IInv
      BY InitSound
<1>2. IInv /\ [Next]_vars => IInv'
      BY StepKeeps
<1> QED BY <1>1, <1>2, PTL DEF Spec

\* The files, the runs and their counters stay what they are meant to be.
THEOREM TypeCorrect ==
    ASSUME ShadowAssumption
    PROVE  Spec => []TypeOK
<1>1. IInv => TypeOK
      BY DEF IInv
<1> QED BY <1>1, ShadowInvariant, PTL

\* A run holds advice of the role it is filed under, for the evidence of its own
\* cycle, also from a file that two runs have written at once (_read_cache).
THEOREM AdviceIsOfItsEvidenceAlways ==
    ASSUME ShadowAssumption
    PROVE  Spec => []AdviceIsOfItsEvidence
<1>1. IInv => AdviceIsOfItsEvidence
  <2> SUFFICES ASSUME IInv, NEW r \in Runs, NEW x \in Role, IsPayload(run[r].result[x])
               PROVE  run[r].result[x].role = x /\ run[r].result[x].evidence = run[r].evidence
      BY DEF AdviceIsOfItsEvidence
  <2>1. run[r].result[x] \in Payloads
        BY DEF IInv, TypeOK, RunStates, IsPayload
  <2> QED BY <2>1 DEF IInv, AdviceSound
<1> QED BY <1>1, ShadowInvariant, PTL

\* No run sends more requests, nor more costly ones, than its budget, and its
\* report counts them all, those that failed as well.
THEOREM BudgetAlwaysKept ==
    ASSUME ShadowAssumption
    PROVE  Spec => []BudgetKept
<1>1. IInv => BudgetKept
      BY DEF IInv, RunSound, BudgetKept
<1> QED BY <1>1, ShadowInvariant, PTL

\* The report of a finished run has an outcome for every role, and its hits and
\* calls explain every piece of advice in it.
THEOREM OutcomesAlwaysExplained ==
    ASSUME ShadowAssumption
    PROVE  Spec => []OutcomesExplained
<1>1. IInv => OutcomesExplained
  <2> SUFFICES ASSUME IInv, NEW r \in Runs, run[r].place = "done"
               PROVE  LET own == {x \in Role : IsPayload(run[r].result[x])
                                                /\ run[r].result[x].by = <<r, attempts[r]>>}
                          others == {x \in Role : IsPayload(run[r].result[x])} \ own
                      IN /\ \A x \in Role : run[r].result[x] # Nil
                         /\ run[r].hits = Cardinality(others) /\ run[r].calls >= Cardinality(own)
      BY DEF OutcomesExplained
  <2>1. RunSound(r) /\ OutcomesSound(r) /\ run[r] \in RunStates
        BY DEF IInv, TypeOK
  <2>2. \A x \in Role : IsPayload(run[r].result[x]) <=> run[r].result[x] \in Payloads
        BY <2>1 DEF RunStates, IsPayload, ShadowAssumption, ValuesAssumption
  <2>3. ~(run[r].k <= Len(Order))
        BY <2>1 DEF RunSound, AtWork, Asking
  <2>4. \A x \in Role : run[r].result[x] # Nil
    <3> SUFFICES ASSUME NEW x \in Role PROVE run[r].result[x] # Nil
        OBVIOUS
    <3>1. PICK j \in 1..Len(Order) : Order[j] = x
          BY OrderFacts DEF ShadowAssumption
    <3>2. j < run[r].k
          BY <2>1, <2>3, OrderFacts DEF RunStates, ShadowAssumption
    <3> QED BY <3>1, <3>2, <2>1 DEF OutcomesSound
  <2>5. Own(r) = {x \in Role : IsPayload(run[r].result[x]) /\ run[r].result[x].by = <<r, attempts[r]>>}
        BY <2>2 DEF Own
  <2>6. Others(r) = {x \in Role : IsPayload(run[r].result[x])} \ Own(r)
        BY <2>2 DEF Own, Others
  <2> QED BY <2>1, <2>4, <2>5, <2>6 DEF OutcomesSound
<1> QED BY <1>1, ShadowInvariant, PTL

-----------------------------------------------------------------------------
\* One run at a time.
Alone == \A r, q \in Runs : r = q

\* A cached answer is a final file with an answer in it.
LEMMA CachedIs ==
    ASSUME NEW key \in Keys
    PROVE  Cached(key) # Nil <=> final[key] # 0 /\ IsPayload(content[final[key]])
BY DEF Cached, IsPayload

\* With one run at a time every step keeps what was filed.
LEMMA FiledKept ==
    ASSUME ShadowAssumption, Alone, IInv, FiledSound, [Next]_vars
    PROVE  FiledSound'
<1>1. TypeOK /\ FilesSound /\ paid \subseteq Keys
      BY DEF IInv, TypeOK
<1>2. CASE UNCHANGED vars
      BY <1>2 DEF FiledSound, vars, names, history, Cached, KeyNow, Now
<1> SUFFICES ASSUME NEW r \in Runs,
                    \/ \E e \in Evidences : Start(r, e)
                    \/ FromCache(r) \/ NotAsked(r) \/ Ask(r) \/ Answered(r) \/ Fails(r)
                    \/ Open(r) \/ Fill(r) \/ Move(r) \/ Crash(r)
             PROVE  FiledSound'
    BY <1>2 DEF Next
<1> DEFINE key == KeyNow(r)
<1>3. run[r] \in RunStates /\ RunSound(r) /\ Runs = {r} /\ DOMAIN run = Runs
      BY <1>1 DEF IInv, TypeOK, Alone
<1>4. ASSUME UNCHANGED <<names, content, paid>>
      PROVE  \A k \in paid' : Cached(k)' # Nil
      BY <1>4 DEF FiledSound, Cached, names
<1>5. ASSUME UNCHANGED <<names, content, paid>>, run'[r].place \notin {"asking", "fill", "move"}
      PROVE  FiledSound'
      BY <1>3, <1>4, <1>5 DEF FiledSound
<1>6. CASE \E e \in Evidences : Start(r, e)
  <2>1. run'[r].place = "role" /\ UNCHANGED <<names, content, paid>>
        BY <1>3, <1>6 DEF Start, NoRun
  <2> QED BY <2>1, <1>5
<1>7. CASE FromCache(r)
  <2>1. run[r].place \in AtWork /\ Cached(key) \in {Abstain} \cup Payloads
    <3>1. run[r].place \in AtWork /\ key \in Keys
          BY <1>1, <1>3, <1>7, NowFacts DEF FromCache, AtWork
    <3>2. Cached(key) = content[final[key]] /\ IsPayload(content[final[key]]) /\ final[key] # 0
          BY <1>7 DEF FromCache, Cached
    <3> QED BY <3>1, <3>2, <1>1 DEF TypeOK, IsPayload
  <2>2. Recorded(r, Cached(key), 1)
        BY <2>1, <1>1, <1>3, <1>7, RecordedByNext1 DEF FromCache
  <2>3. run'[r].place \notin {"asking", "fill", "move"} /\ UNCHANGED <<names, content, paid>>
        BY <2>2, <1>7 DEF Recorded, FromCache, history
  <2> QED BY <2>3, <1>5
<1>8. CASE NotAsked(r) \/ Fails(r)
  <2>1. run[r].place \in AtWork
        BY <1>8 DEF NotAsked, Fails, AtWork, Asking
  <2>2. Recorded(r, Abstain, 0)
        BY <2>1, <1>1, <1>3, <1>8, RecordedByNext1 DEF NotAsked, Fails
  <2>3. run'[r].place \notin {"asking", "fill", "move"} /\ UNCHANGED <<names, content, paid>>
        BY <2>2, <1>8 DEF Recorded, NotAsked, Fails, history
  <2> QED BY <2>3, <1>5
<1>9. CASE Ask(r)
  <2>1. run[r].place = "role" /\ Cached(key) = Nil /\ UNCHANGED <<names, content, paid>>
        BY <1>9 DEF Ask
  <2>2. run'[r].place = "asking" /\ run'[r].k = run[r].k /\ run'[r].evidence = run[r].evidence
        BY <1>3, <1>9 DEF Ask, RunStates
  <2>3. KeyNow(r)' = key /\ key \notin paid
        BY <2>1, <2>2 DEF KeyNow, Now, Key, FiledSound
  <2> QED BY <2>1, <2>2, <2>3, <1>3, <1>4 DEF FiledSound
<1>10. CASE Answered(r)
  <2>1. run'[r].place = "open" /\ UNCHANGED <<names, content, paid>>
        BY <1>3, <1>10 DEF Answered, RunStates, history
  <2> QED BY <2>1, <1>5
<1>11. CASE Open(r)
  <2> DEFINE f == IF temporary[key] # 0 THEN temporary[key] ELSE Unused
  <2>1. run[r].place = "open" /\ key \in Keys /\ run[r].file = 0
        BY <1>1, <1>3, <1>11, NowFacts DEF Open, AtWork, Asking, RunSound
  <2>2. f \in FileIds /\ f # 0 /\ (f = temporary[key] \/ ~ InUse(f))
    <3>1. 0 \notin FileIds
          BY DEF FileIds
    <3>2. CASE temporary[key] # 0
          BY <1>1, <2>1, <3>2 DEF TypeOK
    <3>3. CASE temporary[key] = 0
          BY <1>1, <2>1, <3>1, <3>3, UnusedIsFree
    <3> QED BY <3>2, <3>3
  <2>3. /\ temporary' = [temporary EXCEPT ![key] = f] /\ content' = [content EXCEPT ![f] = Empty]
        /\ UNCHANGED <<final, paid>>
        /\ run' = [run EXCEPT ![r].place = "fill", ![r].file = f]
        BY <1>11 DEF Open, history
  <2> HIDE DEF f
  <2>4. /\ run'[r].place = "fill" /\ run'[r].k = run[r].k /\ run'[r].evidence = run[r].evidence
        /\ run'[r].file = f
        BY <2>3, <1>3 DEF RunStates
  <2>5. KeyNow(r)' = key
        BY <2>4 DEF KeyNow, Now, Key
  <2>6. temporary'[key] = f /\ content'[f] = Empty
        BY <2>1, <2>2, <2>3, <1>1 DEF TypeOK
  <2>7. ASSUME NEW k \in paid
        PROVE  Cached(k)' # Nil
    <3>1. k \in Keys /\ final[k] # 0 /\ IsPayload(content[final[k]])
          BY <1>1, CachedIs DEF FiledSound
    <3>2. final[k] # f
      <4>1. CASE f = temporary[key]
            BY <4>1, <1>1, <2>1, <2>2, <3>1 DEF FilesSound, Serves
      <4>2. CASE ~ InUse(f)
            BY <4>2, <3>1 DEF InUse
      <4> QED BY <4>1, <4>2, <2>2
    <3>3. final'[k] = final[k] /\ content'[final[k]] = content[final[k]]
          BY <2>3, <3>1, <3>2, <1>1 DEF TypeOK
    <3>4. IsPayload(content'[final'[k]]) /\ final'[k] # 0
          BY <3>1, <3>3 DEF IsPayload
    <3> QED BY <3>4 DEF Cached, IsPayload
  <2> HIDE DEF key
  <2> QED BY <2>3, <2>4, <2>5, <2>6, <2>7, <1>3 DEF FiledSound
<1>12. CASE Fill(r)
  <2> DEFINE f == run[r].file
  <2>1. run[r].place = "fill" /\ key \in Keys
        BY <1>1, <1>3, <1>12, NowFacts DEF Fill, AtWork, Asking
  <2>2. f = temporary[key] /\ content[f] = Empty /\ f \in FileIds /\ f # 0
        BY <1>3, <2>1 DEF FiledSound, RunSound, RunStates
  <2>3. content' = [content EXCEPT ![f] = run[r].answer] /\ UNCHANGED <<names, paid>>
        /\ run' = [run EXCEPT ![r].place = "move", ![r].file = 0]
        BY <1>3, <1>12, <2>2 DEF Fill, history
  <2>4. /\ run'[r].place = "move" /\ run'[r].k = run[r].k /\ run'[r].evidence = run[r].evidence
        /\ run'[r].answer = run[r].answer
        BY <2>3, <1>3 DEF RunStates
  <2>5. KeyNow(r)' = key
        BY <2>4 DEF KeyNow, Now, Key
  <2>6. temporary'[key] = f /\ content'[f] = run[r].answer
        BY <2>2, <2>3, <1>1 DEF TypeOK, names
  <2>7. ASSUME NEW k \in paid
        PROVE  Cached(k)' # Nil
    <3>1. k \in Keys /\ final[k] # 0 /\ IsPayload(content[final[k]])
          BY <1>1, CachedIs DEF FiledSound
    <3>2. final[k] # f
          BY <1>1, <2>1, <2>2, <3>1 DEF FilesSound, Serves
    <3>3. final'[k] = final[k] /\ content'[final[k]] = content[final[k]]
          BY <2>3, <3>1, <3>2, <1>1 DEF TypeOK, names
    <3>4. IsPayload(content'[final'[k]]) /\ final'[k] # 0
          BY <3>1, <3>3 DEF IsPayload
    <3> QED BY <3>4 DEF Cached, IsPayload
  <2> HIDE DEF key, f
  <2> QED BY <2>2, <2>3, <2>4, <2>5, <2>6, <2>7, <1>3 DEF FiledSound
<1>13. CASE Move(r)
  <2>1. run[r].place = "move" /\ key \in Keys /\ run[r].place \in AtWork /\ run[r].answer \in Payloads
        BY <1>1, <1>3, <1>13, NowFacts DEF Move, AtWork, Asking, RunSound
  <2>2. temporary[key] # 0 /\ content[temporary[key]] = run[r].answer
        BY <2>1 DEF FiledSound
  <2>3. Recorded(r, run[r].answer, 0)
        BY <1>1, <1>3, <1>13, <2>1, RecordedByNext1 DEF Move
  <2>4. run'[r].place \notin {"asking", "fill", "move"}
        BY <2>3 DEF Recorded
  <2>5. /\ final' = [final EXCEPT ![key] = temporary[key]] /\ paid' = paid \cup {key}
        /\ content' = [f \in FileIds |-> IF f = final[key] THEN Nil ELSE content[f]]
        BY <1>13 DEF Move
  <2>5a. PICK filed \in Keys : filed = key
        BY <2>1
  <2> HIDE DEF key
  <2>6. IsPayload(run[r].answer)
        BY <2>1 DEF IsPayload, ShadowAssumption, ValuesAssumption
  <2>7. Cached(filed)' # Nil
    <3>1. temporary[key] \in FileIds /\ temporary[key] # final[key]
          BY <1>1, <2>1, <2>2 DEF TypeOK, FilesSound
    <3>2. final'[key] = temporary[key] /\ content'[temporary[key]] = run[r].answer
          BY <3>1, <2>1, <2>2, <2>5, <1>1 DEF TypeOK
    <3>3. final'[key] # 0 /\ content'[final'[key]] = run[r].answer
          BY <3>2, <2>2
    <3> QED BY <3>3, <2>6, <2>5a DEF Cached, IsPayload
  <2>8. ASSUME NEW k \in paid, k # filed
        PROVE  Cached(k)' # Nil
    <3>1. k \in Keys /\ final[k] # 0 /\ IsPayload(content[final[k]])
          BY <1>1, CachedIs DEF FiledSound
    <3>2. final[k] \in FileIds /\ final[k] # final[key]
          BY <1>1, <2>1, <2>8, <2>5a, <3>1 DEF TypeOK, FilesSound, Serves
    <3>3. final'[k] = final[k] /\ content'[final[k]] = content[final[k]]
          BY <2>5, <2>8, <2>5a, <3>1, <3>2, <1>1 DEF TypeOK
    <3>4. IsPayload(content'[final'[k]]) /\ final'[k] # 0
          BY <3>1, <3>3 DEF IsPayload
    <3> QED BY <3>4 DEF Cached, IsPayload
  <2>9. \A k \in paid' : Cached(k)' # Nil
        BY <2>5, <2>7, <2>8, <2>5a
  <2> QED BY <2>4, <2>9, <1>3 DEF FiledSound
<1>14. CASE Crash(r)
  <2>1. run'[r].place = "idle" /\ UNCHANGED <<names, content, paid>>
        BY <1>3, <1>14 DEF Crash, NoRun, history
  <2> QED BY <2>1, <1>5
<1> QED BY <1>6, <1>7, <1>8, <1>9, <1>10, <1>11, <1>12, <1>13, <1>14

\* With one run at a time no answer that was taken is asked for again: a retried
\* or repeated cycle does not spend twice (_write_cache before the result is kept).
THEOREM PaidOnceAlways ==
    ASSUME ShadowAssumption, Alone
    PROVE  Spec => []PaidOnce
<1>1. Init => FiledSound
      BY DEF Init, FiledSound, NoRun
<1>2. IInv /\ FiledSound /\ [Next]_vars => FiledSound'
      BY FiledKept
<1>3. FiledSound => PaidOnce
      BY DEF FiledSound, PaidOnce
<1> QED BY <1>1, <1>2, <1>3, ShadowInvariant, PTL DEF Spec

====
