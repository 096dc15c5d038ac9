---- MODULE ProductionBinding ----
(* The production manifest: built and published by a script, read again by every
   attempt of a scheduled session, and compared with what the session is run with
   (production_candidate/contracts.py, continuous_paper/manifest_bridge.py and the
   checks of the pipeline and of the daily loop).  Builders share the name of their
   temporary file, an operator may edit the published file, the manifest may be
   rebuilt between two attempts of one session. *)
EXTENDS Integers, Sequences, FiniteSets, TLC

CONSTANTS
  Builders,
  Sessions,      \* the decision sessions, numbered in time order
  Arguments,     \* what a builder may be asked to freeze, and edits of it
  Lengths,       \* of a manifest's text
  Terms,         \* fee profile and account capabilities in force at a session
  Direct,        \* the configurations a direct caller brings
  LiveLimit,     \* the most symbols the pipeline executes
  MaxTries,      \* of one scheduled session
  MaxEdits, MaxFiles

BindingAssumption ==
  /\ Sessions \subseteq Nat \ {0} /\ IsFiniteSet(Sessions)
  /\ LiveLimit \in Nat /\ MaxTries \in Nat \ {0} /\ MaxEdits \in Nat
  /\ \A m \in Arguments : m.terms \in Terms /\ m \in DOMAIN Lengths

VARIABLES
  files,      \* the contents of every file a builder created, by inode
  temporary,  \* the inode the temporary name points to, 0: none
  target,     \* the inode the published name points to, 0: none
  builder,    \* of each builder its stage, its manifest and its open file
  passed,     \* the manifests the gate of the build script accepted
  edits,
  overlapped, \* history: a builder opened the temporary file while another had it open
  attempt,    \* the running attempt of a session: <<>> or <<attempt>>
  tries,      \* attempts made of the current scheduled run
  account,    \* the initial capital of the stored account, 0: no account yet
  book,       \* the sessions of the stored account and what they were run with
  archive     \* the manifest of every archived session
vars == <<files, temporary, target, builder, passed, edits, overlapped, attempt, tries,
          account, book, archive>>

EmptyFile == [seal |-> "empty"]
Idle == [stage |-> "idle"]
Unset == <<>>

(* ------------------------------------------------ the contract of a manifest *)

\* A session is given these values; all but the profile are frozen names.
Config(m) == [capital |-> m.capital, symbols |-> m.symbols,
              positions |-> m.positions, limit |-> m.limit, profile |-> m.profile]
Configs == Direct \cup {Config(m) : m \in Arguments}

InRange(m) == m.capital > 0 /\ m.symbols > 0 /\ m.positions > 0 /\ m.positions <= m.limit

Loads(f) == f # EmptyFile /\ ~f.trailing /\ f.seal = "own" /\ InRange(f.body)

(* ------------------------------------------------ building and publishing *)

\* The gate of the build script: the manifest it is about to write must load.
Gate(m) == Loads([body |-> m, seal |-> "own", trailing |-> FALSE])

Build(b) == /\ builder[b] = Idle
            /\ \E m \in Arguments :
                 /\ Gate(m)
                 /\ passed' = passed \cup {m}
                 /\ builder' = [builder EXCEPT ![b] = [stage |-> "built", body |-> m]]
            /\ UNCHANGED <<overlapped, files, temporary, target, edits, attempt, tries, account, book, archive>>

\* open("w"): the temporary file is created, or the existing one is truncated.
Open(b) == /\ builder[b].stage = "built"
           /\ IF temporary = 0
              THEN /\ Len(files) < MaxFiles
                   /\ files' = Append(files, EmptyFile) /\ temporary' = Len(files) + 1
              ELSE files' = [files EXCEPT ![temporary] = EmptyFile] /\ UNCHANGED temporary
           /\ builder' = [builder EXCEPT ![b] = [stage |-> "open", body |-> @.body,
                                                 file |-> temporary']]
           /\ overlapped' = (overlapped \/ \E o \in Builders \ {b} : builder[o].stage \in {"open", "written"})
           /\ UNCHANGED <<target, passed, edits, attempt, tries, account, book, archive>>

\* The text is written from the start of the file; what a longer text left there
\* follows it.
Overlay(old, m) == [body |-> m, seal |-> "own",
                    trailing |-> old # EmptyFile /\ Lengths[old.body] > Lengths[m]]

Write(b) == /\ builder[b].stage = "open"
            /\ files' = [files EXCEPT ![builder[b].file] = Overlay(@, builder[b].body)]
            /\ builder' = [builder EXCEPT ![b].stage = "written"]
            /\ UNCHANGED <<overlapped, temporary, target, passed, edits, attempt, tries, account, book, archive>>

Publish(b) == /\ builder[b].stage = "written"
              /\ IF temporary # 0
                 THEN target' = temporary /\ temporary' = 0
                 ELSE UNCHANGED <<target, temporary>>
              /\ builder' = [builder EXCEPT ![b] = Idle]
              /\ UNCHANGED <<overlapped, files, passed, edits, attempt, tries, account, book, archive>>

\* A builder dies: its temporary file stays.
Die(b) == /\ builder[b].stage \in {"built", "open", "written"}
          /\ builder' = [builder EXCEPT ![b] = Idle]
          /\ UNCHANGED <<overlapped, files, temporary, target, passed, edits, attempt, tries, account, book, archive>>

\* The operator edits the published file: a value changes under the old digest, or
\* the digest is emptied as well.
\* (An edited file parses.)
Edit == /\ edits < MaxEdits /\ target # 0 /\ files[target] # EmptyFile
        /\ \E m \in Arguments \ {files[target].body}, seal \in {"stale", "none"} :
             files' = [files EXCEPT ![target] = [@ EXCEPT !.body = m, !.seal = seal]]
        /\ edits' = edits + 1
        /\ UNCHANGED <<overlapped, temporary, target, builder, passed, attempt, tries, account, book, archive>>

(* ------------------------------------------------ an attempt of a session *)

\* The bridge refuses pipeline options that carry a frozen name; what is left of
\* the configuration comes from the manifest.
Bridged(m) == Config(m)
BridgeAccepts(m) == m.symbols <= m.limit

\* The position count a session works with.
Positions(c) == IF c.positions = 0 THEN c.symbols ELSE c.positions

\* The pipeline's configuration check.
ValidConfig(c) == c.capital > 0 /\ c.limit \in 1..LiveLimit /\ c.symbols \in 1..c.limit

Effective(m, c) ==
  /\ c.capital = m.capital /\ c.symbols = m.symbols
  /\ Positions(c) = m.positions /\ c.limit = m.limit

DailyAccepts(m, c, terms) == Effective(m, c) /\ c.profile = m.profile /\ m.terms = terms

LoadsState(c) == account \in {0, c.capital}

Request(a) == <<a.manifest, a.config, a.terms>>

\* A scheduled attempt reads the published file and runs it through the bridge.
Start(s) == /\ attempt = Unset /\ tries < MaxTries
            /\ target # 0 /\ Loads(files[target])
            /\ BridgeAccepts(files[target].body)
            /\ \E terms \in Terms :
                 attempt' = <<[session |-> s, stage |-> "bound", manifest |-> files[target].body,
                               config |-> Bridged(files[target].body), terms |-> terms]>>
            /\ tries' = tries + 1
            /\ UNCHANGED <<overlapped, files, temporary, target, builder, passed, edits, account, book, archive>>

\* A direct caller of the pipeline binds the published manifest to a configuration
\* of its own.
StartDirectly(s) == /\ attempt = Unset /\ tries < MaxTries
                    /\ target # 0 /\ Loads(files[target])
                    /\ \E c \in Direct, terms \in Terms :
                         attempt' = <<[session |-> s, stage |-> "bound",
                                       manifest |-> files[target].body, config |-> c, terms |-> terms]>>
                    /\ tries' = tries + 1
                    /\ UNCHANGED <<overlapped, files, temporary, target, builder, passed, edits, account, book, archive>>

\* The pipeline and the daily loop: the checks, then the stored call is replayed or
\* the session is booked.
Runs(a) == ValidConfig(a.config) /\ Effective(a.manifest, a.config) /\ LoadsState(a.config)

BookSession == /\ attempt # Unset /\ attempt[1].stage = "bound"
               /\ LET a == attempt[1]
                  IN /\ Runs(a) /\ DailyAccepts(a.manifest, a.config, a.terms)
                     /\ \A s \in DOMAIN book : s < a.session
                     /\ book' = book @@ (a.session :>
                                  [manifest |-> a.manifest, config |-> a.config, terms |-> a.terms])
                     /\ account' = a.config.capital
               /\ attempt' = <<[attempt[1] EXCEPT !.stage = "booked"]>>
               /\ UNCHANGED <<overlapped, files, temporary, target, builder, passed, edits, tries, archive>>

Replay == /\ attempt # Unset /\ attempt[1].stage = "bound"
          /\ LET a == attempt[1]
             IN /\ Runs(a) /\ a.session \in DOMAIN book
                /\ Request(book[a.session]) = Request(a)
          /\ attempt' = <<[attempt[1] EXCEPT !.stage = "booked"]>>
          /\ UNCHANGED <<overlapped, files, temporary, target, builder, passed, edits, tries, account, book, archive>>

\* The cycle is archived with the manifest the attempt was bound to; a session
\* archived before keeps its row.
ArchiveUnrun == /\ attempt # Unset
                /\ archive' = archive @@ (attempt[1].session :> attempt[1].manifest)
                /\ attempt' = Unset /\ tries' = 0
                /\ UNCHANGED <<overlapped, files, temporary, target, builder, passed, edits, account, book>>
Archive == /\ attempt # Unset /\ attempt[1].stage = "booked"
           /\ archive' = archive @@ (attempt[1].session :> attempt[1].manifest)
           /\ attempt' = Unset /\ tries' = 0
           /\ UNCHANGED <<overlapped, files, temporary, target, builder, passed, edits, account, book>>

\* The attempt ends in an error at any point: a refusal, a lost connection or a
\* crash.  The next attempt reads the manifest again.
Abandon == /\ attempt # Unset
           /\ attempt' = Unset
           /\ UNCHANGED <<overlapped, files, temporary, target, builder, passed, edits, tries, account, book, archive>>

\* Another scheduled run begins.
Reschedule == /\ attempt = Unset /\ tries = MaxTries
              /\ tries' = 0
              /\ UNCHANGED <<overlapped, files, temporary, target, builder, passed, edits, attempt, account, book, archive>>

Init == /\ files = <<>> /\ temporary = 0 /\ target = 0
        /\ builder = [b \in Builders |-> Idle] /\ passed = {} /\ edits = 0 /\ overlapped = FALSE
        /\ attempt = Unset /\ tries = 0 /\ account = 0
        /\ book = <<>> /\ archive = <<>>

Next == \/ \E b \in Builders : Build(b) \/ Open(b) \/ Write(b) \/ Publish(b) \/ Die(b)
        \/ Edit
        \/ \E s \in Sessions : Start(s) \/ StartDirectly(s)
        \/ BookSession \/ Replay \/ Archive \/ Abandon \/ Reschedule

Spec == Init /\ [][Next]_vars

(* ------------------------------------------------ properties *)

Bindings == [manifest : Arguments, config : Configs, terms : Terms]

\* The type invariant.
TypeOK ==
  /\ temporary \in 0..Len(files) /\ target \in 0..Len(files)
  /\ \A f \in 1..Len(files) : files[f] # EmptyFile => files[f].body \in Arguments
  /\ passed \subseteq Arguments /\ overlapped \in BOOLEAN
  /\ account \in {c.capital : c \in Configs} \cup {0}
  /\ DOMAIN book \subseteq Sessions /\ \A s \in DOMAIN book : book[s] \in Bindings
  /\ DOMAIN archive \subseteq DOMAIN book

\* Every session was run with the values and on the terms of a manifest that
\* passed the gate of the build script, through files torn by two builders, edited
\* by hand or rebuilt, and whatever configuration a direct caller brought
\* (load_runtime_manifest, effective_parameter_payload, the daily loop's checks).
RunsAsBuilt ==
  \A s \in DOMAIN book :
    LET b == book[s]
    IN /\ b.manifest \in passed /\ b.terms = b.manifest.terms
       /\ [b.config EXCEPT !.positions = Positions(b.config)] = Config(b.manifest)

\* A reader of the published name finds a whole manifest that passed the gate, at
\* any time and after any crash of a builder (write_manifest_atomic: flushed,
\* synced and renamed), while builders take turns: two that overlap share the
\* temporary name, and one renames what the other has only truncated.
PublishedIsWhole ==
  (target # 0 /\ edits = 0 /\ ~overlapped) =>
    Loads(files[target]) /\ files[target].body \in passed

\* The sessions of one account have all frozen the capital it was opened with: a
\* manifest rebuilt with another one runs no session on it (load_daily_state).
CapitalIsTheAccounts ==
  \A s \in DOMAIN book : book[s].manifest.capital = account

\* A session is archived under the manifest it was run with, although an attempt
\* that follows a lost archive reads the manifest again (the request digest holds
\* the manifest, so the stored call is not replayed for another one).
ArchivedAsRun ==
  \A s \in DOMAIN archive : s \in DOMAIN book /\ archive[s] = book[s].manifest
====
