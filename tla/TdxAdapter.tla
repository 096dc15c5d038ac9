------------------------------ MODULE TdxAdapter ------------------------------
(***************************************************************************)
(* TDXLevel1Provider: how a process loads tqcenter, subscribes and closes, *)
(* and the one callback that TDX calls for everybody.                      *)
(*                                                                         *)
(* Several providers may live in a process, each used by a thread of its   *)
(* own.  They share sys.path, the imported module, and the registry of     *)
(* callbacks; threads of the TDX runtime read the registry under its lock  *)
(* and dispatch outside of it.                                             *)
(***************************************************************************)
EXTENDS Naturals, Sequences, FiniteSetsExt

CONSTANTS
    Providers,         \* the providers of the process
    DirectoryOf,       \* DirectoryOf[p]: the TDX user directory of p
    Paths,             \* what sys.path may be at first
    Symbols,
    Callbacks,         \* threads of the TDX runtime
    MaxSubscriptions,  \* bound on the subscriptions ever asked for
    MaxNotices         \* bound on the notices of TDX

AdapterAssumption ==
    /\ \A p \in Providers : DirectoryOf[p] # "elsewhere"
    /\ MaxSubscriptions \in Nat /\ MaxNotices \in Nat

VARIABLES
    path,        \* sys.path
    found,       \* the directory tqcenter was imported from, "" before
    prepended,   \* path_was_prepended of the provider's initialize
    step,        \* what the thread of p does next
    open,        \* p has an api
    closing,     \* p is inside close
    subs,        \* ids of the _subscriptions of p
    asked,       \* symbols of every subscription, by id
    owner,       \* its provider
    registered,  \* ids in _SUBSCRIPTION_CALLBACKS
    at,          \* the id that p is working on
    feed,        \* symbols that TDX sends
    stray,       \* of them, those that a call which raised has left on
    starved,     \* symbols ended for one subscription while another had them
    notice,      \* the call of each thread of TDX
    counts,      \* _CallbackDiagnostics of p, and the calls that succeeded
    notices      \* notices that TDX has sent

loading == <<path, found, prepended>>
registry == <<subs, asked, owner, registered, at>>
sent == <<feed, stray, starved>>
tdx == <<notice, counts, notices>>
vars == <<loading, step, open, closing, registry, sent, tdx>>

Directories == {DirectoryOf[p] : p \in Providers}
Ids == 1 .. MaxSubscriptions
NoNotice == [todo |-> {}, good |-> TRUE]
Steps == {"idle", "import", "connect", "opened", "refused", "subscribing",
          "closing", "removed", "unregistered"}
Counts == [callbacks : Nat, parse : Nat, dispatch : Nat, handled : Nat]

TypeOK ==
    /\ path \in Seq(Directories \cup {"elsewhere"})
    /\ found \in Directories \cup {""}
    /\ prepended \in [Providers -> BOOLEAN]
    /\ step \in [Providers -> Steps]
    /\ open \in [Providers -> BOOLEAN]
    /\ closing \in [Providers -> BOOLEAN]
    /\ \A p \in Providers : /\ subs[p] \subseteq 1 .. Len(asked)
                            /\ step[p] # "idle" /\ ~closing[p] /\ open[p] =>
                                  at[p] \in 1 .. Len(asked)
    /\ asked \in Seq(SUBSET Symbols)
    /\ owner \in Seq(Providers)
    /\ Len(owner) = Len(asked)
    /\ registered \subseteq 1 .. Len(asked)
    /\ feed \subseteq Symbols /\ stray \subseteq feed
    /\ starved \subseteq Symbols \ feed
    /\ notice \in [Callbacks -> [todo : SUBSET Ids, good : BOOLEAN]]
    /\ counts \in [Providers -> Counts]

Init ==
    /\ path \in Paths
    /\ found = ""
    /\ prepended = [p \in Providers |-> FALSE]
    /\ step = [p \in Providers |-> "idle"]
    /\ open = [p \in Providers |-> FALSE]
    /\ closing = [p \in Providers |-> FALSE]
    /\ subs = [p \in Providers |-> {}]
    /\ asked = <<>>
    /\ owner = <<>>
    /\ registered = {}
    /\ at = [p \in Providers |-> 0]
    /\ feed = {} /\ stray = {} /\ starved = {}
    /\ notice = [t \in Callbacks |-> NoNotice]
    /\ counts = [p \in Providers |-> [callbacks |-> 0, parse |-> 0, dispatch |-> 0, handled |-> 0]]
    /\ notices = 0

Goto(p, s) == step' = [step EXCEPT ![p] = s]

-----------------------------------------------------------------------------
(***************************************************************************)
(* initialize.  Python imports tqcenter once, from the first directory of  *)
(* the path that has it.                                                   *)
(***************************************************************************)
Initialize(p) ==
    LET first == path # <<>> /\ path[1] = DirectoryOf[p]
    IN /\ step[p] = "idle"
       /\ ~open[p]
       /\ prepended' = [prepended EXCEPT ![p] = ~first]
       /\ path' = IF first THEN path ELSE <<DirectoryOf[p]>> \o path
       /\ Goto(p, "import")
       /\ UNCHANGED <<found, open, closing, registry, sent, tdx>>

\* What the import finds: the module it has, or the first directory's.
Imported ==
    LET having == {k \in DOMAIN path : path[k] \in Directories}
    IN IF found # "" THEN found
       ELSE IF having = {} THEN "" ELSE path[Min(having)]

\* The module must come from the provider's own directory.
OriginIsOwn(p, origin) == origin = DirectoryOf[p]

\* An import may raise, or the module may lack tq or one of its functions.
Import(p) ==
    /\ step[p] = "import"
    /\ \/ /\ found' = Imported
          /\ \/ OriginIsOwn(p, Imported) /\ Goto(p, "connect")
             \/ Goto(p, "refused")
       \/ UNCHANGED found /\ Goto(p, "refused")
    /\ UNCHANGED <<path, prepended, open, closing, registry, sent, tdx>>

Connect(p) ==
    /\ step[p] = "connect"
    /\ \/ Goto(p, "opened")
       \/ Goto(p, "refused")
    /\ UNCHANGED <<loading, open, closing, registry, sent, tdx>>

\* sys.path without the first entry of the provider's directory.
Restored(p) ==
    LET own == {k \in DOMAIN path : path[k] = DirectoryOf[p]}
    IN IF ~prepended[p] \/ own = {} THEN path
       ELSE SubSeq(path, 1, Min(own) - 1) \o SubSeq(path, Min(own) + 1, Len(path))

\* The finally of initialize, and its last line.
Loaded(p) ==
    /\ step[p] \in {"opened", "refused"}
    /\ path' = Restored(p)
    /\ open' = [open EXCEPT ![p] = step[p] = "opened"]
    /\ Goto(p, "idle")
    /\ UNCHANGED <<found, prepended, closing, registry, sent, tdx>>

-----------------------------------------------------------------------------
(***************************************************************************)
(* subscribe_hq.  The callback is registered before TDX is asked.          *)
(***************************************************************************)
Subscribe(p) ==
    \E S \in SUBSET Symbols \ {{}} :
        /\ step[p] = "idle"
        /\ open[p]
        /\ Len(asked) < MaxSubscriptions
        /\ asked' = Append(asked, S)
        /\ owner' = Append(owner, p)
        /\ registered' = registered \cup {Len(asked')}
        /\ at' = [at EXCEPT ![p] = Len(asked')]
        /\ Goto(p, "subscribing")
        /\ UNCHANGED <<loading, open, closing, subs, sent, tdx>>

\* What TDX answers: an exception, no mapping, or a mapping whose ErrorId is
\* missing, another number, or a zero in one of three spellings.
Answers == {"raise", "false", "malformed", "missing", "error", "0", "zero", "0.0"}

\* TDX may have taken a subscription whose answer was lost.
Taken(answer) ==
    IF answer \in {"0", "zero", "0.0"} THEN {TRUE}
    ELSE IF answer \in {"false", "error"} THEN {FALSE} ELSE BOOLEAN

\* _interpret_subscription_response and _is_zero_error_id.
Accepted(answer) == answer \in {"0", "zero", "0.0"}

\* Mutant: a refused subscription stays registered.
DroppedNever(p) == registered

\* The registry after a refusal.
Dropped(p) == registered \ {at[p]}

Subscribed(p) ==
    /\ step[p] = "subscribing"
    /\ \E answer \in Answers : \E taken \in Taken(answer) :
          /\ feed' = IF taken THEN feed \cup asked[at[p]] ELSE feed
          /\ starved' = starved \ feed'
          /\ stray' = IF taken /\ ~Accepted(answer) THEN stray \cup asked[at[p]] ELSE stray
          /\ IF Accepted(answer)
             THEN subs' = [subs EXCEPT ![p] = @ \cup {at[p]}] /\ UNCHANGED registered
             ELSE registered' = Dropped(p) /\ UNCHANGED subs
    /\ Goto(p, "idle")
    /\ UNCHANGED <<loading, open, closing, asked, owner, at, tdx>>

-----------------------------------------------------------------------------
(***************************************************************************)
(* unsubscribe_hq and close.                                               *)
(***************************************************************************)

\* What close has still to give up.
Remaining(p) == subs[p]

Remove(p, i) ==
    /\ subs' = [subs EXCEPT ![p] = @ \ {i}]
    /\ at' = [at EXCEPT ![p] = i]
    /\ Goto(p, "removed")

Unsubscribe(p) ==
    /\ step[p] = "idle"
    /\ \E i \in subs[p] : Remove(p, i)
    /\ UNCHANGED <<loading, open, closing, asked, owner, registered, sent, tdx>>

Unregister(p) ==
    /\ step[p] = "removed"
    /\ registered' = registered \ {at[p]}
    /\ Goto(p, "unregistered")
    /\ UNCHANGED <<loading, open, closing, subs, asked, owner, at, sent, tdx>>

\* close goes on after an error and raises it at the end.
After(p) == IF closing[p] THEN "closing" ELSE "idle"

\* The symbols of the subscriptions.
Wanted == UNION {UNION {asked[i] : i \in subs[p]} : p \in Providers}

\* TDX stops sending the symbols, whoever else subscribes to them, or raises.
AskTdx(p) ==
    /\ step[p] = "unregistered"
    /\ \/ /\ feed' = feed \ asked[at[p]]
          /\ stray' = stray \ asked[at[p]]
          /\ starved' = starved \cup (asked[at[p]] \cap Wanted)
       \/ /\ stray' = stray \cup (asked[at[p]] \cap feed)
          /\ UNCHANGED <<feed, starved>>
    /\ Goto(p, After(p))
    /\ UNCHANGED <<loading, open, closing, registry, tdx>>

Close(p) ==
    /\ step[p] = "idle"
    /\ open[p]
    /\ closing' = [closing EXCEPT ![p] = TRUE]
    /\ Goto(p, "closing")
    /\ UNCHANGED <<loading, open, registry, sent, tdx>>

CloseNext(p) ==
    /\ step[p] = "closing"
    /\ Remaining(p) # {}
    /\ Remove(p, Min(Remaining(p)))
    /\ UNCHANGED <<loading, open, closing, asked, owner, registered, sent, tdx>>

Closed(p) ==
    /\ step[p] = "closing"
    /\ Remaining(p) = {}
    /\ open' = [open EXCEPT ![p] = FALSE]
    /\ closing' = [closing EXCEPT ![p] = FALSE]
    /\ Goto(p, "idle")
    /\ UNCHANGED <<loading, registry, sent, tdx>>

-----------------------------------------------------------------------------
(***************************************************************************)
(* _tdx_subscription_callback.  Under the lock every registration of the   *)
(* process is counted; the same payload then goes to each of them.         *)
(***************************************************************************)
Of(p, ids) == Cardinality({i \in ids : owner[i] = p})

\* counts with one more for each of these registrations.
Counted(field, ids) == [p \in Providers |-> [counts[p] EXCEPT ![field] = @ + Of(p, ids)]]

Notice(t) ==
    /\ notice[t] = NoNotice
    /\ feed # {}
    /\ notices < MaxNotices
    /\ \E good \in BOOLEAN :
          notice' = [notice EXCEPT ![t] = IF registered = {} THEN NoNotice
                                          ELSE [todo |-> registered, good |-> good]]
    /\ counts' = Counted("callbacks", registered)
    /\ notices' = notices + 1
    /\ UNCHANGED <<loading, step, open, closing, registry, sent>>

Unreadable(t) ==
    /\ notice[t].todo # {}
    /\ ~notice[t].good
    /\ counts' = Counted("parse", notice[t].todo)
    /\ notice' = [notice EXCEPT ![t] = NoNotice]
    /\ UNCHANGED <<loading, step, open, closing, registry, sent, notices>>

\* The callback of one registration returns or raises.
Dispatch(t) ==
    LET i == Min(notice[t].todo)
        rest == notice[t].todo \ {i}
    IN /\ notice[t].todo # {}
       /\ notice[t].good
       /\ \E field \in {"handled", "dispatch"} : counts' = Counted(field, {i})
       /\ notice' = [notice EXCEPT ![t].todo = rest]
       /\ UNCHANGED <<loading, step, open, closing, registry, sent, notices>>

-----------------------------------------------------------------------------
Works(p) ==
    \/ Import(p) \/ Connect(p) \/ Loaded(p) \/ Subscribed(p)
    \/ Unregister(p) \/ AskTdx(p) \/ CloseNext(p) \/ Closed(p)

Next ==
    \/ \E p \in Providers : \/ Initialize(p) \/ Subscribe(p) \/ Unsubscribe(p) \/ Close(p)
                            \/ Works(p)
    \/ \E t \in Callbacks : Notice(t) \/ Unreadable(t) \/ Dispatch(t)

\* A call that has begun goes on: the module, TDX and the lock all answer.
Spec == Init /\ [][Next]_vars /\ \A p \in Providers : WF_vars(Works(p))

-----------------------------------------------------------------------------
\* sys.path is what it was whenever nobody is inside initialize, though
\* several may have been inside at once.
PathRestored ==
    (\A p \in Providers : step[p] \notin {"import", "connect", "opened", "refused"}) => path \in Paths

\* A provider never works with the tqcenter of another directory.
LoadedFromOwn == \A p \in Providers : open[p] => found = DirectoryOf[p]

\* The registry holds the subscriptions of the providers and the one that each
\* is asking for or giving up: no path out of subscribe, unsubscribe or close
\* leaves a callback behind, or a subscription without one.
NoOrphan ==
    registered = UNION {subs[p] : p \in Providers}
                 \cup {at[p] : p \in {q \in Providers : step[q] \in {"subscribing", "removed"}}}

\* TDX sends every symbol that a provider counts as subscribed, but for those
\* that it stopped when another subscription with the symbol was given up: one
\* call of TDX ends a symbol for the process, and the code does not count.
SubscribedIsFed ==
    \A p \in Providers : \A i \in subs[p] : asked[i] \subseteq feed \cup starved

\* TDX sends nothing more than the subscriptions, those being given up, and what
\* a call that raised has left on: a subscribe whose answer was lost or unreadable,
\* an unsubscribe that failed.  Nothing of the code ends those later.
FeedIsAccountedFor ==
    feed \subseteq Wanted \cup stray
        \cup UNION {asked[at[p]] : p \in {q \in Providers : step[q] \in {"removed", "unregistered"}}}

\* The diagnostics add up: every callback of a provider was handled, did not
\* parse, or raised, except those that are still to be made.
DiagnosticsAddUp ==
    \A p \in Providers :
        counts[p].callbacks = counts[p].handled + counts[p].parse + counts[p].dispatch
                              + FoldSet(LAMBDA t, sum : sum + Of(p, notice[t].todo), 0, Callbacks)

\* A provider that has closed has no subscription and no callback.
ClosedIsReleased ==
    \A p \in Providers : ~open[p] => subs[p] = {} /\ Of(p, registered) = 0

===============================================================================
