--------------------------- MODULE Level1Collector --------------------------
(***************************************************************************)
(* LiveLevel1Collector with the TDX adapter as its provider.               *)
(*                                                                         *)
(* Main runs start, the polling loop and shutdown.  The threads of the TDX *)
(* runtime call _on_refresh_notification.  Both refresh: under one lock    *)
(* they fetch the current quotes, drop the ones already seen, aggregate,   *)
(* and persist.  Main shuts down without taking the lock.                  *)
(*                                                                         *)
(* A quote of a symbol is a number that grows with its timestamp; two      *)
(* quotes have the same event key only if they are the same quote.         *)
(***************************************************************************)
EXTENDS Naturals, Sequences

CONSTANTS
    Main,       \* the thread that calls run
    Callbacks,  \* threads of the TDX runtime that deliver notifications
    Symbols,    \* the subscribed symbols
    MaxQuotes   \* bound on the quotes of a symbol

ASSUME CollectorAssumption ==
    /\ Main \notin Callbacks
    /\ MaxQuotes \in Nat

Threads == {Main} \cup Callbacks

VARIABLES
    quote,          \* quote[s]: the current quote at the exchange, 0 for none
    api,            \* the adapter's connection: "none", "open" or "closed"
    subscription,   \* where the callback registration is
    stop,           \* the stop event is set
    running,        \* _running
    callbackError,  \* _callback_error is set
    raised,         \* run has raised, or will after shutdown
    interrupted,    \* the operator has pressed Ctrl-C
    pc,             \* pc[t]: what thread t does next
    holder,         \* the threads inside the refresh lock
    asked,          \* asked[t]: symbols of the refresh of t
    batch,          \* batch[t]: quotes that t has fetched, 0 for none
    key,            \* _last_event_keys
    latest,         \* last_timestamp of the aggregator
    events,         \* _events, by symbol
    stored          \* quotes the sink has persisted, by symbol

provider == <<quote, api, subscription>>
flags == <<stop, running, callbackError, raised, interrupted>>
memory == <<key, latest, events, stored>>
vars == <<provider, flags, pc, holder, asked, batch, memory>>

-----------------------------------------------------------------------------
Quotes == 0 .. MaxQuotes
NoQuotes == [s \in Symbols |-> 0]

Inside == {"fetch", "take", "store"}

MainSteps == {"new", "lock", "subscribe", "subscribing", "check", "wait",
              "shutdown", "unsubscribe", "flush", "close", "ended"} \cup Inside
CallbackSteps == {"idle", "entered", "lock", "error", "stop"} \cup Inside

\* Besides the types: who is inside the lock is who is refreshing.
TypeOK ==
    /\ quote \in [Symbols -> Quotes]
    /\ api \in {"none", "open", "closed"}
    /\ subscription \in {"none", "pending", "active", "failed", "removed"}
    /\ stop \in BOOLEAN
    /\ running \in BOOLEAN
    /\ callbackError \in BOOLEAN
    /\ raised \in BOOLEAN
    /\ interrupted \in BOOLEAN
    /\ pc \in [Threads -> MainSteps \cup CallbackSteps]
    /\ pc[Main] \in MainSteps
    /\ \A t \in Callbacks : pc[t] \in CallbackSteps
    /\ holder = {t \in Threads : pc[t] \in Inside}
    /\ \A t, u \in holder : t = u
    /\ asked \in [Threads -> SUBSET Symbols]
    /\ batch \in [Threads -> [Symbols -> Quotes]]
    /\ key \in [Symbols -> Quotes]
    /\ latest \in [Symbols -> Quotes]
    /\ events \in [Symbols -> Seq(Quotes)]
    /\ stored \in [Symbols -> SUBSET Quotes]

Init ==
    /\ quote = NoQuotes
    /\ api = "none"
    /\ subscription = "none"
    /\ stop = FALSE
    /\ running = FALSE
    /\ callbackError = FALSE
    /\ raised = FALSE
    /\ interrupted = FALSE
    /\ pc = [t \in Threads |-> IF t = Main THEN "new" ELSE "idle"]
    /\ holder = {}
    /\ asked = [t \in Threads |-> {}]
    /\ batch = [t \in Threads |-> NoQuotes]
    /\ key = NoQuotes
    /\ latest = NoQuotes
    /\ events = [s \in Symbols |-> <<>>]
    /\ stored = [s \in Symbols |-> {}]

\* The exchange has a new quote of s.
NewQuote(s) ==
    /\ quote[s] < MaxQuotes
    /\ quote' = [quote EXCEPT ![s] = @ + 1]
    /\ UNCHANGED <<api, subscription, flags, pc, holder, asked, batch, memory>>

-----------------------------------------------------------------------------
(***************************************************************************)
(* refresh, for every thread.                                              *)
(***************************************************************************)
Goto(t, step) == pc' = [pc EXCEPT ![t] = step]

\* The refresh of t is over: Main returns to start or to its loop.
Return(t) ==
    /\ holder' = holder \ {t}
    /\ Goto(t, IF t # Main THEN "idle"
               ELSE IF subscription = "none" THEN "subscribe" ELSE "check")
    /\ UNCHANGED <<flags, provider>>

\* Mutant: the lock is released at the end of a refresh only.
FailLocked(t) ==
    /\ holder' = holder
    /\ IF t = Main THEN /\ raised' = TRUE
                        /\ Goto(t, "shutdown")
                   ELSE /\ UNCHANGED raised
                        /\ Goto(t, "error")
    /\ UNCHANGED <<provider, stop, running, callbackError, interrupted>>

\* The refresh of t raises and leaves the lock.
Fail(t) ==
    /\ holder' = holder \ {t}
    /\ IF t = Main THEN /\ raised' = TRUE
                        /\ Goto(t, "shutdown")
                   ELSE /\ UNCHANGED raised
                        /\ Goto(t, "error")
    /\ UNCHANGED <<provider, stop, running, callbackError, interrupted>>

\* Mutant: a refresh does not wait for the others.
AcquireAnyway(t) ==
    /\ pc[t] = "lock"
    /\ holder' = holder \cup {t}
    /\ Goto(t, "fetch")
    /\ UNCHANGED <<provider, flags, asked, batch, memory>>

Acquire(t) ==
    /\ pc[t] = "lock"
    /\ holder = {}
    /\ holder' = {t}
    /\ Goto(t, "fetch")
    /\ UNCHANGED <<provider, flags, asked, batch, memory>>

\* get_market_snapshot: the current quotes of the symbols asked for.  It
\* raises when the adapter is closed, and when the TDX call fails.
Fetch(t) ==
    /\ pc[t] = "fetch"
    /\ \/ /\ api = "open"
          /\ batch' = [batch EXCEPT ![t] =
                [s \in Symbols |-> IF s \in asked[t] THEN quote[s] ELSE 0]]
          /\ Goto(t, "take")
          /\ UNCHANGED <<provider, flags, holder>>
       \/ Fail(t) /\ UNCHANGED batch
    /\ UNCHANGED <<asked, memory>>

\* The symbols whose fetched quote is not the one seen last.
New(t) == {s \in Symbols : batch[t][s] # 0 /\ batch[t][s] # key[s]}

\* Those of them that are older than what the aggregator has.
OutOfOrder(t) == {s \in New(t) : batch[t][s] < latest[s]}

Updated(f, D, t) == [s \in Symbols |-> IF s \in D THEN batch[t][s] ELSE f[s]]

\* The loop over the fetched events: record the key, drop a duplicate,
\* aggregate.  The aggregator raises at an event that is out of order: the
\* keys up to that one stay recorded, and none of the events is kept.
Take(t) ==
    /\ pc[t] = "take"
    /\ IF OutOfOrder(t) = {}
       THEN /\ key' = Updated(key, New(t), t)
            /\ latest' = Updated(latest, New(t), t)
            /\ events' = [s \in Symbols |->
                             IF s \in New(t) THEN Append(events[s], batch[t][s])
                             ELSE events[s]]
            /\ batch' = [batch EXCEPT ![t] =
                             [s \in Symbols |-> IF s \in New(t) THEN @[s] ELSE 0]]
            /\ Goto(t, "store")
            /\ UNCHANGED <<flags, provider, holder>>
       ELSE /\ \E s \in OutOfOrder(t), done \in SUBSET (New(t) \ OutOfOrder(t)) :
                  /\ key' = Updated(key, done \cup {s}, t)
                  /\ latest' = Updated(latest, done, t)
            /\ UNCHANGED <<events, batch>>
            /\ Fail(t)
    /\ UNCHANGED <<asked, stored>>

\* Mutant: an error of the sink is swallowed.
StoreQuietly(t) ==
    /\ pc[t] = "store"
    /\ \/ stored' = [s \in Symbols |-> stored[s] \cup ({batch[t][s]} \ {0})]
       \/ stored' = stored
    /\ Return(t)
    /\ UNCHANGED <<asked, batch, key, latest, events>>

\* _persist, all or nothing.  The sink is not called when nothing is new.
Store(t) ==
    /\ pc[t] = "store"
    /\ \/ /\ stored' = [s \in Symbols |-> stored[s] \cup ({batch[t][s]} \ {0})]
          /\ Return(t)
       \/ /\ batch[t] # NoQuotes
          /\ Fail(t)
          /\ UNCHANGED stored
    /\ UNCHANGED <<asked, batch, key, latest, events>>

Refresh(t) == Acquire(t) \/ Fetch(t) \/ Take(t) \/ Store(t)

-----------------------------------------------------------------------------
(***************************************************************************)
(* The main thread: start, the loop of run, shutdown.                      *)
(***************************************************************************)

\* start, up to its first refresh.
Start ==
    /\ pc[Main] = "new"
    /\ \/ /\ api' = "open"
          /\ running' = TRUE
          /\ asked' = [asked EXCEPT ![Main] = Symbols]
          /\ Goto(Main, "lock")
          /\ UNCHANGED raised
       \/ /\ raised' = TRUE
          /\ Goto(Main, "shutdown")
          /\ UNCHANGED <<api, running, asked>>
    /\ UNCHANGED <<quote, subscription, stop, callbackError, interrupted,
                   holder, batch, memory>>

\* subscribe_hq registers the callback before it calls TDX, and takes it back
\* when TDX refuses: the collector then polls.
Subscribe ==
    /\ \/ /\ pc[Main] = "subscribe"
          /\ subscription' = "pending"
          /\ Goto(Main, "subscribing")
       \/ /\ pc[Main] = "subscribing"
          /\ subscription' \in {"active", "failed"}
          /\ Goto(Main, "check")
    /\ UNCHANGED <<quote, api, flags, holder, asked, batch, memory>>

\* The head of the loop.  The duration may be over.
Check ==
    /\ pc[Main] = "check"
    /\ raised' = IF ~ stop /\ callbackError THEN TRUE ELSE raised
    /\ \/ Goto(Main, "shutdown")
       \/ ~ stop /\ ~ callbackError /\ Goto(Main, "wait")
    /\ UNCHANGED <<provider, stop, running, callbackError, interrupted, holder,
                   asked, batch, memory>>

\* The wait ends: the stop event is set, a poll is due, or neither.
Wait ==
    /\ pc[Main] = "wait"
    /\ IF stop THEN Goto(Main, "shutdown")
       ELSE Goto(Main, "lock") \/ Goto(Main, "check")
    /\ asked' = [asked EXCEPT ![Main] = Symbols]
    /\ UNCHANGED <<provider, flags, holder, batch, memory>>

\* The steps of shutdown change nothing else.
Kept == <<quote, callbackError, interrupted, holder, asked, batch, memory>>

SetStop ==
    /\ pc[Main] = "shutdown"
    /\ stop' = TRUE
    /\ Goto(Main, "unsubscribe")
    /\ UNCHANGED <<api, subscription, running, raised, Kept>>

\* unsubscribe_hq removes the registration first; an error of TDX after that is
\* only reported.
Unsubscribe ==
    /\ pc[Main] = "unsubscribe"
    /\ subscription' = IF subscription = "active" THEN "removed" ELSE subscription
    /\ Goto(Main, "flush")
    /\ UNCHANGED <<api, stop, running, raised, Kept>>

\* Persist the open bars; an error is kept and raised after the rest.
Flush ==
    /\ pc[Main] = "flush"
    /\ raised' = TRUE \/ raised' = raised
    /\ Goto(Main, "close")
    /\ UNCHANGED <<api, subscription, stop, running, Kept>>

Close ==
    /\ pc[Main] = "close"
    /\ api' = IF api = "open" THEN "closed" ELSE api
    /\ running' = FALSE
    /\ Goto(Main, "ended")
    /\ UNCHANGED <<subscription, stop, raised, Kept>>

\* shutdown takes these steps in this order, and does not take the lock.
Shutdown == SetStop \/ Unsubscribe \/ Flush \/ Close

\* Ctrl-C, once: run goes to its finally clause, and a shutdown that was going
\* on is begun again by the script.
Interrupt ==
    /\ ~ interrupted
    /\ pc[Main] # "ended"
    /\ interrupted' = TRUE
    /\ raised' = TRUE
    /\ holder' = holder \ {Main}
    /\ Goto(Main, "shutdown")
    /\ UNCHANGED <<provider, stop, running, callbackError, asked, batch, memory>>

-----------------------------------------------------------------------------
(***************************************************************************)
(* A notification thread.                                                  *)
(***************************************************************************)

\* TDX delivers a notification and the adapter finds the registration.
Notify(t) ==
    /\ pc[t] = "idle"
    /\ subscription \in {"pending", "active"}
    /\ Goto(t, "entered")
    /\ UNCHANGED <<provider, flags, holder, asked, batch, memory>>

\* _on_refresh_notification, up to its refresh of one symbol or of all.
Enter(t) ==
    /\ pc[t] = "entered"
    /\ \/ /\ running /\ ~ stop
          /\ \E D \in {Symbols} \cup {{s} : s \in Symbols} :
                asked' = [asked EXCEPT ![t] = D]
          /\ Goto(t, "lock")
       \/ /\ Goto(t, "idle")
          /\ UNCHANGED asked
    /\ UNCHANGED <<provider, flags, holder, batch, memory>>

\* The refresh raised: keep the error, then set the stop event.
Report(t) ==
    /\ \/ /\ pc[t] = "error"
          /\ callbackError' = TRUE
          /\ Goto(t, "stop")
          /\ UNCHANGED stop
       \/ /\ pc[t] = "stop"
          /\ stop' = TRUE
          /\ Goto(t, "idle")
          /\ UNCHANGED callbackError
    /\ UNCHANGED <<provider, running, raised, interrupted, holder, asked, batch,
                   memory>>

-----------------------------------------------------------------------------
MainStep == Refresh(Main) \/ Start \/ Subscribe \/ Check \/ Wait \/ Shutdown

CallbackStep(t) == Refresh(t) \/ Enter(t) \/ Report(t)

Next ==
    \/ \E s \in Symbols : NewQuote(s)
    \/ MainStep
    \/ Interrupt
    \/ \E t \in Callbacks : Notify(t) \/ CallbackStep(t)

Spec == Init /\ [][Next]_vars

\* Threads run, the calls of the adapter and of the sink return, and a thread
\* that waits for a lock that stays free gets it.  Nothing is assumed of
\* quotes, notifications, the duration or Ctrl-C.
FairSpec ==
    /\ Spec
    /\ WF_vars(MainStep)
    /\ \A t \in Callbacks : WF_vars(CallbackStep(t))

-----------------------------------------------------------------------------
(***************************************************************************)
(* Properties.                                                             *)
(***************************************************************************)

\* The quotes are fetched inside the lock that orders their processing, so
\* the aggregator, which raises at an event older than the last one of its
\* symbol, never meets one, however polls and notifications overlap.
NeverOutOfOrder == \A t \in Threads : pc[t] = "take" => OutOfOrder(t) = {}

\* The events of a symbol are strictly increasing: none is recorded twice,
\* though every quote is fetched by polls and by notifications.
EventsIncrease ==
    \A s \in Symbols : \A j, k \in 1 .. Len(events[s]) :
        j < k => events[s][j] < events[s][k]

\* An accepted event that is not persisted is on its way to the sink, or the
\* refresh that lost it has failed and the failure is kept or raised.  (Its
\* key is recorded, so no later refresh brings it back.)
LossLeavesError ==
    \A s \in Symbols : \A j \in 1 .. Len(events[s]) :
        \/ events[s][j] \in stored[s]
        \/ \E t \in holder : pc[t] = "store" /\ batch[t][s] = events[s][j]
        \/ \E t \in Callbacks : pc[t] = "error"
        \/ callbackError
        \/ raised

\* Whatever failed on the way, a run that has ended has stopped the callbacks
\* and closed the adapter.
EndedIsClosed ==
    pc[Main] = "ended" => stop /\ ~ running /\ api # "open" /\ subscription # "active"

\* Once something has failed in a callback, or the stop event is set, the run
\* comes to its end: nobody holds the lock for ever.
StopEnds == (stop \/ callbackError) ~> pc[Main] = "ended"

=============================================================================
