----------------------- MODULE Level1Collector_proofs -----------------------
(***************************************************************************)
(* Theorems about Level1Collector, for any number of notification threads, *)
(* symbols and quotes.                                                     *)
(***************************************************************************)
EXTENDS Level1Collector, SequenceTheorems, TLAPS

USE CollectorAssumption DEF Threads, Quotes, Kept, Shutdown

-----------------------------------------------------------------------------
(***************************************************************************)
(* Types and the lock.                                                     *)
(***************************************************************************)

\* The initial state has the types, and nobody is inside the lock.
LEMMA InitTypeOK == Init => TypeOK
<1> SUFFICES ASSUME Init PROVE TypeOK
    OBVIOUS
<1>1. \A t \in Threads : pc[t] \notin Inside
      BY DEF Init, Inside
<1>2. holder = {t \in Threads : pc[t] \in Inside}
      BY <1>1 DEF Init
<1>3. NoQuotes \in [Symbols -> Quotes]
      BY DEF NoQuotes
<1>4. events \in [Symbols -> Seq(Quotes)]
      BY DEF Init
<1>5. pc \in [Threads -> MainSteps \cup CallbackSteps]
      BY DEF Init, MainSteps, CallbackSteps
<1>6. pc[Main] \in MainSteps /\ \A t \in Callbacks : pc[t] \in CallbackSteps
      BY DEF Init, MainSteps, CallbackSteps
<1>7. QED  BY <1>2, <1>3, <1>4, <1>5, <1>6 DEF Init, TypeOK

\* A thread that goes from outside the lock to outside of it, or to its place
\* in it, keeps pc and holder well typed.  All that the steps say of them.
LEMMA GotoTypeOK ==
    ASSUME TypeOK, NEW t \in Threads, NEW step, Goto(t, step),
           step \in IF t = Main THEN MainSteps ELSE CallbackSteps,
           IF step \in Inside THEN holder' = {t} /\ holder \subseteq {t}
                              ELSE holder' = holder \ {t}
    PROVE  /\ pc' \in [Threads -> MainSteps \cup CallbackSteps]
           /\ pc'[Main] \in MainSteps
           /\ \A u \in Callbacks : pc'[u] \in CallbackSteps
           /\ holder' = {u \in Threads : pc'[u] \in Inside}
           /\ \A u, v \in holder' : u = v
<1>1. pc' \in [Threads -> MainSteps \cup CallbackSteps]
      BY DEF TypeOK, Goto
<1>2. pc'[t] = step /\ \A u \in Threads \ {t} : pc'[u] = pc[u]
      BY DEF TypeOK, Goto
<1>3. pc'[Main] \in MainSteps
      BY <1>2 DEF TypeOK
<1>4. \A u \in Callbacks : pc'[u] \in CallbackSteps
      BY <1>2 DEF TypeOK
<1>5. holder' = {u \in Threads : pc'[u] \in Inside}
      BY <1>2 DEF TypeOK
<1>6. \A u, v \in holder' : u = v
      BY DEF TypeOK
<1>7. QED  BY <1>1, <1>3, <1>4, <1>5, <1>6

\* The thread that refreshes is alone inside the lock.
LEMMA AloneInside ==
    ASSUME TypeOK, NEW t \in Threads, pc[t] \in Inside
    PROVE  holder = {t}
<1>1. t \in holder
      BY DEF TypeOK
<1>2. QED  BY <1>1 DEF TypeOK

\* What Return and Fail leave well typed.
LEMMA ReleaseTypeOK ==
    ASSUME TypeOK, NEW t \in Threads, Return(t) \/ Fail(t)
    PROVE  /\ pc' \in [Threads -> MainSteps \cup CallbackSteps]
           /\ pc'[Main] \in MainSteps
           /\ \A u \in Callbacks : pc'[u] \in CallbackSteps
           /\ holder' = {u \in Threads : pc'[u] \in Inside}
           /\ \A u, v \in holder' : u = v
           /\ raised' \in BOOLEAN
           /\ UNCHANGED <<provider, stop, running, callbackError, interrupted>>
<1>1. CASE Return(t)
  <2> DEFINE step == IF t # Main THEN "idle"
                     ELSE IF subscription = "none" THEN "subscribe" ELSE "check"
  <2>1. step \in IF t = Main THEN MainSteps ELSE CallbackSteps
        BY DEF MainSteps, CallbackSteps
  <2>2. step \notin Inside
        BY DEF Inside
  <2>3. Goto(t, step) /\ holder' = holder \ {t}
        BY <1>1 DEF Return
  <2> HIDE DEF step
  <2>4. /\ raised' \in BOOLEAN
        /\ UNCHANGED <<provider, stop, running, callbackError, interrupted>>
        BY <1>1 DEF Return, flags, TypeOK
  <2>5. QED  BY <2>1, <2>2, <2>3, <2>4, GotoTypeOK
<1>2. CASE Fail(t)
  <2> DEFINE step == IF t = Main THEN "shutdown" ELSE "error"
  <2>1. step \in IF t = Main THEN MainSteps ELSE CallbackSteps
        BY DEF MainSteps, CallbackSteps
  <2>2. step \notin Inside
        BY DEF Inside
  <2>3. Goto(t, step) /\ holder' = holder \ {t}
        BY <1>2 DEF Fail
  <2> HIDE DEF step
  <2>4. /\ raised' \in BOOLEAN
        /\ UNCHANGED <<provider, stop, running, callbackError, interrupted>>
        BY <1>2 DEF Fail, TypeOK
  <2>5. QED  BY <2>1, <2>2, <2>3, <2>4, GotoTypeOK
<1>3. QED  BY <1>1, <1>2

\* A step of a refresh keeps the types.
LEMMA RefreshTypeOK ==
    ASSUME TypeOK, NEW t \in Threads, Refresh(t)
    PROVE  TypeOK'
<1>1. CASE Acquire(t)
  <2>1. "fetch" \in IF t = Main THEN MainSteps ELSE CallbackSteps
        BY DEF MainSteps, CallbackSteps, Inside
  <2>2. "fetch" \in Inside
        BY DEF Inside
  <2>3. Goto(t, "fetch") /\ holder' = {t} /\ holder \subseteq {t}
        BY <1>1 DEF Acquire
  <2>4. QED  BY <1>1, <2>1, <2>2, <2>3, GotoTypeOK
             DEF Acquire, TypeOK, provider, flags, memory
<1>2. CASE Fetch(t)
  <2>1. CASE api = "open" /\ Goto(t, "take") /\ UNCHANGED <<provider, flags, holder>>
                /\ batch' = [batch EXCEPT ![t] =
                       [s \in Symbols |-> IF s \in asked[t] THEN quote[s] ELSE 0]]
    <3>1. "take" \in IF t = Main THEN MainSteps ELSE CallbackSteps
          BY DEF MainSteps, CallbackSteps, Inside
    <3>2. "take" \in Inside
          BY DEF Inside
    <3>3. holder' = {t} /\ holder \subseteq {t}
      <4>1. pc[t] \in Inside
            BY <1>2 DEF Fetch, Inside
      <4>2. QED  BY <2>1, <4>1, AloneInside
    <3>4. batch' \in [Threads -> [Symbols -> Quotes]]
          BY <2>1 DEF TypeOK
    <3>5. QED  BY <1>2, <2>1, <3>1, <3>2, <3>3, <3>4, GotoTypeOK
               DEF Fetch, TypeOK, provider, flags, memory
  <2>2. CASE Fail(t) /\ UNCHANGED batch
        BY <1>2, <2>2, ReleaseTypeOK DEF Fetch, TypeOK, provider, memory
  <2>3. QED  BY <1>2, <2>1, <2>2 DEF Fetch
<1>3. CASE Take(t)
  <2>1. \A f \in [Symbols -> Quotes], D \in SUBSET Symbols :
            Updated(f, D, t) \in [Symbols -> Quotes]
        BY DEF Updated, TypeOK
  <2>2. New(t) \subseteq Symbols /\ OutOfOrder(t) \subseteq New(t)
        BY DEF New, OutOfOrder
  <2>3. CASE OutOfOrder(t) = {}
    <3>1. "store" \in IF t = Main THEN MainSteps ELSE CallbackSteps
          BY DEF MainSteps, CallbackSteps, Inside
    <3>2. "store" \in Inside
          BY DEF Inside
    <3>3. holder' = {t} /\ holder \subseteq {t}
      <4>1. pc[t] \in Inside
            BY <1>3 DEF Take, Inside
      <4>2. holder' = holder
            BY <1>3, <2>3 DEF Take
      <4>3. QED  BY <4>1, <4>2, AloneInside
    <3>4. key' \in [Symbols -> Quotes] /\ latest' \in [Symbols -> Quotes]
      <4>1. key' = Updated(key, New(t), t) /\ latest' = Updated(latest, New(t), t)
            BY <1>3, <2>3 DEF Take
      <4>2. New(t) \in SUBSET Symbols
            BY <2>2
      <4>3. QED  BY <2>1, <4>1, <4>2 DEF TypeOK
    <3>5. batch' \in [Threads -> [Symbols -> Quotes]]
      <4>1. [s \in Symbols |-> IF s \in New(t) THEN batch[t][s] ELSE 0]
                \in [Symbols -> Quotes]
            BY DEF TypeOK
      <4>2. QED  BY <1>3, <2>3, <4>1 DEF Take, TypeOK
    <3>6. events' \in [Symbols -> Seq(Quotes)]
      <4>1. \A s \in Symbols : events[s] \in Seq(Quotes) /\ batch[t][s] \in Quotes
            BY DEF TypeOK
      <4>2. \A s \in Symbols : Append(events[s], batch[t][s]) \in Seq(Quotes)
            BY <4>1, AppendProperties
      <4>3. QED  BY <1>3, <2>3, <4>1, <4>2 DEF Take
    <3>7. QED  BY <1>3, <2>3, <3>1, <3>2, <3>3, <3>4, <3>5, <3>6, GotoTypeOK
               DEF Take, TypeOK, provider, flags
  <2>4. CASE OutOfOrder(t) # {}
    <3>1. PICK s \in OutOfOrder(t), done \in SUBSET (New(t) \ OutOfOrder(t)) :
              /\ key' = Updated(key, done \cup {s}, t)
              /\ latest' = Updated(latest, done, t)
          BY <1>3, <2>4 DEF Take
    <3>2. done \in SUBSET Symbols /\ done \cup {s} \in SUBSET Symbols
          BY <2>2
    <3>3. key' \in [Symbols -> Quotes] /\ latest' \in [Symbols -> Quotes]
          BY <2>1, <3>1, <3>2 DEF TypeOK
    <3>4. Fail(t) /\ UNCHANGED <<events, batch, asked, stored>>
          BY <1>3, <2>4 DEF Take
    <3>5. QED  BY <3>3, <3>4, ReleaseTypeOK DEF TypeOK, provider
  <2>5. QED  BY <2>3, <2>4
<1>4. CASE Store(t)
  <2>1. stored' \in [Symbols -> SUBSET Quotes]
    <3>1. \A s \in Symbols : stored[s] \cup ({batch[t][s]} \ {0}) \in SUBSET Quotes
          BY DEF TypeOK
    <3>2. \/ stored' = stored
          \/ stored' = [s \in Symbols |-> stored[s] \cup ({batch[t][s]} \ {0})]
          BY <1>4 DEF Store
    <3>3. CASE stored' = stored
          BY <3>3 DEF TypeOK
    <3>4. CASE stored' = [s \in Symbols |-> stored[s] \cup ({batch[t][s]} \ {0})]
          BY <3>1, <3>4
    <3>5. QED  BY <3>2, <3>3, <3>4
  <2>2. Return(t) \/ Fail(t)
        BY <1>4 DEF Store
  <2>3. QED  BY <1>4, <2>1, <2>2, ReleaseTypeOK DEF Store, TypeOK, provider
<1>5. QED  BY <1>1, <1>2, <1>3, <1>4 DEF Refresh

\* The steps of start, of the loop, and of shutdown, and Ctrl-C, keep the types.
LEMMA MainTypeOK ==
    ASSUME TypeOK, Start \/ Subscribe \/ Check \/ Wait \/ Shutdown \/ Interrupt
    PROVE  TypeOK'
<1>1. CASE Interrupt
  <2>1. "shutdown" \in MainSteps /\ "shutdown" \notin Inside
        BY DEF MainSteps, Inside
  <2>2. Goto(Main, "shutdown") /\ holder' = holder \ {Main} /\ Main \in Threads
        BY <1>1 DEF Interrupt
  <2>3. QED  BY <1>1, <2>1, <2>2, GotoTypeOK DEF Interrupt, TypeOK, provider,
              memory
<1>2. ASSUME Start \/ Subscribe \/ Check \/ Wait \/ Shutdown
      PROVE  TypeOK'
  <2>1. pc[Main] \notin Inside /\ holder' = holder \ {Main} /\ Main \in Threads
        BY <1>2 DEF Start, Subscribe, Check, Wait, SetStop, Unsubscribe, Flush,
                    Close, Inside, TypeOK
  <2>2. PICK step \in MainSteps \ Inside : Goto(Main, step)
    <3>1. {"lock", "shutdown", "subscribing", "check", "wait", "unsubscribe",
           "flush", "close", "ended"} \subseteq MainSteps \ Inside
          BY DEF MainSteps, Inside
    <3>2. QED  BY <1>2, <3>1 DEF Start, Subscribe, Check, Wait, SetStop,
                                 Unsubscribe, Flush, Close
  <2>3. /\ pc' \in [Threads -> MainSteps \cup CallbackSteps]
        /\ pc'[Main] \in MainSteps
        /\ \A u \in Callbacks : pc'[u] \in CallbackSteps
        /\ holder' = {u \in Threads : pc'[u] \in Inside}
        /\ \A u, v \in holder' : u = v
        BY <2>1, <2>2, GotoTypeOK
  <2>4. CASE Start
    <3>1. asked' \in [Threads -> SUBSET Symbols]
      <4>1. asked' = asked \/ asked' = [asked EXCEPT ![Main] = Symbols]
            BY <2>4 DEF Start
      <4>2. QED  BY <4>1 DEF TypeOK
    <3>2. api' \in {"none", "open", "closed"} /\ running' \in BOOLEAN
          /\ raised' \in BOOLEAN
          BY <2>4 DEF Start, TypeOK
    <3>3. QED  BY <2>3, <2>4, <3>1, <3>2 DEF Start, TypeOK, memory
  <2>5. CASE Subscribe
        BY <2>3, <2>5 DEF Subscribe, TypeOK, flags, memory
  <2>6. CASE Check
        BY <2>3, <2>6 DEF Check, TypeOK, provider, memory
  <2>7. CASE Wait
        BY <2>3, <2>7 DEF Wait, TypeOK, provider, flags, memory
  <2>8. CASE Shutdown
    <3>1. CASE SetStop
          BY <2>3, <3>1 DEF SetStop, TypeOK, memory
    <3>2. CASE Unsubscribe
          BY <2>3, <3>2 DEF Unsubscribe, TypeOK, memory
    <3>3. CASE Flush
          BY <2>3, <3>3 DEF Flush, TypeOK, memory
    <3>4. CASE Close
          BY <2>3, <3>4 DEF Close, TypeOK, memory
    <3>5. QED  BY <2>8, <3>1, <3>2, <3>3, <3>4
  <2>9. QED  BY <1>2, <2>4, <2>5, <2>6, <2>7, <2>8
<1>3. QED  BY <1>1, <1>2

\* The steps of a notification thread outside its refresh keep the types.
LEMMA CallbackTypeOK ==
    ASSUME TypeOK, NEW t \in Callbacks, Notify(t) \/ Enter(t) \/ Report(t)
    PROVE  TypeOK'
<1>1. t \in Threads /\ t # Main
      OBVIOUS
<1>2. pc[t] \notin Inside /\ holder' = holder \ {t}
      BY <1>1 DEF Notify, Enter, Report, Inside, TypeOK
<1>3. PICK step \in CallbackSteps \ Inside : Goto(t, step)
  <2>1. {"entered", "lock", "idle", "stop"} \subseteq CallbackSteps \ Inside
        BY DEF CallbackSteps, Inside
  <2>2. QED  BY <2>1 DEF Notify, Enter, Report
<1>4. /\ pc' \in [Threads -> MainSteps \cup CallbackSteps]
      /\ pc'[Main] \in MainSteps
      /\ \A u \in Callbacks : pc'[u] \in CallbackSteps
      /\ holder' = {u \in Threads : pc'[u] \in Inside}
      /\ \A u, v \in holder' : u = v
      BY <1>1, <1>2, <1>3, GotoTypeOK
<1>5. CASE Notify(t)
      BY <1>4, <1>5 DEF Notify, TypeOK, provider, flags, memory
<1>6. CASE Enter(t)
  <2>1. asked' \in [Threads -> SUBSET Symbols]
    <3>1. \/ asked' = asked
          \/ \E D \in {Symbols} \cup {{s} : s \in Symbols} :
                 asked' = [asked EXCEPT ![t] = D]
          BY <1>6 DEF Enter
    <3>2. \A D \in {Symbols} \cup {{s} : s \in Symbols} : D \in SUBSET Symbols
          OBVIOUS
    <3>3. \A D \in SUBSET Symbols :
              [asked EXCEPT ![t] = D] \in [Threads -> SUBSET Symbols]
          BY DEF TypeOK
    <3>4. CASE asked' = asked
          BY <3>4 DEF TypeOK
    <3>5. ASSUME NEW D \in {Symbols} \cup {{s} : s \in Symbols},
                 asked' = [asked EXCEPT ![t] = D]
          PROVE  asked' \in [Threads -> SUBSET Symbols]
      <4>1. D \in SUBSET Symbols
            BY <3>2
      <4>2. [asked EXCEPT ![t] = D] \in [Threads -> SUBSET Symbols]
            BY <3>3, <4>1
      <4>3. QED  BY <3>5, <4>2
    <3>6. QED  BY <3>1, <3>4, <3>5
  <2>2. QED  BY <1>4, <1>6, <2>1 DEF Enter, TypeOK, provider, flags, memory
<1>7. CASE Report(t)
      BY <1>4, <1>7 DEF Report, TypeOK, provider, memory
<1>8. QED  BY <1>5, <1>6, <1>7

\* Every step keeps the types, and at most one thread inside the lock.
LEMMA NextTypeOK == TypeOK /\ [Next]_vars => TypeOK'
<1> SUFFICES ASSUME TypeOK, [Next]_vars PROVE TypeOK'
    OBVIOUS
<1>1. CASE UNCHANGED vars
      BY <1>1 DEF TypeOK, vars, provider, flags, memory
<1>2. ASSUME NEW s \in Symbols, NewQuote(s) PROVE TypeOK'
      BY <1>2 DEF NewQuote, TypeOK, flags, memory
<1>3. CASE MainStep \/ Interrupt
      BY <1>3, RefreshTypeOK, MainTypeOK DEF MainStep
<1>4. ASSUME NEW t \in Callbacks, Notify(t) \/ CallbackStep(t) PROVE TypeOK'
      BY <1>4, RefreshTypeOK, CallbackTypeOK DEF CallbackStep
<1>5. QED  BY <1>1, <1>2, <1>3, <1>4 DEF Next

\* The variables keep their types, and the threads inside the refresh lock are
\* the ones that refresh: at most one, also after failures and Ctrl-C.
THEOREM TypeCorrect == Spec => []TypeOK
<1>1. QED  BY InitTypeOK, NextTypeOK, PTL DEF Spec

-----------------------------------------------------------------------------
(***************************************************************************)
(* Order.                                                                  *)
(***************************************************************************)

\* The key and the aggregator agree and are never ahead of the exchange; what a
\* thread has fetched and not yet taken is no older than they are; and the
\* events are increasing and no newer than they are.
Ordered ==
    /\ key = latest
    /\ \A s \in Symbols : latest[s] <= quote[s]
    /\ \A t \in Threads : pc[t] = "take" => \A s \in Symbols :
           batch[t][s] <= quote[s] /\ (batch[t][s] = 0 \/ latest[s] <= batch[t][s])
    /\ \A s \in Symbols : \A j \in 1 .. Len(events[s]) :
           0 < events[s][j] /\ events[s][j] <= latest[s]
    /\ EventsIncrease

\* At the start nothing is known.
LEMMA InitOrdered == Init => Ordered
<1> SUFFICES ASSUME Init PROVE Ordered
    OBVIOUS
<1>1. \A s \in Symbols : events[s] = <<>> /\ 1 .. Len(events[s]) = {}
      BY DEF Init
<1>2. \A t \in Threads : pc[t] # "take"
      BY DEF Init
<1>3. \A s \in Symbols : quote[s] = 0 /\ latest[s] = 0
      BY DEF Init, NoQuotes
<1>4. key = latest
      BY DEF Init
<1>5. QED  BY <1>1, <1>2, <1>3, <1>4 DEF Ordered, EventsIncrease

\* A step that takes no quote and brings nobody to "take" keeps the order.
LEMMA IdleOrdered ==
    ASSUME Ordered, UNCHANGED <<quote, batch, key, latest, events>>,
           \A t \in Threads : pc'[t] = "take" => pc[t] = "take"
    PROVE  Ordered'
BY DEF Ordered, EventsIncrease

\* Where the end of a refresh leads, nothing is to be taken.
LEMMA ReleaseNotTake ==
    ASSUME TypeOK, NEW t \in Threads, Return(t) \/ Fail(t)
    PROVE  \A u \in Threads : pc'[u] = "take" => pc[u] = "take"
BY DEF Return, Fail, Goto, TypeOK

\* In order, nothing that has been fetched is older than the aggregator.
LEMMA OrderedInOrder == TypeOK /\ Ordered => NeverOutOfOrder
<1> SUFFICES ASSUME TypeOK, Ordered, NEW t \in Threads, pc[t] = "take",
                    NEW s \in New(t), batch[t][s] < latest[s]
             PROVE  FALSE
    BY DEF NeverOutOfOrder, OutOfOrder
<1>1. s \in Symbols /\ batch[t][s] # 0
      BY DEF New
<1>2. latest[s] <= batch[t][s]
      BY <1>1 DEF Ordered
<1>3. batch[t][s] \in Nat /\ latest[s] \in Nat
      BY <1>1 DEF TypeOK
<1>4. QED  BY <1>2, <1>3

\* Fetching inside the lock: the current quotes are no older than what the
\* aggregator has.
LEMMA FetchOrdered ==
    ASSUME TypeOK, Ordered, NEW t \in Threads, Fetch(t)
    PROVE  Ordered'
<1>1. CASE Fail(t) /\ UNCHANGED batch
      BY <1>1, ReleaseTypeOK, ReleaseNotTake, IdleOrdered
         DEF Fetch, provider, memory
<1>2. CASE /\ batch' = [batch EXCEPT ![t] =
                  [s \in Symbols |-> IF s \in asked[t] THEN quote[s] ELSE 0]]
           /\ Goto(t, "take")
           /\ UNCHANGED <<provider, flags, holder>>
  <2>1. UNCHANGED <<quote, key, latest, events>>
        BY <1>2 DEF Fetch, provider, memory
  <2>2. \A s \in Symbols : batch'[t][s] = quote[s] \/ batch'[t][s] = 0
        BY <1>2 DEF TypeOK
  <2>3. \A u \in Threads \ {t} : pc'[u] = pc[u] /\ batch'[u] = batch[u]
        BY <1>2 DEF Goto, TypeOK
  <2>4. \A s \in Symbols : quote[s] \in Nat /\ latest[s] <= quote[s]
        BY DEF TypeOK, Ordered
  <2>5. \A s \in Symbols : /\ batch'[t][s] <= quote[s]
                           /\ batch'[t][s] = 0 \/ latest[s] <= batch'[t][s]
        BY <2>2, <2>4
  <2>6. \A u \in Threads : pc'[u] = "take" => \A s \in Symbols :
            /\ batch'[u][s] <= quote'[s]
            /\ batch'[u][s] = 0 \/ latest'[s] <= batch'[u][s]
        BY <2>1, <2>3, <2>5 DEF Ordered
  <2>7. QED  BY <2>1, <2>6 DEF Ordered, EventsIncrease
<1>3. QED  BY <1>1, <1>2 DEF Fetch

\* Taking what was fetched: a new quote differs from the last one, so it is
\* newer, and newer than every event.
LEMMA TakeOrdered ==
    ASSUME TypeOK, Ordered, NEW t \in Threads, Take(t)
    PROVE  Ordered'
<1>1. pc[t] = "take" /\ OutOfOrder(t) = {}
      BY OrderedInOrder DEF Take, NeverOutOfOrder
<1>2. /\ key' = Updated(key, New(t), t)
      /\ latest' = Updated(latest, New(t), t)
      /\ events' = [s \in Symbols |->
                       IF s \in New(t) THEN Append(events[s], batch[t][s])
                       ELSE events[s]]
      /\ Goto(t, "store")
      /\ quote' = quote
      BY <1>1 DEF Take, provider
<1>3. key' = latest'
      BY <1>2 DEF Ordered
<1>4. \A s \in Symbols : /\ latest[s] \in Nat
                         /\ batch[t][s] \in Nat
                         /\ quote[s] \in Nat
                         /\ events[s] \in Seq(Quotes)
                         /\ Len(events[s]) \in Nat
  <2>1. \A s \in Symbols : events[s] \in Seq(Quotes)
        BY DEF TypeOK
  <2>2. QED  BY <2>1, LenProperties DEF TypeOK
<1>5. \A s \in New(t) : latest[s] < batch[t][s] /\ 0 < batch[t][s]
                       /\ batch[t][s] <= quote[s] /\ s \in Symbols
      BY <1>1, <1>4 DEF New, Ordered
<1>6. \A s \in Symbols : latest'[s] = IF s \in New(t) THEN batch[t][s] ELSE latest[s]
      BY <1>2 DEF Updated
<1>7. \A s \in Symbols : latest'[s] <= quote'[s]
      BY <1>2, <1>5, <1>6 DEF Ordered
<1>8. \A u \in Threads : pc'[u] # "take"
  <2>1. holder = {t}
        BY <1>1, AloneInside DEF Inside
  <2>2. \A u \in Threads \ {t} : pc[u] # "take"
        BY <2>1 DEF TypeOK, Inside
  <2>3. QED  BY <1>2, <2>2 DEF Goto, TypeOK
<1>9. ASSUME NEW s \in Symbols
      PROVE  /\ \A j \in 1 .. Len(events'[s]) :
                    0 < events'[s][j] /\ events'[s][j] <= latest'[s]
             /\ \A j, k \in 1 .. Len(events'[s]) :
                    j < k => events'[s][j] < events'[s][k]
  <2>1. CASE s \notin New(t)
    <3>1. events'[s] = events[s] /\ latest'[s] = latest[s]
          BY <1>2, <1>6, <2>1
    <3>2. QED  BY <3>1 DEF Ordered, EventsIncrease
  <2>2. CASE s \in New(t)
    <3> DEFINE e == events[s]
               b == batch[t][s]
    <3>1. events'[s] = Append(e, b) /\ latest'[s] = b
          BY <1>2, <1>6, <2>2
    <3>2. b \in Quotes /\ e \in Seq(Quotes)
          BY <1>4 DEF TypeOK
    <3>3. /\ Len(Append(e, b)) = Len(e) + 1
          /\ \A j \in 1 .. Len(e) : Append(e, b)[j] = e[j]
          /\ Append(e, b)[Len(e) + 1] = b
          BY <3>2, AppendProperties
    <3>4. \A j \in 1 .. Len(e) : /\ 0 < e[j] /\ e[j] < b /\ e[j] \in Nat
      <4>1. \A j \in 1 .. Len(e) : 0 < e[j] /\ e[j] <= latest[s]
            BY DEF Ordered
      <4>2. \A j \in 1 .. Len(e) : e[j] \in Nat
            BY <3>2, ElementOfSeq
      <4>3. QED  BY <1>4, <1>5, <2>2, <4>1, <4>2
    <3>5. \A j, k \in 1 .. Len(e) : j < k => e[j] < e[k]
          BY DEF Ordered, EventsIncrease
    <3>6. Len(e) \in Nat /\ 0 < b /\ b \in Nat
          BY <1>4, <1>5, <2>2
    <3> HIDE DEF e, b
    <3>7. \A j \in 1 .. Len(e) + 1 : j \in 1 .. Len(e) \/ j = Len(e) + 1
          BY <3>6
    <3>8. \A j \in 1 .. Len(e) + 1 :
              0 < Append(e, b)[j] /\ Append(e, b)[j] <= b
          BY <3>3, <3>4, <3>6, <3>7
    <3>9. \A j, k \in 1 .. Len(e) + 1 :
              j < k => Append(e, b)[j] < Append(e, b)[k]
      <4> SUFFICES ASSUME NEW j \in 1 .. Len(e) + 1, NEW k \in 1 .. Len(e) + 1,
                          j < k
                   PROVE  Append(e, b)[j] < Append(e, b)[k]
          OBVIOUS
      <4>1. j \in 1 .. Len(e)
            BY <3>6
      <4>2. QED  BY <3>3, <3>4, <3>5, <3>7, <4>1
    <3>10. QED  BY <3>1, <3>3, <3>8, <3>9
  <2>3. QED  BY <2>1, <2>2
<1>10. QED  BY <1>3, <1>7, <1>8, <1>9 DEF Ordered, EventsIncrease

\* Every step keeps the order.
LEMMA NextOrdered == TypeOK /\ Ordered /\ [Next]_vars => Ordered'
<1> SUFFICES ASSUME TypeOK, Ordered, [Next]_vars PROVE Ordered'
    OBVIOUS
<1>1. CASE UNCHANGED vars
      BY <1>1, IdleOrdered DEF vars, provider, memory
<1>2. ASSUME NEW s \in Symbols, NewQuote(s) PROVE Ordered'
  <2>1. \A u \in Symbols : quote[u] \in Nat /\ quote[u] <= quote'[u]
        BY <1>2 DEF NewQuote, TypeOK
  <2>2. UNCHANGED <<pc, batch, key, latest, events>>
        BY <1>2 DEF NewQuote, memory
  <2>3. \A u \in Symbols : latest[u] \in Nat /\ quote'[u] \in Nat
        BY <1>2 DEF NewQuote, TypeOK
  <2>4. \A t \in Threads, u \in Symbols : batch[t][u] \in Nat
        BY DEF TypeOK
  <2>5. \A u \in Symbols : latest[u] <= quote'[u]
        BY <2>1, <2>3 DEF Ordered
  <2>6. \A t \in Threads : pc[t] = "take" => \A u \in Symbols :
            batch[t][u] <= quote'[u]
        BY <2>1, <2>3, <2>4 DEF Ordered
  <2>7. QED  BY <2>2, <2>5, <2>6 DEF Ordered, EventsIncrease
<1>3. ASSUME NEW t \in Threads, Refresh(t) PROVE Ordered'
  <2>1. CASE Acquire(t)
    <3>1. \A u \in Threads : pc'[u] = "take" => pc[u] = "take"
          BY <2>1 DEF Acquire, Goto, TypeOK
    <3>2. QED  BY <2>1, <3>1, IdleOrdered DEF Acquire, provider, memory
  <2>2. CASE Store(t)
    <3>1. UNCHANGED <<quote, batch, key, latest, events>> /\ (Return(t) \/ Fail(t))
          BY <2>2, ReleaseTypeOK DEF Store, provider
    <3>2. QED  BY <3>1, ReleaseNotTake, IdleOrdered
  <2>3. QED  BY <1>3, <2>1, <2>2, FetchOrdered, TakeOrdered DEF Refresh
<1>4. CASE Start \/ Subscribe \/ Check \/ Wait \/ Shutdown \/ Interrupt
  <2>1. \A u \in Threads : pc'[u] = "take" => pc[u] = "take"
        BY <1>4 DEF Start, Subscribe, Check, Wait, SetStop, Unsubscribe, Flush,
                    Close, Interrupt, Goto, TypeOK
  <2>2. UNCHANGED <<quote, batch, key, latest, events>>
        BY <1>4 DEF Start, Subscribe, Check, Wait, SetStop, Unsubscribe, Flush,
                    Close, Interrupt,
                    provider, memory
  <2>3. QED  BY <2>1, <2>2, IdleOrdered
<1>5. ASSUME NEW t \in Callbacks, Notify(t) \/ Enter(t) \/ Report(t)
      PROVE  Ordered'
  <2>1. \A u \in Threads : pc'[u] = "take" => pc[u] = "take"
        BY <1>5 DEF Notify, Enter, Report, Goto, TypeOK
  <2>2. UNCHANGED <<quote, batch, key, latest, events>>
        BY <1>5 DEF Notify, Enter, Report, provider, memory
  <2>3. QED  BY <2>1, <2>2, IdleOrdered
<1>6. QED  BY <1>1, <1>2, <1>3, <1>4, <1>5 DEF Next, MainStep, CallbackStep

\* In every run the order holds.
LEMMA AlwaysOrdered == Spec => [](TypeOK /\ Ordered)
<1>1. Init => TypeOK /\ Ordered
      BY InitTypeOK, InitOrdered
<1>2. TypeOK /\ Ordered /\ [Next]_vars => (TypeOK /\ Ordered)'
      BY NextTypeOK, NextOrdered
<1>3. QED  BY <1>1, <1>2, PTL DEF Spec

\* However polls and notifications overlap, the aggregator never meets an event
\* older than the last one of its symbol.
THEOREM QuotesAreTakenInOrder == Spec => []NeverOutOfOrder
<1>1. QED  BY AlwaysOrdered, OrderedInOrder, PTL

\* No quote is recorded twice, and none after a newer one.
THEOREM EventsAreRecordedOnce == Spec => []EventsIncrease
<1>1. Ordered => EventsIncrease
      BY DEF Ordered
<1>2. QED  BY <1>1, AlwaysOrdered, PTL

-----------------------------------------------------------------------------
(***************************************************************************)
(* Losses.                                                                 *)
(***************************************************************************)

\* At the start there is nothing to lose.
LEMMA InitLoss == Init => LossLeavesError
<1> SUFFICES ASSUME Init PROVE LossLeavesError
    OBVIOUS
<1>1. \A s \in Symbols : 1 .. Len(events[s]) = {}
      BY DEF Init
<1>2. QED  BY <1>1 DEF LossLeavesError

\* A step that fails leaves the trace of the failure.
LEMMA FailLoss ==
    ASSUME TypeOK, NEW t \in Threads, Fail(t)
    PROVE  LossLeavesError'
<1>1. raised' = TRUE \/ (t \in Callbacks /\ pc'[t] = "error")
      BY DEF Fail, Goto, TypeOK
<1>2. QED  BY <1>1 DEF LossLeavesError

\* A step that accepts nothing, and takes nobody from the sink or from the
\* report of a failure, loses nothing.
LEMMA IdleLoss ==
    ASSUME LossLeavesError, UNCHANGED <<batch, events, stored>>,
           callbackError => callbackError',
           raised => raised',
           \A u \in holder : pc[u] = "store" => u \in holder' /\ pc'[u] = "store",
           \A u \in Callbacks : pc[u] = "error" => pc'[u] = "error"
    PROVE  LossLeavesError'
BY DEF LossLeavesError

\* What a refresh accepts it takes to the sink, and what it takes there is
\* stored or leaves a failure.
LEMMA RefreshLoss ==
    ASSUME TypeOK, Ordered, LossLeavesError, NEW t \in Threads, Refresh(t)
    PROVE  LossLeavesError'
<1>1. CASE Fail(t)
      BY <1>1, FailLoss
<1>2. CASE Acquire(t)
  <2>1. holder = {}
        BY <1>2 DEF Acquire
  <2>2. \A u \in Callbacks : pc[u] = "error" => pc'[u] = "error"
        BY <1>2 DEF Acquire, Goto, TypeOK
  <2>3. QED  BY <1>2, <2>1, <2>2, IdleLoss DEF Acquire, flags, memory
<1>3. CASE Fetch(t) /\ ~ Fail(t)
  <2>1. holder = {t} /\ pc[t] = "fetch"
        BY <1>3, AloneInside DEF Fetch, Inside
  <2>2. /\ Goto(t, "take")
        /\ UNCHANGED <<events, stored, callbackError, raised>>
        BY <1>3 DEF Fetch, flags, memory
  <2>3. \A u \in Callbacks : pc[u] = "error" => pc'[u] = "error"
        BY <2>1, <2>2 DEF Goto, TypeOK
  <2>4. ~ \E u \in holder : pc[u] = "store"
        BY <2>1
  <2>5. QED  BY <2>2, <2>3, <2>4 DEF LossLeavesError
<1>4. CASE Take(t) /\ ~ Fail(t)
  <2>1. holder = {t} /\ pc[t] = "take"
        BY <1>4, AloneInside DEF Take, Inside
  <2>2. /\ Goto(t, "store")
        /\ UNCHANGED <<stored, callbackError, raised, holder>>
        /\ events' = [s \in Symbols |->
                        IF s \in New(t) THEN Append(events[s], batch[t][s])
                        ELSE events[s]]
        /\ batch' = [batch EXCEPT ![t] =
                        [s \in Symbols |-> IF s \in New(t) THEN batch[t][s] ELSE 0]]
        BY <1>4 DEF Take, flags
  <2>3. \A u \in Callbacks : pc[u] = "error" => pc'[u] = "error"
        BY <2>1, <2>2 DEF Goto, TypeOK
  <2>4. t \in holder' /\ pc'[t] = "store"
        BY <2>1, <2>2 DEF Goto, TypeOK
  <2>5. \A s \in New(t) : batch'[t][s] = batch[t][s] /\ s \in Symbols
        BY <2>2 DEF TypeOK, New
  <2>6. ASSUME NEW s \in Symbols, NEW j \in 1 .. Len(events'[s])
        PROVE  \/ j \in 1 .. Len(events[s]) /\ events'[s][j] = events[s][j]
               \/ s \in New(t) /\ events'[s][j] = batch[t][s]
    <3>1. events[s] \in Seq(Quotes) /\ batch[t][s] \in Quotes
          BY DEF TypeOK
    <3>2. CASE s \in New(t)
      <4>1. events'[s] = Append(events[s], batch[t][s])
            BY <2>2, <3>2
      <4>2. QED  BY <2>6, <3>1, <3>2, <4>1, AppendProperties, LenProperties
    <3>3. CASE s \notin New(t)
          BY <2>2, <2>6, <3>3
    <3>4. QED  BY <3>2, <3>3
  <2>7. ~ \E u \in holder : pc[u] = "store"
        BY <2>1
  <2>8. QED  BY <2>2, <2>3, <2>4, <2>5, <2>6, <2>7 DEF LossLeavesError
<1>5. CASE Store(t) /\ ~ Fail(t)
  <2>1. holder = {t} /\ pc[t] = "store"
        BY <1>5, AloneInside DEF Store, Inside
  <2>2. /\ Return(t)
        /\ UNCHANGED <<events, callbackError, raised>>
        /\ stored' = [s \in Symbols |-> stored[s] \cup ({batch[t][s]} \ {0})]
        BY <1>5 DEF Store, Return, flags
  <2>3. \A u \in Callbacks : pc[u] = "error" => pc'[u] = "error"
        BY <2>1, <2>2 DEF Return, Goto, TypeOK
  <2>4. \A s \in Symbols : \A j \in 1 .. Len(events[s]) : events[s][j] # 0
        BY DEF Ordered
  <2>5. \A s \in Symbols : \A j \in 1 .. Len(events[s]) :
            events[s][j] \in stored[s] \/ events[s][j] = batch[t][s]
                => events[s][j] \in stored'[s]
        BY <2>2, <2>4
  <2>6. QED  BY <2>1, <2>2, <2>3, <2>5 DEF LossLeavesError
<1>6. QED  BY <1>1, <1>2, <1>3, <1>4, <1>5 DEF Refresh

\* No step loses an event without a trace.
LEMMA NextLoss ==
    TypeOK /\ Ordered /\ LossLeavesError /\ [Next]_vars => LossLeavesError'
<1> SUFFICES ASSUME TypeOK, Ordered, LossLeavesError, [Next]_vars
             PROVE  LossLeavesError'
    OBVIOUS
<1>1. CASE UNCHANGED vars
      BY <1>1, IdleLoss DEF vars, flags, memory
<1>2. ASSUME NEW s \in Symbols, NewQuote(s) PROVE LossLeavesError'
      BY <1>2, IdleLoss DEF NewQuote, flags, memory
<1>3. ASSUME NEW t \in Threads, Refresh(t) PROVE LossLeavesError'
      BY <1>3, RefreshLoss
<1>4. CASE Interrupt
      BY <1>4 DEF Interrupt, LossLeavesError
<1>5. CASE Start \/ Subscribe \/ Check \/ Wait \/ Shutdown
  <2>1. /\ pc[Main] # "store" /\ Main \notin Callbacks
        /\ \A u \in Callbacks : pc'[u] = pc[u]
        /\ \A u \in Threads \ {Main} : pc'[u] = pc[u]
    <3>1. pc[Main] # "store" /\ \E step \in MainSteps : Goto(Main, step)
      <4>1. {"lock", "shutdown", "subscribing", "check", "wait", "unsubscribe",
             "flush", "close", "ended"} \subseteq MainSteps
            BY DEF MainSteps
      <4>2. QED  BY <1>5, <4>1 DEF Start, Subscribe, Check, Wait, SetStop,
              Unsubscribe, Flush, Close
    <3>2. QED  BY <3>1 DEF Goto, TypeOK
  <2>2. /\ UNCHANGED <<holder, batch, events, stored, callbackError>>
        /\ raised => raised'
    <3>1. UNCHANGED <<holder, batch, events, stored, callbackError>>
          BY <1>5 DEF Start, Subscribe, Check, Wait, SetStop, Unsubscribe,
                      Flush, Close, flags, memory
    <3>2. raised' = TRUE \/ raised' = raised
      <4>1. CASE Start
            BY <4>1, Zenon DEF Start
      <4>2. CASE Subscribe
            BY <4>2, Zenon DEF Subscribe, flags
      <4>3. CASE Check
            BY <4>3, Zenon DEF Check
      <4>4. CASE Wait
            BY <4>4, Zenon DEF Wait, flags
      <4>5. CASE Shutdown
            BY <4>5, Zenon DEF SetStop, Unsubscribe, Flush, Close
      <4>6. QED  BY <1>5, <4>1, <4>2, <4>3, <4>4, <4>5
    <3>3. raised => raised'
          BY <3>2, Zenon
    <3>4. QED  BY <3>1, <3>3
  <2>3. holder \subseteq Threads
        BY DEF TypeOK
  <2>4. QED  BY <2>1, <2>2, <2>3, IdleLoss
<1>6. ASSUME NEW t \in Callbacks, Notify(t) \/ Enter(t) \/ Report(t)
      PROVE  LossLeavesError'
  <2>1. CASE callbackError'
        BY <2>1 DEF LossLeavesError
  <2>2. CASE ~ callbackError'
    <3>1. pc[t] \notin {"store", "error"}
          BY <1>6, <2>2 DEF Notify, Enter, Report
    <3>2. \A u \in Threads \ {t} : pc'[u] = pc[u]
          BY <1>6 DEF Notify, Enter, Report, Goto, TypeOK
    <3>3. /\ UNCHANGED <<holder, batch, events, stored, raised>>
          /\ callbackError => callbackError'
          BY <1>6 DEF Notify, Enter, Report, flags, memory
    <3>4. holder \subseteq Threads
          BY DEF TypeOK
    <3>5. QED  BY <3>1, <3>2, <3>3, <3>4, IdleLoss
  <2>3. QED  BY <2>1, <2>2
<1>7. QED  BY <1>1, <1>2, <1>3, <1>4, <1>5, <1>6
           DEF Next, MainStep, CallbackStep

\* An accepted event is persisted, on its way, or its loss is a failure that the
\* collector knows of, whatever interleaves and whatever fails.
THEOREM LossesLeaveErrors == Spec => []LossLeavesError
<1>1. QED  BY AlwaysOrdered, InitLoss, NextLoss, PTL DEF Spec

-----------------------------------------------------------------------------
(***************************************************************************)
(* The end.                                                                *)
(***************************************************************************)

\* What each step of shutdown has done when the next one is due.
Closing ==
    /\ pc[Main] \in {"unsubscribe", "flush", "close", "ended"} => stop
    /\ pc[Main] \in {"flush", "close", "ended"} => subscription # "active"
    /\ pc[Main] = "ended" => ~ running /\ api # "open"

\* A refresh of the main thread does not lead into shutdown but to its start.
LEMMA RefreshClosing ==
    ASSUME TypeOK, Closing, NEW t \in Threads, Refresh(t)
    PROVE  Closing'
<1>1. pc'[Main] = pc[Main]
      \/ pc'[Main] \in {"fetch", "take", "store", "subscribe", "check", "shutdown"}
      BY DEF Refresh, Acquire, Fetch, Take, Store, Return, Fail, Goto, TypeOK
<1>2. UNCHANGED <<stop, subscription, running, api>>
      BY DEF Refresh, Acquire, Fetch, Take, Store, Return, Fail, provider,
             flags
<1>3. QED  BY <1>1, <1>2 DEF Closing

\* Every step keeps what shutdown has done.
LEMMA NextClosing == TypeOK /\ Closing /\ [Next]_vars => Closing'
<1> SUFFICES ASSUME TypeOK, Closing, [Next]_vars PROVE Closing'
    OBVIOUS
<1>1. CASE UNCHANGED vars
      BY <1>1 DEF Closing, vars, provider, flags
<1>2. ASSUME NEW s \in Symbols, NewQuote(s) PROVE Closing'
      BY <1>2 DEF NewQuote, Closing, flags
<1>3. ASSUME NEW t \in Threads, Refresh(t) PROVE Closing'
      BY <1>3, RefreshClosing
<1>4. CASE Shutdown
  <2>1. CASE SetStop
        BY <2>1 DEF SetStop, Goto, TypeOK, Closing
  <2>2. CASE Unsubscribe
        BY <2>2 DEF Unsubscribe, Goto, TypeOK, Closing
  <2>3. CASE Flush
        BY <2>3 DEF Flush, Goto, TypeOK, Closing
  <2>4. CASE Close
        BY <2>4 DEF Close, Goto, TypeOK, Closing
  <2>5. QED  BY <1>4, <2>1, <2>2, <2>3, <2>4
<1>5. CASE Start \/ Subscribe \/ Check \/ Wait \/ Interrupt
  <2>1. pc'[Main] \in {"lock", "shutdown", "subscribing", "check", "wait"}
        BY <1>5 DEF Start, Subscribe, Check, Wait, Interrupt, Goto, TypeOK
  <2>2. QED  BY <2>1 DEF Closing
<1>6. ASSUME NEW t \in Callbacks, Notify(t) \/ Enter(t) \/ Report(t)
      PROVE  Closing'
  <2>1. pc'[Main] = pc[Main]
        BY <1>6 DEF Notify, Enter, Report, Goto, TypeOK
  <2>2. UNCHANGED <<subscription, running, api>> /\ (stop => stop')
        BY <1>6 DEF Notify, Enter, Report, provider, flags
  <2>3. QED  BY <2>1, <2>2 DEF Closing
<1>7. QED  BY <1>1, <1>2, <1>3, <1>4, <1>5, <1>6
           DEF Next, MainStep, CallbackStep

\* A run that has ended has set the stop event, taken its callback back and
\* closed the adapter, whatever failed and whenever Ctrl-C came.
THEOREM EndedRunsAreClosed == Spec => []EndedIsClosed
<1>1. Init => Closing
      BY DEF Init, Closing
<1>2. Closing => EndedIsClosed
      BY DEF Closing, EndedIsClosed
<1>3. QED  BY <1>1, <1>2, NextClosing, TypeCorrect, PTL DEF Spec
=============================================================================
