-------------------------- MODULE RetryQueueProofs --------------------------
(***************************************************************************)
(* For every set of sinks, handlers and identities, every choice of what a *)
(* sink refuses and every number of changes, full pushes and failures: no  *)
(* revision that a handler took is forgotten, no sink gets from the queue  *)
(* what it has acknowledged, and a failed full push stays queued.          *)
(*                                                                         *)
(* The retry goroutine pushes a copy and deletes the entry later.  Three   *)
(* invariants bridge the gap.  RevisionInv: what an answer said of the     *)
(* ledger is still so, since ledgers only go forward.  UniqueInv: an event *)
(* is in one pair of hands, so that what is queued was not acknowledged.   *)
(* FullInv: the sequence of a full push that succeeded is at most the      *)
(* generation it brought.                                                  *)
(***************************************************************************)
EXTENDS RetryQueue, TLAPS

FullJob == [sequence : Nat, trigger : Nat]

Types ==
    /\ source \in [Keys -> [rev : 0 .. MaxRev, live : BOOLEAN]] /\ generation \in Nat
    /\ \A k \in Keys : source[k].live => source[k].rev > 0
    /\ todo \subseteq Event /\ handled \in [Keys -> Nat]
    /\ pc \in [Handlers -> {"idle", "push"} \cup Attempts]
    /\ job \in [Handlers -> Event \cup FullJob \cup {None}]
    /\ \A h \in Handlers : /\ pc[h] = "push" => job[h] \in Event
                           /\ pc[h] \in Attempts => job[h] \in FullJob
                           /\ pc[h] = "idle" => result[h] = [s \in Sinks |-> None]
    /\ result \in [Handlers -> [Sinks -> Answers \cup {None}]]
    /\ ledger \in [Sinks -> [Keys -> Mark \cup {None}]]
    /\ taken \in [Sinks -> SUBSET Event]
    /\ store \in [Sinks -> [Keys -> Event \cup {None}]]
    /\ \A s \in Sinks, k \in Keys : store[s][k] # None => store[s][k].key = k
    /\ fullStore \in [Sinks -> FullEntry \cup {None}]
    /\ batch \subseteq Entry /\ attempt \in Attempt \cup {None}
    /\ fullFailed \in [Sinks -> Int] /\ fullDone \in [Sinks -> Int]
    /\ fulls \in Nat /\ failures \in Nat

\* The provider has been where event e says: it has a newer revision, or the
\* same one and is not live any more if e is a delete.
Produced(e) ==
    /\ e.rev <= source[e.key].rev
    /\ e.rev = source[e.key].rev /\ e.offline => ~source[e.key].live

LedgersBehind ==
    \A s \in Sinks, k \in Keys : ledger[s][k] # None => ledger[s][k].rev <= source[k].rev

\* Nothing is ahead of the provider.
SourceInv ==
    /\ \A e \in todo : Produced(e)
    /\ \A h \in Handlers : pc[h] = "push" => Produced(job[h])
    /\ \A s \in Sinks : \A e \in taken[s] : Produced(e)
    /\ \A s \in Sinks, k \in Keys : store[s][k] # None => Produced(store[s][k])
    /\ \A q \in batch : ~q.full => Produced(q.item)
    /\ LedgersBehind

\* Sink s has the revision of e or a newer one.
Reached(s, e) == ledger[s][e.key] # None /\ ledger[s][e.key].rev >= e.rev

\* No ledger goes back in this step.
Forward ==
    \A s \in Sinks, k \in Keys : ledger[s][k] # None =>
        ledger'[s][k] # None /\ ledger'[s][k].rev >= ledger[s][k].rev

\* What a sink answered still holds, also when it is used much later.
RevisionInv ==
    /\ NothingForgotten
    /\ \A s \in Sinks, k \in Keys : store[s][k] # None => store[s][k].rev <= handled[k]
    /\ \A h \in Handlers, s \in Sinks : pc[h] = "push" =>
        result[h][s] # "stale" /\ (result[h][s] = "ok" => Reached(s, job[h]))
    /\ attempt # None /\ ~attempt.full =>
        /\ attempt.answer # "stale"
        /\ attempt.answer = "ok" => Reached(attempt.sink, attempt.item)
        /\ attempt.answer = "permanent" => attempt.item.rev \in Rejected[attempt.sink]

\* Event e is in the queue, or in the copy that is being retried.
Kept(e) ==
    \/ \E s \in Sinks, k \in Keys : store[s][k] = e
    \/ \E q \in batch : ~q.full /\ q.item = e

Handles(h, e) == pc[h] = "push" /\ job[h] = e

\* Event e only waits: nobody has it, and no sink has acknowledged it.
OnlyWaits(e) ==
    /\ ~Kept(e)
    /\ \A h \in Handlers : ~Handles(h, e)
    /\ \A s \in Sinks : e \notin taken[s]

\* The event of handler h is only there, and is acknowledged as h was told.
OnlyHandled(h) ==
    /\ ~Kept(job[h])
    /\ \A g \in Handlers : Handles(g, job[h]) => g = h
    /\ \A s \in Sinks : job[h] \in taken[s] => result[h][s] = "ok"

\* The retry in progress has just pushed this queued event, and will delete it.
JustPushed(s, k) ==
    /\ attempt # None /\ ~attempt.full /\ attempt.answer = "ok"
    /\ attempt.sink = s /\ attempt.item = store[s][k]

\* An event waits, is handled by one handler, or is kept; a sink that failed to
\* take it has not acknowledged it, and acknowledges a queued one only in the
\* retry whose end deletes it.
UniqueInv ==
    /\ \A e \in todo : OnlyWaits(e)
    /\ \A h \in Handlers : pc[h] = "push" => OnlyHandled(h)
    /\ \A s \in Sinks, k \in Keys : store[s][k] \in taken[s] => JustPushed(s, k)

\* The case in which a failed full push is retried: the provider has a
\* generation, and no sink finds a revalidated push stale.
FullsReach == Generation > 0 /\ "fallback" \notin StaleIn

\* Sequences are generations, and a full push brings at least its own.
FullInv ==
    /\ generation > 0
    /\ \A h \in Handlers : pc[h] \in Attempts => job[h].sequence \in 1 .. generation
    /\ \A h \in Handlers, s \in Sinks : pc[h] = "fallback" => result[h][s] # "stale"
    /\ \A s \in Sinks : fullDone[s] \in -1 .. generation
    /\ \A s \in Sinks : fullStore[s] # None => fullStore[s].sequence <= generation
    /\ \A q \in batch : q.full => q.item.sequence <= generation
    /\ attempt # None /\ attempt.full /\ attempt.answer = "ok" =>
        attempt.item.sequence <= fullDone[attempt.sink]
    /\ FullsAreRetried

IInv == Types /\ SourceInv /\ RevisionInv /\ UniqueInv

-----------------------------------------------------------------------------
\* One entry of a table is set.
LEMMA SetEntry ==
    ASSUME NEW S, NEW T, NEW V, NEW f \in [S -> [T -> V]], NEW s \in S, NEW t \in T, NEW v \in V
    PROVE  /\ [f EXCEPT ![s][t] = v] \in [S -> [T -> V]]
           /\ \A x \in S, y \in T :
                [f EXCEPT ![s][t] = v][x][y] = IF x = s /\ y = t THEN v ELSE f[x][y]
  <1>1. [f[s] EXCEPT ![t] = v] \in [T -> V]
    BY Zenon
  <1> QED BY Zenon, <1>1

\* The initial states have the types.
LEMMA InitTypes == Init => Types
  <1> SUFFICES ASSUME Init PROVE Types
    BY Zenon
  <1> USE DEF Init
  <1>1. source \in [Keys -> [rev : 0 .. MaxRev, live : BOOLEAN]] /\ generation \in Nat
    BY GenerationAssumption, BoundsAssumption
  <1>2. result \in [Handlers -> [Sinks -> Answers \cup {None}]]
    BY Zenon
  <1>3. ledger \in [Sinks -> [Keys -> Mark \cup {None}]] /\ store \in [Sinks -> [Keys -> Event \cup {None}]]
    BY Zenon
  <1>4. fullFailed \in [Sinks -> Int] /\ fullDone \in [Sinks -> Int]
    OBVIOUS
  <1>5. taken \in [Sinks -> SUBSET Event] /\ fullStore \in [Sinks -> FullEntry \cup {None}]
    BY Zenon
  <1>6. \A h \in Handlers : pc[h] = "idle" /\ result[h] = [s \in Sinks |-> None]
    BY Zenon
  <1>7. \A s \in Sinks, k \in Keys : store[s][k] = None
    BY Zenon
  <1> QED BY Zenon, <1>1, <1>2, <1>3, <1>4, <1>5, <1>6, <1>7 DEF Types, Attempts

\* A sink that answers changes nothing but its own books.
LEMMA SinkTypes ==
    ASSUME Types, NEW s \in Sinks, NEW a,
           \/ \E e \in Event : PushEvent(s, e, a)
           \/ \E how \in Attempts : PushFull(s, how, a)
    PROVE  /\ ledger' \in [Sinks -> [Keys -> Mark \cup {None}]]
           /\ taken' \in [Sinks -> SUBSET Event]
           /\ fullDone' \in [Sinks -> Int] /\ failures' \in Nat
  <1>1. ASSUME NEW e \in Event, PushEvent(s, e, a)
        PROVE  /\ ledger' \in [Sinks -> [Keys -> Mark \cup {None}]]
               /\ taken' \in [Sinks -> SUBSET Event]
               /\ fullDone' \in [Sinks -> Int] /\ failures' \in Nat
    <2>1. e.key \in Keys /\ [rev |-> e.rev, tomb |-> e.offline] \in Mark
      BY BoundsAssumption DEF Event, Mark
    <2>2. ledger' \in [Sinks -> [Keys -> Mark \cup {None}]]
      <3>1. [ledger EXCEPT ![s][e.key] = [rev |-> e.rev, tomb |-> e.offline]]
                \in [Sinks -> [Keys -> Mark \cup {None}]]
        BY <2>1, SetEntry DEF Types
      <3> QED BY Zenon, <1>1, <3>1 DEF PushEvent, Types
    <2>3. taken' \in [Sinks -> SUBSET Event]
      <3>1. taken[s] \cup {e} \in SUBSET Event
        BY Zenon DEF Types
      <3> QED BY Zenon, <1>1, <3>1 DEF PushEvent, Types
    <2> QED BY <1>1, <2>2, <2>3 DEF PushEvent, Types
  <1>2. ASSUME NEW how \in Attempts, PushFull(s, how, a)
        PROVE  /\ ledger' \in [Sinks -> [Keys -> Mark \cup {None}]]
               /\ taken' \in [Sinks -> SUBSET Event]
               /\ fullDone' \in [Sinks -> Int] /\ failures' \in Nat
    <2>1. ledger' \in [Sinks -> [Keys -> Mark \cup {None}]]
      <3>1. CASE UNCHANGED ledger
        BY Zenon, <3>1 DEF Types
      <3>2. ASSUME NEW entombed \in SUBSET {k \in Keys : ~source[k].live /\ ledger[s][k] # None},
                   ledger' = [ledger EXCEPT ![s] = [k \in Keys |->
                        IF source[k].live THEN [rev |-> source[k].rev, tomb |-> FALSE]
                        ELSE IF k \in entombed THEN [rev |-> @[k].rev, tomb |-> TRUE]
                        ELSE @[k]]]
            PROVE  ledger' \in [Sinks -> [Keys -> Mark \cup {None}]]
        BY <3>2 DEF Types, Mark
      <3> QED BY Zenon, <1>2, <3>1, <3>2 DEF PushFull
    <2>2. fullDone' \in [Sinks -> Int] /\ failures' \in Nat
      BY <1>2 DEF PushFull, Types
    <2> QED BY Zenon, <1>2, <2>1, <2>2 DEF PushFull, Types
  <1> QED BY Zenon, <1>1, <1>2

\* What a handler leaves behind when it returns.
LEMMA ReturnTypes ==
    ASSUME Types, NEW h \in Handlers, Return(h)
    PROVE  /\ pc' \in [Handlers -> {"idle", "push"} \cup Attempts]
           /\ job' \in [Handlers -> Event \cup FullJob \cup {None}]
           /\ result' \in [Handlers -> [Sinks -> Answers \cup {None}]]
           /\ \A g \in Handlers : /\ pc'[g] = "push" => job'[g] \in Event
                                  /\ pc'[g] \in Attempts => job'[g] \in FullJob
                                  /\ pc'[g] = "idle" => result'[g] = [s \in Sinks |-> None]
           /\ \A g \in Handlers : pc'[g] # "idle" =>
                /\ g # h /\ pc'[g] = pc[g] /\ job'[g] = job[g] /\ result'[g] = result[g]
  BY Zenon DEF Types, Return, Attempts

\* No step leaves the types.
LEMMA TypesStep == Types /\ [Next]_vars => Types'
  <1> SUFFICES ASSUME Types, [Next]_vars
               PROVE  Types'
    BY Zenon
  <1> USE BoundsAssumption
  <1>1. ASSUME NEW k \in Keys, SourceChange(k) PROVE Types'
    <2>1. /\ source' \in [Keys -> [rev : 0 .. MaxRev, live : BOOLEAN]]
          /\ \A j \in Keys : source'[j].live => source'[j].rev > 0
          /\ source'[k].rev \in 1 .. MaxRev
      <3>1. CASE source[k].rev < MaxRev /\ source' = [source EXCEPT ![k] = [rev |-> @.rev + 1, live |-> TRUE]]
        BY <3>1 DEF Types
      <3>2. CASE source[k].live /\ source' = [source EXCEPT ![k] = [rev |-> @.rev, live |-> FALSE]]
        BY <3>2 DEF Types
      <3> QED BY Zenon, <1>1, <3>1, <3>2 DEF SourceChange
    <2>2. [key |-> k, rev |-> source'[k].rev, offline |-> ~source'[k].live] \in Event
      BY Zenon, <2>1 DEF Event
    <2>3. todo' \subseteq Event /\ generation' \in Nat
      BY <1>1, <2>2 DEF Types, SourceChange
    <2> QED BY Zenon, <1>1, <2>1, <2>3 DEF Types, SourceChange, handlerVars, sinkVars, queueVars, retryVars
  <1>2. ASSUME NEW h \in Handlers, TakeEvent(h) PROVE Types'
    BY <1>2 DEF Types, TakeEvent, Attempts, sinkVars, queueVars, retryVars
  <1>3. ASSUME NEW h \in Handlers, TakeFull(h) PROVE Types'
    <2>1. [sequence |-> generation, trigger |-> LastGeneration + fulls'] \in FullJob
      BY <1>3, GenerationAssumption DEF Types, TakeFull, FullJob, LastGeneration
    <2> QED BY <1>3, <2>1 DEF Types, TakeFull, Attempts, sourceVars, sinkVars, queueVars, retryVars
  <1>4. ASSUME NEW h \in Handlers, NEW s \in Sinks, FanOut(h, s) PROVE Types'
    <2>1. PICK a \in Answers :
              /\ \/ pc[h] = "push" /\ PushEvent(s, job[h], a)
                 \/ pc[h] \in Attempts /\ PushFull(s, pc[h], a)
              /\ result' = [result EXCEPT ![h][s] = a]
      BY Zenon, <1>4 DEF FanOut
    <2>2. /\ ledger' \in [Sinks -> [Keys -> Mark \cup {None}]]
          /\ taken' \in [Sinks -> SUBSET Event]
          /\ fullDone' \in [Sinks -> Int] /\ failures' \in Nat
      BY Zenon, <2>1, SinkTypes DEF Types
    <2>3. /\ result' \in [Handlers -> [Sinks -> Answers \cup {None}]]
          /\ pc[h] # "idle" /\ \A g \in Handlers \ {h} : result'[g] = result[g]
      BY ZenonT(60), <2>1 DEF Types, Attempts
    <2> QED BY <1>4, <2>2, <2>3 DEF Types, FanOut, sourceVars, queueVars, retryVars
  <1>5. ASSUME NEW h \in Handlers, FinishEvent(h) PROVE Types'
    <2>1. job[h] \in Event /\ job[h].key \in Keys /\ job[h].rev \in Nat
      BY <1>5 DEF Types, FinishEvent, Event
    <2>2. \A s \in Sinks : Added(store[s][job[h].key], job[h]) \in Event
      BY <2>1 DEF Types, Added
    <2>3. store' \in [Sinks -> [Keys -> Event \cup {None}]]
      BY Zenon, <1>5, <2>1, <2>2 DEF Types, FinishEvent
    <2>4. \A s \in Sinks, k \in Keys : store'[s][k] # None => store'[s][k].key = k
      BY Zenon, <1>5, <2>1 DEF Types, FinishEvent, Added
    <2>5. handled' \in [Keys -> Nat]
      BY Zenon, <1>5, <2>1 DEF Types, FinishEvent
    <2> QED BY Zenon, <1>5, <2>3, <2>4, <2>5, ReturnTypes
        DEF Types, FinishEvent, sourceVars, sinkVars, retryVars
  <1>6. ASSUME NEW h \in Handlers, FallBack(h) PROVE Types'
    BY ZenonT(60), <1>6 DEF Types, FallBack, Attempts, sourceVars, sinkVars, queueVars, retryVars
  <1>7. ASSUME NEW h \in Handlers, FinishFull(h) PROVE Types'
    <2>1. job[h] \in FullJob
      BY Zenon, <1>7 DEF Types, FinishFull
    <2>2. \A s \in Sinks : AddedFull(fullStore[s], job[h]) \in FullEntry
      BY ZenonT(60), <2>1 DEF Types, AddedFull, FullJob, FullEntry
    <2>3. fullStore' \in [Sinks -> FullEntry \cup {None}]
      BY Zenon, <1>7, <2>2 DEF Types, FinishFull
    <2>4. fullFailed' \in [Sinks -> Int]
      BY <1>7, <2>1 DEF Types, FinishFull, FullJob
    <2> QED BY <1>7, <2>3, <2>4, ReturnTypes DEF Types, FinishFull, sourceVars, sinkVars, retryVars
  <1>8. CASE StartCycle
    <2>1. {q \in Queued : q.item # None} \subseteq Entry
      <3>1. ASSUME NEW s \in Sinks, NEW k \in Keys, store[s][k] # None
            PROVE  [sink |-> s, full |-> FALSE, item |-> store[s][k]] \in Entry
        BY <3>1 DEF Types, Entry
      <3>2. ASSUME NEW s \in Sinks, fullStore[s] # None
            PROVE  [sink |-> s, full |-> TRUE, item |-> fullStore[s]] \in Entry
        BY Zenon, <3>2 DEF Types, Entry
      <3> QED BY <3>1, <3>2 DEF Queued
    <2> QED BY Zenon, <1>8, <2>1 DEF Types, StartCycle, sourceVars, handlerVars, sinkVars, queueVars
  <1>9. CASE RetryOne
    <2>1. PICK q \in batch, a \in Answers :
              /\ IF q.full THEN PushFull(q.sink, "operation", a) ELSE PushEvent(q.sink, q.item, a)
              /\ batch' = batch \ {q}
              /\ attempt' = [sink |-> q.sink, full |-> q.full, item |-> q.item, answer |-> a]
      BY Zenon, <1>9 DEF RetryOne
    <2>2. q.sink \in Sinks /\ (~q.full => q.item \in Event) /\ attempt' \in Attempt
      BY Zenon, <2>1 DEF Types, Entry, Attempt
    <2>3. /\ ledger' \in [Sinks -> [Keys -> Mark \cup {None}]]
          /\ taken' \in [Sinks -> SUBSET Event]
          /\ fullDone' \in [Sinks -> Int] /\ failures' \in Nat
      BY Zenon, <2>1, <2>2, SinkTypes DEF Attempts
    <2> QED BY ZenonT(60), <1>9, <2>1, <2>2, <2>3 DEF Types, RetryOne, sourceVars, handlerVars, queueVars
  <1>10. CASE RetryDone
    <2>1. attempt.sink \in Sinks /\ (~attempt.full => attempt.item \in Event /\ attempt.item.key \in Keys)
      BY Zenon, <1>10 DEF Types, RetryDone, Attempt, Event
    <2>2. fullStore' \in [Sinks -> FullEntry \cup {None}] /\ fullFailed' \in [Sinks -> Int]
      <3>1. CASE attempt.full
        BY <1>10, <2>1, <3>1 DEF Types, RetryDone
      <3>2. CASE ~attempt.full
        BY Zenon, <1>10, <2>1, <3>2 DEF Types, RetryDone
      <3> QED BY Zenon, <3>1, <3>2
    <2>3. /\ store' \in [Sinks -> [Keys -> Event \cup {None}]]
          /\ \A s \in Sinks, k \in Keys : store'[s][k] # None => store'[s][k] = store[s][k]
      <3>1. CASE UNCHANGED store
        BY ZenonT(60), <3>1 DEF Types
      <3>2. CASE ~attempt.full /\ store' = [store EXCEPT ![attempt.sink][attempt.item.key] = None]
        BY <2>1, <3>2, SetEntry DEF Types
      <3> QED BY Zenon, <1>10, <3>1, <3>2 DEF RetryDone
    <2> QED BY <1>10, <2>2, <2>3 DEF Types, RetryDone, sourceVars, handlerVars, sinkVars
  <1>11. CASE UNCHANGED vars
    BY Zenon, <1>11 DEF Types, vars
  <1> QED BY Zenon, <1>1, <1>2, <1>3, <1>4, <1>5, <1>6, <1>7, <1>8, <1>9, <1>10, <1>11 DEF Next

-----------------------------------------------------------------------------
\* The fields of an event.
LEMMA EventFields ==
    ASSUME NEW e \in Event
    PROVE  e.key \in Keys /\ e.rev \in Nat /\ e.rev > 0 /\ e.offline \in BOOLEAN
  BY BoundsAssumption DEF Event

\* The entries of the ledgers and of the queue.
LEMMA EntryTypes ==
    ASSUME Types
    PROVE  /\ \A s \in Sinks, k \in Keys : ledger[s][k] # None => ledger[s][k].rev \in Nat
           /\ \A s \in Sinks, k \in Keys : store[s][k] # None =>
                store[s][k] \in Event /\ store[s][k].key = k /\ store[s][k].rev \in Nat
           /\ \A k \in Keys : handled[k] \in Nat
  <1>1. \A s \in Sinks, k \in Keys : ledger[s][k] \in Mark \cup {None}
    <2>1. ledger \in [Sinks -> [Keys -> Mark \cup {None}]]
      BY Zenon DEF Types
    <2> QED BY Zenon, <2>1
  <1>2. \A s \in Sinks, k \in Keys : store[s][k] \in Event \cup {None}
    <2>1. store \in [Sinks -> [Keys -> Event \cup {None}]]
      BY Zenon DEF Types
    <2> QED BY Zenon, <2>1
  <1>3. \A m \in Mark : m.rev \in Nat
    BY Zenon DEF Mark
  <1>4. \A e \in Event : e.rev \in Nat
    BY Zenon, EventFields
  <1>5. \A k \in Keys : handled[k] \in Nat
    BY Zenon DEF Types
  <1> QED BY Zenon, <1>1, <1>2, <1>3, <1>4, <1>5 DEF Types

\* What a push of an event does to the ledgers, and what its answer tells.
LEMMA PushEventEffect ==
    ASSUME Types, LedgersBehind, NEW s \in Sinks, NEW e \in Event, e.rev <= source[e.key].rev,
           NEW a, PushEvent(s, e, a), UNCHANGED source
    PROVE  /\ Forward /\ LedgersBehind'
           /\ a = "ok" => Reached(s, e)'
           /\ a # "stale" /\ (a = "permanent" => e.rev \in Rejected[s])
  <1>1. e.key \in Keys /\ e.rev \in Nat /\ e.offline \in BOOLEAN
    BY Zenon, EventFields
  <1>2. \A t \in Sinks, k \in Keys : ledger[t][k] # None => ledger[t][k].rev \in Nat
    BY Zenon, EntryTypes
  <1>3. a # "stale" /\ (a = "permanent" => e.rev \in Rejected[s])
    BY ZenonT(60) DEF PushEvent
  <1>4. CASE UNCHANGED ledger /\ (a = "ok" => Stale(s, e))
    <2>1. a = "ok" => Reached(s, e)
      BY <1>1, <1>2, <1>4 DEF Stale, Reached
    <2> QED BY <1>2, <1>3, <1>4, <2>1 DEF Forward, LedgersBehind, Reached
  <1>5. CASE /\ ~Stale(s, e)
             /\ ledger' = [ledger EXCEPT ![s][e.key] = [rev |-> e.rev, tomb |-> e.offline]]
    <2>1. [rev |-> e.rev, tomb |-> e.offline] \in Mark
      BY ZenonT(60), <1>1 DEF Mark
    <2>2. \A t \in Sinks, k \in Keys :
              ledger'[t][k] = IF t = s /\ k = e.key THEN [rev |-> e.rev, tomb |-> e.offline]
                              ELSE ledger[t][k]
      BY SMTT(60), <1>1, <1>5, <2>1, SetEntry DEF Types
    <2>3. ledger'[s][e.key] # None /\ ledger'[s][e.key].rev = e.rev
      BY <1>1, <2>1, <2>2, NoneAssumption
    <2>4. ledger[s][e.key] # None => ledger[s][e.key].rev <= e.rev
      BY <1>1, <1>2, <1>5 DEF Stale
    <2>5. Forward
      BY <1>1, <1>2, <2>2, <2>3, <2>4 DEF Forward
    <2>6. LedgersBehind'
      BY <1>1, <2>2, <2>3 DEF LedgersBehind
    <2> QED BY <1>1, <1>3, <2>3, <2>5, <2>6 DEF Reached
  <1> QED BY Zenon, <1>3, <1>4, <1>5 DEF PushEvent

\* A full push brings a ledger to where the provider is, and entombs what it has.
LEMMA PushFullEffect ==
    ASSUME Types, LedgersBehind, NEW s \in Sinks, NEW how, NEW a, PushFull(s, how, a),
           UNCHANGED source
    PROVE  Forward /\ LedgersBehind'
  <1>1. /\ \A t \in Sinks, k \in Keys : ledger[t][k] # None => ledger[t][k].rev \in Nat
        /\ \A k \in Keys : source[k].rev \in Nat
    BY BoundsAssumption DEF Types, Mark
  <1>2. CASE UNCHANGED ledger
    BY <1>1, <1>2 DEF Forward, LedgersBehind
  <1>3. ASSUME NEW entombed \in SUBSET {k \in Keys : ~source[k].live /\ ledger[s][k] # None},
               ledger' = [ledger EXCEPT ![s] = [k \in Keys |->
                    IF source[k].live THEN [rev |-> source[k].rev, tomb |-> FALSE]
                    ELSE IF k \in entombed THEN [rev |-> @[k].rev, tomb |-> TRUE]
                    ELSE @[k]]]
        PROVE  Forward /\ LedgersBehind'
    <2>1. \A t \in Sinks \ {s} : ledger'[t] = ledger[t]
      BY Zenon, <1>3 DEF Types
    <2>2. \A k \in Keys : ledger'[s][k] =
              IF source[k].live THEN [rev |-> source[k].rev, tomb |-> FALSE]
              ELSE IF k \in entombed THEN [rev |-> ledger[s][k].rev, tomb |-> TRUE]
              ELSE ledger[s][k]
      BY Zenon, <1>3 DEF Types
    <2>3. ASSUME NEW k \in Keys
          PROVE  /\ ledger[s][k] # None => ledger'[s][k] # None /\ ledger'[s][k].rev >= ledger[s][k].rev
                 /\ ledger'[s][k] # None => ledger'[s][k].rev <= source[k].rev
      <3>0. /\ ledger[s][k] # None => ledger[s][k].rev \in Nat /\ ledger[s][k].rev <= source[k].rev
            /\ source[k].rev \in Nat
        BY Zenon, <1>1 DEF LedgersBehind
      <3>1. CASE source[k].live
        <4>1. ledger'[s][k] = [rev |-> source[k].rev, tomb |-> FALSE]
          BY Zenon, <2>2, <3>1
        <4>2. ledger'[s][k] \in Mark
          BY <3>0, <4>1 DEF Mark
        <4>3. ledger'[s][k].rev = source[k].rev
          BY <4>1
        <4>4. ledger'[s][k] # None
          BY Zenon, <4>2, NoneAssumption
        <4> QED BY <3>0, <4>1, <4>3, <4>4
      <3>2. CASE ~source[k].live /\ k \in entombed
        <4>1. ledger'[s][k] = [rev |-> ledger[s][k].rev, tomb |-> TRUE] /\ ledger[s][k] # None
          BY Zenon, <2>2, <3>2
        <4>2. ledger'[s][k] \in Mark
          BY <3>0, <4>1 DEF Mark
        <4>3. ledger'[s][k].rev = ledger[s][k].rev
          BY <4>1
        <4>4. ledger'[s][k] # None
          BY Zenon, <4>2, NoneAssumption
        <4> QED BY <3>0, <4>1, <4>3, <4>4
      <3>3. CASE ~source[k].live /\ k \notin entombed
        <4>1. ledger'[s][k] = ledger[s][k]
          BY Zenon, <2>2, <3>3
        <4> QED BY <3>0, <4>1
      <3> QED BY Zenon, <3>1, <3>2, <3>3
    <2> QED BY <1>1, <2>1, <2>3 DEF Forward, LedgersBehind
  <1> QED BY Zenon, <1>2, <1>3 DEF PushFull

\* What a sink has reached it does not leave.
LEMMA ReachedKept ==
    ASSUME Types, Forward, ledger' \in [Sinks -> [Keys -> Mark \cup {None}]],
           NEW s \in Sinks, NEW e \in Event, Reached(s, e)
    PROVE  Reached(s, e)'
  <1>1. e.key \in Keys /\ e.rev \in Nat
    BY Zenon, EventFields
  <1>2. ledger[s][e.key].rev \in Nat /\ ledger'[s][e.key].rev \in Nat
    BY <1>1 DEF Types, Mark, Reached, Forward
  <1> QED BY <1>1, <1>2 DEF Reached, Forward

\* What FanOut does: a sink answers handler h.
LEMMA FanOutEffect ==
    ASSUME Types, SourceInv, NEW h \in Handlers, NEW s \in Sinks, FanOut(h, s)
    PROVE  /\ Forward /\ LedgersBehind'
           /\ \E a \in Answers :
                /\ result' = [result EXCEPT ![h][s] = a]
                /\ result'[h][s] = a
                /\ \A g \in Handlers, t \in Sinks : <<g, t>> # <<h, s>> => result'[g][t] = result[g][t]
                /\ pc[h] \in {"push"} \cup Attempts
                /\ pc[h] = "push" =>
                    /\ job[h] \in Event /\ Produced(job[h])
                    /\ a # "stale" /\ (a = "ok" => Reached(s, job[h])')
                    /\ UNCHANGED fullDone
                    /\ taken' = IF a = "ok" THEN [taken EXCEPT ![s] = @ \cup {job[h]}] ELSE taken
                /\ pc[h] \in Attempts => PushFull(s, pc[h], a) /\ UNCHANGED taken
  <1>1. PICK a \in Answers :
            /\ \/ pc[h] = "push" /\ PushEvent(s, job[h], a)
               \/ pc[h] \in Attempts /\ PushFull(s, pc[h], a)
            /\ result' = [result EXCEPT ![h][s] = a]
    BY ZenonT(60) DEF FanOut
  <1>2. /\ result'[h][s] = a
        /\ \A g \in Handlers, t \in Sinks : <<g, t>> # <<h, s>> => result'[g][t] = result[g][t]
    BY <1>1, SetEntry DEF Types
  <1>3. UNCHANGED source /\ LedgersBehind
    BY Zenon DEF FanOut, sourceVars, SourceInv
  <1>4. CASE pc[h] = "push" /\ PushEvent(s, job[h], a)
    <2>1. job[h] \in Event /\ Produced(job[h])
      BY Zenon, <1>4 DEF Types, SourceInv
    <2>2. /\ Forward /\ LedgersBehind'
          /\ a = "ok" => Reached(s, job[h])'
          /\ a # "stale"
      <3>1. PICK e \in Event : e = job[h] /\ job[h]' = e
        BY Zenon, <2>1 DEF FanOut
      <3>2. e.rev <= source[e.key].rev
        BY Zenon, <2>1, <3>1 DEF Produced
      <3> QED BY Zenon, <1>3, <1>4, <3>1, <3>2, PushEventEffect DEF Reached
    <2>3. UNCHANGED fullDone /\ taken' = IF a = "ok" THEN [taken EXCEPT ![s] = @ \cup {job[h]}] ELSE taken
      BY Zenon, <1>4 DEF PushEvent
    <2> QED BY Zenon, <1>1, <1>2, <1>4, <2>1, <2>2, <2>3 DEF Attempts
  <1>5. CASE pc[h] \in Attempts /\ PushFull(s, pc[h], a)
    <2>1. Forward /\ LedgersBehind'
      BY Zenon, <1>3, <1>5, PushFullEffect
    <2>2. UNCHANGED taken /\ pc[h] # "push"
      BY Zenon, <1>5 DEF PushFull, Attempts
    <2> QED BY Zenon, <1>1, <1>2, <1>5, <2>1, <2>2
  <1> QED BY Zenon, <1>1, <1>4, <1>5

\* What RetryOne does: the sink of an entry of the copy answers.
LEMMA RetryOneEffect ==
    ASSUME Types, SourceInv, RetryOne
    PROVE  /\ Forward /\ LedgersBehind'
           /\ \E q \in batch, a \in Answers :
                /\ batch' = batch \ {q} /\ q.sink \in Sinks
                /\ attempt' = [sink |-> q.sink, full |-> q.full, item |-> q.item, answer |-> a]
                /\ attempt' # None
                /\ ~q.full =>
                    /\ q.item \in Event /\ Produced(q.item)
                    /\ a # "stale" /\ (a = "permanent" => q.item.rev \in Rejected[q.sink])
                    /\ a = "ok" => /\ ledger'[q.sink][q.item.key] # None
                                   /\ ledger'[q.sink][q.item.key].rev >= q.item.rev
                    /\ UNCHANGED fullDone
                    /\ taken' = IF a = "ok" THEN [taken EXCEPT ![q.sink] = @ \cup {q.item}] ELSE taken
                /\ q.full => PushFull(q.sink, "operation", a) /\ UNCHANGED taken
  <1>1. PICK q \in batch, a \in Answers :
            /\ IF q.full THEN PushFull(q.sink, "operation", a) ELSE PushEvent(q.sink, q.item, a)
            /\ batch' = batch \ {q}
            /\ attempt' = [sink |-> q.sink, full |-> q.full, item |-> q.item, answer |-> a]
    BY Zenon DEF RetryOne
  <1>2. q.sink \in Sinks /\ (~q.full => q.item \in Event) /\ attempt' \in Attempt
    BY Zenon, <1>1 DEF Types, Entry, Attempt
  <1>3. attempt' # None
    BY Zenon, <1>2, NoneAssumption
  <1>4. UNCHANGED source /\ LedgersBehind
    BY Zenon DEF RetryOne, sourceVars, SourceInv
  <1>5. CASE q.full
    <2>1. Forward /\ LedgersBehind'
      BY Zenon, <1>1, <1>2, <1>4, <1>5, PushFullEffect
    <2>2. UNCHANGED taken
      BY Zenon, <1>1, <1>5 DEF PushFull
    <2> QED BY Zenon, <1>1, <1>2, <1>3, <1>5, <2>1, <2>2
  <1>6. CASE ~q.full
    <2>1. q.item \in Event /\ Produced(q.item)
      BY Zenon, <1>2, <1>6 DEF SourceInv
    <2>2. q.item.rev <= source[q.item.key].rev
      BY Zenon, <2>1 DEF Produced
    <2>3. /\ Forward /\ LedgersBehind'
          /\ a = "ok" => /\ ledger'[q.sink][q.item.key] # None
                         /\ ledger'[q.sink][q.item.key].rev >= q.item.rev
          /\ a # "stale" /\ (a = "permanent" => q.item.rev \in Rejected[q.sink])
      BY Zenon, <1>1, <1>2, <1>4, <1>6, <2>1, <2>2, PushEventEffect DEF Reached
    <2>4. /\ UNCHANGED fullDone
          /\ taken' = IF a = "ok" THEN [taken EXCEPT ![q.sink] = @ \cup {q.item}] ELSE taken
      BY Zenon, <1>1, <1>6 DEF PushEvent
    <2> QED BY Zenon, <1>1, <1>2, <1>3, <1>6, <2>1, <2>3, <2>4
  <1> QED BY Zenon, <1>5, <1>6

\* What a new entry of the queue's copy is.
LEMMA Copied ==
    ASSUME Types, StartCycle, NEW q \in batch'
    PROVE  /\ ~q.full => \E s \in Sinks, k \in Keys : q.item = store[s][k] /\ store[s][k] # None
           /\ q.full => \E s \in Sinks : q.item = fullStore[s] /\ fullStore[s] # None
  BY DEF StartCycle, Queued

\* What RetryDone does to the queue: the entry that was pushed, if it is still
\* there, goes after an answer that settles it.
LEMMA DoneEffect ==
    ASSUME Types, RetryDone
    PROVE  \A s \in Sinks, k \in Keys :
             \/ store'[s][k] = store[s][k]
             \/ /\ store'[s][k] = None
                /\ ~attempt.full /\ attempt.sink = s /\ attempt.item = store[s][k]
                /\ attempt.answer \in {"ok", "stale", "permanent"}
  <1>1. attempt.sink \in Sinks /\ (~attempt.full => attempt.item.key \in Keys)
    BY Zenon DEF Types, RetryDone, Attempt, Event
  <1>2. CASE UNCHANGED store
    BY ZenonT(60), <1>2
  <1>3. CASE /\ ~attempt.full /\ GivesUp(attempt.answer)
             /\ SamePending(store[attempt.sink][attempt.item.key], attempt.item)
             /\ store' = [store EXCEPT ![attempt.sink][attempt.item.key] = None]
    BY <1>1, <1>3, SetEntry DEF Types, GivesUp, SamePending
  <1> QED BY Zenon, <1>2, <1>3 DEF RetryDone

\* An event that was pushed with success, and is still the queued one, goes.
LEMMA DoneDeletes ==
    ASSUME Types, RetryDone, ~attempt.full, attempt.answer = "ok",
           NEW s \in Sinks, NEW k \in Keys, attempt.sink = s, attempt.item = store[s][k],
           store[s][k] # None
    PROVE  store'[s][k] = None
  <1>1. attempt.item.key = k
    BY DEF Types
  <1>2. store' = [store EXCEPT ![s][k] = None]
    BY Zenon, <1>1 DEF RetryDone, GivesUp, SamePending
  <1> QED BY <1>2, SetEntry DEF Types

\* What FinishEvent does to the queue: an entry is the old one or the event.
LEMMA FinishEventEffect ==
    ASSUME Types, NEW h \in Handlers, FinishEvent(h)
    PROVE  /\ job[h] \in Event
           /\ \A s \in Sinks, k \in Keys :
                \/ store'[s][k] = store[s][k]
                \/ /\ s \in FailedSinks(h) /\ k = job[h].key /\ store'[s][k] = job[h]
                   /\ store[s][k] # None => job[h].rev > store[s][k].rev
           /\ \A s \in FailedSinks(h) : /\ store'[s][job[h].key] # None
                                        /\ store'[s][job[h].key].rev >= job[h].rev
  <1>1. job[h] \in Event /\ job[h].key \in Keys /\ job[h].rev \in Nat
    BY Zenon, EventFields DEF Types, FinishEvent
  <1>2. \A s \in Sinks, k \in Keys : store'[s][k] =
            IF s \in FailedSinks(h) /\ k = job[h].key THEN Added(store[s][k], job[h]) ELSE store[s][k]
    BY Zenon, <1>1 DEF Types, FinishEvent
  <1>3. FailedSinks(h) \subseteq Sinks
    BY Zenon DEF FailedSinks
  <1>4. \A s \in Sinks, k \in Keys : store[s][k] # None => store[s][k].rev \in Nat
    BY Zenon, EntryTypes
  <1>5. ASSUME NEW s \in Sinks
        PROVE  /\ Added(store[s][job[h].key], job[h]) # None
               /\ Added(store[s][job[h].key], job[h]).rev >= job[h].rev
    BY <1>1, <1>4, NoneAssumption DEF Added
  <1> QED BY ZenonT(60), <1>1, <1>2, <1>3, <1>5 DEF Added

-----------------------------------------------------------------------------
\* A change of the provider leaves behind what it has produced, and its event
\* is new.
LEMMA SourceMoves ==
    ASSUME Types, NEW k \in Keys, SourceChange(k)
    PROVE  /\ \A e \in Event : Produced(e) => Produced(e)'
           /\ \A j \in Keys : source'[j].rev \in Nat /\ source[j].rev \in Nat /\ source'[j].rev >= source[j].rev
           /\ \E e \in Event : todo' = todo \cup {e} /\ Produced(e)' /\ ~Produced(e)
  <1>1. source'[k].rev \in 1 .. MaxRev /\ source'[k].live \in BOOLEAN /\ source[k].rev \in 0 .. MaxRev
    <2>1. CASE source[k].rev < MaxRev /\ source' = [source EXCEPT ![k] = [rev |-> @.rev + 1, live |-> TRUE]]
      BY <2>1, BoundsAssumption DEF Types
    <2>2. CASE source[k].live /\ source' = [source EXCEPT ![k] = [rev |-> @.rev, live |-> FALSE]]
      BY <2>2, BoundsAssumption DEF Types
    <2> QED BY Zenon, <2>1, <2>2 DEF SourceChange
  <1>2. \A j \in Keys \ {k} : source'[j] = source[j]
    BY DEF SourceChange, Types
  <1>3. \/ source'[k].rev = source[k].rev + 1 /\ source'[k].live
        \/ source'[k].rev = source[k].rev /\ source[k].live /\ ~source'[k].live
    BY DEF SourceChange, Types
  <1>4. \A j \in Keys : source[j].rev \in Nat
    BY BoundsAssumption DEF Types
  <1>5. \A e \in Event : Produced(e) => Produced(e)'
    <2> SUFFICES ASSUME NEW e \in Event, Produced(e) PROVE Produced(e)'
      BY Zenon
    <2>1. e.key \in Keys /\ e.rev \in Nat
      BY Zenon, EventFields
    <2> QED BY <1>1, <1>2, <1>3, <1>4, <2>1, BoundsAssumption DEF Produced
  <1>6. \A j \in Keys : source'[j].rev \in Nat /\ source'[j].rev >= source[j].rev
    BY <1>1, <1>2, <1>3, <1>4
  <1>7. \E e \in Event : todo' = todo \cup {e} /\ Produced(e)' /\ ~Produced(e)
    <2> DEFINE new == [key |-> k, rev |-> source'[k].rev, offline |-> ~source'[k].live]
    <2>1. new \in Event /\ todo' = todo \cup {new}
      BY Zenon, <1>1 DEF Event, SourceChange
    <2>2. new.key = k /\ new.rev = source'[k].rev /\ (new.offline <=> ~source'[k].live)
      BY Zenon
    <2> HIDE DEF new
    <2>3. \A e \in Event : e.key = k /\ e.rev = source'[k].rev /\ (e.offline <=> ~source'[k].live)
              => Produced(e)' /\ ~Produced(e)
      BY <1>1, <1>3, <1>4 DEF Produced
    <2> QED BY Zenon, <2>1, <2>2, <2>3
  <1> QED BY Zenon, <1>4, <1>5, <1>6, <1>7

\* With the provider where it is, what is produced stays so; it remains to see
\* that every new thing is produced.
LEMMA SourceKept ==
    ASSUME SourceInv, UNCHANGED source, UNCHANGED ledger \/ LedgersBehind', todo' \subseteq todo,
           \A h \in Handlers : pc'[h] = "push" => Produced(job'[h]),
           \A s \in Sinks : \A e \in taken'[s] : Produced(e),
           \A s \in Sinks, k \in Keys : store'[s][k] # None => Produced(store'[s][k]),
           \A q \in batch' : ~q.full => Produced(q.item)
    PROVE  SourceInv'
  <1>1. LedgersBehind'
    BY Zenon DEF SourceInv, LedgersBehind
  <1>2. \A e : Produced(e) => Produced(e)'
    BY Zenon DEF Produced
  <1>3. \A e \in todo' : Produced(e)
    BY Zenon DEF SourceInv
  <1>4. \A h \in Handlers : pc'[h] = "push" => Produced(job[h])'
    BY Zenon DEF Produced
  <1>5. \A s \in Sinks, k \in Keys : store'[s][k] # None => Produced(store[s][k])'
    BY Zenon DEF Produced
  <1> QED BY Zenon, <1>1, <1>2, <1>3, <1>4, <1>5 DEF SourceInv

\* No step puts anything ahead of the provider.
LEMMA SourceStep == Types /\ SourceInv /\ [Next]_vars => SourceInv'
  <1> SUFFICES ASSUME Types, SourceInv, [Next]_vars
               PROVE  SourceInv'
    BY Zenon
  <1>1. ASSUME NEW k \in Keys, SourceChange(k) PROVE SourceInv'
    <2>1. /\ \A e \in Event : Produced(e) => Produced(e)'
          /\ \A e \in todo' : Produced(e)'
      BY Zenon, <1>1, SourceMoves DEF SourceInv, Types
    <2>2. /\ UNCHANGED <<pc, job, taken, store, batch, ledger>>
      BY Zenon, <1>1 DEF SourceChange, handlerVars, sinkVars, queueVars, retryVars
    <2>3. LedgersBehind'
      <3>1. \A s \in Sinks, j \in Keys : ledger[s][j] # None => ledger[s][j].rev \in Nat
        BY Zenon, EntryTypes
      <3>2. \A j \in Keys : source'[j].rev \in Nat /\ source[j].rev \in Nat /\ source'[j].rev >= source[j].rev
        BY Zenon, <1>1, SourceMoves
      <3> QED BY <2>2, <3>1, <3>2 DEF SourceInv, LedgersBehind
    <2>4. \A h \in Handlers : pc'[h] = "push" => job'[h] \in Event /\ Produced(job[h])'
      <3> SUFFICES ASSUME NEW h \in Handlers, pc'[h] = "push" PROVE job'[h] \in Event /\ Produced(job[h])'
        BY Zenon
      <3>1. PICK e \in Event : e = job[h] /\ Produced(e)
        BY Zenon, <2>2 DEF Types, SourceInv
      <3> QED BY Zenon, <2>1, <2>2, <3>1 DEF Produced
    <2>5. \A s \in Sinks, j \in Keys : store'[s][j] # None => Produced(store[s][j])'
      <3> SUFFICES ASSUME NEW s \in Sinks, NEW j \in Keys, store'[s][j] # None
                   PROVE  Produced(store[s][j])'
        BY Zenon
      <3>1. PICK e \in Event : e = store[s][j] /\ Produced(e)
        BY <2>2 DEF Types, SourceInv
      <3> QED BY Zenon, <2>1, <2>2, <3>1 DEF Produced
    <2>6. \A s \in Sinks : \A e \in taken'[s] : Produced(e)'
      BY Zenon, <2>1, <2>2 DEF Types, SourceInv
    <2>7. \A q \in batch' : ~q.full => Produced(q.item)'
      <3>1. \A q \in batch : ~q.full => q.item \in Event
        BY Zenon DEF Types, Entry
      <3> QED BY Zenon, <2>1, <2>2, <3>1 DEF SourceInv
    <2> QED BY Zenon, <2>1, <2>3, <2>4, <2>5, <2>6, <2>7 DEF SourceInv
  <1>2. ASSUME NEW h \in Handlers, TakeEvent(h) PROVE SourceInv'
    <2>0. UNCHANGED <<source, ledger, taken, store, batch>>
      BY Zenon, <1>2 DEF TakeEvent, sinkVars, queueVars, retryVars
    <2>1. PICK e \in todo : todo' = todo \ {e} /\ job' = [job EXCEPT ![h] = e]
      BY Zenon, <1>2 DEF TakeEvent
    <2>2. \A g \in Handlers : job'[g] = e \/ (pc'[g] = pc[g] /\ job'[g] = job[g])
      BY Zenon, <1>2, <2>1 DEF TakeEvent, Types
    <2>3. \A g \in Handlers : pc'[g] = "push" => Produced(job'[g])
      BY Zenon, <2>2 DEF SourceInv
    <2> QED BY Zenon, <2>0, <2>1, <2>3, SourceKept DEF SourceInv
  <1>3. ASSUME NEW h \in Handlers, TakeFull(h) PROVE SourceInv'
    <2>0. UNCHANGED <<source, todo, ledger, taken, store, batch>>
      BY Zenon, <1>3 DEF TakeFull, sourceVars, sinkVars, queueVars, retryVars
    <2>1. \A g \in Handlers : pc'[g] = "push" => pc[g] = "push" /\ job'[g] = job[g]
      BY Zenon, <1>3 DEF TakeFull, Types
    <2> QED BY Zenon, <2>0, <2>1, SourceKept DEF SourceInv
  <1>4. ASSUME NEW h \in Handlers, NEW s \in Sinks, FanOut(h, s) PROVE SourceInv'
    <2>0. UNCHANGED <<source, todo, pc, job, store, batch>> /\ LedgersBehind'
      BY Zenon, <1>4, FanOutEffect DEF FanOut, sourceVars, queueVars, retryVars
    <2>1. PICK a \in Answers :
              /\ pc[h] \in {"push"} \cup Attempts
              /\ pc[h] = "push" =>
                  /\ Produced(job[h])
                  /\ taken' = IF a = "ok" THEN [taken EXCEPT ![s] = @ \cup {job[h]}] ELSE taken
              /\ pc[h] \in Attempts => UNCHANGED taken
      BY <1>4, FanOutEffect
    <2>2. \A t \in Sinks : \A e \in taken'[t] : e \in taken[t] \/ Produced(e)
      <3>1. CASE UNCHANGED taken
        BY Zenon, <3>1
      <3>2. CASE Produced(job[h]) /\ taken' = [taken EXCEPT ![s] = @ \cup {job[h]}]
        BY Zenon, <3>2 DEF Types
      <3> QED BY Zenon, <2>1, <3>1, <3>2
    <2> QED BY Zenon, <2>0, <2>2, SourceKept DEF SourceInv
  <1>5. ASSUME NEW h \in Handlers, FinishEvent(h) PROVE SourceInv'
    <2>0. UNCHANGED <<source, todo, ledger, taken, batch>> /\ Produced(job[h])
      BY ZenonT(60), <1>5 DEF SourceInv, FinishEvent, sourceVars, sinkVars, retryVars
    <2>1. \A s \in Sinks, k \in Keys : store'[s][k] = store[s][k] \/ store'[s][k] = job[h]
      BY <1>5, FinishEventEffect
    <2>2. \A g \in Handlers : pc'[g] = "push" => Produced(job'[g])
      BY Zenon, <1>5, ReturnTypes DEF FinishEvent, SourceInv
    <2> QED BY Zenon, <2>0, <2>1, <2>2, SourceKept DEF SourceInv
  <1>6. ASSUME NEW h \in Handlers, FallBack(h) PROVE SourceInv'
    <2>0. UNCHANGED <<source, todo, job, ledger, taken, store, batch>>
      BY Zenon, <1>6 DEF FallBack, sourceVars, sinkVars, queueVars, retryVars
    <2>1. \A g \in Handlers : pc'[g] = "push" => pc[g] = "push"
      BY Zenon, <1>6 DEF FallBack, Types
    <2> QED BY Zenon, <2>0, <2>1, SourceKept DEF SourceInv
  <1>7. ASSUME NEW h \in Handlers, FinishFull(h) PROVE SourceInv'
    <2>0. UNCHANGED <<source, todo, ledger, taken, store, batch>>
      BY Zenon, <1>7 DEF FinishFull, sourceVars, sinkVars, retryVars
    <2>1. \A g \in Handlers : pc'[g] = "push" => Produced(job'[g])
      BY Zenon, <1>7, ReturnTypes DEF FinishFull, SourceInv
    <2> QED BY Zenon, <2>0, <2>1, SourceKept DEF SourceInv
  <1>8. CASE StartCycle
    <2>0. UNCHANGED <<source, todo, pc, job, ledger, taken, store>>
      BY Zenon, <1>8 DEF StartCycle, sourceVars, handlerVars, sinkVars, queueVars
    <2>1. \A q \in batch' : ~q.full => Produced(q.item)
      BY Zenon, <1>8, Copied DEF SourceInv
    <2> QED BY Zenon, <2>0, <2>1, SourceKept DEF SourceInv
  <1>9. CASE RetryOne
    <2>0. UNCHANGED <<source, todo, pc, job, store>> /\ LedgersBehind'
      BY Zenon, <1>9, RetryOneEffect DEF RetryOne, sourceVars, handlerVars, queueVars
    <2>1. PICK q \in batch, a \in Answers :
              /\ batch' = batch \ {q}
              /\ ~q.full =>
                  /\ Produced(q.item)
                  /\ taken' = IF a = "ok" THEN [taken EXCEPT ![q.sink] = @ \cup {q.item}] ELSE taken
              /\ q.full => UNCHANGED taken
      BY ZenonT(60), <1>9, RetryOneEffect
    <2>2. \A t \in Sinks : \A e \in taken'[t] : e \in taken[t] \/ Produced(e)
      <3>1. CASE UNCHANGED taken
        BY Zenon, <3>1
      <3>2. CASE Produced(q.item) /\ taken' = [taken EXCEPT ![q.sink] = @ \cup {q.item}]
        BY Zenon, <3>2 DEF Types
      <3> QED BY Zenon, <2>1, <3>1, <3>2
    <2> QED BY Zenon, <2>0, <2>1, <2>2, SourceKept DEF SourceInv
  <1>10. CASE RetryDone
    <2>0. UNCHANGED <<source, todo, pc, job, ledger, taken, batch>>
      BY Zenon, <1>10 DEF RetryDone, sourceVars, handlerVars, sinkVars
    <2>1. \A s \in Sinks, k \in Keys : store'[s][k] # None => store'[s][k] = store[s][k]
      BY ZenonT(60), <1>10, DoneEffect
    <2> QED BY Zenon, <2>0, <2>1, SourceKept DEF SourceInv
  <1>11. CASE UNCHANGED vars
    BY ZenonT(60), <1>11 DEF SourceInv, Produced, LedgersBehind, vars
  <1> QED BY Zenon, <1>1, <1>2, <1>3, <1>4, <1>5, <1>6, <1>7, <1>8, <1>9, <1>10, <1>11 DEF Next

-----------------------------------------------------------------------------
\* A step that only moves ledgers forward, and touches neither the queue nor
\* the handled revisions, forgets nothing.
LEMMA NothingLost ==
    ASSUME Types, Types', NothingForgotten, Forward, UNCHANGED <<store, handled>>
    PROVE  NothingForgotten'
  <1> SUFFICES ASSUME NEW s \in Sinks, NEW k \in Keys, handled[k] \notin {0} \cup Rejected[s],
                      ~(store[s][k] # None /\ store[s][k].rev >= handled[k])
               PROVE  ledger'[s][k] # None /\ ledger'[s][k].rev >= handled[k]
    BY Zenon DEF NothingForgotten
  <1>1. ledger[s][k] # None /\ ledger[s][k].rev >= handled[k]
    BY Zenon DEF NothingForgotten
  <1>2. ledger'[s][k] # None /\ ledger'[s][k].rev >= ledger[s][k].rev
    BY Zenon, <1>1 DEF Forward
  <1>3. ledger[s][k].rev \in Nat /\ handled[k] \in Nat
    BY Zenon, <1>1, EntryTypes
  <1>4. ledger'[s][k].rev \in Nat
    <2>1. ledger' \in [Sinks -> [Keys -> Mark \cup {None}]]
      BY Zenon DEF Types
    <2>2. ledger'[s][k] \in Mark
      BY Zenon, <1>2, <2>1
    <2> QED BY Zenon, <2>2 DEF Mark
  <1> QED BY <1>1, <1>2, <1>3, <1>4

\* Ledgers that do not move move forward.
LEMMA StillForward == ASSUME Types, UNCHANGED ledger PROVE Forward
  <1> SUFFICES ASSUME NEW s \in Sinks, NEW k \in Keys, ledger[s][k] # None
               PROVE  ledger[s][k].rev >= ledger[s][k].rev
    BY Zenon DEF Forward
  <1>1. ledger[s][k].rev \in Nat
    BY Zenon, EntryTypes
  <1> QED BY <1>1

\* What the answers told is kept by a step that gives no new answer.
LEMMA AnswersKept ==
    ASSUME Types, Types', RevisionInv, Forward
    PROVE  /\ \A h \in Handlers, s \in Sinks : pc[h] = "push" /\ result[h][s] = "ok" =>
                ledger'[s][job[h].key] # None /\ ledger'[s][job[h].key].rev >= job[h].rev
           /\ attempt # None /\ ~attempt.full /\ attempt.answer = "ok" =>
                /\ ledger'[attempt.sink][attempt.item.key] # None
                /\ ledger'[attempt.sink][attempt.item.key].rev >= attempt.item.rev
  <1>1. \A s \in Sinks, e \in Event : Reached(s, e) =>
            ledger'[s][e.key] # None /\ ledger'[s][e.key].rev >= e.rev
    <2> SUFFICES ASSUME NEW s \in Sinks, NEW e \in Event, Reached(s, e)
                 PROVE  ledger'[s][e.key] # None /\ ledger'[s][e.key].rev >= e.rev
      BY Zenon
    <2>1. ledger' \in [Sinks -> [Keys -> Mark \cup {None}]]
      BY Zenon DEF Types
    <2>2. Reached(s, e)'
      BY Zenon, <2>1, ReachedKept
    <2> QED BY Zenon, <2>2 DEF Reached
  <1>2. \A h \in Handlers : pc[h] = "push" => job[h] \in Event
    BY Zenon DEF Types
  <1>3. attempt # None /\ ~attempt.full => attempt.sink \in Sinks /\ attempt.item \in Event
    BY Zenon DEF Types, Attempt
  <1> QED BY Zenon, <1>1, <1>2, <1>3 DEF RevisionInv

\* A step that changes neither the queue nor what was answered keeps the
\* invariant.
LEMMA RevisionKept ==
    ASSUME Types, Types', RevisionInv, Forward, UNCHANGED <<store, handled, attempt>>,
           \A h \in Handlers : pc'[h] = "push" =>
                \/ pc[h] = "push" /\ job'[h] = job[h] /\ result'[h] = result[h]
                \/ \A s \in Sinks : result'[h][s] = None
    PROVE  RevisionInv'
  <1>1. NothingForgotten'
    BY Zenon, NothingLost DEF RevisionInv
  <1>2. \A h \in Handlers, s \in Sinks : pc'[h] = "push" =>
            result'[h][s] # "stale" /\ (result'[h][s] = "ok" => Reached(s, job[h])')
    <2> SUFFICES ASSUME NEW h \in Handlers, NEW s \in Sinks, pc'[h] = "push"
                 PROVE  result'[h][s] # "stale" /\ (result'[h][s] = "ok" => Reached(s, job[h])')
      BY Zenon
    <2>1. CASE result'[h][s] = None
      BY Zenon, <2>1, NoneAssumption DEF Answers
    <2>2. CASE pc[h] = "push" /\ job'[h] = job[h] /\ result'[h] = result[h]
      <3>1. result[h][s] # "stale"
        BY Zenon, <2>2 DEF RevisionInv
      <3>2. result[h][s] = "ok" => ledger'[s][job[h].key] # None /\ ledger'[s][job[h].key].rev >= job[h].rev
        BY Zenon, <2>2, AnswersKept
      <3> QED BY Zenon, <2>2, <3>1, <3>2 DEF Reached
    <2> QED BY Zenon, <2>1, <2>2
  <1>3. attempt' # None /\ ~attempt'.full /\ attempt'.answer = "ok" => Reached(attempt.sink, attempt.item)'
    BY Zenon, AnswersKept DEF Reached
  <1> QED BY Zenon, <1>1, <1>2, <1>3 DEF RevisionInv

\* No step forgets a revision.
LEMMA RevisionStep == Types /\ SourceInv /\ RevisionInv /\ [Next]_vars => RevisionInv'
  <1> SUFFICES ASSUME Types, SourceInv, RevisionInv, [Next]_vars
               PROVE  RevisionInv'
    BY Zenon
  <1>0. Types'
    BY Zenon, TypesStep
  <1>1. ASSUME NEW k \in Keys, SourceChange(k) PROVE RevisionInv'
    BY Zenon, <1>0, <1>1, StillForward, RevisionKept DEF SourceChange, handlerVars, sinkVars, queueVars, retryVars
  <1>2. ASSUME NEW h \in Handlers, TakeEvent(h) PROVE RevisionInv'
    <2>1. \A g \in Handlers : pc'[g] = "push" =>
              \/ pc[g] = "push" /\ job'[g] = job[g] /\ result'[g] = result[g]
              \/ \A s \in Sinks : result'[g][s] = None
      BY <1>2 DEF Types, TakeEvent
    <2> QED BY ZenonT(60), <1>0, <1>2, <2>1, StillForward, RevisionKept DEF TakeEvent, sinkVars, queueVars, retryVars
  <1>3. ASSUME NEW h \in Handlers, TakeFull(h) PROVE RevisionInv'
    <2>1. \A g \in Handlers : pc'[g] = "push" => pc[g] = "push" /\ job'[g] = job[g] /\ result'[g] = result[g]
      BY Zenon, <1>3 DEF Types, TakeFull
    <2> QED BY Zenon, <1>0, <1>3, <2>1, StillForward, RevisionKept DEF TakeFull, sinkVars, queueVars, retryVars
  <1>4. ASSUME NEW h \in Handlers, NEW s \in Sinks, FanOut(h, s) PROVE RevisionInv'
    <2>0. Forward /\ UNCHANGED <<pc, job, handled, store, attempt>>
      BY Zenon, <1>4, FanOutEffect DEF FanOut, queueVars, retryVars
    <2>1. PICK a \in Answers :
              /\ result'[h][s] = a
              /\ \A g \in Handlers, t \in Sinks : <<g, t>> # <<h, s>> => result'[g][t] = result[g][t]
              /\ pc[h] = "push" => a # "stale" /\ (a = "ok" => Reached(s, job[h])')
      BY <1>4, FanOutEffect
    <2>2. NothingForgotten'
      BY Zenon, <1>0, <2>0, NothingLost DEF RevisionInv
    <2>3. ASSUME NEW g \in Handlers, NEW t \in Sinks, pc'[g] = "push"
          PROVE  result'[g][t] # "stale" /\ (result'[g][t] = "ok" => Reached(t, job[g])')
      <3>1. CASE <<g, t>> = <<h, s>>
        BY Zenon, <2>0, <2>1, <2>3, <3>1
      <3>2. CASE <<g, t>> # <<h, s>>
        BY ZenonT(60), <1>0, <2>0, <2>1, <2>3, <3>2, AnswersKept DEF RevisionInv, Reached
      <3> QED BY Zenon, <3>1, <3>2
    <2>4. attempt' # None /\ ~attempt'.full /\ attempt'.answer = "ok" => Reached(attempt.sink, attempt.item)'
      BY Zenon, <1>0, <2>0, AnswersKept DEF Reached
    <2> QED BY Zenon, <2>0, <2>2, <2>3, <2>4 DEF RevisionInv
  <1>5. ASSUME NEW h \in Handlers, FinishEvent(h) PROVE RevisionInv'
    <2> DEFINE e == job[h]
    <2>0. UNCHANGED <<ledger, attempt>> /\ e \in Event /\ e.key \in Keys /\ e.rev \in Nat
      BY Zenon, <1>5, FinishEventEffect, EventFields DEF FinishEvent, sinkVars, retryVars
    <2>1. /\ \A k \in Keys : handled'[k] = IF k = e.key /\ e.rev > handled[k] THEN e.rev ELSE handled[k]
          /\ \A k \in Keys : handled[k] \in Nat
      BY Zenon, <1>5, <2>0 DEF FinishEvent, Types
    <2>2. \A s \in Sinks, k \in Keys : store[s][k] # None => store[s][k].rev \in Nat
      BY ZenonT(60), EntryTypes
    <2>3. \A s \in Sinks, k \in Keys :
              \/ store'[s][k] = store[s][k]
              \/ /\ k = e.key /\ store'[s][k] = e /\ e # None
                 /\ store[s][k] # None => e.rev >= store[s][k].rev
      <3>1. \A s \in Sinks, k \in Keys :
                \/ store'[s][k] = store[s][k]
                \/ /\ k = e.key /\ store'[s][k] = e
                   /\ store[s][k] # None => e.rev > store[s][k].rev
        BY <1>5, FinishEventEffect
      <3> HIDE DEF e
      <3>2. e # None
        BY Zenon, <2>0, NoneAssumption
      <3> QED BY <2>0, <2>2, <3>1, <3>2
    <2> HIDE DEF e
    <2>4. \A s \in Sinks, k \in Keys : store'[s][k] # None => store'[s][k].rev <= handled'[k]
      <3> SUFFICES ASSUME NEW s \in Sinks, NEW k \in Keys, store'[s][k] # None
                   PROVE  store'[s][k].rev <= handled'[k]
        BY Zenon
      <3>1. CASE store'[s][k] = store[s][k]
        <4>1. store[s][k].rev <= handled[k] /\ store[s][k].rev \in Nat
          BY Zenon, <2>2, <3>1 DEF RevisionInv
        <4>2. handled'[k] \in Nat /\ handled'[k] >= handled[k] /\ handled[k] \in Nat
          BY <2>0, <2>1
        <4> QED BY <3>1, <4>1, <4>2
      <3>2. CASE k = e.key /\ store'[s][k] = e
        <4>1. handled'[k] = IF e.rev > handled[k] THEN e.rev ELSE handled[k]
          BY Zenon, <2>1, <3>2
        <4> QED BY <2>0, <2>1, <3>2, <4>1
      <3> QED BY Zenon, <2>3, <3>1, <3>2
    <2>5. NothingForgotten'
      <3> SUFFICES ASSUME NEW s \in Sinks, NEW k \in Keys
                   PROVE  \/ handled'[k] \in {0} \cup Rejected[s]
                          \/ ledger'[s][k] # None /\ ledger'[s][k].rev >= handled'[k]
                          \/ store'[s][k] # None /\ store'[s][k].rev >= handled'[k]
        BY Zenon DEF NothingForgotten
      <3>1. CASE handled'[k] = handled[k]
        <4>1. \/ handled[k] \in {0} \cup Rejected[s]
              \/ ledger[s][k] # None /\ ledger[s][k].rev >= handled[k]
              \/ store[s][k] # None /\ store[s][k].rev >= handled[k]
          BY Zenon DEF RevisionInv, NothingForgotten
        <4>2. CASE store[s][k] # None /\ store[s][k].rev >= handled[k] /\ store'[s][k] # store[s][k]
          <5>1. store'[s][k] = e /\ e # None /\ e.rev >= store[s][k].rev
            BY Zenon, <2>3, <4>2
          <5>2. store[s][k].rev \in Nat /\ handled[k] \in Nat
            BY Zenon, <2>1, <2>2, <4>2
          <5> QED BY <2>0, <3>1, <4>2, <5>1, <5>2
        <4> QED BY Zenon, <2>0, <3>1, <4>1, <4>2
      <3>2. CASE k = e.key /\ handled'[k] = e.rev
        <4>1. result[h][s] \in Answers /\ result[h][s] # "stale"
          <5>1. pc[h] = "push" /\ result[h][s] # None
            BY Zenon, <1>5 DEF FinishEvent, Answered
          <5>2. result \in [Handlers -> [Sinks -> Answers \cup {None}]]
            BY Zenon DEF Types
          <5>3. result[h][s] # "stale"
            BY Zenon, <5>1 DEF RevisionInv
          <5> QED BY Zenon, <5>1, <5>2, <5>3
        <4>2. CASE result[h][s] = "ok"
          BY Zenon, <1>5, <2>0, <3>2, <4>2 DEF RevisionInv, Reached, FinishEvent, e
        <4>3. CASE s \in FailedSinks(h)
          BY Zenon, <1>5, <3>2, <4>3, FinishEventEffect DEF e
        <4> QED BY Zenon, <4>1, <4>2, <4>3 DEF Answers, FailedSinks
      <3> QED BY Zenon, <2>1, <3>1, <3>2
    <2>6. \A g \in Handlers, s \in Sinks : pc'[g] = "push" =>
              result'[g][s] # "stale" /\ (result'[g][s] = "ok" => Reached(s, job[g])')
      <3>1. \A g \in Handlers : pc'[g] = "push" =>
                pc[g] = "push" /\ job'[g] = job[g] /\ result'[g] = result[g]
        BY Zenon, <1>5, ReturnTypes DEF FinishEvent
      <3>2. \A g \in Handlers, s \in Sinks : pc[g] = "push" =>
                result[g][s] # "stale" /\ (result[g][s] = "ok" => Reached(s, job[g]))
        BY Zenon DEF RevisionInv
      <3> SUFFICES ASSUME NEW g \in Handlers, NEW s \in Sinks, pc'[g] = "push"
                   PROVE  result'[g][s] # "stale" /\ (result'[g][s] = "ok" => Reached(s, job[g])')
        BY Zenon
      <3>3. Reached(s, job[g]) => Reached(s, job[g])'
        BY Zenon, <2>0, <3>1 DEF Reached
      <3> QED BY Zenon, <3>1, <3>2, <3>3
    <2> QED BY Zenon, <2>0, <2>4, <2>5, <2>6 DEF RevisionInv, Reached
  <1>6. ASSUME NEW h \in Handlers, FallBack(h) PROVE RevisionInv'
    <2>1. \A g \in Handlers : pc'[g] = "push" => pc[g] = "push" /\ job'[g] = job[g] /\ result'[g] = result[g]
      BY Zenon, <1>6 DEF Types, FallBack
    <2> QED BY Zenon, <1>0, <1>6, <2>1, StillForward, RevisionKept DEF FallBack, sinkVars, queueVars, retryVars
  <1>7. ASSUME NEW h \in Handlers, FinishFull(h) PROVE RevisionInv'
    <2>1. \A g \in Handlers : pc'[g] = "push" => pc[g] = "push" /\ job'[g] = job[g] /\ result'[g] = result[g]
      BY Zenon, <1>7, ReturnTypes DEF FinishFull
    <2> QED BY Zenon, <1>0, <1>7, <2>1, StillForward, RevisionKept DEF FinishFull, sinkVars, retryVars
  <1>8. CASE StartCycle
    BY Zenon, <1>0, <1>8, StillForward, RevisionKept DEF StartCycle, handlerVars, sinkVars, queueVars
  <1>9. CASE RetryOne
    <2>0. Forward /\ UNCHANGED <<pc, job, result, handled, store>>
      BY Zenon, <1>9, RetryOneEffect DEF RetryOne, handlerVars, queueVars
    <2>1. PICK q \in batch, a \in Answers :
              /\ attempt' = [sink |-> q.sink, full |-> q.full, item |-> q.item, answer |-> a]
              /\ ~q.full =>
                  /\ a # "stale" /\ (a = "permanent" => q.item.rev \in Rejected[q.sink])
                  /\ a = "ok" => /\ ledger'[q.sink][q.item.key] # None
                                 /\ ledger'[q.sink][q.item.key].rev >= q.item.rev
      BY ZenonT(60), <1>9, RetryOneEffect
    <2>2. NothingForgotten'
      BY Zenon, <1>0, <2>0, NothingLost DEF RevisionInv
    <2>3. \A h \in Handlers, s \in Sinks : pc'[h] = "push" =>
            result'[h][s] # "stale" /\ (result'[h][s] = "ok" => Reached(s, job[h])')
      BY Zenon, <1>0, <2>0, AnswersKept DEF RevisionInv, Reached
    <2>4. ~attempt'.full =>
            /\ attempt'.answer # "stale"
            /\ attempt'.answer = "ok" => Reached(attempt.sink, attempt.item)'
            /\ attempt'.answer = "permanent" => attempt'.item.rev \in Rejected[attempt'.sink]
      BY Zenon, <2>1 DEF Reached
    <2> QED BY Zenon, <2>0, <2>2, <2>3, <2>4 DEF RevisionInv
  <1>10. CASE RetryDone
    <2>0. UNCHANGED <<pc, job, result, handled, ledger>> /\ attempt' = None /\ attempt # None
      BY Zenon, <1>10 DEF RetryDone, handlerVars, sinkVars
    <2>1. \A s \in Sinks, k \in Keys : store'[s][k] # None => store'[s][k] = store[s][k]
      BY <1>10, DoneEffect
    <2>2. NothingForgotten'
      <3> SUFFICES ASSUME NEW s \in Sinks, NEW k \in Keys
                   PROVE  \/ handled'[k] \in {0} \cup Rejected[s]
                          \/ ledger'[s][k] # None /\ ledger'[s][k].rev >= handled'[k]
                          \/ store'[s][k] # None /\ store'[s][k].rev >= handled'[k]
        BY Zenon DEF NothingForgotten
      <3>1. \/ handled[k] \in {0} \cup Rejected[s]
            \/ ledger[s][k] # None /\ ledger[s][k].rev >= handled[k]
            \/ store[s][k] # None /\ store[s][k].rev >= handled[k]
        BY Zenon DEF RevisionInv, NothingForgotten
      <3>2. CASE store'[s][k] = store[s][k]
        BY Zenon, <2>0, <3>1, <3>2
      <3>3. CASE /\ ~attempt.full /\ attempt.sink = s /\ attempt.item = store[s][k]
                 /\ attempt.answer \in {"ok", "stale", "permanent"} /\ store[s][k] # None
                 /\ store[s][k].rev >= handled[k]
        <4>1. store[s][k].rev \in Nat /\ handled[k] \in Nat /\ store[s][k].key = k
          BY Zenon, <3>3, EntryTypes
        <4>2. store[s][k].rev = handled[k]
          <5>1. store[s][k].rev <= handled[k]
            BY Zenon, <3>3 DEF RevisionInv
          <5> QED BY <3>3, <4>1, <5>1
        <4>3. CASE attempt.answer = "ok"
          BY Zenon, <2>0, <3>3, <4>1, <4>2, <4>3 DEF RevisionInv, Reached
        <4>4. CASE attempt.answer = "permanent"
          BY Zenon, <2>0, <3>3, <4>2, <4>4 DEF RevisionInv
        <4> QED BY Zenon, <2>0, <3>3, <4>3, <4>4 DEF RevisionInv
      <3>4. \/ store'[s][k] = store[s][k]
            \/ /\ ~attempt.full /\ attempt.sink = s /\ attempt.item = store[s][k]
               /\ attempt.answer \in {"ok", "stale", "permanent"}
        BY Zenon, <1>10, DoneEffect
      <3> QED BY Zenon, <2>0, <3>1, <3>2, <3>3, <3>4
    <2>3. \A s \in Sinks, k \in Keys : store'[s][k] # None => store'[s][k].rev <= handled'[k]
      BY Zenon, <2>0, <2>1 DEF RevisionInv
    <2> QED BY Zenon, <2>0, <2>2, <2>3 DEF RevisionInv, Reached
  <1>11. CASE UNCHANGED vars
    BY Zenon, <1>0, <1>11, StillForward, RevisionKept DEF vars
  <1> QED BY Zenon, <1>1, <1>2, <1>3, <1>4, <1>5, <1>6, <1>7, <1>8, <1>9, <1>10, <1>11 DEF Next

-----------------------------------------------------------------------------
\* Whether the event of a handler is kept after a step.
LEMMA JobIsKept ==
    ASSUME NEW h, NEW e, job'[h] = e, Kept(job[h])'
    PROVE  Kept(e)'
  BY Zenon DEF Kept

\* A step that queues, copies and acknowledges nothing new keeps the events
\* apart.
LEMMA UniqueKept ==
    ASSUME Types, UniqueInv, todo' \subseteq todo, UNCHANGED <<taken, attempt>>,
           \A e \in Event : Kept(e)' => Kept(e),
           \A s \in Sinks, k \in Keys : store'[s][k] = store[s][k],
           \A h \in Handlers : pc'[h] = "push" =>
                pc[h] = "push" /\ job'[h] = job[h] /\ result'[h] = result[h]
    PROVE  UniqueInv'
  <1>1. ASSUME NEW e \in todo' PROVE OnlyWaits(e)'
    <2>1. e \in Event /\ OnlyWaits(e)
      BY Zenon DEF UniqueInv, Types
    <2> QED BY Zenon, <2>1 DEF OnlyWaits, Handles
  <1>2. ASSUME NEW h \in Handlers, pc'[h] = "push" PROVE OnlyHandled(h)'
    <2>1. PICK e \in Event : e = job[h] /\ e = job'[h] /\ pc[h] = "push"
      BY Zenon, <1>2 DEF Types
    <2>2. OnlyHandled(h)
      BY Zenon, <2>1 DEF UniqueInv
    <2>3. ~Kept(e)
      BY Zenon, <2>1, <2>2 DEF OnlyHandled
    <2>4. ~Kept(e)'
      BY Zenon, <2>3
    <2>5. ~Kept(job[h])'
      BY Zenon, <2>1, <2>4, JobIsKept
    <2>6. \A g \in Handlers : Handles(g, job[h])' => g = h
      BY ZenonT(60), <2>1, <2>2 DEF OnlyHandled, Handles
    <2>7. \A s \in Sinks : job'[h] \in taken'[s] => result'[h][s] = "ok"
      BY Zenon, <1>2, <2>1, <2>2 DEF OnlyHandled
    <2> QED BY Zenon, <2>5, <2>6, <2>7 DEF OnlyHandled
  <1>3. ASSUME NEW s \in Sinks, NEW k \in Keys, store'[s][k] \in taken'[s] PROVE JustPushed(s, k)'
    <2>1. store'[s][k] = store[s][k]
      BY Zenon
    <2>2. JustPushed(s, k)
      BY Zenon, <1>3, <2>1 DEF UniqueInv
    <2> QED BY Zenon, <2>1, <2>2 DEF JustPushed
  <1> QED BY Zenon, <1>1, <1>2, <1>3 DEF UniqueInv

\* What the provider has not produced is nowhere.
LEMMA NewEvent ==
    ASSUME Types, SourceInv, NEW e \in Event, ~Produced(e)
    PROVE  OnlyWaits(e)
  <1>1. \A s \in Sinks, k \in Keys : store[s][k] # e
    BY Zenon, NoneAssumption DEF SourceInv
  <1>2. \A q \in batch : ~q.full => q.item # e
    BY Zenon DEF SourceInv
  <1>3. \A h \in Handlers : ~Handles(h, e)
    BY Zenon DEF SourceInv, Handles
  <1>4. \A s \in Sinks : e \notin taken[s]
    BY Zenon DEF SourceInv
  <1> QED BY Zenon, <1>1, <1>2, <1>3, <1>4 DEF OnlyWaits, Kept

\* Who kept an event after a step that copies the queue, kept it before.
LEMMA CopyKeepsNothingNew ==
    ASSUME Types, StartCycle, NEW e \in Event, Kept(e)'
    PROVE  Kept(e)
  <1>1. UNCHANGED store
    BY Zenon DEF StartCycle, queueVars
  <1>2. ASSUME NEW q \in batch', ~q.full, q.item = e PROVE Kept(e)
    BY ZenonT(60), <1>2, Copied DEF Kept
  <1> QED BY Zenon, <1>1, <1>2 DEF Kept

\* No step puts an event into two hands.
LEMMA UniqueStep == Types /\ SourceInv /\ UniqueInv /\ [Next]_vars => UniqueInv'
  <1> SUFFICES ASSUME Types, SourceInv, UniqueInv, [Next]_vars
               PROVE  UniqueInv'
    BY Zenon
  <1>1. ASSUME NEW k \in Keys, SourceChange(k) PROVE UniqueInv'
    <2>0. UNCHANGED <<pc, job, result, taken, store, batch, attempt>>
      BY Zenon, <1>1 DEF SourceChange, handlerVars, sinkVars, queueVars, retryVars
    <2>1. PICK e \in Event : todo' = todo \cup {e} /\ ~Produced(e)
      BY Zenon, <1>1, SourceMoves
    <2>2. \A d \in todo' : OnlyWaits(d)
      BY Zenon, <2>1, NewEvent DEF UniqueInv
    <2>3. \A d : OnlyWaits(d) => OnlyWaits(d)'
      BY Zenon, <2>0 DEF OnlyWaits, Kept, Handles
    <2>4. \A h \in Handlers : pc'[h] = "push" => OnlyHandled(h)'
      BY ZenonT(60), <2>0 DEF UniqueInv, OnlyHandled, Kept, Handles
    <2>5. \A s \in Sinks, j \in Keys : store'[s][j] \in taken'[s] => JustPushed(s, j)'
      BY ZenonT(60), <2>0 DEF UniqueInv, JustPushed
    <2> QED BY Zenon, <2>2, <2>3, <2>4, <2>5 DEF UniqueInv
  <1>2. ASSUME NEW h \in Handlers, TakeEvent(h) PROVE UniqueInv'
    <2>0. UNCHANGED <<result, taken, store, batch, attempt>>
      BY Zenon, <1>2 DEF TakeEvent, sinkVars, queueVars, retryVars
    <2>1. PICK e \in todo : /\ todo' = todo \ {e}
                            /\ job'[h] = e /\ pc'[h] = "push"
                            /\ \A g \in Handlers \ {h} : job'[g] = job[g] /\ pc'[g] = pc[g]
      BY Zenon, <1>2 DEF TakeEvent, Types
    <2>2. OnlyWaits(e) /\ e \in Event
      BY Zenon DEF UniqueInv, Types
    <2>3. \A d : Kept(d)' <=> Kept(d)
      BY Zenon, <2>0 DEF Kept
    <2>4. ASSUME NEW d \in todo' PROVE OnlyWaits(d)'
      <3>1. OnlyWaits(d) /\ d # e
        BY Zenon, <2>1 DEF UniqueInv
      <3>2. \A g \in Handlers : ~Handles(g, d)'
        BY Zenon, <2>1, <3>1 DEF OnlyWaits, Handles
      <3> QED BY Zenon, <2>0, <2>3, <3>1, <3>2 DEF OnlyWaits
    <2>5. OnlyHandled(h)'
      <3>1. ~Kept(job[h])'
        BY Zenon, <2>0, <2>1, <2>2 DEF OnlyWaits, Kept
      <3>2. \A g \in Handlers : Handles(g, job[h])' => g = h
        BY Zenon, <2>1, <2>2 DEF OnlyWaits, Handles
      <3>3. \A s \in Sinks : job'[h] \notin taken'[s]
        BY Zenon, <2>0, <2>1, <2>2 DEF OnlyWaits
      <3> QED BY Zenon, <3>1, <3>2, <3>3 DEF OnlyHandled
    <2>6. ASSUME NEW g \in Handlers \ {h}, pc'[g] = "push" PROVE OnlyHandled(g)'
      <3>1. OnlyHandled(g) /\ job'[g] = job[g] /\ pc[g] = "push"
        BY Zenon, <2>1, <2>6 DEF UniqueInv
      <3>2. job[g] # e
        BY Zenon, <2>2, <3>1 DEF OnlyWaits, Handles
      <3>3. ~Kept(job[g])'
        BY Zenon, <2>0, <3>1 DEF OnlyHandled, Kept
      <3>4. \A f \in Handlers : Handles(f, job[g])' => f = g
        BY Zenon, <2>1, <3>1, <3>2 DEF OnlyHandled, Handles
      <3> QED BY Zenon, <2>0, <3>1, <3>3, <3>4 DEF OnlyHandled
    <2>7. \A s \in Sinks, j \in Keys : store'[s][j] \in taken'[s] => JustPushed(s, j)'
      BY ZenonT(60), <2>0 DEF UniqueInv, JustPushed
    <2> QED BY Zenon, <2>4, <2>5, <2>6, <2>7 DEF UniqueInv
  <1>3. ASSUME NEW h \in Handlers, TakeFull(h) PROVE UniqueInv'
    <2>1. \A g \in Handlers : pc'[g] = "push" => pc[g] = "push" /\ job'[g] = job[g] /\ result'[g] = result[g]
      BY Zenon, <1>3 DEF Types, TakeFull
    <2>2. UNCHANGED <<todo, taken, store, batch, attempt>>
      BY Zenon, <1>3 DEF TakeFull, sourceVars, sinkVars, queueVars, retryVars
    <2> QED BY Zenon, <2>1, <2>2, UniqueKept DEF Kept
  <1>4. ASSUME NEW h \in Handlers, NEW s \in Sinks, FanOut(h, s) PROVE UniqueInv'
    <2>0. UNCHANGED <<todo, pc, job, store, batch, attempt>> /\ result[h][s] = None
      BY Zenon, <1>4 DEF FanOut, sourceVars, queueVars, retryVars
    <2>1. PICK a \in Answers :
              /\ result'[h][s] = a
              /\ \A g \in Handlers, t \in Sinks : <<g, t>> # <<h, s>> => result'[g][t] = result[g][t]
              /\ pc[h] \in {"push"} \cup Attempts
              /\ pc[h] = "push" =>
                    taken' = IF a = "ok" THEN [taken EXCEPT ![s] = @ \cup {job[h]}] ELSE taken
              /\ pc[h] \in Attempts => UNCHANGED taken
      BY <1>4, FanOutEffect
    <2>2. \A t \in Sinks : \A e \in taken'[t] :
              e \in taken[t] \/ (pc[h] = "push" /\ t = s /\ e = job[h] /\ a = "ok")
      <3>1. CASE UNCHANGED taken
        BY Zenon, <3>1
      <3>2. CASE pc[h] = "push" /\ a = "ok" /\ taken' = [taken EXCEPT ![s] = @ \cup {job[h]}]
        BY Zenon, <3>2 DEF Types
      <3> QED BY Zenon, <2>1, <3>1, <3>2
    <2>3. ASSUME NEW e \in todo' PROVE OnlyWaits(e)'
      <3>1. OnlyWaits(e)
        BY Zenon, <2>0, <2>3 DEF UniqueInv
      <3>2. \A t \in Sinks : e \notin taken'[t]
        BY Zenon, <2>2, <3>1 DEF OnlyWaits, Handles
      <3> QED BY Zenon, <2>0, <3>1, <3>2 DEF OnlyWaits, Kept, Handles
    <2>4. ASSUME NEW g \in Handlers, pc'[g] = "push" PROVE OnlyHandled(g)'
      <3>1. OnlyHandled(g) /\ pc[g] = "push" /\ job'[g] = job[g]
        BY Zenon, <2>0, <2>4 DEF UniqueInv
      <3>2. ~Kept(job[g])' /\ \A f \in Handlers : Handles(f, job[g])' => f = g
        BY Zenon, <2>0, <3>1 DEF OnlyHandled, Kept, Handles
      <3>3. ASSUME NEW t \in Sinks, job[g] \in taken'[t] PROVE result'[g][t] = "ok"
        <4>1. CASE job[g] \in taken[t]
          <5>1. result[g][t] = "ok"
            BY Zenon, <3>1, <4>1 DEF OnlyHandled
          <5>2. <<g, t>> # <<h, s>>
            BY Zenon, <2>0, <5>1, NoneAssumption DEF Answers
          <5> QED BY Zenon, <2>1, <5>1, <5>2
        <4>2. CASE pc[h] = "push" /\ t = s /\ job[g] = job[h] /\ a = "ok"
          <5>1. g = h
            BY Zenon, <3>1, <4>2 DEF OnlyHandled, Handles
          <5> QED BY Zenon, <2>1, <4>2, <5>1
        <4> QED BY Zenon, <2>2, <3>3, <4>1, <4>2
      <3> QED BY Zenon, <3>1, <3>2, <3>3 DEF OnlyHandled
    <2>5. ASSUME NEW t \in Sinks, NEW j \in Keys, store'[t][j] \in taken'[t] PROVE JustPushed(t, j)'
      <3>1. store[t][j] \in taken[t]
        <4>1. pc[h] = "push" => store[t][j] # job[h]
          <5>1. pc[h] = "push" => ~Kept(job[h])
            BY Zenon DEF UniqueInv, OnlyHandled
          <5> QED BY Zenon, <5>1 DEF Kept
        <4> QED BY Zenon, <2>0, <2>2, <2>5, <4>1
      <3> QED BY ZenonT(60), <2>0, <3>1 DEF UniqueInv, JustPushed
    <2> QED BY Zenon, <2>3, <2>4, <2>5 DEF UniqueInv
  <1>5. ASSUME NEW h \in Handlers, FinishEvent(h) PROVE UniqueInv'
    <2>0. /\ UNCHANGED <<todo, taken, batch, attempt>> /\ pc[h] = "push" /\ OnlyHandled(h)
          /\ \A g \in Handlers : pc'[g] = "push" =>
                g # h /\ pc[g] = "push" /\ job'[g] = job[g] /\ result'[g] = result[g]
      BY ZenonT(60), <1>5, ReturnTypes DEF FinishEvent, sourceVars, sinkVars, retryVars, UniqueInv
    <2>1. \A s \in Sinks, k \in Keys :
              store'[s][k] = store[s][k] \/ (s \in FailedSinks(h) /\ store'[s][k] = job[h])
      BY <1>5, FinishEventEffect
    <2>2. \A e : Kept(e)' => Kept(e) \/ e = job[h]
      BY ZenonT(60), <2>0, <2>1 DEF Kept
    <2>3. ASSUME NEW e \in todo' PROVE OnlyWaits(e)'
      <3>1. OnlyWaits(e)
        BY Zenon, <2>0, <2>3 DEF UniqueInv
      <3>2. e # job[h]
        BY Zenon, <2>0, <3>1 DEF OnlyWaits, Handles
      <3>3. \A g \in Handlers : ~Handles(g, e)'
        BY Zenon, <2>0, <3>1 DEF OnlyWaits, Handles
      <3> QED BY Zenon, <2>0, <2>2, <3>1, <3>2, <3>3 DEF OnlyWaits
    <2>4. ASSUME NEW g \in Handlers, pc'[g] = "push" PROVE OnlyHandled(g)'
      <3>1. OnlyHandled(g) /\ pc[g] = "push" /\ job'[g] = job[g] /\ g # h
        BY Zenon, <2>0, <2>4 DEF UniqueInv
      <3>2. job[g] # job[h]
        BY Zenon, <2>0, <3>1 DEF OnlyHandled, Handles
      <3>3. ~Kept(job[g])'
        <4>1. PICK e : e = job[g]
          BY Zenon
        <4>2. ~Kept(e)'
          BY Zenon, <2>2, <3>1, <3>2, <4>1 DEF OnlyHandled
        <4> QED BY Zenon, <3>1, <4>1, <4>2, JobIsKept
      <3>4. \A f \in Handlers : Handles(f, job[g])' => f = g
        BY Zenon, <2>0, <3>1 DEF OnlyHandled, Handles
      <3> QED BY Zenon, <2>0, <2>4, <3>1, <3>3, <3>4 DEF OnlyHandled
    <2>5. ASSUME NEW s \in Sinks, NEW k \in Keys, store'[s][k] \in taken'[s] PROVE JustPushed(s, k)'
      <3>1. s \in FailedSinks(h) => job[h] \notin taken[s]
        BY Zenon, <2>0 DEF OnlyHandled, FailedSinks
      <3>2. store'[s][k] = store[s][k]
        BY Zenon, <2>0, <2>1, <2>5, <3>1
      <3> QED BY Zenon, <2>0, <2>5, <3>2 DEF UniqueInv, JustPushed
    <2> QED BY Zenon, <2>3, <2>4, <2>5 DEF UniqueInv
  <1>6. ASSUME NEW h \in Handlers, FallBack(h) PROVE UniqueInv'
    <2>1. \A g \in Handlers : pc'[g] = "push" => pc[g] = "push" /\ job'[g] = job[g] /\ result'[g] = result[g]
      BY Zenon, <1>6 DEF Types, FallBack
    <2>2. UNCHANGED <<todo, taken, store, batch, attempt>>
      BY Zenon, <1>6 DEF FallBack, sourceVars, sinkVars, queueVars, retryVars
    <2> QED BY Zenon, <2>1, <2>2, UniqueKept DEF Kept
  <1>7. ASSUME NEW h \in Handlers, FinishFull(h) PROVE UniqueInv'
    <2>1. \A g \in Handlers : pc'[g] = "push" => pc[g] = "push" /\ job'[g] = job[g] /\ result'[g] = result[g]
      BY Zenon, <1>7, ReturnTypes DEF FinishFull
    <2>2. UNCHANGED <<todo, taken, store, batch, attempt>>
      BY Zenon, <1>7 DEF FinishFull, sourceVars, sinkVars, retryVars
    <2> QED BY Zenon, <2>1, <2>2, UniqueKept DEF Kept
  <1>8. CASE StartCycle
    <2>1. UNCHANGED <<todo, pc, job, result, taken, store, attempt>>
      BY Zenon, <1>8 DEF StartCycle, sourceVars, handlerVars, sinkVars, queueVars
    <2>2. \A e \in Event : Kept(e)' => Kept(e)
      BY Zenon, <1>8, CopyKeepsNothingNew
    <2> QED BY Zenon, <2>1, <2>2, UniqueKept
  <1>9. CASE RetryOne
    <2>0. UNCHANGED <<todo, pc, job, result, store>> /\ attempt = None
      BY Zenon, <1>9 DEF RetryOne, sourceVars, handlerVars, queueVars
    <2>1. PICK q \in batch, a \in Answers :
              /\ batch' = batch \ {q} /\ q.sink \in Sinks
              /\ attempt' = [sink |-> q.sink, full |-> q.full, item |-> q.item, answer |-> a]
              /\ attempt' # None
              /\ ~q.full => taken' = IF a = "ok" THEN [taken EXCEPT ![q.sink] = @ \cup {q.item}] ELSE taken
              /\ q.full => UNCHANGED taken
      BY ZenonT(60), <1>9, RetryOneEffect
    <2>2. \A t \in Sinks : \A e \in taken'[t] :
              e \in taken[t] \/ (~q.full /\ t = q.sink /\ e = q.item /\ a = "ok")
      <3>1. CASE UNCHANGED taken
        BY Zenon, <3>1
      <3>2. CASE ~q.full /\ a = "ok" /\ taken' = [taken EXCEPT ![q.sink] = @ \cup {q.item}]
        BY Zenon, <3>2 DEF Types
      <3> QED BY Zenon, <2>1, <3>1, <3>2
    <2>3. ~q.full => Kept(q.item)
      BY Zenon DEF Kept
    <2>4. ASSUME NEW e \in todo' PROVE OnlyWaits(e)'
      <3>1. OnlyWaits(e)
        BY Zenon, <2>0, <2>4 DEF UniqueInv
      <3>2. ~q.full => e # q.item
        BY Zenon, <2>3, <3>1 DEF OnlyWaits
      <3>3. \A t \in Sinks : e \notin taken'[t]
        BY Zenon, <2>2, <3>1, <3>2 DEF OnlyWaits
      <3> QED BY Zenon, <2>0, <2>1, <3>1, <3>3 DEF OnlyWaits, Kept, Handles
    <2>5. ASSUME NEW g \in Handlers, pc'[g] = "push" PROVE OnlyHandled(g)'
      <3>1. OnlyHandled(g) /\ pc[g] = "push" /\ job'[g] = job[g] /\ result'[g] = result[g]
        BY Zenon, <2>0, <2>5 DEF UniqueInv
      <3>2. ~q.full => job[g] # q.item
        BY Zenon, <2>3, <3>1 DEF OnlyHandled
      <3>3. ~Kept(job[g])' /\ \A f \in Handlers : Handles(f, job[g])' => f = g
        BY Zenon, <2>0, <2>1, <3>1 DEF OnlyHandled, Kept, Handles
      <3>4. \A t \in Sinks : job'[g] \in taken'[t] => result'[g][t] = "ok"
        BY Zenon, <2>2, <3>1, <3>2 DEF OnlyHandled
      <3> QED BY Zenon, <3>3, <3>4 DEF OnlyHandled
    <2>6. ASSUME NEW t \in Sinks, NEW j \in Keys, store'[t][j] \in taken'[t] PROVE JustPushed(t, j)'
      <3>1. store[t][j] \notin taken[t]
        BY Zenon, <2>0 DEF UniqueInv, JustPushed
      <3>2. ~q.full /\ t = q.sink /\ store[t][j] = q.item /\ a = "ok"
        BY Zenon, <2>0, <2>2, <2>6, <3>1
      <3> QED BY Zenon, <2>0, <2>1, <3>2 DEF JustPushed
    <2> QED BY Zenon, <2>4, <2>5, <2>6 DEF UniqueInv
  <1>10. CASE RetryDone
    <2>0. UNCHANGED <<todo, pc, job, result, taken, batch>>
      BY Zenon, <1>10 DEF RetryDone, sourceVars, handlerVars, sinkVars
    <2>1. \A s \in Sinks, k \in Keys : store'[s][k] # None => store'[s][k] = store[s][k]
      BY ZenonT(60), <1>10, DoneEffect
    <2>2. \A e \in Event : Kept(e)' => Kept(e)
      BY ZenonT(60), <2>0, <2>1, NoneAssumption DEF Kept
    <2>3. ASSUME NEW e \in todo' PROVE OnlyWaits(e)'
      <3>1. OnlyWaits(e) /\ e \in Event
        BY Zenon, <2>0, <2>3 DEF UniqueInv, Types
      <3> QED BY Zenon, <2>0, <2>2, <3>1 DEF OnlyWaits, Handles
    <2>4. ASSUME NEW g \in Handlers, pc'[g] = "push" PROVE OnlyHandled(g)'
      <3>1. OnlyHandled(g) /\ pc[g] = "push" /\ job[g] \in Event
        BY Zenon, <2>0, <2>4 DEF UniqueInv, Types
      <3>2. ~Kept(job[g])'
        <4>1. PICK e \in Event : e = job[g]
          BY Zenon, <3>1
        <4>2. ~Kept(e)'
          BY Zenon, <2>2, <3>1, <4>1 DEF OnlyHandled
        <4> QED BY Zenon, <2>0, <4>1, <4>2, JobIsKept
      <3> QED BY Zenon, <2>0, <3>1, <3>2 DEF OnlyHandled, Handles
    <2>5. \A s \in Sinks, k \in Keys : store'[s][k] \notin taken'[s]
      <3> SUFFICES ASSUME NEW s \in Sinks, NEW k \in Keys, store'[s][k] \in taken'[s] PROVE FALSE
        BY Zenon
      <3>1. store'[s][k] # None
        BY Zenon, <2>0, NoneAssumption DEF Types
      <3>2. store'[s][k] = store[s][k] /\ JustPushed(s, k)
        BY Zenon, <2>0, <2>1, <3>1 DEF UniqueInv
      <3> QED BY Zenon, <1>10, <3>1, <3>2, DoneDeletes DEF JustPushed
    <2> QED BY Zenon, <2>3, <2>4, <2>5 DEF UniqueInv
  <1>11. CASE UNCHANGED vars
    BY ZenonT(60), <1>11, UniqueKept DEF vars, Kept
  <1> QED BY Zenon, <1>1, <1>2, <1>3, <1>4, <1>5, <1>6, <1>7, <1>8, <1>9, <1>10, <1>11 DEF Next

-----------------------------------------------------------------------------
\* A full push that succeeds brings the provider's generation.
LEMMA FullDoneRises ==
    ASSUME Types, FullInv, NEW s \in Sinks, NEW how, NEW a, PushFull(s, how, a)
    PROVE  /\ a = "ok" => fullDone'[s] = generation
           /\ \A t \in Sinks : fullDone'[t] = fullDone[t] \/ (t = s /\ fullDone'[t] = generation)
           /\ how = "fallback" /\ a = "stale" => "fallback" \in StaleIn
  BY DEF PushFull, Types

\* A step that brings full pushes further, and changes nothing else that
\* concerns them, keeps failed ones queued.
LEMMA FullsKept ==
    ASSUME Types, FullInv, UNCHANGED <<generation, fullStore, fullFailed>>,
           \A s \in Sinks : fullDone'[s] = fullDone[s] \/ fullDone'[s] = generation
    PROVE  /\ \A s \in Sinks : fullDone'[s] \in -1 .. generation /\ fullDone'[s] >= fullDone[s]
           /\ FullsAreRetried'
  <1>1. generation \in Nat /\ \A s \in Sinks : fullDone[s] \in -1 .. generation /\ fullFailed[s] \in Int
    BY Zenon DEF Types, FullInv
  <1>2. \A s \in Sinks : fullDone'[s] \in -1 .. generation /\ fullDone'[s] >= fullDone[s]
    BY <1>1
  <1>3. \A s \in Sinks : fullFailed[s] > fullDone'[s] => fullFailed[s] > fullDone[s]
    BY <1>1, <1>2
  <1> QED BY Zenon, <1>2, <1>3 DEF FullInv, FullsAreRetried

\* Only the handlers change in this step, and none starts a full push or gets
\* an answer to one.
LEMMA FullInvKept ==
    ASSUME Types, FullInv, UNCHANGED <<generation, fullDone, fullStore, batch, attempt, fullFailed>>,
           \A h \in Handlers : pc'[h] \in Attempts =>
                pc'[h] = pc[h] /\ job'[h] = job[h] /\ result'[h] = result[h]
    PROVE  FullInv'
  <1>1. ASSUME NEW h \in Handlers, pc'[h] \in Attempts
        PROVE  /\ job'[h].sequence \in 1 .. generation
               /\ \A s \in Sinks : pc'[h] = "fallback" => result'[h][s] # "stale"
    BY Zenon, <1>1 DEF FullInv
  <1>2. "fallback" \in Attempts
    BY Zenon DEF Attempts
  <1> QED BY Zenon, <1>1, <1>2 DEF FullInv, FullsAreRetried

\* No step gives up a full push that a sink still needs.
LEMMA FullStep == FullsReach /\ Types /\ FullInv /\ [Next]_vars => FullInv'
  <1> SUFFICES ASSUME FullsReach, Types, FullInv, [Next]_vars
               PROVE  FullInv'
    BY Zenon
  <1>0. Types'
    BY Zenon, TypesStep
  <1>1. ASSUME NEW k \in Keys, SourceChange(k) PROVE FullInv'
    <2>0. UNCHANGED <<pc, job, result, fullDone, fullStore, fullFailed, batch, attempt>>
      BY Zenon, <1>1 DEF SourceChange, handlerVars, sinkVars, queueVars, retryVars
    <2>1. generation \in Nat /\ generation' = generation + 1
      BY Zenon, <1>1 DEF SourceChange, Types
    <2>2. \A h \in Handlers : pc[h] \in Attempts => job[h].sequence \in 1 .. generation'
      BY <2>1 DEF FullInv
    <2>3. \A s \in Sinks : fullDone[s] \in -1 .. generation'
      BY <2>1 DEF FullInv
    <2>4. \A s \in Sinks : fullStore[s] # None => fullStore[s].sequence <= generation'
      <3>1. \A s \in Sinks : fullStore[s] # None => fullStore[s].sequence \in Nat
        BY Zenon DEF Types, FullEntry
      <3> QED BY <2>1, <3>1 DEF FullInv
    <2>5. \A q \in batch : q.full => q.item.sequence <= generation'
      <3>1. \A q \in batch : q.full => q.item.sequence \in Nat
        BY Zenon DEF Types, Entry, FullEntry
      <3> QED BY <2>1, <3>1 DEF FullInv
    <2>6. generation' > 0
      BY <2>1
    <2> QED BY Zenon, <2>0, <2>2, <2>3, <2>4, <2>5, <2>6 DEF FullInv, FullsAreRetried
  <1>2. ASSUME NEW h \in Handlers, TakeEvent(h) PROVE FullInv'
    <2>1. \A g \in Handlers : pc'[g] \in Attempts => pc'[g] = pc[g] /\ job'[g] = job[g] /\ result'[g] = result[g]
      BY Zenon, <1>2 DEF TakeEvent, Types, Attempts
    <2> QED BY Zenon, <1>2, <2>1, FullInvKept DEF TakeEvent, sinkVars, queueVars, retryVars
  <1>3. ASSUME NEW h \in Handlers, TakeFull(h) PROVE FullInv'
    <2>0. UNCHANGED <<generation, result, fullDone, fullStore, fullFailed, batch, attempt>>
      BY Zenon, <1>3 DEF TakeFull, sourceVars, sinkVars, queueVars, retryVars
    <2>1. /\ pc'[h] = "operation" /\ job'[h].sequence = generation
          /\ \A g \in Handlers \ {h} : pc'[g] = pc[g] /\ job'[g] = job[g]
      BY ZenonT(60), <1>3 DEF TakeFull, Types
    <2>2. generation \in 1 .. generation
      BY DEF FullInv, Types
    <2>3. \A g \in Handlers : pc'[g] \in Attempts => job'[g].sequence \in 1 .. generation
      BY Zenon, <2>1, <2>2 DEF FullInv
    <2>4. \A g \in Handlers, s \in Sinks : pc'[g] = "fallback" => result'[g][s] # "stale"
      BY ZenonT(60), <2>0, <2>1 DEF FullInv
    <2> QED BY Zenon, <2>0, <2>3, <2>4 DEF FullInv, FullsAreRetried
  <1>4. ASSUME NEW h \in Handlers, NEW s \in Sinks, FanOut(h, s) PROVE FullInv'
    <2>0. UNCHANGED <<generation, pc, job, fullStore, fullFailed, batch, attempt>>
      BY Zenon, <1>4 DEF FanOut, sourceVars, queueVars, retryVars
    <2>1. PICK a \in Answers :
              /\ \/ pc[h] = "push" /\ PushEvent(s, job[h], a)
                 \/ pc[h] \in Attempts /\ PushFull(s, pc[h], a)
              /\ result' = [result EXCEPT ![h][s] = a]
      BY ZenonT(60), <1>4 DEF FanOut
    <2>2. /\ result'[h][s] = a
          /\ \A g \in Handlers, t \in Sinks : <<g, t>> # <<h, s>> => result'[g][t] = result[g][t]
      BY <2>1, SetEntry DEF Types
    <2>3. \A t \in Sinks : fullDone'[t] = fullDone[t] \/ fullDone'[t] = generation
      <3>1. CASE pc[h] = "push" /\ PushEvent(s, job[h], a)
        BY Zenon, <3>1 DEF PushEvent
      <3>2. CASE pc[h] \in Attempts /\ PushFull(s, pc[h], a)
        BY Zenon, <3>2, FullDoneRises
      <3> QED BY Zenon, <2>1, <3>1, <3>2
    <2>4. /\ \A t \in Sinks : fullDone'[t] \in -1 .. generation /\ fullDone'[t] >= fullDone[t]
          /\ FullsAreRetried'
      BY Zenon, <2>0, <2>3, FullsKept
    <2>5. ASSUME NEW g \in Handlers, NEW t \in Sinks, pc'[g] = "fallback" PROVE result'[g][t] # "stale"
      <3>1. CASE g = h /\ t = s
        <4>1. pc[h] = "fallback" /\ result'[g][t] = a
          BY Zenon, <2>0, <2>2, <2>5, <3>1
        <4>2. PushFull(s, "fallback", a)
          BY Zenon, <2>1, <4>1
        <4> QED BY Zenon, <4>1, <4>2, FullDoneRises DEF FullsReach
      <3>2. CASE <<g, t>> # <<h, s>>
        <4>1. pc[g] = "fallback" /\ result'[g][t] = result[g][t]
          BY Zenon, <2>0, <2>2, <2>5, <3>2
        <4> QED BY Zenon, <4>1 DEF FullInv
      <3> QED BY Zenon, <3>1, <3>2
    <2>6. attempt # None /\ attempt.full /\ attempt.answer = "ok" =>
              attempt.item.sequence <= fullDone'[attempt.sink]
      <3>1. attempt # None /\ attempt.full => attempt.sink \in Sinks /\ attempt.item.sequence \in Nat
        BY Zenon DEF Types, Attempt, FullEntry
      <3>2. \A t \in Sinks : fullDone[t] \in Int
        BY Zenon DEF Types
      <3>3. \A t \in Sinks : fullDone'[t] \in Int
        BY Zenon, <1>0 DEF Types
      <3> QED BY <2>4, <3>1, <3>2, <3>3 DEF FullInv
    <2> QED BY Zenon, <2>0, <2>4, <2>5, <2>6 DEF FullInv
  <1>5. ASSUME NEW h \in Handlers, FinishEvent(h) PROVE FullInv'
    <2>1. \A g \in Handlers : pc'[g] \in Attempts => pc'[g] = pc[g] /\ job'[g] = job[g] /\ result'[g] = result[g]
      BY Zenon, <1>5, ReturnTypes DEF FinishEvent, Attempts
    <2> QED BY Zenon, <1>5, <2>1, FullInvKept DEF FinishEvent, sourceVars, sinkVars, retryVars
  <1>6. ASSUME NEW h \in Handlers, FallBack(h) PROVE FullInv'
    <2>0. UNCHANGED <<generation, job, fullDone, fullStore, fullFailed, batch, attempt>>
      BY Zenon, <1>6 DEF FallBack, sourceVars, sinkVars, queueVars, retryVars
    <2>1. /\ pc[h] \in Attempts /\ \A t \in Sinks : result'[h][t] = None
          /\ \A g \in Handlers \ {h} : pc'[g] = pc[g] /\ result'[g] = result[g]
      BY Zenon, <1>6 DEF FallBack, Types, Attempts
    <2>2. \A g \in Handlers : pc'[g] \in Attempts => job'[g].sequence \in 1 .. generation
      BY Zenon, <2>0, <2>1 DEF FullInv
    <2>3. \A g \in Handlers, t \in Sinks : pc'[g] = "fallback" => result'[g][t] # "stale"
      BY ZenonT(60), <2>1, NoneAssumption DEF FullInv, Answers
    <2> QED BY Zenon, <2>0, <2>2, <2>3 DEF FullInv, FullsAreRetried
  <1>7. ASSUME NEW h \in Handlers, FinishFull(h) PROVE FullInv'
    <2> DEFINE n == job[h].sequence
    <2>0. UNCHANGED <<generation, fullDone, batch, attempt>>
      BY Zenon, <1>7 DEF FinishFull, sourceVars, sinkVars, retryVars
    <2>1. \A g \in Handlers : pc'[g] \in Attempts => pc'[g] = pc[g] /\ job'[g] = job[g] /\ result'[g] = result[g]
      BY Zenon, <1>7, ReturnTypes DEF FinishFull, Attempts
    <2>2. n \in 1 .. generation /\ generation \in Nat
      BY Zenon, <1>7 DEF FullInv, FinishFull, Types
    <2>3. ~Dropped(h)
      BY Zenon DEF Dropped, StaleSinks, FullInv
    <2>4. \A s \in Sinks :
              /\ fullFailed'[s] = IF s \in FailedSinks(h) /\ n > fullFailed[s] THEN n ELSE fullFailed[s]
              /\ fullStore'[s] = IF s \in FailedSinks(h) THEN AddedFull(fullStore[s], job[h])
                                 ELSE fullStore[s]
      BY Zenon, <1>7, <2>3 DEF FinishFull
    <2>5. ASSUME NEW s \in Sinks, fullStore[s] # None
          PROVE  fullStore[s].sequence \in Nat /\ fullStore[s].sequence <= generation
      BY Zenon, <2>5 DEF Types, FullEntry, FullInv
    <2>6. ASSUME NEW s \in Sinks, s \in FailedSinks(h)
          PROVE  /\ fullStore'[s] # None
                 /\ fullStore'[s].sequence \in Nat
                 /\ fullStore'[s].sequence \in n .. generation
                 /\ fullStore[s] # None => fullStore'[s].sequence >= fullStore[s].sequence
      <3>1. fullStore'[s] = IF fullStore[s] # None /\ fullStore[s].sequence > n THEN fullStore[s]
                            ELSE [sequence |-> n]
        BY <2>2, <2>4, <2>6 DEF AddedFull
      <3>2. [sequence |-> n] \in FullEntry /\ [sequence |-> n].sequence = n
        BY <2>2 DEF FullEntry
      <3>3. [sequence |-> n] # None
        BY ZenonT(60), <3>2, NoneAssumption
      <3>4. CASE fullStore[s] # None /\ fullStore[s].sequence > n
        BY <2>2, <2>5, <3>1, <3>4
      <3>5. CASE fullStore'[s] = [sequence |-> n] /\ (fullStore[s] # None => ~(fullStore[s].sequence > n))
        <4>1. fullStore'[s].sequence = n
          BY Zenon, <3>2, <3>5
        <4> QED BY <2>2, <2>5, <3>3, <3>5, <4>1
      <3> QED BY ZenonT(60), <3>1, <3>4, <3>5
    <2>7. \A s \in Sinks : fullStore'[s] # None => fullStore'[s].sequence <= generation
      <3> SUFFICES ASSUME NEW s \in Sinks, fullStore'[s] # None PROVE fullStore'[s].sequence <= generation
        BY Zenon
      <3>1. CASE s \in FailedSinks(h)
        BY <2>2, <2>6, <3>1
      <3>2. CASE s \notin FailedSinks(h)
        BY Zenon, <2>4, <2>5, <3>2
      <3> QED BY Zenon, <3>1, <3>2
    <2>8. FullsAreRetried'
      <3> SUFFICES ASSUME NEW s \in Sinks, fullFailed'[s] > fullDone[s]
                   PROVE  fullStore'[s] # None /\ fullStore'[s].sequence >= fullFailed'[s]
        BY Zenon, <2>0 DEF FullsAreRetried
      <3>0. fullFailed[s] \in Int
        BY Zenon DEF Types
      <3>1. fullFailed[s] > fullDone[s] => fullStore[s] # None /\ fullStore[s].sequence >= fullFailed[s]
        BY Zenon DEF FullInv, FullsAreRetried
      <3>2. CASE s \notin FailedSinks(h)
        BY ZenonT(60), <2>4, <3>1, <3>2
      <3>3. CASE s \in FailedSinks(h) /\ n > fullFailed[s]
        <4>1. fullFailed'[s] = n
          BY ZenonT(60), <2>4, <3>3
        <4> QED BY <2>2, <2>6, <3>3, <4>1
      <3>4. CASE s \in FailedSinks(h) /\ ~(n > fullFailed[s])
        <4>1. fullFailed'[s] = fullFailed[s] /\ fullStore[s] # None /\ fullStore[s].sequence >= fullFailed[s]
          BY Zenon, <2>4, <3>1, <3>4
        <4>2. fullStore[s].sequence \in Nat
          BY Zenon, <2>5, <4>1
        <4>3. /\ fullStore'[s] # None /\ fullStore'[s].sequence \in Nat
              /\ fullStore'[s].sequence >= fullStore[s].sequence
          BY Zenon, <2>6, <3>4, <4>1
        <4> QED BY <3>0, <4>1, <4>2, <4>3
      <3> QED BY Zenon, <3>2, <3>3, <3>4
    <2>9. /\ \A g \in Handlers : pc'[g] \in Attempts => job'[g].sequence \in 1 .. generation
          /\ \A g \in Handlers, s \in Sinks : pc'[g] = "fallback" => result'[g][s] # "stale"
      BY ZenonT(60), <2>1 DEF FullInv, Attempts
    <2> QED BY Zenon, <2>0, <2>7, <2>8, <2>9 DEF FullInv
  <1>8. CASE StartCycle
    <2>0. UNCHANGED <<generation, pc, job, result, fullDone, fullStore, fullFailed, attempt>>
      BY Zenon, <1>8 DEF StartCycle, sourceVars, handlerVars, sinkVars, queueVars
    <2>1. \A q \in batch' : q.full => q.item.sequence <= generation
      BY Zenon, <1>8, Copied DEF FullInv
    <2> QED BY Zenon, <2>0, <2>1 DEF FullInv, FullsAreRetried
  <1>9. CASE RetryOne
    <2>0. UNCHANGED <<generation, pc, job, result, fullStore, fullFailed>>
      BY Zenon, <1>9 DEF RetryOne, sourceVars, handlerVars, queueVars
    <2>1. PICK q \in batch, a \in Answers :
            /\ IF q.full THEN PushFull(q.sink, "operation", a) ELSE PushEvent(q.sink, q.item, a)
            /\ batch' = batch \ {q}
            /\ attempt' = [sink |-> q.sink, full |-> q.full, item |-> q.item, answer |-> a]
      BY Zenon, <1>9 DEF RetryOne
    <2>2. q.sink \in Sinks
      BY Zenon DEF Types, Entry
    <2>3. /\ \A t \in Sinks : fullDone'[t] = fullDone[t] \/ fullDone'[t] = generation
          /\ q.full /\ a = "ok" => fullDone'[q.sink] = generation
      <3>1. CASE q.full /\ PushFull(q.sink, "operation", a)
        BY ZenonT(60), <2>2, <3>1, FullDoneRises
      <3>2. CASE ~q.full /\ PushEvent(q.sink, q.item, a)
        BY Zenon, <3>2 DEF PushEvent
      <3> QED BY Zenon, <2>1, <3>1, <3>2
    <2>4. /\ \A t \in Sinks : fullDone'[t] \in -1 .. generation
          /\ FullsAreRetried'
      BY Zenon, <2>0, <2>3, FullsKept
    <2>5. attempt'.full /\ attempt'.answer = "ok" => attempt'.item.sequence <= fullDone'[attempt'.sink]
      BY Zenon, <2>1, <2>3 DEF FullInv
    <2>6. \A p \in batch' : p.full => p.item.sequence <= generation
      BY Zenon, <2>1 DEF FullInv
    <2> QED BY Zenon, <2>0, <2>4, <2>5, <2>6 DEF FullInv
  <1>10. CASE RetryDone
    <2>0. UNCHANGED <<generation, pc, job, result, fullDone, batch>> /\ attempt' = None /\ attempt # None
      BY Zenon, <1>10 DEF RetryDone, sourceVars, handlerVars, sinkVars
    <2>1. CASE ~attempt.full
      <3>1. UNCHANGED <<fullStore, fullFailed>>
        BY Zenon, <1>10, <2>1 DEF RetryDone
      <3> QED BY Zenon, <2>0, <3>1 DEF FullInv, FullsAreRetried
    <2>2. CASE attempt.full
      <3> DEFINE d == attempt.sink
                 m == attempt.item.sequence
      <3>0. d \in Sinks /\ m \in Nat
        BY ZenonT(60), <2>0, <2>2 DEF Types, Attempt, FullEntry
      <3>1. \A s \in Sinks : fullDone[s] \in Int /\ fullDone[s] >= -1 /\ fullFailed[s] \in Int
        BY DEF Types, FullInv
      <3>2. /\ fullStore' = IF GivesUp(attempt.answer) /\ SamePending(fullStore[d], attempt.item)
                            THEN [fullStore EXCEPT ![d] = None] ELSE fullStore
            /\ fullFailed' = IF attempt.answer \in {"stale", "permanent"} /\ fullFailed[d] <= m
                             THEN [fullFailed EXCEPT ![d] = -1] ELSE fullFailed
        BY Zenon, <1>10, <2>2 DEF RetryDone
      <3>3. \A s \in Sinks \ {d} : fullStore'[s] = fullStore[s] /\ fullFailed'[s] = fullFailed[s]
        BY Zenon, <3>2 DEF Types
      <3>4. fullStore'[d] = fullStore[d] \/ (fullStore'[d] = None /\ fullStore[d] = attempt.item)
        BY Zenon, <3>0, <3>2 DEF Types, SamePending
      <3>5. fullFailed'[d] = -1 \/ fullFailed'[d] = fullFailed[d]
        BY Zenon, <3>0, <3>2 DEF Types
      <3>6. fullFailed[d] > fullDone[d] => fullStore[d] # None /\ fullStore[d].sequence >= fullFailed[d]
        BY Zenon, <3>0 DEF FullInv, FullsAreRetried
      <3>7. fullFailed'[d] > fullDone[d] => fullStore'[d] # None /\ fullStore'[d].sequence >= fullFailed'[d]
        <4> SUFFICES ASSUME fullFailed'[d] > fullDone[d]
                     PROVE  fullStore'[d] # None /\ fullStore'[d].sequence >= fullFailed'[d]
          BY Zenon
        <4>1. fullFailed'[d] = fullFailed[d]
          BY <3>0, <3>1, <3>5
        <4>2. fullStore[d] # None /\ fullStore[d].sequence >= fullFailed[d]
          BY Zenon, <3>6, <4>1
        <4>3. CASE fullStore'[d] = fullStore[d]
          BY Zenon, <4>1, <4>2, <4>3
        <4>4. CASE fullStore[d] = attempt.item /\ GivesUp(attempt.answer)
          <5>1. m >= fullFailed[d]
            BY Zenon, <4>2, <4>4
          <5>2. attempt.answer # "ok"
            <6>1. attempt.answer = "ok" => m <= fullDone[d]
              BY Zenon, <2>0, <2>2 DEF FullInv
            <6> QED BY <3>0, <3>1, <4>1, <5>1, <6>1
          <5>3. fullFailed'[d] = -1
            BY Zenon, <3>0, <3>1, <3>2, <4>4, <5>1, <5>2 DEF GivesUp, Types
          <5> QED BY <3>0, <3>1, <5>3
        <4> QED BY Zenon, <3>0, <3>2, <4>3, <4>4 DEF SamePending
      <3>8. FullsAreRetried'
        <4> SUFFICES ASSUME NEW s \in Sinks, fullFailed'[s] > fullDone[s]
                     PROVE  fullStore'[s] # None /\ fullStore'[s].sequence >= fullFailed'[s]
          BY Zenon, <2>0 DEF FullsAreRetried
        <4>1. CASE s = d
          BY Zenon, <3>7, <4>1
        <4>2. CASE s # d
          BY Zenon, <3>3, <4>2 DEF FullInv, FullsAreRetried
        <4> QED BY Zenon, <4>1, <4>2
      <3>9. \A s \in Sinks : fullStore'[s] # None => fullStore'[s].sequence <= generation
        BY Zenon, <3>3, <3>4 DEF FullInv
      <3> QED BY Zenon, <2>0, <3>8, <3>9 DEF FullInv
    <2> QED BY Zenon, <2>1, <2>2
  <1>11. CASE UNCHANGED vars
    BY Zenon, <1>11, FullInvKept DEF vars
  <1> QED BY Zenon, <1>1, <1>2, <1>3, <1>4, <1>5, <1>6, <1>7, <1>8, <1>9, <1>10, <1>11 DEF Next

-----------------------------------------------------------------------------
\* At the start nothing is handled, queued or acknowledged.
LEMMA InitIInv == Init => IInv
  <1> SUFFICES ASSUME Init PROVE IInv
    BY Zenon
  <1>1. Types
    BY Zenon, InitTypes
  <1>2. /\ todo = {} /\ batch = {} /\ attempt = None
        /\ \A h \in Handlers : pc[h] = "idle"
        /\ \A s \in Sinks : taken[s] = {}
        /\ \A s \in Sinks, k \in Keys : ledger[s][k] = None /\ store[s][k] = None
        /\ \A k \in Keys : handled[k] = 0
    BY Zenon DEF Init
  <1>3. SourceInv
    BY Zenon, <1>2 DEF SourceInv, LedgersBehind
  <1>4. RevisionInv
    BY Zenon, <1>2 DEF RevisionInv, NothingForgotten
  <1>5. UniqueInv
    BY Zenon, <1>2 DEF UniqueInv
  <1> QED BY Zenon, <1>1, <1>3, <1>4, <1>5 DEF IInv

\* At the start no full push has failed or succeeded.
LEMMA InitFull == FullsReach /\ Init => FullInv
  <1> SUFFICES ASSUME FullsReach, Init PROVE FullInv
    BY Zenon
  <1>1. /\ batch = {} /\ attempt = None /\ generation = Generation
        /\ \A h \in Handlers : pc[h] = "idle"
        /\ \A s \in Sinks : fullStore[s] = None /\ fullFailed[s] = -1 /\ fullDone[s] = -1
    BY Zenon DEF Init
  <1>2. generation > 0 /\ -1 \in -1 .. generation
    BY <1>1, GenerationAssumption DEF FullsReach
  <1>3. FullsAreRetried
    BY <1>1 DEF FullsAreRetried
  <1> QED BY Zenon, <1>1, <1>2, <1>3 DEF FullInv, Attempts

\* The inductive invariant of the queue holds in every state.
THEOREM QueueInvariant == Spec => []IInv
  <1>1. IInv /\ [Next]_vars => IInv'
    BY Zenon, TypesStep, SourceStep, RevisionStep, UniqueStep DEF IInv
  <1> QED BY InitIInv, <1>1, PTL DEF Spec

\* For every handler, sink and identity, and however handlers and the retry
\* cycle interleave: a revision whose handler returned is at every sink, or
\* queued for it, or refused by it for good.
THEOREM NothingIsForgotten == Spec => []NothingForgotten
  <1>1. IInv => NothingForgotten
    BY Zenon DEF IInv, RevisionInv
  <1> QED BY QueueInvariant, <1>1, PTL

\* Between retries nothing is queued for a sink that the sink has acknowledged.
THEOREM AcknowledgedIsNotQueued == Spec => []NoSecondPush
  <1>1. IInv => NoSecondPush
    BY Zenon DEF IInv, UniqueInv, JustPushed, NoSecondPush
  <1> QED BY QueueInvariant, <1>1, PTL

\* If the provider starts with a generation, and no sink finds a revalidated
\* full push stale, a full push that failed at a sink stays queued for it until
\* one of that generation or a later one succeeds there.
THEOREM FailedFullsStayQueued == FullsReach /\ Spec => []FullsAreRetried
  <1>1. FullsReach /\ Init => FullInv
    BY Zenon, InitFull
  <1>2. IInv /\ FullsReach /\ FullInv /\ [Next]_vars => FullsReach' /\ FullInv'
    BY Zenon, FullStep DEF IInv, FullsReach
  <1>3. FullInv => FullsAreRetried
    BY Zenon DEF FullInv
  <1> QED BY <1>1, <1>2, <1>3, QueueInvariant, PTL DEF Spec
=============================================================================
