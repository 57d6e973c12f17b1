----------------------------- MODULE RetryQueue -----------------------------
(***************************************************************************)
(* The worker, its fan-out and its retry queue (pkg/worker/worker.go, the  *)
(* FanoutSink of fanout.go, and unsynced_service.go).                      *)
(*                                                                         *)
(* A handler pushes an event to all sinks at once and waits for all of     *)
(* them; what a sink failed to take is queued for that sink only.  Every   *)
(* few seconds one goroutine copies the queue, pushes the copies one by    *)
(* one without a lock, and deletes an entry only if it is still the one    *)
(* that it pushed.  Handlers add and replace entries all the while.        *)
(*                                                                         *)
(* A sink is what module OrderedSink shows it to be: a push is one step    *)
(* that the ledger may find stale.  The queue keeps one entry per sink and *)
(* identity, and one per sink for the provider's full push.                *)
(***************************************************************************)
EXTENDS Integers

CONSTANTS
    Sinks,
    Handlers,   \* pool workers that handle events
    Keys,       \* identities of one provider
    Rejected,   \* Rejected[s]: revisions that sink s refuses for good (4xx)
    StaleIn,    \* attempts of a full push that a sink may find stale
    Generation, \* the provider's generation at the start: 0 before any instance
    MaxRev,     \* bound: revisions are 1 .. MaxRev
    MaxChanges, \* bound: changes of the provider's cache
    MaxFulls,   \* bound: full pushes of the provider
    MaxFailures,\* bound: pushes that fail
    None        \* an absent entry

ASSUME RejectedAssumption == Rejected \in [Sinks -> SUBSET (1 .. MaxRev)]
ASSUME GenerationAssumption == Generation \in Nat
ASSUME StaleInAssumption == StaleIn \subseteq {"operation", "fallback"}
ASSUME BoundsAssumption == {MaxRev, MaxChanges, MaxFulls, MaxFailures} \subseteq Nat

VARIABLES
    source,     \* source[k]: the provider's cache, [rev, live]
    generation, \* the provider's count of changes of its cache
    todo,       \* events that no handler has taken yet
    handled,    \* handled[k]: the highest revision of k whose handler has returned
    pc,         \* pc[h]: "idle", "push", "operation" or "fallback"
    job,        \* job[h]: the event, or the [sequence, trigger] of the full push, that h handles
    result,     \* result[h][s]: what sink s answered, or None
    ledger,     \* ledger[s][k]: what sink s has accepted, [rev, tomb] or None
    taken,      \* taken[s]: the events that sink s has acknowledged
    store,      \* store[s][k]: the event queued for sink s, or None
    fullStore,  \* fullStore[s]: the queued full push, [sequence], or None
    batch,      \* the retry cycle's copy of the queue, as far as it is not done
    attempt,    \* the retry in progress, with its result, or None
    fullFailed, \* fullFailed[s]: the last full push that failed at s, or -1
    fullDone,   \* fullDone[s]: the generation a full push last brought to s, or -1
    fulls,
    failures

sourceVars == <<source, generation, todo>>
handlerVars == <<pc, job, result, handled, fulls>>
sinkVars == <<ledger, taken, fullDone, failures>>
queueVars == <<store, fullStore, fullFailed>>
retryVars == <<batch, attempt>>
vars == <<source, generation, todo, handled, pc, job, result, ledger, taken, store,
          fullStore, batch, attempt, fullFailed, fullDone, fulls, failures>>

\* An instance as an event carries it.  A delete repeats the revision.
Event == [key : Keys, rev : 1 .. MaxRev, offline : BOOLEAN]

Attempts == {"operation", "fallback"}

Answers == {"ok", "stale", "transient", "permanent"}

\* What a ledger, the queue's full entries, the retry cycle's copy and the retry
\* in progress hold.  None is nothing of this kind.
Mark == [rev : Nat, tomb : BOOLEAN]
FullEntry == [sequence : Nat]
Entry == [sink : Sinks, full : {FALSE}, item : Event]
            \cup [sink : Sinks, full : {TRUE}, item : FullEntry]
Attempt == [sink : Sinks, full : {FALSE}, item : Event, answer : Answers]
            \cup [sink : Sinks, full : {TRUE}, item : FullEntry, answer : Answers]

ASSUME NoneAssumption == None \notin Event \cup Answers \cup Mark \cup FullEntry \cup Attempt

\* A trigger is a time, and larger than every generation.
LastGeneration == Generation + MaxChanges

Init ==
    /\ source = [k \in Keys |-> [rev |-> 0, live |-> FALSE]]
    /\ generation = Generation
    /\ todo = {}
    /\ handled = [k \in Keys |-> 0]
    /\ pc = [h \in Handlers |-> "idle"]
    /\ job = [h \in Handlers |-> None]
    /\ result = [h \in Handlers |-> [s \in Sinks |-> None]]
    /\ ledger = [s \in Sinks |-> [k \in Keys |-> None]]
    /\ taken = [s \in Sinks |-> {}]
    /\ store = [s \in Sinks |-> [k \in Keys |-> None]]
    /\ fullStore = [s \in Sinks |-> None]
    /\ batch = {}
    /\ attempt = None
    /\ fullFailed = [s \in Sinks |-> -1]
    /\ fullDone = [s \in Sinks |-> -1]
    /\ fulls = 0
    /\ failures = 0

-----------------------------------------------------------------------------
\* The provider: an instance appears or changes with a new revision, and goes
\* with the one it has.
SourceChange(k) ==
    /\ generation < LastGeneration
    /\ \/ /\ source[k].rev < MaxRev
          /\ source' = [source EXCEPT ![k] = [rev |-> @.rev + 1, live |-> TRUE]]
       \/ /\ source[k].live
          /\ source' = [source EXCEPT ![k] = [rev |-> @.rev, live |-> FALSE]]
    /\ generation' = generation + 1
    /\ todo' = todo \cup {[key |-> k, rev |-> source'[k].rev, offline |-> ~source'[k].live]}
    /\ UNCHANGED <<handlerVars, sinkVars, queueVars, retryVars>>

-----------------------------------------------------------------------------
(***************************************************************************)
(* The sinks.  Each of these operators is a push to sink s, with answer a. *)
(***************************************************************************)

\* orderedSink: overtaken by a newer revision, or by a tombstone.
Stale(s, e) ==
    LET previous == ledger[s][e.key]
    IN  /\ previous # None
        /\ IF previous.tomb THEN e.rev <= previous.rev ELSE e.rev < previous.rev

\* A push of event e.
PushEvent(s, e, a) ==
    /\ \/ /\ a = "ok" /\ Stale(s, e)
          /\ UNCHANGED <<ledger, failures>>
       \/ /\ a = "ok" /\ ~Stale(s, e) /\ e.rev \notin Rejected[s]
          /\ ledger' = [ledger EXCEPT ![s][e.key] = [rev |-> e.rev, tomb |-> e.offline]]
          /\ UNCHANGED failures
       \/ /\ a = "permanent" /\ ~Stale(s, e) /\ e.rev \in Rejected[s]
          /\ UNCHANGED <<ledger, failures>>
       \/ /\ a = "transient" /\ ~Stale(s, e)
          /\ failures < MaxFailures
          /\ failures' = failures + 1
          /\ UNCHANGED ledger
    /\ taken' = IF a = "ok" THEN [taken EXCEPT ![s] = @ \cup {e}] ELSE taken
    /\ UNCHANGED fullDone

\* A full push, of the snapshot that the provider returns at this moment.  The
\* sink may or may not entomb what the snapshot omits (it depends on scopes and
\* on the confirmation of an empty snapshot).
PushFull(s, how, a) ==
    /\ \/ /\ a = "ok"
          /\ \E entombed \in SUBSET {k \in Keys : ~source[k].live /\ ledger[s][k] # None} :
                ledger' = [ledger EXCEPT ![s] = [k \in Keys |->
                    IF source[k].live THEN [rev |-> source[k].rev, tomb |-> FALSE]
                    ELSE IF k \in entombed THEN [rev |-> @[k].rev, tomb |-> TRUE]
                    ELSE @[k]]]
          /\ fullDone' = [fullDone EXCEPT ![s] = generation]
          /\ UNCHANGED failures
       \/ /\ a = "stale" /\ how \in StaleIn
          /\ UNCHANGED <<ledger, fullDone, failures>>
       \/ /\ a \in {"transient", "permanent"}
          /\ failures < MaxFailures
          /\ failures' = failures + 1
          /\ UNCHANGED <<ledger, fullDone>>
    /\ UNCHANGED taken

-----------------------------------------------------------------------------
\* Handle: a pool worker takes an event, in any order.
TakeEvent(h) ==
    /\ pc[h] = "idle"
    /\ \E e \in todo :
        /\ todo' = todo \ {e}
        /\ job' = [job EXCEPT ![h] = e]
    /\ pc' = [pc EXCEPT ![h] = "push"]
    /\ UNCHANGED <<source, generation, result, handled, fulls, sinkVars, queueVars, retryVars>>

\* Handle: the provider's full push, with its generation as the sequence.
TakeFull(h) ==
    /\ pc[h] = "idle"
    /\ fulls < MaxFulls
    /\ fulls' = fulls + 1
    /\ job' = [job EXCEPT ![h] = [sequence |-> generation, trigger |-> LastGeneration + fulls']]
    /\ pc' = [pc EXCEPT ![h] = "operation"]
    /\ UNCHANGED <<sourceVars, result, handled, sinkVars, queueVars, retryVars>>

\* FanoutSink: one goroutine per sink.
FanOut(h, s) ==
    /\ result[h][s] = None
    /\ \E a \in Answers :
        /\ \/ pc[h] = "push" /\ PushEvent(s, job[h], a)
           \/ pc[h] \in Attempts /\ PushFull(s, pc[h], a)
        /\ result' = [result EXCEPT ![h][s] = a]
    /\ UNCHANGED <<sourceVars, pc, job, handled, fulls, queueVars, retryVars>>

\* wg.Wait has returned in h.
Answered(h) == \A s \in Sinks : result[h][s] # None

\* Mutant: a failure is queued for every sink.
FailedSinksAll(h) == IF \A s \in Sinks : result[h][s] = "ok" THEN {} ELSE Sinks

\* failedSinkNames: a stale full push is not queued.
FailedSinks(h) == {s \in Sinks : result[h][s] \in {"transient", "permanent"}}

StaleSinks(h) == {s \in Sinks : result[h][s] = "stale"}

\* The handler returns, and its pool worker is free.
Return(h) ==
    /\ pc' = [pc EXCEPT ![h] = "idle"]
    /\ job' = [job EXCEPT ![h] = None]
    /\ result' = [result EXCEPT ![h] = [s \in Sinks |-> None]]

\* Add: a queued event is replaced only by a higher revision.
Added(old, e) == IF old = None \/ e.rev > old.rev THEN e ELSE old

\* The Sync handler: Add for the sinks that failed.
FinishEvent(h) ==
    LET e == job[h]
    IN  /\ pc[h] = "push" /\ Answered(h)
        /\ store' = [s \in Sinks |->
                        IF s \in FailedSinks(h)
                        THEN [store[s] EXCEPT ![e.key] = Added(@, e)] ELSE store[s]]
        /\ handled' = [handled EXCEPT ![e.key] = IF e.rev > @ THEN e.rev ELSE @]
        /\ Return(h)
        /\ UNCHANGED <<sourceVars, fulls, sinkVars, fullStore, fullFailed, retryVars>>

\* AddFullWithMeta: an older full push does not replace a newer one.  The
\* trigger stands in for the sequence 0.
AddedFull(old, full) ==
    LET sequence == IF full.sequence = 0 THEN full.trigger ELSE full.sequence
    IN  IF old # None /\ old.sequence > sequence THEN old ELSE [sequence |-> sequence]

\* The SyncAll handler when every failure is a stale one: once more, with
\* PushAllWithRevalidate on every sink.
FallBack(h) ==
    /\ pc[h] = "operation" /\ Answered(h)
    /\ StaleSinks(h) # {} /\ FailedSinks(h) = {}
    /\ pc' = [pc EXCEPT ![h] = "fallback"]
    /\ result' = [result EXCEPT ![h] = [s \in Sinks |-> None]]
    /\ UNCHANGED <<sourceVars, job, handled, fulls, sinkVars, queueVars, retryVars>>

\* Mutant: one stale sink drops the full push for all.
DroppedIfAnyStale(h) == StaleSinks(h) # {}

\* The full push is given up: a stale answer to the second attempt.
Dropped(h) == pc[h] = "fallback" /\ StaleSinks(h) # {}

\* The SyncAll handler otherwise.
FinishFull(h) ==
    /\ pc[h] \in Attempts /\ Answered(h)
    /\ ~(pc[h] = "operation" /\ StaleSinks(h) # {} /\ FailedSinks(h) = {})
    /\ fullFailed' = [s \in Sinks |->
            IF s \in FailedSinks(h) /\ job[h].sequence > fullFailed[s]
            THEN job[h].sequence ELSE fullFailed[s]]
    /\ fullStore' = [s \in Sinks |->
            IF s \in FailedSinks(h) /\ ~Dropped(h)
            THEN AddedFull(fullStore[s], job[h]) ELSE fullStore[s]]
    /\ Return(h)
    /\ UNCHANGED <<sourceVars, handled, fulls, sinkVars, store, retryVars>>

-----------------------------------------------------------------------------
(***************************************************************************)
(* syncOnce, on its own goroutine.  An entry of the copy is a queued event *)
(* or full push, with its sink.                                            *)
(***************************************************************************)
Queued ==
    {[sink |-> s, full |-> FALSE, item |-> store[s][k]] : s \in Sinks, k \in Keys}
        \cup {[sink |-> s, full |-> TRUE, item |-> fullStore[s]] : s \in Sinks}

\* The copy of the queue, under the lock.
StartCycle ==
    /\ batch = {} /\ attempt = None
    /\ batch' = {q \in Queued : q.item # None}
    /\ batch' # {}
    /\ UNCHANGED <<sourceVars, handlerVars, sinkVars, queueVars, attempt>>

\* pushSinkOnce: the next entry of the copy goes to its own sink.
RetryOne ==
    /\ attempt = None
    /\ \E q \in batch, a \in Answers :
        /\ IF q.full THEN PushFull(q.sink, "operation", a) ELSE PushEvent(q.sink, q.item, a)
        /\ batch' = batch \ {q}
        /\ attempt' = [sink |-> q.sink, full |-> q.full, item |-> q.item, answer |-> a]
    /\ UNCHANGED <<sourceVars, handlerVars, queueVars>>

\* Mutant: the entry of the key, whatever it is by now.
SameAlways(current, attempted) == current # None

\* samePending: the queued entry is the one that was pushed.
SamePending(current, attempted) == current = attempted

\* Mutant: a permanent failure is retried like any other.
GivesUpNever(answer) == answer \in {"ok", "stale"}

\* The answers after which an entry leaves the queue.
GivesUp(answer) == answer \in {"ok", "stale", "permanent"}

\* retryKeyed, under the lock again.
RetryDone ==
    LET s == attempt.sink
        gone == GivesUp(attempt.answer)
    IN  /\ attempt # None
        /\ IF attempt.full
           THEN /\ fullStore' = IF gone /\ SamePending(fullStore[s], attempt.item)
                                THEN [fullStore EXCEPT ![s] = None] ELSE fullStore
                /\ fullFailed' = IF attempt.answer \in {"stale", "permanent"} /\ fullFailed[s] <= attempt.item.sequence
                                 THEN [fullFailed EXCEPT ![s] = -1] ELSE fullFailed
                /\ UNCHANGED store
           ELSE /\ store' = IF gone /\ SamePending(store[s][attempt.item.key], attempt.item)
                            THEN [store EXCEPT ![s][attempt.item.key] = None] ELSE store
                /\ UNCHANGED <<fullStore, fullFailed>>
        /\ attempt' = None
        /\ UNCHANGED <<sourceVars, handlerVars, sinkVars, batch>>

Next ==
    \/ \E k \in Keys : SourceChange(k)
    \/ \E h \in Handlers :
        \/ TakeEvent(h) \/ FinishEvent(h)
        \/ TakeFull(h) \/ FallBack(h) \/ FinishFull(h)
        \/ \E s \in Sinks : FanOut(h, s)
    \/ StartCycle \/ RetryOne \/ RetryDone

Spec == Init /\ [][Next]_vars

\* The ticker fires again and again, and a push returns.  MaxFailures makes
\* the sinks fail only finitely often.
FairSpec == Spec /\ WF_vars(StartCycle) /\ WF_vars(RetryOne) /\ WF_vars(RetryDone)

-----------------------------------------------------------------------------
\* Type invariant of the worker, its queue and the sinks' ledgers.
TypeOK ==
    /\ source \in [Keys -> [rev : 0 .. MaxRev, live : BOOLEAN]]
    /\ todo \subseteq Event /\ handled \in [Keys -> 0 .. MaxRev]
    /\ pc \in [Handlers -> {"idle", "push"} \cup Attempts]
    /\ \A h \in Handlers :
        /\ pc[h] = "push" => job[h] \in Event
        /\ pc[h] \in Attempts => job[h].sequence \in 0 .. generation
        /\ result[h] \in [Sinks -> Answers \cup {None}]
        /\ pc[h] = "idle" => result[h] = [s \in Sinks |-> None]
    /\ ledger \in [Sinks -> [Keys -> [rev : 1 .. MaxRev, tomb : BOOLEAN] \cup {None}]]
    /\ store \in [Sinks -> [Keys -> Event \cup {None}]]
    /\ \A s \in Sinks, k \in Keys : store[s][k] # None => store[s][k].key = k
    /\ \A s \in Sinks : fullStore[s] # None => fullStore[s].sequence \in 1 .. LastGeneration + fulls

\* No revision is forgotten: when the handler of an event has returned, every
\* sink has its revision or a newer one, or has it in the queue, or refuses
\* it for good, whatever the retry cycle was doing when it was queued.
NothingForgotten ==
    \A s \in Sinks, k \in Keys :
        \/ handled[k] \in {0} \cup Rejected[s]
        \/ ledger[s][k] # None /\ ledger[s][k].rev >= handled[k]
        \/ store[s][k] # None /\ store[s][k].rev >= handled[k]

\* A sink that acknowledged an event never gets it again from the queue,
\* although another sink may still be retrying it.
NoSecondPush ==
    attempt = None => \A s \in Sinks, k \in Keys : store[s][k] \notin taken[s]

\* A full push that failed at a sink stays queued for that sink until a full
\* push of that generation succeeds there, also when another sink found the
\* same push stale.
FullsAreRetried ==
    \A s \in Sinks :
        fullFailed[s] > fullDone[s] => fullStore[s] # None /\ fullStore[s].sequence >= fullFailed[s]

\* Once the sinks recover the queue empties, for good when nothing new
\* fails: a permanently refused entry does not spin in it.
QueueDrains == <>[](\A s \in Sinks : fullStore[s] = None /\ \A k \in Keys : store[s][k] = None)

-----------------------------------------------------------------------------
(***************************************************************************)
(* Statements of the docs and comments that the code does not keep.        *)
(***************************************************************************)

\* Everything was handled, and nothing is queued or on its way.
AllQuiet ==
    /\ todo = {} /\ batch = {} /\ attempt = None
    /\ \A h \in Handlers : pc[h] = "idle"
    /\ \A s \in Sinks : fullStore[s] = None /\ \A k \in Keys : store[s][k] = None

\* docs/nacos-sink-plan.md, rapid flap: "final state matches the last op".
LastOpWins ==
    AllQuiet =>
        \A s \in Sinks, k \in Keys :
            source[k].rev # 0 => ledger[s][k] = [rev |-> source[k].rev, tomb |-> ~source[k].live]
=============================================================================
