--------------------------- MODULE ConsulProvider ---------------------------
(***************************************************************************)
(* The Consul provider (pkg/providers/consul/consul.go): from the catalog  *)
(* to the registry.                                                        *)
(*                                                                         *)
(* Four threads read the catalog and compare: the change handler the       *)
(* monitor calls (ConsulMonitor.tla), the timer that reads an empty        *)
(* catalog again, the compare Run starts once, and the ticker.  A read and *)
(* what it does to the cache happen under the provider's lock and are one  *)
(* step; the events are sent after the lock is released, one by one.       *)
(*                                                                         *)
(* Consul, the pool and the registry are external.  The pool with its      *)
(* overflow queue (OverflowQueue.tla) is a set of tasks that run in any    *)
(* order, and the gate of OrderedSink.tla is passed in one step.           *)
(***************************************************************************)
EXTENDS Naturals, FiniteSets, Sequences, Functions, RegistryGate

CONSTANTS
    Ids,            \* service instances, by node and service ID
    Movers,         \* those that come and go
    Unchecked,      \* those whose service check does not pass: status 2
    Invalid,        \* those VerifyInstance rejects: they name no environment
    Modes,          \* values of nacosReconcile
    FullPushThreshold,  \* consulInitialFullPushThreshold (100 in the code)
    Confirmations,  \* empty reads that confirm an empty catalog (3 in the code)
    MaxIndex,       \* bound: changes of the catalog
    MaxFaults,      \* bound: reads that fail or see an older catalog
    MaxTicks        \* bound: ticks of the full push

ASSUME SetsAssumption ==
    IsFiniteSet(Ids) /\ Unchecked \cup Invalid \cup Movers \subseteq Ids /\ Modes \subseteq BOOLEAN
ASSUME LimitsAssumption ==
    /\ {FullPushThreshold, Confirmations} \subseteq Nat \ {0}
    /\ {MaxIndex, MaxFaults, MaxTicks} \subseteq Nat

Threads == {"watch", "retry", "startup", "tick"}

VARIABLES
    nacosReconcile, \* the registry compared with is Nacos, not Atlas
    catalog,        \* catalog[id]: ModifyIndex of the healthy instance, 0 if none
    was,            \* was[id]: the same before its last change
    index,          \* the index of the last change
    faults,         \* reads that have failed or seen an older catalog
    noticed,        \* the monitor has a change to report
    ticks,          \* ticks so far
    stopped,        \* Run has returned
    cache,          \* cache[id]: the processed instance, status 0 if none
    emptyConfirmations,         \* counted up to Confirmations
    emptyConfirmationPending,
    timer,          \* emptyRetryTimer: nil, armed or fired (but still held)
    orphans,        \* armed timers the provider no longer holds
    callbacks,      \* timers that have fired and wait for the lock
    pc,             \* pc[t]: where thread t is,
    out,            \*   the events it still has to send,
    emits,          \*   the full pushes it still has to emit,
    held,           \*   the list its compare has read,
    confirmed,      \*   EmptyConfirmed of the full push it is emitting
    pending,        \* events submitted to the pool
    served,         \* served[id]: what the registry holds, status 0 if nothing
    ledger,         \* ledger[id]: the last revision the gate accepted
    empties,        \* history: healthy empty reads since any other read
    calm            \* history: the last tick began, and went on, undisturbed

sourceVars == <<catalog, was, index>>
countVars == <<emptyConfirmations, emptyConfirmationPending, empties>>
timerVars == <<timer, orphans, callbacks>>
threadVars == <<pc, out, emits, held, confirmed>>
sinkVars == <<served, ledger>>
lifeVars == <<ticks, stopped>>
vars == <<nacosReconcile, sourceVars, faults, calm, noticed, lifeVars, cache, countVars,
          timerVars, threadVars, pending, sinkVars>>

NoInstance == [reversion |-> 0, status |-> 0]
Nothing == [id \in Ids |-> NoInstance]

\* convertInstanceForSource, of the fields that matter here.
Instance(id, rev) ==
    IF rev = 0 THEN NoInstance
    ELSE [reversion |-> rev, status |-> IF id \in Unchecked THEN Unhealthy ELSE Online]

View(c) == [id \in Ids |-> Instance(id, c[id])]

\* The registry still serves what an earlier leader registered and is gone.
Init ==
    /\ nacosReconcile \in Modes
    /\ catalog \in [Ids -> {0, 1}]
    /\ was = catalog
    /\ index = 1 /\ faults = 0 /\ calm = FALSE
    /\ noticed = TRUE
    /\ ticks = 0 /\ stopped = FALSE
    /\ cache = Nothing
    /\ emptyConfirmations = 0 /\ emptyConfirmationPending = FALSE /\ empties = 0
    /\ timer = "nil" /\ orphans = 0 /\ callbacks = 0
    /\ pc = [t \in Threads |-> IF t = "startup" THEN "compare" ELSE "idle"]
    /\ out = [t \in Threads |-> <<>>]
    /\ emits = [t \in Threads |-> 0]
    /\ held = [t \in Threads |-> Nothing]
    /\ confirmed = [t \in Threads |-> FALSE]
    /\ pending = {}
    /\ served = [id \in Ids |-> IF id \in Movers \/ catalog[id] # 0 THEN NoInstance ELSE Instance(id, 1)]
    /\ ledger = [id \in Ids |-> NoEntry]

-----------------------------------------------------------------------------
(***************************************************************************)
(* Consul (external).  An instance that fails a node check leaves the      *)
(* healthy set and comes back with the ModifyIndex it had.                 *)
(***************************************************************************)
Becomes(id, rev) ==
    /\ ~stopped /\ index < MaxIndex
    /\ index' = index + 1
    /\ catalog' = [catalog EXCEPT ![id] = rev]
    /\ was' = [was EXCEPT ![id] = catalog[id]]
    /\ noticed' = TRUE /\ calm' = FALSE
    /\ UNCHANGED <<nacosReconcile, faults, lifeVars, cache, countVars, timerVars, threadVars,
                   pending, sinkVars>>

Register(id) == Becomes(id, index + 1)

Leave(id) == catalog[id] # 0 /\ Becomes(id, 0)

Return(id) == catalog[id] = 0 /\ was[id] # 0 /\ Becomes(id, was[id])

-----------------------------------------------------------------------------
(***************************************************************************)
(* Reading the catalog, under the lock.                                    *)
(***************************************************************************)
\* What readSnapshot can see: services are read one after the other, so some
\* may be older than the rest; any failure rejects the whole snapshot.
Fresh == [ok |-> TRUE, list |-> View(catalog)]
Failed == [ok |-> FALSE, list |-> Nothing]
Mixed == {[ok |-> TRUE, list |-> View([id \in Ids |-> IF id \in old THEN was[id] ELSE catalog[id]])] :
            old \in SUBSET {id \in Ids : was[id] # catalog[id]}}

\* The answers, and the faults each takes.
Reads == IF faults < MaxFaults THEN {Failed} \cup Mixed ELSE {Fresh}

ReadAnswers(r) ==
    /\ faults' = IF r = Fresh THEN faults ELSE faults + 1
    /\ calm' = (calm /\ r = Fresh)

IsEmpty(r) == r.ok /\ r.list = Nothing

\* Mutant: what is read replaces what is cached.
MergeNothing(list) == list

\* mergeMonotonicInstances: an instance is not taken back to an older revision.
mergeMonotonicInstances(list) ==
    [id \in Ids |-> IF list[id] # NoInstance /\ list[id].reversion < cache[id].reversion THEN cache[id] ELSE list[id]]

Bounded(n) == IF n > Confirmations THEN Confirmations ELSE n

\* The history of a read.
Counted(r) == empties' = IF IsEmpty(r) THEN Bounded(empties + 1) ELSE 0

\* emptyRetryTimer.Stop: a callback that has begun is not stopped.
StopTimer == timer' = "nil"

\* scheduleEmptyRetryLocked, when the provider holds the given timer.
Schedule(present) == timer' = IF present = "nil" THEN "armed" ELSE present

\* getAllLocked, of a read that failed.
ReadFailed ==
    /\ emptyConfirmations' = 0 /\ emptyConfirmationPending' = FALSE
    /\ StopTimer

-----------------------------------------------------------------------------
(***************************************************************************)
(* syncInstanceAt, of the change handler and of the retry timer.           *)
(***************************************************************************)
Event(id, ins) == [id |-> id, ins |-> ins]

\* extractDiff.  Only valid instances are announced, and an added one as
\* online, whatever its checks say; the cache keeps all as they were read.
Added(new) == {id \in Ids \ Invalid : new[id] # NoInstance /\ cache[id] = NoInstance}
Updated(new) ==
    {id \in Ids \ Invalid : /\ new[id] # NoInstance /\ cache[id] # NoInstance
                            /\ new[id] # cache[id] /\ new[id].reversion >= cache[id].reversion}
Deleted(new) == {id \in Ids : new[id] = NoInstance /\ cache[id] # NoInstance}

Gone(id) == [cache[id] EXCEPT !.status = Offline]

\* The order in which a map with these keys is walked.
Walk(ids) == CHOOSE order \in Bijection(1 .. Cardinality(ids), ids) : TRUE

Diff(new) ==
    LET events(ids, ins(_)) == [i \in 1 .. Cardinality(ids) |-> Event(Walk(ids)[i], ins(Walk(ids)[i]))]
        online(id) == [new[id] EXCEPT !.status = Online]
        newer(id) == new[id]
    IN  events(Added(new), online) \o events(Updated(new), newer) \o events(Deleted(new), Gone)

\* Many additions and nothing else are sent as one full push.
AsFullPush(new) ==
    Cardinality(Added(new)) >= FullPushThreshold /\ Updated(new) = {} /\ Deleted(new) = {}

\* Where a thread goes with these events to send and full pushes to emit.
Then(t, events, n) ==
    IF events # <<>> THEN "dispatch"
    ELSE IF n > 0 THEN "emit"
    ELSE IF t = "startup" THEN "done" ELSE "idle"

\* The cache is replaced, and the differences are left to be sent.  After an
\* empty time a full push follows, to undo tombstones of the same revision.
Replace(t, new, recovered) ==
    LET bulk == AsFullPush(new)
        events == IF bulk THEN <<>> ELSE Diff(new)
        n == (IF bulk THEN 1 ELSE 0) + (IF recovered THEN 1 ELSE 0)
    IN  /\ cache' = new
        /\ out' = [out EXCEPT ![t] = events]
        /\ emits' = [emits EXCEPT ![t] = n]
        /\ pc' = [pc EXCEPT ![t] = Then(t, events, n)]

\* Nothing but the thread's place.
Idle(t) ==
    /\ pc' = [pc EXCEPT ![t] = "idle"]
    /\ UNCHANGED <<cache, out, emits>>

\* Mutant: a read that finds instances leaves the count of the empty ones.
SyncInstanceKeepsCount(t, present, r) ==
    /\ Counted(r)
    /\ \/ /\ ~r.ok
          /\ ReadFailed
          /\ Idle(t)
       \/ /\ IsEmpty(r)
          /\ emptyConfirmations' = Bounded(emptyConfirmations + 1)
          /\ IF emptyConfirmations' < Confirmations
             THEN emptyConfirmationPending' = TRUE /\ Schedule(present) /\ Idle(t)
             ELSE emptyConfirmationPending' = FALSE /\ StopTimer /\ Replace(t, Nothing, FALSE)
       \/ /\ r.ok /\ r.list # Nothing
          /\ emptyConfirmationPending' = FALSE
          /\ UNCHANGED emptyConfirmations
          /\ StopTimer
          /\ Replace(t, mergeMonotonicInstances(r.list), emptyConfirmations > 0)

\* syncInstanceAt under the lock, with the timer present and the read r.
syncInstance(t, present, r) ==
    /\ Counted(r)
    /\ \/ /\ ~r.ok
          /\ ReadFailed
          /\ Idle(t)
       \/ /\ IsEmpty(r)
          /\ emptyConfirmations' = Bounded(emptyConfirmations + 1)
          /\ IF emptyConfirmations' < Confirmations
             THEN emptyConfirmationPending' = TRUE /\ Schedule(present) /\ Idle(t)
             ELSE emptyConfirmationPending' = FALSE /\ StopTimer /\ Replace(t, Nothing, FALSE)
       \/ /\ r.ok /\ r.list # Nothing
          /\ emptyConfirmations' = 0 /\ emptyConfirmationPending' = FALSE
          /\ StopTimer
          /\ Replace(t, mergeMonotonicInstances(r.list), emptyConfirmations > 0)

Sync(t, present) ==
    /\ \E r \in Reads : ReadAnswers(r) /\ syncInstance(t, present, r)
    /\ UNCHANGED <<nacosReconcile, sourceVars, lifeVars, held, confirmed, pending, sinkVars>>

\* The monitor calls the change handler.
Notified ==
    /\ ~stopped /\ noticed /\ pc["watch"] = "idle"
    /\ noticed' = FALSE
    /\ Sync("watch", timer)
    /\ UNCHANGED <<orphans, callbacks>>

\* An event passes the gate (runLocked) to the registry, or is dropped there.
Push(e) ==
    IF Stale(ledger[e.id], e.ins) THEN UNCHANGED sinkVars
    ELSE /\ ledger' = [ledger EXCEPT ![e.id] = Accepted(ledger[e.id], e.ins)]
         /\ served' = [served EXCEPT ![e.id] = IF IsLive(e.ins) THEN e.ins ELSE NoInstance]

\* eventSync: the next event is handed to the worker.
Dispatch(t) ==
    /\ pc[t] = "dispatch"
    /\ Push(Head(out[t]))
    /\ out' = [out EXCEPT ![t] = Tail(@)]
    /\ pc' = [pc EXCEPT ![t] = Then(t, Tail(out[t]), emits[t])]
    /\ UNCHANGED <<nacosReconcile, sourceVars, faults, calm, noticed, lifeVars, cache, countVars,
                   timerVars, emits, held, confirmed, pending>>

-----------------------------------------------------------------------------
(***************************************************************************)
(* emitSyncAllAt.                                                          *)
(***************************************************************************)
\* snapshotForFullPushMode.  An empty read that a compare or a handler has
\* counted already is not counted again; only the emitted event counts.
Snapshot(r, advance) ==
    /\ Counted(r)
    /\ \/ ~r.ok /\ ReadFailed
       \/ /\ IsEmpty(r)
          /\ IF advance
             THEN /\ emptyConfirmationPending' = FALSE
                  /\ emptyConfirmations' = IF emptyConfirmationPending THEN emptyConfirmations
                                           ELSE Bounded(emptyConfirmations + 1)
             ELSE UNCHANGED <<emptyConfirmations, emptyConfirmationPending>>
          /\ UNCHANGED timer
       \/ /\ r.ok /\ r.list # Nothing
          /\ emptyConfirmations' = 0 /\ emptyConfirmationPending' = FALSE
          /\ UNCHANGED timer

\* The snapshot of the event.  A failed read emits nothing, and the worker
\* drops an empty one that is not confirmed.
EmitSyncAll(t) ==
    /\ pc[t] = "emit"
    /\ \E r \in Reads :
        /\ ReadAnswers(r)
        /\ Snapshot(r, TRUE)
        /\ confirmed' = [confirmed EXCEPT ![t] = r.ok /\ emptyConfirmations' >= Confirmations]
        /\ IF r.ok /\ (r.list # Nothing \/ confirmed'[t])
           THEN pc' = [pc EXCEPT ![t] = "gate"] /\ UNCHANGED emits
           ELSE /\ pc' = [pc EXCEPT ![t] = Then(t, <<>>, emits[t] - 1)]
                /\ emits' = [emits EXCEPT ![t] = @ - 1]
    /\ UNCHANGED <<nacosReconcile, sourceVars, noticed, lifeVars, cache, orphans, callbacks, out, held,
                   pending, sinkVars>>

\* The full push at the gate (PushAllOperation): under the exclusive lock
\* Revalidate reads the catalog again.  Nacos removes what the snapshot
\* omits, also of an empty one that was confirmed.
GatePush(t) ==
    /\ pc[t] = "gate"
    /\ \E r \in Reads :
        /\ ReadAnswers(r)
        /\ Snapshot(r, FALSE)
        /\ LET fresh == mergeMonotonicInstances(r.list)
           IN  IF ~r.ok \/ (fresh = Nothing /\ ~confirmed[t]) \/ FullRejected(ledger, fresh)
               THEN UNCHANGED sinkVars
               ELSE /\ served' = IF nacosReconcile THEN fresh
                                 ELSE [id \in Ids |-> IF id \in Present(fresh) THEN fresh[id] ELSE served[id]]
                    /\ ledger' = FullLedger(ledger, fresh)
    /\ confirmed' = [confirmed EXCEPT ![t] = FALSE]
    /\ emits' = [emits EXCEPT ![t] = @ - 1]
    /\ pc' = [pc EXCEPT ![t] = Then(t, <<>>, emits[t] - 1)]
    /\ UNCHANGED <<nacosReconcile, sourceVars, noticed, lifeVars, cache, orphans, callbacks, out, held,
                   pending>>

-----------------------------------------------------------------------------
(***************************************************************************)
(* CompareAndFlush, of Run and of the ticker.                              *)
(***************************************************************************)
\* After a compare: the tick goes on with a full push.
Compared(t) == IF t = "tick" THEN "emit" ELSE "done"

\* The local side, under the lock.  It replaces the cache.
CompareLocal(t, r) ==
    /\ Counted(r)
    /\ UNCHANGED <<out, pending>>
    /\ \/ /\ ~r.ok
          /\ ReadFailed
          /\ pc' = [pc EXCEPT ![t] = Compared(t)]
          /\ UNCHANGED <<cache, held>>
       \/ /\ IsEmpty(r)
          /\ emptyConfirmations' = IF emptyConfirmationPending THEN emptyConfirmations
                                   ELSE Bounded(emptyConfirmations + 1)
          /\ emptyConfirmationPending' = TRUE
          /\ IF emptyConfirmations' < Confirmations
             THEN /\ Schedule(timer)
                  /\ pc' = [pc EXCEPT ![t] = Compared(t)]
                  /\ UNCHANGED <<cache, held>>
             ELSE /\ cache' = Nothing
                  /\ held' = [held EXCEPT ![t] = Nothing]
                  /\ pc' = [pc EXCEPT ![t] = "remote"]
                  /\ UNCHANGED timer
       \/ /\ r.ok /\ r.list # Nothing
          /\ emptyConfirmations' = 0 /\ emptyConfirmationPending' = FALSE
          /\ cache' = mergeMonotonicInstances(r.list)
          /\ held' = [held EXCEPT ![t] = cache']
          /\ pc' = [pc EXCEPT ![t] = "remote"]
          /\ UNCHANGED timer

Compare(t) ==
    /\ pc[t] = "compare"
    /\ \E r \in Reads : ReadAnswers(r) /\ CompareLocal(t, r)
    /\ UNCHANGED <<nacosReconcile, sourceVars, noticed, lifeVars, orphans, callbacks, emits, confirmed,
                   sinkVars>>

\* What the registry returns of this source: Atlas is asked for the online ones.
Remote == [id \in Ids |-> IF nacosReconcile \/ served[id].status = Online THEN served[id] ELSE NoInstance]

\* What the registry should be told of an instance.
Correction(local, remote) ==
    IF local # NoInstance /\ remote # NoInstance
    THEN IF local # remote /\ (nacosReconcile \/ local.reversion >= remote.reversion) THEN local ELSE NoInstance
    ELSE IF local # NoInstance
    THEN IF local.status = Online THEN local ELSE NoInstance
    ELSE IF remote # NoInstance
    THEN [remote EXCEPT !.status = IF nacosReconcile THEN Offline ELSE Unhealthy]
    ELSE NoInstance

\* The remote side, read later and without the lock.  It fails, is empty and
\* then everything is sent, or is compared.
CompareRemote(t) ==
    /\ pc[t] = "remote"
    /\ \/ UNCHANGED pending
       \/ LET told == IF Remote = Nothing THEN held[t]
                      ELSE [id \in Ids |-> Correction(held[t][id], Remote[id])]
          IN  pending' = pending \cup {Event(id, told[id]) : id \in Present(told)}
    /\ held' = [held EXCEPT ![t] = Nothing]
    /\ pc' = [pc EXCEPT ![t] = Compared(t)]
    /\ UNCHANGED <<nacosReconcile, sourceVars, faults, calm, noticed, lifeVars, cache, countVars,
                   timerVars, out, emits, confirmed, sinkVars>>

\* A task of the pool.
RunTask(e) ==
    /\ pending' = pending \ {e}
    /\ Push(e)
    /\ UNCHANGED <<nacosReconcile, sourceVars, faults, calm, noticed, lifeVars, cache, countVars,
                   timerVars, threadVars>>

-----------------------------------------------------------------------------
(***************************************************************************)
(* The retry timer.  A callback forgets the timer the provider holds,      *)
(* which may by then be a newer one than its own, releases the lock and    *)
(* takes it again to read the catalog.  One callback at a time goes on.    *)
(***************************************************************************)
TimerFires ==
    /\ \/ timer = "armed" /\ timer' = "fired" /\ UNCHANGED orphans
       \/ orphans > 0 /\ orphans' = orphans - 1 /\ UNCHANGED timer
    /\ callbacks' = callbacks + 1
    /\ UNCHANGED <<nacosReconcile, sourceVars, faults, calm, noticed, lifeVars, cache, countVars,
                   threadVars, pending, sinkVars>>

Callback ==
    /\ callbacks > 0 /\ pc["retry"] = "idle"
    /\ callbacks' = callbacks - 1
    /\ orphans' = IF timer = "armed" THEN orphans + 1 ELSE orphans
    /\ StopTimer
    /\ pc' = [pc EXCEPT !["retry"] = IF stopped THEN "idle" ELSE "sync"]
    /\ UNCHANGED <<nacosReconcile, sourceVars, faults, calm, noticed, lifeVars, cache, countVars,
                   out, emits, held, confirmed, pending, sinkVars>>

Retry ==
    /\ pc["retry"] = "sync" /\ ~stopped
    /\ Sync("retry", timer)
    /\ UNCHANGED <<noticed, orphans, callbacks>>

\* The provider was stopped in between: syncInstanceAt returns an error.
RetryAfterStop ==
    /\ pc["retry"] = "sync" /\ stopped
    /\ Idle("retry")
    /\ UNCHANGED <<nacosReconcile, sourceVars, faults, calm, noticed, lifeVars, countVars, timerVars,
                   held, confirmed, pending, sinkVars>>

-----------------------------------------------------------------------------
(***************************************************************************)
(* Run and shutdown.                                                       *)
(***************************************************************************)
\* Nothing is going on.
Quiet ==
    /\ \A t \in Threads : pc[t] \in {"idle", "done"}
    /\ ~noticed /\ pending = {}
    /\ timer = "nil" /\ callbacks = 0 /\ orphans = 0

Tick ==
    /\ ~stopped /\ pc["tick"] = "idle" /\ ticks < MaxTicks
    /\ ticks' = ticks + 1
    /\ pc' = [pc EXCEPT !["tick"] = "compare"]
    /\ emits' = [emits EXCEPT !["tick"] = 1]
    /\ calm' = Quiet
    /\ UNCHANGED <<nacosReconcile, sourceVars, faults, noticed, stopped, cache, countVars,
                   timerVars, out, held, confirmed, pending, sinkVars>>

\* The monitor has returned with its handler, and runWG.Wait.
Joined == {pc["watch"], pc["tick"]} = {"idle"} /\ pc["startup"] = "done"

\* The context is cancelled, Run joins its goroutines and shuts down.  The
\* overflow queue and the pool are closed; what they had accepted still runs.
Shutdown ==
    /\ ~stopped /\ Joined
    /\ stopped' = TRUE
    /\ timer' = "nil"
    /\ UNCHANGED <<nacosReconcile, sourceVars, faults, calm, noticed, ticks, cache, countVars, orphans,
                   callbacks, threadVars, pending, sinkVars>>

Source == \E id \in Movers : Register(id) \/ Leave(id) \/ Return(id)

ThreadStep(t) == Dispatch(t) \/ EmitSyncAll(t) \/ GatePush(t) \/ Compare(t) \/ CompareRemote(t)

Next ==
    \/ Source
    \/ \E t \in Threads : ThreadStep(t)
    \/ Notified \/ TimerFires \/ Callback \/ Retry \/ RetryAfterStop \/ Tick
    \/ \E e \in pending : RunTask(e)
    \/ Shutdown

Spec == Init /\ [][Next]_vars

-----------------------------------------------------------------------------
\* Type invariant.
TypeOK ==
    /\ nacosReconcile \in BOOLEAN /\ noticed \in BOOLEAN /\ calm \in BOOLEAN /\ stopped \in BOOLEAN
    /\ \A id \in Ids : {catalog[id], was[id], ledger[id].rev, cache[id].reversion} \subseteq 0 .. index
    /\ \A id \in Ids : cache[id].status \in {0, Online, Unhealthy} /\ served[id].status # Offline
    /\ \A t \in Threads, id \in Ids : held[t][id].status \in {0, Online, Unhealthy}
    /\ index \in 1 .. MaxIndex /\ faults \in 0 .. MaxFaults /\ ticks \in 0 .. MaxTicks
    /\ {emptyConfirmations, empties} \subseteq 0 .. Confirmations
    /\ emptyConfirmationPending \in BOOLEAN
    /\ timer \in {"nil", "armed", "fired"} /\ orphans \in Nat /\ callbacks \in Nat
    /\ \A t \in Threads : /\ pc[t] \in {"idle", "sync", "dispatch", "emit", "gate", "compare", "remote", "done"}
                          /\ (pc[t] = "dispatch") = (out[t] # <<>>)
                          /\ emits[t] \in 0 .. 2
    /\ \A e \in pending : e.id \in Ids /\ e.ins.status \in Online .. Offline

(***************************************************************************)
(* The cache never goes back: an instance that stays in the cache keeps    *)
(* its revision or gets a later one, whichever of the four threads reads   *)
(* the catalog and however old what it reads is.                           *)
(***************************************************************************)
CacheNeverRegresses ==
    [][\A id \in Ids : cache'[id] # NoInstance => cache'[id].reversion >= cache[id].reversion]_vars

(***************************************************************************)
(* Emptiness is believed only when it was seen often enough: neither is    *)
(* the cache emptied nor an empty full push authorised unless that many    *)
(* reads in a row, by whichever threads, found a healthy empty catalog.    *)
(***************************************************************************)
EmptyIsConfirmed ==
    [][(cache # Nothing /\ cache' = Nothing) \/ (\E t \in Threads : confirmed'[t] /\ ~confirmed[t])
       => empties' >= Confirmations]_vars

(***************************************************************************)
(* One undisturbed tick repairs whatever went wrong before it: tombstones  *)
(* of instances that came back with their revision, stale reads, events    *)
(* sent in the wrong order, corrections that compared two different times, *)
(* instances an earlier leader left behind.  (Of a catalog that is empty   *)
(* the emptiness has to be confirmed first; Atlas prunes by itself.)       *)
(***************************************************************************)
QuietTickRepairs ==
    calm /\ Quiet /\ nacosReconcile /\ View(catalog) # Nothing => served = View(catalog)
=============================================================================
