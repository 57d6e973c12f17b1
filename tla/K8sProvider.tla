---------------------------- MODULE K8sProvider ----------------------------
(***************************************************************************)
(* The Kubernetes provider (pkg/providers/k8s/k8s.go): from the informer   *)
(* store to the registry.                                                  *)
(*                                                                         *)
(* Three goroutines work on one processed cache.  The monitor waits for    *)
(* the informers, bootstraps the cache from their store and reconciles     *)
(* once; then the pop loop applies the queued events one by one, while the *)
(* ticker compares the cache with the registry and pushes it in full.  The *)
(* generation counts the changes of the cache: a compare whose remote read *)
(* was overtaken by one is discarded.                                      *)
(*                                                                         *)
(* The informers, the pool and the registry are external.  The queue is    *)
(* the one of CoalescingQueue.tla without its capacity, the pool with its  *)
(* overflow queue (OverflowQueue.tla) is a set of tasks that run in any    *)
(* order, and the gate of OrderedSink.tla is passed in one step.           *)
(***************************************************************************)
EXTENDS PodConversion

CONSTANTS
    Keys,           \* pods, by cluster, namespace and name
    Shapes,         \* what a pod can look like; its version is filled in
    PushAppCodes,   \* the application codes that are pushed, {} for all
    Modes,          \* values of nacosReconcile
    Relists,        \* the watch may be interrupted
    Confirmations,  \* empty snapshots that confirm an empty source (3 in the code)
    MaxVersion      \* bound: changes of the pods

ASSUME MaxVersionAssumption == MaxVersion \in Nat
ASSUME ConfirmationsAssumption == Confirmations \in Nat \ {0}
ASSUME ModesAssumption == Modes \subseteq BOOLEAN /\ Relists \in BOOLEAN

\* SourceKey: the cluster and the UID of the pod.  A pod that is created
\* again under its name is a different instance.
Ids == Keys \X (1 .. MaxVersion)

VARIABLES
    nacosReconcile, \* the registry compared with is Nacos, not Atlas
    store,          \* store[k]: the pod the informers hold, uid 0 if none
    version,        \* the resource version last given out
    queue,          \* the robot's queue
    robotStopped,
    cancelled,      \* ctx.Done
    monitor,        \* where the monitor goroutine is
    pop,            \* where the pop loop is,
    obj,            \*   and the object it works on
    cache,          \* cache[id]: the processed instance, status 0 if none
    generation,
    emptyConfirmations, \* counted up to Confirmations
    full,           \* where the full push is,
    held,           \*   the instances it has listed, or the corrections left to send,
    heldGeneration, \*   the generation it saw,
    confirmed,      \*   and EmptyConfirmed of the event it emits
    ticking,        \* ProcessIntervalFullPush runs
    pending,        \* events submitted to the pool
    released,       \* the pool was released
    served,         \* served[id]: what the registry holds, status 0 if nothing
    ledger,         \* ledger[id]: the last revision the gate accepted
    bootedBy,       \* who copied the informer store into the cache
    relisted        \* pods replaced while the watch was down

sourceVars == <<store, version, relisted>>
popVars == <<pop, obj>>
cacheVars == <<cache, generation, bootedBy>>
fullVars == <<full, held, heldGeneration, confirmed, emptyConfirmations>>
sinkVars == <<served, ledger>>
lifeVars == <<robotStopped, cancelled, monitor, ticking, released>>
vars == <<nacosReconcile, sourceVars, queue, popVars, cacheVars, fullVars, pending,
          sinkVars, lifeVars>>

NoObject == [key |-> CHOOSE k \in Keys : TRUE, uid |-> 0, event |-> "none"]
NoPod == [uid |-> 0, pod |-> CHOOSE s \in Shapes : TRUE]
NoInstance == [status |-> 0]
Nothing == [id \in Ids |-> NoInstance]

\* The instances of a cache that are not offline.
Live(c) == [id \in Ids |-> IF IsLive(c[id]) THEN c[id] ELSE NoInstance]

\* formatInstanceWithDeps and VerifyInstance: the instance made of a pod.
Converted(event, pod) ==
    LET ins == formatInstance(event, pod)
    IN  IF Unconvertible(pod, PushAppCodes) \/ ~Valid(ins) THEN NoInstance ELSE ins

Init ==
    /\ nacosReconcile \in Modes
    /\ store = [k \in Keys |-> NoPod]
    /\ version = 0
    /\ relisted = {}
    /\ queue = <<>>
    /\ pop = "off" /\ obj = NoObject
    /\ cache = Nothing /\ generation = 0 /\ bootedBy = "nobody"
    /\ full = "idle" /\ held = Nothing /\ heldGeneration = 0
    /\ confirmed = FALSE /\ emptyConfirmations = 0
    /\ pending = {}
    /\ served = Nothing
    /\ ledger = [id \in Ids |-> NoEntry]
    /\ robotStopped = FALSE /\ cancelled = FALSE /\ released = FALSE
    /\ monitor = "syncing" /\ ticking = FALSE

-----------------------------------------------------------------------------
(***************************************************************************)
(* The informers (external), with the callback that enqueues the event:    *)
(* the time it waits to run counts as time in the queue.  A pod is created *)
(* Pending, unless the first list finds it later in its life, never        *)
(* returns to it and never leaves a final phase.  After an interrupted     *)
(* watch a pod that was replaced under its name is seen as one update.     *)
(***************************************************************************)
\* enqueue and Offer: the event takes the place of a queued one of its pod.
Enqueued(item) ==
    LET same == {i \in DOMAIN queue : queue[i].key = item.key /\ queue[i].uid = item.uid}
    IN  IF same = {} THEN Append(queue, item)
        ELSE [i \in DOMAIN queue |-> IF i \in same THEN item ELSE queue[i]]

Changed(k, pod, event) ==
    /\ ~robotStopped
    /\ version < MaxVersion
    /\ version' = version + 1
    /\ store' = [store EXCEPT ![k] = pod]
    /\ queue' = Enqueued([key |-> k, uid |-> IF pod.uid = 0 THEN store[k].uid ELSE pod.uid,
                          event |-> event])
    /\ UNCHANGED <<nacosReconcile, popVars, cacheVars, fullVars, pending, sinkVars, lifeVars>>

\* The next version of a pod of that shape.
Versioned(uid, shape) == [uid |-> uid, pod |-> [shape EXCEPT !.version = version + 1]]

Create(k, shape) ==
    /\ store[k].uid = 0
    /\ monitor # "syncing" => shape.phase = "Pending"
    /\ Changed(k, Versioned(version + 1, shape), "add")
    /\ UNCHANGED relisted

\* A pod in that phase may come to look like this.
MayBecome(phase, shape) ==
    IF phase \in {"Failed", "Succeeded"} THEN shape.phase = phase
    ELSE shape.phase = "Pending" => phase = "Pending"

Update(k, shape) ==
    /\ store[k].uid # 0
    /\ MayBecome(store[k].pod.phase, shape)
    /\ Changed(k, Versioned(store[k].uid, shape), "update")
    /\ UNCHANGED relisted

Delete(k) ==
    /\ store[k].uid # 0
    /\ Changed(k, NoPod, "delete")
    /\ UNCHANGED relisted

Replace(k, shape) ==
    /\ Relists
    /\ store[k].uid # 0
    /\ Changed(k, Versioned(version + 1, shape), "update")
    /\ relisted' = relisted \cup {k}

-----------------------------------------------------------------------------
(***************************************************************************)
(* The pop loop.                                                           *)
(***************************************************************************)
\* robot.Pop returns an object; a stopped robot still hands out what is queued.
Pop ==
    /\ pop = "pop"
    /\ queue # <<>>
    /\ obj' = Head(queue)
    /\ queue' = Tail(queue)
    /\ pop' = "read"
    /\ UNCHANGED <<nacosReconcile, sourceVars, cacheVars, fullVars, pending, sinkVars, lifeVars>>

\* Mutant: the loop tries again whatever made Pop fail.
PopRetries ==
    /\ pop = "pop"
    /\ queue = <<>> /\ robotStopped
    /\ UNCHANGED vars

\* robot.Pop fails, and the provider is stopping.
PopFails ==
    /\ pop = "pop"
    /\ queue = <<>> /\ robotStopped /\ cancelled
    /\ pop' = "done"
    /\ UNCHANGED <<nacosReconcile, sourceVars, queue, obj, cacheVars, fullVars, pending,
                   sinkVars, lifeVars>>

\* Mutant: whatever pod has the name is taken for the one of the event.
FoundByName(o) == store[o.key].uid # 0

\* GetByClusterKey, and the UID check: the store holds the pod of the event.
Found(o) == store[o.key].uid = o.uid

\* hasInstanceDiff
hasInstanceDiff(old, new) ==
    /\ ~(old.status = Offline /\ new.status = Offline)
    /\ \/ new.reversion > old.reversion
       \/ \E f \in {"envType", "state", "status", "envGroup", "ip", "enabled"} : new[f] # old[f]

\* pod2Instance, an offline instance without an address: the last known
\* fields come from the cache, if an address was ever registered.
Recovered(ins, cached) ==
    IF ins.status # Offline \/ ins.ip # "" THEN ins
    ELSE IF cached = NoInstance \/ cached.ip = "" THEN NoInstance
    ELSE [cached EXCEPT !.status = Offline, !.state = "terminated", !.enabled = FALSE,
                        !.reversion = ins.reversion]

\* Mutant: an instance that is not cached yet has nothing to differ from.
OutcomeOfKnown(ins, cached) ==
    IF ins = NoInstance
    THEN IF IsLive(cached) THEN [cached EXCEPT !.status = Offline] ELSE NoInstance
    ELSE LET new == Recovered(ins, cached)
         IN  IF new # NoInstance /\ cached # NoInstance /\ hasInstanceDiff(cached, new)
             THEN new ELSE NoInstance

\* pod2Instance, against the cache: what the event makes of the instance, or
\* NoInstance if it changes nothing.
Outcome(ins, cached) ==
    IF ins = NoInstance
    THEN IF IsLive(cached) THEN [cached EXCEPT !.status = Offline] ELSE NoInstance
    ELSE LET new == Recovered(ins, cached)
         IN  IF new # NoInstance /\ (cached = NoInstance \/ hasInstanceDiff(cached, new))
             THEN new ELSE NoInstance

\* pod2Instance, ProcessCache and the submission to the pool (or to its
\* overflow queue).  A pod that is not pushed ends the event, a pod that is
\* gone matters only to a delete.
Pod2Instance ==
    /\ pop = "read"
    /\ LET found == Found(obj)
           id == <<obj.key, IF found THEN store[obj.key].uid ELSE obj.uid>>
           ins == IF found THEN Converted(obj.event, store[obj.key].pod) ELSE NoInstance
           new == IF (found /\ ins # NoInstance) \/ (~found /\ obj.event = "delete")
                  THEN Outcome(ins, cache[id]) ELSE NoInstance
       IN  IF new = NoInstance THEN UNCHANGED <<cache, generation, pending>>
           ELSE /\ cache' = [cache EXCEPT ![id] = new]
                /\ generation' = generation + 1
                /\ pending' = pending \cup {[id |-> id, ins |-> new]}
    /\ pop' = "pop" /\ obj' = NoObject
    /\ UNCHANGED <<nacosReconcile, sourceVars, queue, bootedBy, fullVars, sinkVars, lifeVars>>

-----------------------------------------------------------------------------
(***************************************************************************)
(* The full push: CompareAndFlush, then emitSyncAll.  It runs once in the  *)
(* monitor, before the pop loop and the ticker exist, and then in every    *)
(* tick.                                                                   *)
(***************************************************************************)
\* UNCHANGED for a step of the full push that only reads.
OnlyFull == UNCHANGED <<nacosReconcile, sourceVars, queue, popVars, cacheVars, pending, sinkVars, lifeVars>>

\* GetAll: what the informer store holds now, converted.
GetAll ==
    [id \in Ids |-> IF store[id[1]].uid = id[2] THEN Converted("", store[id[1]].pod) ELSE NoInstance]

\* bootstrapCacheFromSource: a cache that has processed anything is kept, and
\* an empty source ends the compare.
Bootstrap ==
    /\ held' = IF generation # 0 THEN Nothing ELSE GetAll
    /\ full' = IF generation # 0 THEN "snapshot"
               ELSE IF held' = Nothing THEN "syncall" ELSE "install"
    /\ heldGeneration' = 0

\* replaceCacheIfGeneration: nothing was processed since the list was read.
MayInstall == generation = heldGeneration

Install ==
    /\ full = "install"
    /\ IF MayInstall
       THEN /\ cache' = held
            /\ generation' = generation + 1
            /\ bootedBy' = IF ticking THEN "tick" ELSE "startup"
       ELSE UNCHANGED cacheVars
    /\ full' = "snapshot"
    /\ held' = Nothing /\ heldGeneration' = 0
    /\ UNCHANGED <<nacosReconcile, sourceVars, queue, popVars, confirmed,
                   emptyConfirmations, pending, sinkVars, lifeVars>>

\* Mutant: an empty snapshot is never followed by a reset.
CountedForever(advance, live) ==
    IF live = Nothing /\ advance /\ emptyConfirmations < Confirmations
    THEN emptyConfirmations + 1 ELSE emptyConfirmations

\* snapshotForFullPushMode: only the event that is emitted counts an empty
\* snapshot, any snapshot that is not empty starts the count again.
Counted(advance, live) ==
    IF live # Nothing THEN 0
    ELSE IF advance /\ emptyConfirmations < Confirmations THEN emptyConfirmations + 1
    ELSE emptyConfirmations

\* CompareAndFlush: the local side, which ends the compare if it is empty.
Snapshot ==
    /\ full = "snapshot"
    /\ held' = Live(cache)
    /\ heldGeneration' = IF held' = Nothing THEN 0 ELSE generation
    /\ emptyConfirmations' = Counted(FALSE, held')
    /\ full' = IF held' = Nothing THEN "syncall" ELSE "compare"
    /\ UNCHANGED confirmed /\ OnlyFull

\* GetAll of the worker (external): what the registry serves, or a failed
\* read that counts as empty.
Answers == {served, Nothing}

\* The instances of the application codes that are pushed.
Pushed(list) ==
    [id \in Ids |-> IF list[id] = NoInstance \/ PushAppCodes = {} THEN list[id]
                    ELSE IF list[id].appCode \in PushAppCodes THEN list[id] ELSE NoInstance]

\* Mutant: the remote read is taken to be instantaneous.
OvertakenNever == FALSE

\* The cache was changed while the remote read was in flight.
Overtaken == generation # heldGeneration

\* What the registry should be told of an instance: the local one if it
\* differs or is missing and online; Atlas is also told what to take offline.
Correction(local, remote) ==
    IF local # NoInstance /\ remote # NoInstance
    THEN IF IF nacosReconcile THEN local # remote ELSE hasInstanceDiff(remote, local)
         THEN local ELSE NoInstance
    ELSE IF local # NoInstance
    THEN IF local.status = Online THEN local ELSE NoInstance
    ELSE IF remote # NoInstance /\ ~nacosReconcile
    THEN [remote EXCEPT !.enabled = FALSE, !.status = Offline, !.state = "terminated"]
    ELSE NoInstance

(***************************************************************************)
(* CompareAndFlush: the remote read returns.  The corrections are computed *)
(* after the check below in the code, from the same two lists.  An empty   *)
(* answer makes Atlas be told everything; Nacos is left to the full push   *)
(* that follows, or to the next tick if the read failed.                   *)
(***************************************************************************)
Compare ==
    /\ full = "compare"
    /\ full' = "check"
    /\ \E answer \in Answers :
        held' = IF answer # Nothing THEN [id \in Ids |-> Correction(held[id], Pushed(answer)[id])]
                ELSE IF nacosReconcile THEN Nothing ELSE held
    /\ UNCHANGED <<heldGeneration, confirmed, emptyConfirmations>> /\ OnlyFull

\* CompareAndFlush: the generation is looked at once, under the lock.
Check ==
    /\ full = "check"
    /\ held' = IF Overtaken THEN Nothing ELSE held
    /\ heldGeneration' = 0
    /\ full' = IF held' = Nothing THEN "syncall" ELSE "submit"
    /\ UNCHANGED <<confirmed, emptyConfirmations>> /\ OnlyFull

\* buildAndSendEvent, of the corrections one after the other: the pop loop and
\* the pool go on meanwhile.
Submit(id) ==
    /\ full = "submit"
    /\ held[id] # NoInstance
    /\ pending' = pending \cup {[id |-> id, ins |-> held[id]]}
    /\ held' = [held EXCEPT ![id] = NoInstance]
    /\ full' = IF held' = Nothing THEN "syncall" ELSE "submit"
    /\ UNCHANGED <<nacosReconcile, sourceVars, queue, popVars, cacheVars, heldGeneration, confirmed,
                   emptyConfirmations, sinkVars, lifeVars>>

\* The full push is over.
Finished == IF ticking THEN "idle" ELSE "end"

\* emitSyncAll: the event, with its snapshot taken now.  The first full push
\* is only emitted to Nacos.  An empty snapshot that is not confirmed is
\* dropped by the worker.
EmitSyncAll ==
    /\ full = "syncall"
    /\ IF ticking \/ nacosReconcile
       THEN /\ emptyConfirmations' = Counted(TRUE, Live(cache))
            /\ confirmed' = (emptyConfirmations' >= Confirmations)
            /\ full' = IF Live(cache) = Nothing /\ ~confirmed' THEN Finished ELSE "gate"
       ELSE full' = Finished /\ UNCHANGED <<confirmed, emptyConfirmations>>
    /\ UNCHANGED <<held, heldGeneration>> /\ OnlyFull

\* The full push at the gate (PushAllOperation).  Under the exclusive lock
\* Revalidate takes the snapshot again.  Nacos removes what the snapshot omits,
\* unless the snapshot is empty: the scope "k8s" names no cluster there.
GatePush ==
    /\ full = "gate"
    /\ full' = Finished
    /\ confirmed' = FALSE
    /\ emptyConfirmations' = Counted(FALSE, Live(cache))
    /\ LET fresh == Live(cache)
       IN  IF (fresh = Nothing /\ ~confirmed) \/ FullRejected(ledger, fresh)
           THEN UNCHANGED sinkVars
           ELSE /\ served' = IF nacosReconcile /\ fresh # Nothing THEN fresh
                             ELSE [id \in Ids |-> IF id \in Present(fresh) THEN fresh[id] ELSE served[id]]
                /\ ledger' = FullLedger(ledger, fresh)
    /\ UNCHANGED <<nacosReconcile, sourceVars, queue, popVars, cacheVars, held, heldGeneration,
                   pending, lifeVars>>

\* A task of the pool (external): the event passes the gate or is dropped.
RunTask(e) ==
    /\ e \in pending
    /\ pending' = pending \ {e}
    /\ IF Stale(ledger[e.id], e.ins) THEN UNCHANGED sinkVars
       ELSE /\ ledger' = [ledger EXCEPT ![e.id] = Accepted(ledger[e.id], e.ins)]
            /\ served' = [served EXCEPT ![e.id] = IF IsLive(e.ins) THEN e.ins ELSE NoInstance]
    /\ UNCHANGED <<nacosReconcile, sourceVars, queue, popVars, cacheVars, fullVars, lifeVars>>

-----------------------------------------------------------------------------
(***************************************************************************)
(* The monitor and the ticker.                                             *)
(***************************************************************************)
\* HasSynced: the first compare starts.
Synced ==
    /\ monitor = "syncing"
    /\ monitor' = "startup"
    /\ Bootstrap
    /\ UNCHANGED <<nacosReconcile, sourceVars, queue, popVars, cacheVars, confirmed,
                   emptyConfirmations, pending, sinkVars, robotStopped, cancelled, ticking, released>>

\* The first full push is over: the ticker and the pop loop start.
Serve ==
    /\ monitor = "startup" /\ full = "end"
    /\ monitor' = "serving"
    /\ ticking' = TRUE
    /\ pop' = "pop"
    /\ full' = "idle"
    /\ UNCHANGED <<nacosReconcile, sourceVars, queue, obj, cacheVars, held, heldGeneration,
                   confirmed, emptyConfirmations, pending, sinkVars, robotStopped, cancelled, released>>

\* ProcessIntervalFullPush: a tick.
Tick ==
    /\ ticking /\ full = "idle"
    /\ Bootstrap
    /\ UNCHANGED <<nacosReconcile, sourceVars, queue, popVars, cacheVars, confirmed,
                   emptyConfirmations, pending, sinkVars, lifeVars>>

TickerExits ==
    /\ ticking /\ full = "idle" /\ cancelled
    /\ ticking' = FALSE
    /\ UNCHANGED <<nacosReconcile, sourceVars, queue, popVars, cacheVars, fullVars, pending, sinkVars,
                   robotStopped, cancelled, monitor, released>>

\* The server cancels the provider's context.
Cancel ==
    /\ ~cancelled
    /\ cancelled' = TRUE
    /\ UNCHANGED <<nacosReconcile, sourceVars, queue, popVars, cacheVars, fullVars, pending, sinkVars,
                   robotStopped, monitor, ticking, released>>

\* The monitor leaves its wait and stops the robot: to let the pop loop
\* finish, or as part of the shutdown if the informers never synced.
StopRobot ==
    /\ cancelled
    /\ \/ monitor = "serving" /\ monitor' = "draining"
       \/ monitor = "syncing" /\ monitor' = "closing"
    /\ robotStopped' = TRUE
    /\ UNCHANGED <<nacosReconcile, sourceVars, queue, popVars, cacheVars, fullVars, pending, sinkVars,
                   cancelled, ticking, released>>

\* <-popDone
Drained == pop = "done"

\* shutdown: done is closed, and so is the overflow queue.
Shutdown ==
    /\ monitor = "draining" /\ Drained
    /\ monitor' = "closing"
    /\ UNCHANGED <<nacosReconcile, sourceVars, queue, popVars, cacheVars, fullVars, pending, sinkVars,
                   robotStopped, cancelled, ticking, released>>

\* shutdown: the ticker is waited for, then the pool is released.
Release ==
    /\ monitor = "closing" /\ ~ticking
    /\ monitor' = "gone"
    /\ released' = TRUE
    /\ UNCHANGED <<nacosReconcile, sourceVars, queue, popVars, cacheVars, fullVars, pending, sinkVars,
                   robotStopped, cancelled, ticking>>

\* A pod that looks like this has an instance.
Registrable(shape) == Converted("", [shape EXCEPT !.version = 1]) # NoInstance

(***************************************************************************)
(* The pods of a cluster: a pod that is pushed is not relabelled to one    *)
(* that is not, and a pod with an instance that is not offline has an      *)
(* address.                                                                *)
(***************************************************************************)
ASSUME ShapesAssumption ==
    \A s \in Shapes :
        /\ DOMAIN s = {"phase", "reason", "deleting", "containers", "statuses", "ip", "labels", "env",
                       "nsName", "version"}
        /\ Registrable(s) => \A t \in Shapes : MayBecome(s.phase, t) => Registrable(t)
        /\ Registrable(s) /\ s.ip = "" => formatStatus("", s) = Offline

Source ==
    \E k \in Keys :
        \/ \E shape \in Shapes : Create(k, shape) \/ Update(k, shape) \/ Replace(k, shape)
        \/ Delete(k)

PopStep == Pop \/ PopFails \/ Pod2Instance

FullStep ==
    \/ Tick \/ Install \/ Snapshot \/ Compare \/ Check \/ EmitSyncAll \/ GatePush
    \/ \E id \in Ids : Submit(id)

MonitorStep == Synced \/ Serve \/ StopRobot \/ Shutdown \/ Release

Next ==
    \/ Source \/ PopStep \/ FullStep
    \/ \E e \in pending : RunTask(e)
    \/ TickerExits \/ Cancel \/ MonitorStep

Spec == Init /\ [][Next]_vars

(***************************************************************************)
(* Fairness.  Every goroutine that can go on does, the pool runs its tasks *)
(* and the ticker ticks.  Of its two cases the select of the ticker does   *)
(* not choose the tick for ever: a cancelled ticker exits.  Pods change,   *)
(* and the server cancels, or they do not.                                 *)
(***************************************************************************)
FairSpec ==
    /\ Spec
    /\ WF_vars(PopStep) /\ WF_vars(FullStep) /\ WF_vars(MonitorStep)
    /\ WF_vars(\E e \in pending : RunTask(e))
    /\ SF_vars(TickerExits)

-----------------------------------------------------------------------------
\* Nothing that happened to pod k is on its way to the cache.
Settled(k) ==
    /\ \A i \in DOMAIN queue : queue[i].key # k
    /\ pop = "read" => obj.key # k

\* The instance that is made of pod k as the store holds it, for incarnation u.
Wanted(id) ==
    LET ins == GetAll[id] IN IF IsLive(ins) THEN ins ELSE NoInstance

\* Type invariant.
TypeOK ==
    /\ nacosReconcile \in BOOLEAN /\ cancelled \in BOOLEAN /\ robotStopped \in BOOLEAN
    /\ ticking \in BOOLEAN /\ released \in BOOLEAN /\ confirmed \in BOOLEAN
    /\ version \in 0 .. MaxVersion /\ relisted \subseteq Keys
    /\ \A k \in Keys : store[k].uid \in 0 .. version
    /\ \A id \in Ids : {cache[id].status, served[id].status, held[id].status} \subseteq 0 .. 3
    /\ \A id \in Ids : served[id].status # Offline /\ ledger[id].rev \in 0 .. MaxVersion
    /\ \A e \in pending : e.id \in Ids /\ e.ins.status \in 1 .. 3
    /\ emptyConfirmations \in 0 .. Confirmations
    /\ monitor \in {"syncing", "startup", "serving", "draining", "closing", "gone"}
    /\ pop \in {"off", "pop", "read", "done"}
    /\ full \in {"idle", "install", "snapshot", "compare", "check", "submit", "syncall", "gate", "end"}

(***************************************************************************)
(* The cache follows the pods.  If the cache was filled before the pop     *)
(* loop started, then a pod none of whose events is still on its way has   *)
(* in the cache exactly the instance its present state stands for, and     *)
(* every earlier incarnation of it is offline.  Deletes, events for a pod  *)
(* that was replaced meanwhile, and pods without an address all have to be *)
(* right for this.                                                         *)
(***************************************************************************)
CacheFollowsPods ==
    bootedBy = "startup" /\ pop # "off" =>
        \A id \in Ids : Settled(id[1]) /\ id[1] \notin relisted => Live(cache)[id] = Wanted(id)

(***************************************************************************)
(* The same without the proviso: no pod that is gone stays live in the     *)
(* cache.  A tick may still copy the informer store into the cache when    *)
(* nothing has been processed yet, and the delete of a pod it has listed   *)
(* can be processed, without an effect on the generation, before the list  *)
(* is installed.                                                           *)
(***************************************************************************)
NoGhosts ==
    pop # "off" /\ full # "install" =>
        \A id \in Ids : Settled(id[1]) /\ Live(cache)[id] # NoInstance => Wanted(id) # NoInstance

\* If both are pushed, in whatever order, the gate lets now have the last word.
GivesWay(ins, now) ==
    /\ now # NoInstance
    /\ \/ ins = now
       \/ ins.reversion < now.reversion
       \/ ins.reversion = now.reversion /\ ~IsLive(now)

(***************************************************************************)
(* A correction never overrides what the pop loop has processed: whatever  *)
(* came between the local list, the remote read, the check of the          *)
(* generation and the submission, a correction is submitted only if it is  *)
(* what the cache holds of that instance or gives way to it.  In           *)
(* particular an instance registered during the remote read is not taken   *)
(* for one that was deleted.                                               *)
(***************************************************************************)
CorrectionsGiveWay ==
    [][full = "submit" /\ held' # held =>
        \A e \in pending' \ pending : GivesWay(e.ins, cache[e.id])]_vars

(***************************************************************************)
(* An event whose emptiness is confirmed is emitted only when every pod    *)
(* whose events have been applied is really gone: an empty registry is     *)
(* never asked for while a settled pod is live.                            *)
(***************************************************************************)
ConfirmedEmptyIsEmpty ==
    [][full = "syncall" /\ full' = "gate" /\ confirmed' =>
        \A id \in Ids : (bootedBy = "startup" /\ Settled(id[1])) => Wanted(id) = NoInstance]_vars

\* A cancelled provider stops completely, from wherever it is.
ShutdownCompletes == cancelled ~> released

\* Unless the provider is cancelled, the pods that are there once the changes
\* cease end up registered, in their present state.
LivePodsAreServed ==
    <>[](cancelled \/ \A id \in Ids : Wanted(id) # NoInstance => served[id] = Wanted(id))
=============================================================================
