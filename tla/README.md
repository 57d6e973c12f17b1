# A TLA+ model of spotter

spotter (this repository) keeps a registry, Nacos or Atlas, in step with two
sources of service instances, Kubernetes and Consul. This directory models the
program from the election of a leader to the calls Nacos sees, checks the model
with TLC on small instances, and proves the central safety properties with
TLAPS for every instance.

## The system

```
 pod informers ─▶ coalescingQueue ─▶ K8s provider ─┐        ┌▶ orderedSink ─▶ Nacos sink ─▶ client
                                                   ├▶ worker ┤   (one per sink)
 Consul watch ─▶ monitor ─▶ Consul provider ───────┘   ▲ │   └▶ orderedSink ─▶ Atlas
                   (providers: pool, overflow queue)   │ ▼
 etcd election ─▶ server: starts and stops the above   retry queue
```

* **The server** runs providers on the elected leader only. Each leadership
  starts a *startup*, which dials, builds the sinks, publishes the providers
  and waits for them.
* **Providers** keep a cache of instances. They emit events (add, update,
  delete) and full pushes (a snapshot of the cache), and every interval they
  compare the cache with the registry and correct the difference. Each event
  is a task on a worker pool; what the pool refuses waits in an *overflow
  queue*.
* **The worker** hands events to the *fan-out*, which calls all sinks at once.
  What a sink failed to take goes to the *retry queue* and is pushed again, to
  that sink only, every five seconds.
* **orderedSink** is the gate in front of each sink. It remembers the revision
  it last accepted for each identity (the *ledger*) and drops what is older.
* **The Nacos sink** registers, deregisters and prunes. Nacos knows an instance
  by its address (the *wire identity*), which two sources may share; the sink
  keeps track of who owns which.

A revision (`Reversion`) comes from the source. A delete carries the revision
of the instance that it deletes, so revisions do not order a delete and the
update before it. Several of the properties below are about this.

## Modules

| Module | Models | Run | Proofs |
|---|---|---|---|
| `KeyMutex` | what `lockKeys` promises: one lock per identity | `key_locks` | |
| `KeyLocks` | `lockKeys` and its unlock function, `pkg/worker/fanout.go` | `key_locks` | `OrderedSinkProofs` |
| `OrderedSink` | `orderedSink`, `pkg/worker/fanout.go` | `ordered_sink`, `ordered_sink_scopes` | `OrderedSinkProofs` |
| `RetryQueue` | `worker.go`, `FanoutSink`, `unsynced_service.go` | `retry_queue` | `RetryQueueProofs` |
| `CoalescingQueue` | `coalescingQueue`, `robot.Pop`, `pkg/k8srobot/k8srobot.go` | `coalescing_queue` | `QueueProofs` |
| `OverflowQueue` | `pkg/providers/overflow.go` | `overflow_queue` | `QueueProofs` |
| `ServerLifecycle` | `internal/server.go`, `pkg/distribute/election`, `pkg/worker/elector.go` | `server_lifecycle` | `ServerProofs` |
| `InstanceStatus`, `WireScope` | the statuses of an instance; `SanitizeWireScope` as a parameter | with the others | |
| `RegistryGate` | the rules of the gate as the providers see them | with the providers | |
| `PodConversion` | `pkg/providers/k8s/conversion.go`, filters, `observation.go` | `k8s_provider` | `InstanceProofs` |
| `K8sProvider` | `pkg/providers/k8s/k8s.go` and the informer callbacks | `k8s_provider`, `k8s_provider_live` | `K8sProviderProofs` |
| `ConsulMonitor` | `pkg/providers/consul/monitor.go` | `consul_monitor` | `ConsulProofs` |
| `ConsulProvider` | `pkg/providers/consul/consul.go` | `consul_provider` | `ConsulProofs` |
| `ConsulConversion` | `convertion.go`, `source.go`, `client_factory.go` of Consul | | `InstanceProofs` |
| `NacosSink` | `pkg/nacos/nacos.go`, `batch.go` | `nacos_sink` | `NacosSinkProofs` |
| `NacosClient` | batches, paging, retries and readiness in `pkg/nacos` | `nacos_sink` | `ServerProofs` |
| `NacosWire` | the record written to Nacos and the way back | | `InstanceProofs` |
| `InstanceRules` | identities, indexes, comparisons, the provider cache | `k8s_provider` | `InstanceProofs` |

`MC*` modules give the constants their values. `PROJECT.json` maps each
definition to the lines it models. Operators whose comment begins with
"Mutant:" are faulty variants of the operator after them. No specification uses
them; they serve to confirm that a property can fail.

The modules meet at three places. `OrderedSink` takes its identity locks
from `KeyMutex` (`INSTANCE`), which `KeyLocks` implements. The providers use `RegistryGate`, the
decision and the recording of `OrderedSink` in one step: the gate holds the
identity (or all of it, for a full push) from one to the other, and
`AcceptedInv` of `OrderedSinkProofs` shows that nothing overtakes it meanwhile.
And the providers' pool is a set of tasks that run in any order, which is what
the pool and `OverflowQueue` together allow.

### KeyMutex and KeyLocks

`lockKeys` registers with the table under `keysMu` (`Register`), locks the
entries in sorted order (`LockNext`), and the unlock function unlocks them in
reverse (`UnlockNext`) and counts the caller out (`Unregister`). An entry is an
address, because two callers exclude each other only if they use the same
entry. An address is reused once nothing points to it, as the allocator may.
`KeyLocks` is shown to implement `KeyMutex`, in which a caller takes all its
identities in one step (`ImplementsMutex`).

### OrderedSink

State: the ledger `latest`, `identityScope`, `closed`, the read-write gate
(`readers`, `writer`) and the identity locks (`holder`); per goroutine its place
`pc` and its call `op`. `remote` is what the registry serves. `dirty` collects
identities that a failed push has left in doubt.

| Action | Code |
|---|---|
| `SourceUpdate`, `SourceDelete`, `DriftDelete` | the providers' caches change and emit events |
| `Push`, `CallFull` | a goroutine calls the gate with any event so far, or with a snapshot |
| `LockKeys`, `EnterExclusive` | the two ways into the gate; the second reads the snapshot again |
| `Filter` | `runLocked` drops what the ledger has overtaken, or refuses a full push |
| `FallBack` | the worker's second attempt at an operation that was found stale (worker.go:103) |
| `InnerPush` | the sink registers, deregisters and prunes; it may do any part of it and fail |
| `Commit` | the ledger records what was acknowledged; omitted identities are entombed |
| `Close` | the gate closes |

Events are never removed from `emitted`: late and repeated delivery need no
actions of their own. The prune goes by registry cluster (`ClusterOf`), the
ledger by provider (`ScopeOf`). The two have the same name for a Consul source.
They differ for Kubernetes, whose scope is "k8s" and whose clusters are named
after their source. `Trigger` stands for `UnixNano` times, which exceed every
provider revision; an item of revision 0 is recorded with its trigger
(fanout.go:424). The worker's second attempt goes to all sinks, so that a sink
can also meet it because of another sink's ledger; `FallBack` covers a sink's
own ledger only.

### RetryQueue

Handlers take events (`TakeEvent`) or emit full pushes (`TakeFull`), call all
sinks (`FanOut`) and queue the failures (`FinishEvent`, `FinishFull`). A full
push that was only found stale is repeated without its operation (`FallBack`).
The retry goroutine copies the queue (`StartCycle`), pushes one entry at a time
(`RetryOne`) and deletes it if the queue still holds the same (`RetryDone`).

### CoalescingQueue and OverflowQueue

Both are keyed queues with a one-token wake-up channel. In both, the token is
sent after the lock is released, so the send is an action of its own (`Signal`)
and the consumer's check of the queue and its sleep are separate steps.
`CoalescingQueue` has the recovery buffer of dropped entries, and `Stop`.
`OverflowQueue` has replacement of a task in flight, refusal by the pool, the
retry timer, `Close` and the end of the context.

### ServerLifecycle

The candidate's poll loop (`Poll`, `Campaign`, with session rebuild), one notify
goroutine for each observed change (`Notify`, in any order), the server's loop
(`Receive`, `Quit`, `LoopStops`, `LoopCancels`), a caller of Stop (`Stop`,
`StopCancels`), and one goroutine for each startup: `Lock` (lifecycleMu),
`StopOld`, `CancelOld`, `Begin` (registers the generation), `Dial` with its
attempts, `Registry`, `Policy`, `Sink`, `Assemble` (each may fail and clean up),
`Publish` (rechecks leadership and generation), `Launch`, `Finish`,
`ClearStartup`. A stop function is read under the server's mutex and called
after it: these are two steps everywhere. `open[i]` holds the client, the admin
connection and the sink of a startup until someone closes them; the sink owns
the admin connection once it is built. `LeaseExpires` takes the campaign key
away. Etcd is external.

### PodConversion and K8sProvider

`PodConversion` is the conversion of a pod, field by field, with the filter an
instance must pass. `K8sProvider` has a pod through its incarnations in the
informer store (`Create`, `Update`, `Delete`, and `Replace` for a watch that was
interrupted), each with the callback that enqueues; the pop loop (`Pop`,
`Pod2Instance`, which reads the store again, and `PopFails`); the monitor
(`Synced`, `Serve`, `StopRobot`, `Shutdown`, `Release`); and the full push with
the compare in front of it, on the monitor at startup and on the ticker later
(`Tick`, `Install`, `Snapshot`, `Compare`, `Check`, `Submit`, `EmitSyncAll`,
`GatePush`). The remote read, the check of the generation and each submission of
a correction are steps of their own, because the lock is released between them
(k8s.go:843). The registry may answer with everything or with nothing. `nacosReconcile` selects
the kind of registry compared with.

### ConsulMonitor and ConsulProvider

`ConsulMonitor`: `GetClient`, the blocking query and its answer, then first
`Stamp` and then `Signal` into channels with room for one; `Receive`, `Take`
and `Fire` of the debounce loop; the handler in a goroutine of its own. Consul's
index may go back once (a restored snapshot).

`ConsulProvider`: four threads (change handler, retry of an empty read, startup
compare, ticker) use one operator each for `syncInstanceAt` (`Sync`), sending
(`Dispatch`, one event per step, after the lock), the compare in two halves
(`Compare`, `CompareRemote`: the lock is released between them) and the full
push (`EmitSyncAll`, `GatePush`). A read may fail, or mix the present catalog
with the one before. The cache hands out copies (cache.go:41-55, 79-97), so what
`extractDiff` changes, an added instance to online and a deleted one to offline,
it changes in the event only. It announces no instance that `VerifyInstance`
rejects (`Invalid`); the cache, the compare and the full push have them all the
same. A timer that fired waits for the lock (`callbacks`), clears the reference
(`Callback`), and takes the lock again to read (`Retry`, or `RetryAfterStop` if
the provider was stopped in between). Of several callbacks one at a time is past
its first step.

### NacosSink

Every instance pushed is a thread: `Acquire` a permit, `RecoverWireOwnership`
(read the owners of the pair once), `ClaimWireIdentity`,
`EnsureHealthCheckDisabled` with `UpdateCluster` for the first and waiting for
the others, `Registers`, `Release`; or `CheckOwner`, `Deregisters`, `Forget`.
A full push (`PushAll`, or `PushEmpty` for a confirmed empty one) applies its
list in batches (`StartBatch`) and prunes (`Prune`). A call that fails may have
been applied. `Restart` loses all memory and keeps the catalog. The health check
is that of the SDK transport under the admin-managed policy: with the other
policies the sink never touches it (nacos.go:1138), and the HTTP transport
disables it after the registration (nacos.go:1107).

The data is what the two providers and this version of the program produce:
every instance has an address and names its source (the branch of
`recoverWireOwnership` for one that does not, nacos.go:512-514, is not taken),
and discovery reads every record of this program's back with the cluster it is
stored in (nacos.go:792-795 ignores others, which only another schema leaves).

### Operators

`InstanceRules`, `NacosWire`, `ConsulConversion` and `NacosClient` have no state:
identity keys and the lookup with its fallback to wire IDs, the two comparison
loops, the cache; the encoding of an instance as host and metadata and its
decoding by schema; endpoint conversion, source normalisation and client
selection; the cutting of batches, the page loops, `doForm`'s move to the next
server, construction and readiness. An answer is accepted, refused (4xx, the only
permanent failure), another status, or none. A key is the sequence of its "/"-separated
segments. For Consul keys this is faithful because source IDs and node names
contain no "/".

## Runs

| Run | Instance | Shows |
|---|---|---|
| `key_locks` | 3 goroutines, 2 identities, 3 addresses | the table implements one mutex per identity; every caller gets in |
| `ordered_sink` | 2 goroutines, 2 identities of one Consul source, 2 revisions, 3 events, 1 failure | the registry never goes back; a tombstone holds and is really gone; a full push never prunes what is newer than its snapshot; a fresh snapshot is accepted |
| `ordered_sink_scopes` | one identity in each of two Consul sources, with the second attempt | a full operation of one provider leaves the other's instances alone; confirmed instances are served |
| `coalescing_queue` | 3 pods, capacity 2, 3 events each | a change is dropped only if both buffers are full, keeps its earliest `CreateAt` and is drained by `Stop`; events in order; waiting pods are popped |
| `overflow_queue` | 3 identities, bound 2, 2 tasks each, 1 refusal | the newest accepted task is the one retained, and is submitted once, and eventually |
| `retry_queue` | 2 sinks, 2 handlers, 1 identity, 2 changes, 1 full push, 2 failures | no failure is forgotten; no sink gets again what it took; a failed full push is retried until one as new succeeds; the queue drains |
| `server_lifecycle` | 3 configurations, 2 providers, 2 leaderships, 1 failing stage, 2 dials | no provider outlives the leadership it was told to end; a startup that returned left nothing open; Stop quiesces; a lasting leader serves |
| `k8s_provider` | 1 pod name, 4 shapes, 3 changes, 2 confirmations, both registries, relists | the cache follows the pods; a correction never overrides what was processed meanwhile; an empty full push is authorised only if the pods are gone; the comparison does not depend on map order (up to two pods of one name against what Nacos lists of them) |
| `k8s_provider_live` | the same with 2 changes, under fairness | shutdown completes; pods that stay are served |
| `consul_monitor` | 4 changes, 1 restore, under fairness | every notice, and while the index grows every change, is followed by a handler call |
| `consul_provider` | 3 instances, one of which changes and is unhealthy and one invalid, 3 indexes, 1 faulty read, 1 tick, compared with Nacos | the cache does not go back; emptiness is confirmed; one undisturbed tick repairs the registry |
| `nacos_sink` | 5 instances of 2 sources on 3 wire identities, 3 pushes, 1 failure, 1 restart; snapshots of up to 4 items, listings of up to 4 names | nobody is stranded; claims are returned; a full push is exact; health check first; no takeover; batches partition; listings are complete; readiness leaves nothing |

`TypeOK` of `KeyLocks`, `OrderedSink`, `CoalescingQueue`, `OverflowQueue`,
`ServerLifecycle` and `ConsulMonitor` is proved. In the other modules it documents the state; adding
`INVARIANT TypeOK` to a configuration checks it. `Modes` of `ConsulProvider`
selects the registries compared with: `{TRUE}` is Nacos, `{FALSE}` Atlas. The run
takes Nacos, the one that is written today.

### What the properties leave out, and the deviations behind it

Some statements that a comment or a document makes do not hold of the code as it
is. The properties above are stated so that they hold, and the exceptions are
these. Where a configuration is named, TLC finds the trace with it.

| Statement | What happens | Configuration |
|---|---|---|
| fanout.go:255 "Tombstones keep late pre-delete events from resurrecting an instance" | an instance known from events only has no scope (line 491); a full operation prunes it without a tombstone, and a late event of its revision registers it again | `OrderedSinkLateEvent.cfg` |
| nacos.go:349-352 "this is how a completely vanished K8s source removes registrations" | a confirmed empty operation of Kubernetes prunes the cluster "k8s", in which there is nothing; it is acknowledged and all instances stay | `OrderedSinkEmpty.cfg` |
| fanout.go:318-321 "it must not tombstone every identity from another provider" | a drifted record is deleted with revision 0, so its tombstone gets a `UnixNano` revision; the next full operation is stale; the second attempt has no scope and entombs live instances of another source | `OrderedSinkFallback.cfg` |
| k8srobot.go:592-594 "the queued event is at least as new" | two events of one pod are recovering; the newer is skipped because the older was queued first | `CoalescingQueueSkip.cfg` |
| docs/nacos-sink-plan.md:949 "final state matches the last op" | a failed delete does not replace the queued registration of the same revision; the retry registers the deleted instance | `RetryQueueLastOp.cfg` |
| worker.go:137-139 "a sibling sink's timeout ... still needs to enter the per-sink retry queue" | in the second attempt one sink is stale and another times out; the timeout is not queued (line 115) | `RetryQueueMixed.cfg` |
| election.go:223-226 "behavior-compatible for the only consumer" | two notifications overtake each other, and the server keeps the older belief; while etcd cannot be reached nothing is told (line 216) | `ServerLifecycleBelief.cfg` |
| k8s.go:595-599 "a raw source snapshot can never overwrite live processed state at runtime" | a tick installs the first list after a delete that it still contains was processed | `K8sProviderGhosts.cfg` |
| nacos.go:214-219 "the only window where a restart loses the sweep target is a service that vanishes exactly while spotter is down — its drift then heals the first time any instance of the pair re-registers, or stays until a manual clean" | the comment is out of date: the prune rebuilds the owned pairs from Nacos first (nacos.go:770-803, sink_test.go:1566), so the next successful full push of the cluster removes such a service | `FullPushIsExact` of `nacos_sink` is checked with a restart and holds |

Each configuration goes with the `MC` module of its name (`MCOrderedSink`,
`MCCoalescingQueue`, `MCRetryQueue`, `MCServerLifecycle`, `MCK8sProvider`).

Smaller ones, seen while translating:

* A relist that reports a replaced pod as one update (k8srobot.go:259 ignores
  the old object) leaves the old incarnation live; `CacheFollowsPods` excepts
  such pods.
* A correction that the Kubernetes ticker submits after k8s.go:331 has closed
  the overflow queue is dropped if the pool refuses it.
* `LookupIdentity` is documented to fall back on a wire ID only if neither side
  has it twice (common.go:112-114); it looks at one side.
* The callback of a fired Consul timer clears the reference to a newer one, so
  that two retries may be pending, and may run on after `Run` has returned,
  against consul.go:493 and 479-481. Both are in the checked instance.
* A restore of Consul to exactly the index last seen is not noticed
  (monitor.go:116); the periodic compare repairs it.
* Of two pushes that share a claim, the one that made it can give it up under
  the other; nacos.go:1253-1254 delete the claim of whoever has it, and line
  1278 deregisters what was checked before. `NoTakeover` therefore excepts
  identities of which a push failed or which were deregistered.
* An instance without a port is read back with port 0 and never compares equal
  (`PortlessNeverSettles`), against rules.go:150-152.
* `listServicesHTTP` (client.go:1071) stops at a page that the server clamped.
  The HTTP readiness probe leaves its canary if the answer to its registration
  is lost, and a client whose construction fails does not close the admin
  facade (client.go:330). `ListingIsComplete` and `ReadinessLeavesNothing` say
  so in their hypotheses.
* An instance that is not online, has left the endpoint of its record, and whose
  record another instance of the same wire ID has taken out of the index first
  is not pushed by the comparison loop; in another order it is. `OrderFree`
  excludes it (`Stationary`).
* A startup that failed is not repeated before the next leadership change
  (server.go:193); `LeaderServes` excepts it.
* A queued full push keeps the confirmation of its emission, although
  `Revalidate` may return a later empty snapshot (unsynced_service.go:453). No
  property covers this. With `Generation = 0` a full push is queued under its
  trigger (line 106) and hides later ones; `retry_queue` starts at 1.

`CorrectionsGiveWay` says of a correction that it is what the cache holds or gives
way to it at the gate, not that it is the newest: after the check of the
generation (k8s.go:841-847) the pop loop may go on, and an older correction is
then submitted, and dropped by the ledger. `TombstonesAreGone` is checked where
scope and cluster have the same name and without the second attempt. `FreshSnapshotAccepted` speaks of states without a
drifted delete. The properties about ledger and registry exclude identities that
a failed push has left in doubt (`dirty`), until a push of them succeeds.
`QuietTickRepairs` speaks of a tick that begins when all threads rest and during
which the catalog does not change and no read fails.

### Bounds

Every bound is a constant named `Max...`, or the size of a set. Two revisions
let an event be older than, equal to or newer than the ledger. Three events give
an update, a delete and a late one. Two identities tell the effect on the pushed
identity from the effect on an omitted one. Two goroutines suffice for each race
at the gate, since a third could only wait. A capacity one below the number of
pods fills the queue and its recovery buffer. One failure of the inner sink puts
an identity in doubt; two failures let an event fail and its retry fail.

Two leaderships are the fewest in which a startup meets its successor; a third
would wait for the same mutex. Three changes of a pod are a creation, a deletion
and a second incarnation. Two confirmations (three in the code) already need two
reads in a row. Four changes of the catalog fill both channels of the monitor
while a check is under way. A batch size of 1 and two permits (100 and 8 in the
code) make batches and permits scarce with three instances. Symmetry is used
over goroutines only, and only in runs without liveness.

`CHECK_DEADLOCK FALSE` is set where the producers may fall silent, so that the
system comes to rest. The lock table and the gate are checked for deadlock.

### Fairness

* `KeyLocks`: every step after registering is weakly fair. A Go mutex is granted
  to a waiter that keeps waiting; for `LockNext` this is strong fairness, since
  the mutex may be free only now and then (Go's mutex starvation mode).
* `CoalescingQueue`: the consumer runs in a loop; a callback that has left the
  lock goes on. Nobody has to produce events or to stop.
* `OverflowQueue`: the dispatcher runs; a goroutine inside `Offer` goes on. The
  pool refuses only `MaxRefusals` times.
* `RetryQueue`: the ticker fires again and again, and a push returns. Sinks fail
  only `MaxFailures` times.
* `ServerLifecycle`: the server's goroutines run, and a provider whose context
  is cancelled returns (which `ShutdownCompletes` shows of the Kubernetes one).
  Nobody has to win, to lose or to stop, and the election has no fairness.
* `K8sProvider`: pop loop, monitor, ticker and pool go on. The exit of the ticker
  is strongly fair: `select` chooses at random among the cases that are ready,
  so a cancelled ticker does not take the tick for ever.
* `ConsulMonitor`: both goroutines and the handler go on. Getting a client and
  an answer are strongly fair: attempts may fail, but not all of them.

## Proofs

Each theorem holds for all values of the constants that satisfy the named
assumptions of its module: sets of goroutines, identities, providers and
addresses of any size, and any bound.

**OrderedSinkProofs** assumes that every identity has a provider and a cluster
and that the absent values are not real ones. Acceptance and recording are
separated by the inner push. A first invariant says who excludes whom at each
place of a call (`GateInv`), that a batch names an identity once (`BatchInv`),
and that what was accepted has not been overtaken while the push is on its way
(`AcceptedInv`). `LedgerMonotone`: the ledger never goes back. `TombstonesHold`:
a recorded deletion is undone only by a newer revision or by a snapshot read
under the gate.

What ledger and registry say of each other needs more (`SinkInvariant`).
`SourceInv`: nothing is ahead of its provider, unless a drifted record was
deleted. `FullInv`: a full push inside the gate carries what its provider had
when it was read. `RegistryInv`: between the inner push and the commit the
registry holds what the call is about to record, and outside of that, for an
identity not in doubt, what the ledger has recorded. From these:
`PushesNeverRegress` (a late event neither overwrites nor removes a newer
revision), `RevalidatedIsAccepted`, and `DeletionsAgree`: when a push is recorded,
what becomes a tombstone by it is gone from the registry, if the push looked at
the identity's cluster. This needs no hypothesis and covers Kubernetes and the
second attempt. The others depend on how clusters are named, or on which full
pushes are made, which is a hypothesis of the theorem. `ClustersApart` (no cluster has
instances of two providers, and none is named after a provider whose instances
are elsewhere) gives `ProvidersKeepApart` and `LiveIsServed`. That all
tombstones are gone fails of Kubernetes and after a second attempt, as the
deviations above show. `NoSecondAttempt` (no record drifts, or the sink knows
no other full push) gives `OwnDeadAreRemoved`, for each provider whose scope
names its cluster, whatever other providers share the sink; and `DeadIsRemoved`,
the invariant of the run, if all do (`ScopeIsCluster`). `PrunesAreNotStale` holds
of the providers' operations, those of Kubernetes and second attempts included,
without a hypothesis, since their snapshot is read under the gate; with the
plain `PushAll`, whose snapshot was read before, it has those of `DeadIsRemoved`.

**The lock table** is the second part of `OrderedSinkProofs`. It
assumes that there are finitely many goroutines, that keys are integers, and
that the nil values are not real ones. `MutualExclusion` is
not inductive: it says nothing about callers that wait. The invariant adds that
each caller has an entry for exactly its identities (`CallsOK`), that the table
holds exactly the entries in use (`TableTracksUsers`), that two identities never
share an entry and that a reference count is the number of the entry's users
(`CountsOK`). Hence only the last user drops an entry, and all users of an
identity contend for one mutex (`EntriesTracked`, `LockKeysExclusive`).
`TableImplementsMutex` is the refinement: with the caller inside an identity's
section as its holder, locking the last entry of a call is `KeyMutex`'s step that
takes all its identities, the first unlock is the one that gives them back, and
every other step is a stutter.
`OrderedSink`, which uses `KeyMutex`, therefore rests on what the table does.

**RetryQueueProofs** assumes that the bounds are numbers and that `None` is none
of the values it stands beside. `SourceInv`: no event, queue entry or ledger is
ahead of the provider. `RevisionInv`: what a sink answered still holds when the
answer is used, by the handler after all sinks have answered and by the retry
after its push, because ledgers only go forward. `UniqueInv`: an event waits, or
is handled by one handler, or is kept in queue and copy, and a sink acknowledges
a queued event only in the retry whose end deletes it. `NothingIsForgotten` and
`AcknowledgedIsNotQueued` follow. `FailedFullsStayQueued` adds `FullInv`, in
which generations are the sequences of full pushes, and has the hypothesis
`FullsReach`: the first generation is above zero, and no sink finds the second
attempt stale. Without it the statement fails (`RetryQueueMixed.cfg`, and the
note on `Generation = 0` above).

**QueueProofs, the informers' queue** (`CoalescingQueue`) assumes that the bounds
are numbers and the capacity is above zero. `ChangesAreKept` is not inductive,
because most of what is in the recovery buffer is going to be skipped. `PlaceInv`:
something waits for recovery only behind a full queue, and an entry whose pod is
queued comes up, and is skipped, before that pod is popped. `SinceInv`: queued
entries, and the recovery entry that will bring its pod back (the first of a pod
that is not queued), count from the first event that was not popped. `EventInv`:
nothing that waits is older than what was delivered, from which
`CoalescingDeliversInOrder`. The loop at the end of `pop` is a recursion over the
recovery buffer; `ReadmitFillsTheSlot` says by induction what it takes and what
it skips.

**QueueProofs, the providers' queue** (`OverflowQueue`) assumes the same of its
bounds, and that `None` is neither an entry nor a task taken.
`finish` decides by generations whether an entry may go, and `NewestIsKept` speaks
of tasks, so it is not inductive. `TaskInv` ties the two: a replacement moves both
alike, so the task taken is as far behind the waiting one as its generation, and
an equal generation is an equal task. `OrderInv` adds that `order` is exactly what
waits and is not in flight, once each; so `next` always finds its first identity
eligible, and putting one back never puts it there twice. `BoundInv` counts the
entries. From these `NewestTaskIsKept` and `QueueIsBounded` (`TypeOK`).

**ServerProofs, the lifecycle**: two startups never overlap (`StartupsExclude`), one
that ended left nothing open (`StartupsCleanUp`), what is published can be
stopped (`PublishedStops`), and a node that is no longer leader has told all its
providers to stop (`NoProviderOutlivesLeadership`). The checks of leadership and
the publication are in one critical section, but the stop function is called
outside of it. The invariant follows the two things that are owned: a startup
holds `lifecycleMu` from `Lock` to its end (`LockInv`), and the cleanup of a
published startup is never lost: it is in `stopProviderFunc`, or the loop has
taken it and is about to call it (`Reachable`).

**ServerProofs, the Nacos client**. `BatchesAreExact`: for every list and every
maximum, also one below 1, each pushed item has one place in the batches, in the
order of its key; no batch is empty or too large, and only the last of a key has
room. The induction is over the items, with such a placing as its invariant
(`Cut`). `ListingsAreWhole`: what was collected up to a page is a prefix of the
listing (`CollectedIsPrefix`), and a page that ends the walk is at its end. It
assumes that page size and clamp are at least 1 (`Proper`). `ReadinessCleansUp`
is a case analysis over the kinds of probe. These three and
`ComparisonIgnoresOrder` below prove, for every argument, the predicates
`CutsExactly`, `ListsAll`, `LeavesNothing` and `OrderFree` that the invariants
`BatchesPartition`, `ListingIsComplete`, `ReadinessLeavesNothing` and
`ComparisonIsOrderFree` of the runs evaluate on small ones.

**K8sProviderProofs** assumes of the pods (`ShapesAssumption`) that one which is
pushed is not changed to one that is not, and that one with an instance that is
not offline has an address; of arbitrary shapes `CacheFollowsPods` is false, as
an instance the provider stops to push would stay in its cache. The invariant
(`Tracked`) follows every incarnation of every pod through the cache and through
the list a startup compare has read: its instance is not newer than the pod and
is that of the pod as soon as no event of the incarnation is on its way; and if
the incarnation is gone it is live only while its delete event is on its way, or
if a relist swallowed it. An incarnation whose delete is queued does not come
back (`Sound`), which makes this inductive. `LifeInv` says that the startup
compare comes before the pop loop and the ticker, and that a list whose
generation is still current is what the cache holds. Hence `K8sCacheFollowsPods`
and `K8sConfirmedEmptyIsEmpty`. `K8sCorrectionsGiveWay` has an invariant of its
own (`PushInv`): what is served or on its way to the registry is never newer than
the cache, and the corrections of a compare that has passed, or will pass, its
check give way to the cache. The pop loop keeps this when it comes between check
and submission, because it replaces an instance only by a newer one, or by one
as old that is not live.

**ConsulProofs, the provider** assumes finitely many instances. `BaseInv`: no copy
of an instance, in the cache, with a thread, in the pool or in the registry, is
ahead of the catalog, and emptiness was not confirmed more often than it was
seen. `CalmInv` follows an undisturbed tick: after its sync the cache is the
catalog, what is still in the pool agrees with it, and so the last full push
leaves the registry equal to it, whichever instances `extractDiff` left
unannounced or announced as online. `ConsulCacheNeverRegresses`,
`ConsulEmptyIsConfirmed`, `ConsulQuietTickRepairs`.

**ConsulProofs, the monitor**: both channels drop what does not fit, each on its own.
What saves every notice is that the time travels ahead of the signal: a notice
that no call has followed is about to be stamped, or a time not later than it
waits with a signal still to come, or such a time has been taken (`Carried`).
`NoticesAreKept`, `OriginIsEarliest`, `StartJoinsHandlers`.

**NacosSinkProofs** assumes the wiring of instances, identities and pairs, and
that there are finitely many instances. `ClaimInv` names the holder of every
claim; `FullInv` follows a full push (what has returned without failing is in
Nacos); `OwnerInv` ties claim, recorded owner and catalog together: one of the
first two protects every write under way. `ClaimsAreReturned`,
`HealthCheckBeforeWrite`, `FullPushExact`, `FullPushNeverEmpties`,
`SourcesKeepTheirIdentities`. `EveryoneGoesOn` has two invariants of its own:
the attempt recorded for a pair is the one push that updates it (`WaitInv`), and
the permits in use are as many as the pushes between acquiring and giving back
(`PermitInv`, which is why the instances must be finite).

**InstanceProofs** is about operators and has no invariants. *The wire form*: an
instance with a port is read back as it was written on both wires (`RoundTrip`);
a flipped enabled bit or another schema is always noticed; ownership is
recovered from what Nacos returns. *The rules*: a strict index is unambiguous,
pairs share a source, no record that was matched is also remote-only, `Delete`
is exact; and the two copies of the pod policy agree for a pod of one container
(`PolicyAgrees`). The three-way comparison, the identity index and the policy of
`observation.go` are called from tests only; production uses the comparison
loop, which takes records out of the index as it goes. `ComparisonIgnoresOrder`:
for lists of any length its result is what it would be if no record were taken
out. What is gone from the index at each step is what an earlier instance
resolved to (`LeftIsFound`), and an instance finds its own record all the same
or is pushed in any case (`FindsTheSame`). *Consul*: one answer about health, repeatable
conversion, distinct keys and sources, and construction that leaves nothing
behind.

The recursive functions behind `ReadmitFillsTheSlot`, `BatchesAreExact`,
`ListingsAreWhole` and `ComparisonIgnoresOrder` are shown to satisfy their
equations from the well-foundedness of the naturals (`Recursion`), and the
inductions go over sets of naturals (`SetInduction`).

Only model-checked: the liveness properties, which are out of the prover's
reach. `TypeOK` of `RetryQueue`, `NacosSink` and the two providers is not proved
as such; what their proofs need of it is part of their invariants.

## Not modelled

`PROJECT.json` lists all parts ("components") and where each can go wrong
("hazards"). Left out, and why:

* two servers side by side and etcd: that two nodes never both hold the campaign
  key is etcd's promise; what one node does with what it is told is modelled;
* the SDK facade and the gRPC session of `pkg/nacos/sdk.go`, request building and
  TLS: they pass calls on and keep no state that the sink relies on;
* instances without an address and metadata that is too large for Nacos, which
  the sink rejects one by one before it writes; instances without a source, and
  the discovery of records of another schema (see NacosSink);
* the retired Atlas client: gRPC calls without state. Atlas appears as the other
  kind of registry of the providers' compare;
* of the fan-out: construction, the reconcile designation, the recording
  decorator, `Close`; of the retry queue: `dropGhostSinkKeys` (the set of sinks
  never changes), the paths without a fan-out and the operations production
  does not call;
* configuration, command line, metrics, logging, tracing and the test kit, which
  hold no state that the properties depend on;
* client-go, the Nacos SDK, etcd, Consul and the goroutine pool themselves, which
  are external and appear by what the code relies on.
