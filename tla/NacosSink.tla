------------------------------ MODULE NacosSink ------------------------------
(***************************************************************************)
(* The Nacos sink (pkg/nacos/nacos.go, batch.go): from accepted events to  *)
(* the calls Nacos sees.                                                   *)
(*                                                                         *)
(* The ordered gate in front of the sink (OrderedSink.tla) lets pushes of  *)
(* different instances overlap and gives a full push the sink to itself.   *)
(* Every instance pushed is a thread that takes a permit, reads who owns   *)
(* the wire identities of its service, claims its own, has the server-side *)
(* health check disabled and writes.  A full push does this in batches and *)
(* then prunes.  Nacos is external: a call that fails may or may not have  *)
(* been applied.  The process may restart and keeps nothing in memory.     *)
(*                                                                         *)
(* Two assumptions on the data.  Every instance names its source, as those *)
(* of both providers do: the branch of recoverWireOwnership for an         *)
(* instance without SourceKey and SourceCluster, which skips the read of   *)
(* the owners, is not taken.  And every record of this program's is read   *)
(* back with the cluster it is stored in, as one of its own schema is: the *)
(* prune overlooks others unless it remembers or asserts their pair.       *)
(***************************************************************************)
EXTENDS Naturals, FiniteSets

CONSTANTS
    Instances,      \* instances, by source identity; all with an address and a source
    Wires,          \* composite IDs: ip, port, cluster, group and service
    WireOf,         \* WireOf[i]: compositeID
    SourceOf,       \* SourceOf[i]: wireOwnerScope
    Pairs,          \* (service, cluster) pairs
    PairOf,         \* PairOf[w]: the pair in the composite ID
    ClusterOf,      \* ClusterOf[p]: the cluster of the pair
    Snapshots,      \* the lists a full push may carry
    Scopes,         \* scopes of confirmed-empty full pushes
    Concurrency,    \* pushConcurrency (8 in the code)
    BatchSize,      \* MaxPersistentBatchSize (100 in the code)
    NoInstance, Foreign, NoSource,
    InitialCatalogs,
    MaxPushes,      \* bound: pushes and full pushes
    MaxFaults,      \* bound: calls that fail
    MaxRestarts     \* bound: restarts of the process

Sources == {SourceOf[i] : i \in Instances}
Clusters == {ClusterOf[p] : p \in Pairs}

ASSUME WiringAssumption ==
    /\ WireOf \in [Instances -> Wires] /\ PairOf \in [Wires -> Pairs]
    /\ DOMAIN SourceOf = Instances /\ DOMAIN ClusterOf = Pairs
    /\ Snapshots \subseteq (SUBSET Instances) \ {{}}
    /\ {NoInstance, Foreign} \cap Instances = {} /\ NoInstance # Foreign
    /\ NoSource \notin Sources
    /\ InitialCatalogs \subseteq [Wires -> Instances \cup {NoInstance, Foreign}]
ASSUME BoundsAssumption ==
    /\ {Concurrency, BatchSize} \subseteq Nat \ {0}
    /\ {MaxPushes, MaxFaults, MaxRestarts} \subseteq Nat
ASSUME FiniteAssumption == IsFiniteSet(Instances)

VARIABLES
    catalog,            \* Nacos: the instance registered at each wire identity
    unchecked,          \* Nacos: pairs whose health check is disabled
    wireOwners,         \* wireOwners[w]: the source that owns w, or NoSource
    wireClaims,         \* wireClaims[w]: the source that is writing w
    wireScanned,        \* pairs whose owners have been read from Nacos
    healthCheckDone,    \* pairs whose health check this process has disabled
    healthCheckWait,    \* healthCheckWait[p]: whose attempt is under way
    remembered,         \* pairs earlier full pushes have owned
    active,             \* permits in use
    pc, op,             \* where each instance's push is, and what it does
    claimed,            \* instances whose push made the claim it holds
    full,               \* the full push: its phase, list, rest and failed pairs
    pushes, faults, restarts,
    disturbed           \* history: identities a claim on which was given up, or deregistered

nacosVars == <<catalog, unchecked>>
ownerVars == <<wireOwners, wireClaims, wireScanned, claimed>>
healthVars == <<healthCheckDone, healthCheckWait>>
boundVars == <<pushes, restarts>>
vars == <<nacosVars, ownerVars, healthVars, remembered, active, pc, op, full, boundVars,
          faults, disturbed>>

Pair(i) == PairOf[WireOf[i]]

\* The identities at which Nacos has an instance of this program's.
Owned == {w \in Wires : catalog[w] \in Instances}

NoFull == [phase |-> "idle", list |-> {}, todo |-> {}, scope |-> {}, failed |-> {}]

NoOwners == [w \in Wires |-> NoSource]
NoAttempts == [p \in Pairs |-> NoInstance]
AllIdle == [i \in Instances |-> "idle"]
AllRegister == [i \in Instances |-> "register"]

Init ==
    /\ catalog \in InitialCatalogs
    /\ unchecked = {}
    /\ wireOwners = NoOwners /\ wireClaims = NoOwners /\ wireScanned = {} /\ claimed = {}
    /\ healthCheckDone = {} /\ healthCheckWait = NoAttempts
    /\ remembered = {} /\ active = 0
    /\ pc = AllIdle /\ op = AllRegister /\ full = NoFull
    /\ pushes = 0 /\ faults = 0 /\ restarts = 0
    /\ disturbed = {}

-----------------------------------------------------------------------------
\* A call to Nacos fails.
Fails == faults < MaxFaults /\ faults' = faults + 1
Answers == UNCHANGED faults

Goto(i, label) == pc' = [pc EXCEPT ![i] = label]

\* A registration of a full push takes its permit after it has claimed.
Batched(i) == full.phase = "applying" /\ op[i] = "register"

\* pushInstances: an incremental push, while no full push has the sink.
Push(i, what) ==
    /\ full.phase # "applying" /\ pushes < MaxPushes
    /\ pc[i] = "idle"
    /\ op' = [op EXCEPT ![i] = what]
    /\ Goto(i, "permit")
    /\ full' = NoFull
    /\ pushes' = pushes + 1
    /\ disturbed' = IF what = "deregister" THEN disturbed \cup {WireOf[i]} ELSE disturbed
    /\ UNCHANGED <<nacosVars, ownerVars, healthVars, remembered, active, faults, restarts>>

\* pushLimiter.acquire
Acquire(i) ==
    /\ pc[i] = "permit"
    /\ active < Concurrency
    /\ active' = active + 1
    /\ Goto(i, IF Batched(i) THEN "health" ELSE "recover")
    /\ UNCHANGED <<nacosVars, ownerVars, healthVars, remembered, op, full, boundVars, faults,
                   disturbed>>

\* The push of i returns; a full push records the pair of a failure.
Finish(i, ok, held) ==
    /\ Goto(i, "idle")
    /\ active' = IF held THEN active - 1 ELSE active
    /\ full' = IF ok \/ full.phase # "applying" THEN full
               ELSE [full EXCEPT !.failed = @ \cup {Pair(i)}]

\* The owners of the pair's identities, as Nacos has them.  None was known: an
\* identity gets an owner only after its pair has been read.
Scan(p) ==
    /\ wireScanned' = wireScanned \cup {p}
    /\ wireOwners' = [w \in Wires |-> IF w \in Owned /\ PairOf[w] = p THEN SourceOf[catalog[w]]
                                      ELSE wireOwners[w]]

\* Mutant: a process that has just started takes every identity as free.
NoScan(i) ==
    /\ pc[i] = "recover" /\ Answers
    /\ Goto(i, IF op[i] = "register" THEN "claim" ELSE "check")
    /\ UNCHANGED <<nacosVars, ownerVars, healthVars, remembered, active, op, full, boundVars,
                   disturbed>>

\* recoverWireOwnership, under wireScanMu: once per pair, read the owners of
\* its identities from the catalog.  A read that fails fails the push.
RecoverWireOwnership(i) ==
    /\ pc[i] = "recover"
    /\ \/ /\ Answers
          /\ \/ Pair(i) \in wireScanned /\ UNCHANGED <<wireScanned, wireOwners>>
             \/ Pair(i) \notin wireScanned /\ Scan(Pair(i))
          /\ Goto(i, IF op[i] = "register" THEN "claim" ELSE "check")
          /\ UNCHANGED <<active, full>>
       \/ /\ Pair(i) \notin wireScanned /\ Fails
          /\ Finish(i, FALSE, ~Batched(i))
          /\ UNCHANGED <<wireScanned, wireOwners>>
    /\ UNCHANGED <<nacosVars, wireClaims, claimed, healthVars, remembered, op, boundVars, disturbed>>

-----------------------------------------------------------------------------
OwnedByOther(i) ==
    \/ wireOwners[WireOf[i]] \notin {NoSource, SourceOf[i]}
    \/ wireClaims[WireOf[i]] \notin {NoSource, SourceOf[i]}

\* The owner, or else the claimant, deregisterInstance and
\* validateWireIdentitySet look for.
KnownOwner(w) == IF wireOwners[w] # NoSource THEN wireOwners[w] ELSE wireClaims[w]

\* claimWireIdentity: the first writer of a source claims the identity, a
\* second one of the source shares the claim, another source is rejected.
ClaimWireIdentity(i) ==
    /\ pc[i] = "claim"
    /\ \/ /\ OwnedByOther(i)
          /\ Finish(i, FALSE, ~Batched(i))
          /\ UNCHANGED <<wireClaims, claimed>>
       \/ /\ ~OwnedByOther(i)
          /\ claimed' = IF wireClaims[WireOf[i]] = NoSource THEN claimed \cup {i} ELSE claimed
          /\ wireClaims' = [wireClaims EXCEPT ![WireOf[i]] = SourceOf[i]]
          /\ Goto(i, IF Batched(i) THEN "permit" ELSE "health")
          /\ UNCHANGED <<active, full>>
    /\ UNCHANGED <<nacosVars, wireOwners, wireScanned, healthVars, remembered, op, boundVars,
                   faults, disturbed>>

\* Mutant: a write that failed keeps its claim.
ReleasedIfWritten(i, ok) ==
    /\ wireOwners' = IF ok THEN [wireOwners EXCEPT ![WireOf[i]] = SourceOf[i]] ELSE wireOwners
    /\ wireClaims' = IF wireClaims[WireOf[i]] = SourceOf[i] /\ ok
                     THEN [wireClaims EXCEPT ![WireOf[i]] = NoSource] ELSE wireClaims
    /\ claimed' = claimed \ {i}

\* The closure claimWireIdentity returns.
Released(i, ok) ==
    /\ wireOwners' = IF ok THEN [wireOwners EXCEPT ![WireOf[i]] = SourceOf[i]] ELSE wireOwners
    /\ wireClaims' = IF wireClaims[WireOf[i]] = SourceOf[i] /\ (i \in claimed \/ ok)
                     THEN [wireClaims EXCEPT ![WireOf[i]] = NoSource] ELSE wireClaims
    /\ claimed' = claimed \ {i}

\* Mutant: an attempt under way is as good as one that succeeded.
EnsureHealthCheckTried(i) ==
    /\ pc[i] = "health"
    /\ \/ /\ Pair(i) \in healthCheckDone \/ healthCheckWait[Pair(i)] # NoInstance
          /\ Goto(i, "register") /\ UNCHANGED healthCheckWait
       \/ /\ Pair(i) \notin healthCheckDone /\ healthCheckWait[Pair(i)] = NoInstance
          /\ healthCheckWait' = [healthCheckWait EXCEPT ![Pair(i)] = i]
          /\ Goto(i, "update")
    /\ UNCHANGED <<nacosVars, ownerVars, healthCheckDone, remembered, active, op, full,
                   boundVars, faults, disturbed>>

\* ensureClusterHealthCheckDisabled (admin-managed policy), up to the call:
\* one attempt per pair, the others wait for it.
EnsureHealthCheckDisabled(i) ==
    /\ pc[i] = "health"
    /\ \/ Pair(i) \in healthCheckDone /\ Goto(i, "register") /\ UNCHANGED healthCheckWait
       \/ /\ Pair(i) \notin healthCheckDone /\ healthCheckWait[Pair(i)] # NoInstance
          /\ Goto(i, "wait") /\ UNCHANGED healthCheckWait
       \/ /\ Pair(i) \notin healthCheckDone /\ healthCheckWait[Pair(i)] = NoInstance
          /\ healthCheckWait' = [healthCheckWait EXCEPT ![Pair(i)] = i]
          /\ Goto(i, "update")
    /\ UNCHANGED <<nacosVars, ownerVars, healthCheckDone, remembered, active, op, full,
                   boundVars, faults, disturbed>>

\* Mutant: an attempt wakes nobody.
AttendingOnly(p) == {i \in Instances : healthCheckWait[p] = i}

\* Those an attempt for the pair lets go on when it closes attempt.done.
Attending(p) == {i \in Instances : Pair(i) = p /\ pc[i] \in {"update", "wait"}}

\* ensureClusterHealthCheckDisabled, from the call on.  Who waited gets the
\* error of the attempt; the next push tries again.
UpdateCluster(i) ==
    LET p == Pair(i) IN
    /\ pc[i] = "update"
    /\ healthCheckWait' = [healthCheckWait EXCEPT ![p] = NoInstance]
    /\ \/ /\ Answers
          /\ unchecked' = unchecked \cup {p}
          /\ healthCheckDone' = healthCheckDone \cup {p}
          /\ pc' = [j \in Instances |-> IF j \in Attending(p) THEN "register" ELSE pc[j]]
       \/ /\ Fails
          /\ pc' = [j \in Instances |-> IF j \in Attending(p) THEN "blocked" ELSE pc[j]]
          /\ UNCHANGED <<unchecked, healthCheckDone>>
    /\ UNCHANGED <<catalog, ownerVars, remembered, active, op, full, boundVars, disturbed>>

\* register returns before it has written.
Blocked(i) ==
    /\ pc[i] = "blocked"
    /\ Released(i, FALSE) /\ Finish(i, FALSE, TRUE)
    /\ disturbed' = disturbed \cup {WireOf[i]}
    /\ UNCHANGED <<nacosVars, wireScanned, healthVars, remembered, op, boundVars, faults>>

\* RegisterInstance, an upsert.
Registers(i) ==
    /\ pc[i] = "register"
    /\ \/ /\ Answers
          /\ catalog' = [catalog EXCEPT ![WireOf[i]] = i]
          /\ Goto(i, "registered")
          /\ UNCHANGED disturbed
       \/ /\ Fails
          /\ catalog' \in {catalog, [catalog EXCEPT ![WireOf[i]] = i]}
          /\ Goto(i, "failed")
          /\ disturbed' = disturbed \cup {WireOf[i]}
    /\ UNCHANGED <<unchecked, ownerVars, healthVars, remembered, active, op, full, boundVars>>

\* register returns.
Release(i) ==
    /\ pc[i] \in {"registered", "failed"}
    /\ Released(i, pc[i] = "registered") /\ Finish(i, pc[i] = "registered", TRUE)
    /\ UNCHANGED <<nacosVars, wireScanned, healthVars, remembered, op, boundVars, faults, disturbed>>

-----------------------------------------------------------------------------
\* deregisterInstance: the owner is checked under the lock, the call is made
\* after it.
CheckOwner(i) ==
    /\ pc[i] = "check"
    /\ \/ KnownOwner(WireOf[i]) \notin {NoSource, SourceOf[i]} /\ Finish(i, FALSE, TRUE)
       \/ /\ KnownOwner(WireOf[i]) \in {NoSource, SourceOf[i]}
          /\ Goto(i, "deregister") /\ UNCHANGED <<active, full>>
    /\ UNCHANGED <<nacosVars, ownerVars, healthVars, remembered, op, boundVars, faults, disturbed>>

\* DeregisterInstance: what is registered there goes, whoever registered it.
Deregisters(i) ==
    /\ pc[i] = "deregister"
    /\ \/ /\ Answers
          /\ catalog' = [catalog EXCEPT ![WireOf[i]] = NoInstance]
          /\ Goto(i, "deregistered")
          /\ UNCHANGED <<active, full>>
       \/ /\ Fails
          /\ catalog' \in {catalog, [catalog EXCEPT ![WireOf[i]] = NoInstance]}
          /\ Finish(i, FALSE, TRUE)
    /\ UNCHANGED <<unchecked, ownerVars, healthVars, remembered, op, boundVars, disturbed>>

\* deregister forgets the owner of the identity, and any claim on it.
Forget(i) ==
    /\ pc[i] = "deregistered"
    /\ wireOwners' = [wireOwners EXCEPT ![WireOf[i]] = NoSource]
    /\ wireClaims' = [wireClaims EXCEPT ![WireOf[i]] = NoSource]
    /\ Finish(i, TRUE, TRUE)
    /\ UNCHANGED <<nacosVars, wireScanned, claimed, healthVars, remembered, op, boundVars, faults,
                   disturbed>>

-----------------------------------------------------------------------------
\* validateWireIdentitySet: no identity of the list has two sources, or an
\* owner that is not the source of its instance.
Distinct(list) ==
    /\ \A i, j \in list : WireOf[i] = WireOf[j] => SourceOf[i] = SourceOf[j]
    /\ \A i \in list : KnownOwner(WireOf[i]) \in {NoSource, SourceOf[i]}

\* PushAll begins; no other push is under way.  A list that is not Distinct
\* is refused and changes nothing.
PushAll(list) ==
    /\ full.phase # "applying" /\ pushes < MaxPushes
    /\ \A i \in Instances : pc[i] = "idle"
    /\ Distinct(list)
    /\ full' = [NoFull EXCEPT !.phase = "applying", !.list = list, !.todo = list]
    /\ op' = AllRegister
    /\ pushes' = pushes + 1
    /\ UNCHANGED <<nacosVars, ownerVars, healthVars, remembered, active, pc, faults, restarts,
                   disturbed>>

\* PushAllOperation with a confirmed empty list: only the prune.
PushEmpty(scope) ==
    /\ full.phase # "applying" /\ pushes < MaxPushes
    /\ \A i \in Instances : pc[i] = "idle"
    /\ full' = [NoFull EXCEPT !.phase = "applying", !.scope = {scope}]
    /\ pushes' = pushes + 1
    /\ UNCHANGED <<nacosVars, ownerVars, healthVars, remembered, active, pc, op, faults, restarts,
                   disturbed>>

\* pushPersistentBatches: the batches of a pair one after the other, the
\* instances of a batch and the pairs side by side.
StartBatch(p) ==
    LET rest == {i \in full.todo : Pair(i) = p} IN
    /\ full.phase = "applying" /\ rest # {}
    /\ \A i \in Instances : Pair(i) = p => pc[i] = "idle"
    /\ \E batch \in SUBSET rest :
        /\ Cardinality(batch) = BatchSize \/ (batch = rest /\ Cardinality(rest) < BatchSize)
        /\ pc' = [i \in Instances |-> IF i \in batch THEN "recover" ELSE pc[i]]
        /\ full' = [full EXCEPT !.todo = @ \ batch]
    /\ UNCHANGED <<nacosVars, ownerVars, healthVars, remembered, active, op, boundVars, faults,
                   disturbed>>

\* What the prune keeps, and the pairs and clusters the push speaks for.
Desired == {WireOf[i] : i \in full.list}
Asserted == {Pair(i) : i \in full.list} \ full.failed
PushedClusters == {ClusterOf[p] : p \in Asserted} \cup full.scope

\* Mutant: only the pairs this process remembers are pruned.
SweptRemembered ==
    {w \in Owned : /\ ClusterOf[PairOf[w]] \in PushedClusters
                   /\ PairOf[w] \in (remembered \cup Asserted) \ full.failed} \ Desired

\* The identities the prune deregisters: of a pair the push asserts, or one of
\* its clusters that is remembered or that Nacos has; never of a failed pair.
\* Nacos has the pair of every identity that is there to deregister, and
\* discovery reads it back with its own cluster.
Swept ==
    {w \in Owned : /\ ClusterOf[PairOf[w]] \in PushedClusters
                   /\ PairOf[w] \notin full.failed} \ Desired

\* pruneScopedWithSkippedScopes: a read that fails leaves its identities, so
\* does a deregistration, unless only its answer is lost (unanswered).  The
\* owner of an identity is not looked at, and forgotten on an answer.
Prune ==
    /\ full.phase = "applying" /\ full.todo = {}
    /\ \A i \in Instances : pc[i] = "idle"
    /\ remembered' = remembered \cup Asserted
    /\ \E answered \in SUBSET Swept : \E unanswered \in SUBSET (Swept \ answered) :
        /\ \/ answered = Swept /\ unanswered = {} /\ Answers
           \/ Fails
        /\ catalog' = [w \in Wires |-> IF w \in answered \cup unanswered THEN NoInstance
                                       ELSE catalog[w]]
        /\ wireOwners' = [w \in Wires |-> IF w \in answered THEN NoSource ELSE wireOwners[w]]
        /\ wireClaims' = [w \in Wires |-> IF w \in answered THEN NoSource ELSE wireClaims[w]]
        /\ full' = [full EXCEPT !.phase = IF faults' = faults /\ full.failed = {} THEN "ok"
                                          ELSE "error"]
    /\ UNCHANGED <<unchecked, wireScanned, claimed, healthVars, active, pc, op, boundVars, disturbed>>

-----------------------------------------------------------------------------
\* The process ends and another takes over; Nacos keeps what it has.
Restart ==
    /\ restarts < MaxRestarts
    /\ restarts' = restarts + 1
    /\ wireOwners' = NoOwners /\ wireClaims' = NoOwners /\ wireScanned' = {} /\ claimed' = {}
    /\ healthCheckDone' = {} /\ healthCheckWait' = NoAttempts
    /\ remembered' = {} /\ active' = 0
    /\ pc' = AllIdle /\ op' = AllRegister /\ full' = NoFull
    /\ UNCHANGED <<nacosVars, pushes, faults, disturbed>>

Step(i) ==
    \/ Acquire(i) \/ RecoverWireOwnership(i) \/ ClaimWireIdentity(i)
    \/ EnsureHealthCheckDisabled(i) \/ UpdateCluster(i) \/ Blocked(i)
    \/ Registers(i) \/ Release(i)
    \/ CheckOwner(i) \/ Deregisters(i) \/ Forget(i)

Next ==
    \/ \E i \in Instances, what \in {"register", "deregister"} : Push(i, what)
    \/ \E list \in Snapshots : PushAll(list)
    \/ \E scope \in Scopes : PushEmpty(scope)
    \/ \E i \in Instances : Step(i)
    \/ \E p \in Pairs : StartBatch(p)
    \/ Prune
    \/ Restart

Spec == Init /\ [][Next]_vars

-----------------------------------------------------------------------------
Labels == {"idle", "permit", "recover", "claim", "health", "update", "wait", "blocked",
           "register", "registered", "failed", "check", "deregister", "deregistered"}

\* The types of the sink's state.
TypeOK ==
    /\ catalog \in [Wires -> Instances \cup {NoInstance, Foreign}]
    /\ unchecked \subseteq Pairs
    /\ wireOwners \in [Wires -> Sources \cup {NoSource}]
    /\ wireClaims \in [Wires -> Sources \cup {NoSource}]
    /\ wireScanned \subseteq Pairs /\ claimed \subseteq Instances
    /\ healthCheckDone \subseteq Pairs
    /\ healthCheckWait \in [Pairs -> Instances \cup {NoInstance}]
    /\ remembered \subseteq Pairs
    /\ active \in 0 .. Concurrency
    /\ pc \in [Instances -> Labels] /\ op \in [Instances -> {"register", "deregister"}]
    /\ full \in [phase : {"idle", "applying", "ok", "error"}, list : SUBSET Instances,
                 todo : SUBSET Instances, scope : SUBSET Scopes, failed : SUBSET Pairs]
    /\ pushes \in 0 .. MaxPushes /\ faults \in 0 .. MaxFaults /\ restarts \in 0 .. MaxRestarts
    /\ disturbed \subseteq Wires

Writing == {"permit", "health", "update", "wait", "blocked", "register", "registered", "failed"}

\* A claim is held by a push that is under way: whatever way a push ends, and
\* whoever else writes the identity, no claim is left behind that would make
\* the sink refuse the identity to every other source until it restarts
\* (claimWireIdentity and the closures it returns).
NoClaimLeftBehind ==
    \A w \in Wires : wireClaims[w] # NoSource =>
        \E i \in Instances : /\ WireOf[i] = w /\ SourceOf[i] = wireClaims[w]
                             /\ op[i] = "register" /\ pc[i] \in Writing

\* No instance is registered while Nacos still checks the health of its
\* cluster: a push that finds another's attempt under way waits for it and
\* gives up when it fails ("no production record can be created with an
\* uncontrolled health-check policy", ensureClusterHealthCheckDisabled).
HealthCheckFirst ==
    [][\A w \in Wires : (catalog'[w] # catalog[w] /\ catalog'[w] \in Instances)
            => PairOf[w] \in unchecked]_vars

\* An identity passes from one source to another only if a push that had
\* claimed it failed, or it has been deregistered: claims and owners keep overlapping
\* pushes apart, and the first read of a pair does so after a restart.
NoTakeover ==
    [][\A w \in Wires :
            (/\ catalog[w] \in Instances /\ catalog'[w] \in Instances
             /\ SourceOf[catalog[w]] # SourceOf[catalog'[w]]) => w \in disturbed]_vars

HostsOf(p) == {w \in Wires : PairOf[w] = p /\ catalog[w] \in Instances}

\* A full push that has instances for a pair never empties it: when an
\* instance that should replace an old one cannot be registered, the old one
\* is not pruned (the skipped scopes of PushAll).
FullPushKeepsService ==
    [][full.phase = "applying" =>
        \A p \in {Pair(i) : i \in full.list} : HostsOf(p) # {} => HostsOf(p)' # {}]_vars

\* After a full push that reports success Nacos has, of this program's
\* instances in the clusters pushed, exactly those of the list: also where a
\* service vanished while no process was running.
FullPushIsExact ==
    full.phase = "ok" =>
        /\ {w \in Owned : ClusterOf[PairOf[w]] \in PushedClusters} = Desired
        /\ \A w \in Desired : catalog[w] \in full.list

\* The pushes that have a permit.
Permitted == {i \in Instances : pc[i] \notin {"idle", "permit"} /\ ~(Batched(i) /\ pc[i] \in {"recover", "claim"})}

\* Nobody is stranded: who waits for the health check of a pair waits for an
\* attempt that is under way, whose push does not wait itself, and every
\* permit in use belongs to a push that will give it back.
NobodyStranded ==
    /\ \A i \in Instances : pc[i] = "wait" =>
        healthCheckWait[Pair(i)] \in {j \in Instances : Pair(j) = Pair(i) /\ pc[j] = "update"}
    /\ active = Cardinality(Permitted)
=============================================================================
