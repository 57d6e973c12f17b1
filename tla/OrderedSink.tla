---------------------------- MODULE OrderedSink ----------------------------
(***************************************************************************)
(* orderedSink (pkg/worker/fanout.go): the write gate in front of one      *)
(* registry sink.                                                          *)
(*                                                                         *)
(* Watch events, reconcile events and retries reach the gate concurrently, *)
(* late, and more than once.  Incremental pushes of different identities   *)
(* run in parallel under a shared lock and one lock per identity; a full   *)
(* push runs alone.  The gate keeps a ledger of the last accepted revision *)
(* of each identity, drops what the ledger has overtaken, forwards the     *)
(* rest to the inner sink and records it once the inner sink has           *)
(* acknowledged it.                                                        *)
(*                                                                         *)
(* A delete event carries the revision of the instance it deletes          *)
(* (k8s.go, pod2Instance; consul.go, extractDiff), so revisions alone do   *)
(* not order it: tombstones do.                                            *)
(***************************************************************************)
EXTENDS Integers, FiniteSets

CONSTANTS
    Callers,    \* goroutines that push through the gate
    Keys,       \* identity keys
    Scopes,     \* provider scopes of full pushes
    ScopeOf,    \* ScopeOf[k]: the provider whose instance k is
    ClusterOf,  \* ClusterOf[k]: the name of k's cluster in the registry
    FullKinds,  \* the full-push entry points in use
    Drifting,   \* identities whose registry record may lose its revision
    MaxRev,     \* bound: revisions are 1 .. MaxRev
    MaxEvents,  \* bound: different events the providers produce
    MaxFailures,\* bound: failed calls of the inner sink
    NoCaller,
    None        \* an absent map entry

ASSUME MaxRevAssumption == MaxRev \in Nat
ASSUME KindsAssumption == FullKinds \subseteq {"pushAll", "operation", "revalidate"}
ASSUME ScopeAssumption == ScopeOf \in [Keys -> Scopes]
ASSUME ClusterAssumption == DOMAIN ClusterOf = Keys
ASSUME NoCallerAssumption == IsFiniteSet(Callers) /\ NoCaller \notin Callers

\* A trigger is a time in nanoseconds, larger than any provider revision.
Trigger == MaxRev + 1

Revision == 1 .. Trigger

\* instance.Instance, as far as the gate looks at it.
Item == [key : Keys, rev : 0 .. MaxRev, offline : BOOLEAN]

\* identityRevision
LedgerEntry == [rev : Revision, tomb : BOOLEAN]

ASSUME NoneAssumption == None \notin Revision \cup LedgerEntry \cup Scopes

VARIABLES
    source,     \* source[k]: the provider's cache, [rev, live]
    emitted,    \* every event the providers have produced for this sink
    latest,     \* latest[k]: the ledger, a LedgerEntry or None
    identityScope, \* identityScope[k]: the scope that last confirmed k, or None
    closed,
    readers,    \* fullGate: who holds it shared,
    writer,     \*           and who holds it exclusively
    holder,     \* holder[k]: who is past lockKeys for k
    pc,         \* pc[c]: where c is in its call
    op,         \* op[c]: the arguments of c's call and what it derived from them
    remote,     \* remote[k]: the revision the registry serves for k, or None
    dirty,      \* identities left in doubt by a failed call of the inner sink
    failures    \* the number of those calls

innerVars == <<remote, dirty, failures>>
gateVars == <<readers, writer, holder>>
ledgerVars == <<latest, identityScope, closed>>
vars == <<source, emitted, latest, identityScope, closed, readers, writer,
          holder, pc, op, remote, dirty, failures>>

Locks == INSTANCE KeyMutex

-----------------------------------------------------------------------------
(***************************************************************************)
(* Calls.  items is the batch as a set: a provider's snapshot is read from *)
(* a cache keyed by identity, and an event carries one instance, so no     *)
(* batch names an identity twice and the duplicate check of runLocked      *)
(* never fires.                                                            *)
(***************************************************************************)
Call == [kind : {"push"} \cup FullKinds,
         scope : Scopes \cup {None},    \* the provider of a full push
         items : SUBSET Item,
         confirmed : BOOLEAN,           \* EmptyConfirmed
         asof : [Keys -> 0 .. MaxRev],  \* how recent the snapshot is
         acked : BOOLEAN]               \* what the inner sink answered

NoCall == [kind |-> "push", scope |-> None, items |-> {}, confirmed |-> FALSE,
           asof |-> [k \in Keys |-> 0], acked |-> FALSE]

Full(call) == call.kind # "push"

\* trustedComplete: the batch may be read as all there is.
Trusted(call) == call.kind \in {"operation", "revalidate"}

KeysOf(items) == {i.key : i \in items}

\* rev == 0 falls back to the trigger.
Rev(item) == IF item.rev = 0 THEN Trigger ELSE item.rev

Event(k, r, off) == [key |-> k, rev |-> r, offline |-> off]

\* What the provider of scope s knows to be live.
Snapshot(s) ==
    {Event(k, source[k].rev, FALSE) : k \in {j \in Keys : source[j].live /\ ScopeOf[j] = s}}

Asof == [k \in Keys |-> source[k].rev]

-----------------------------------------------------------------------------
Init ==
    /\ source = [k \in Keys |-> [rev |-> 0, live |-> FALSE]]
    /\ emitted = {}
    /\ latest = [k \in Keys |-> None]
    /\ identityScope = [k \in Keys |-> None]
    /\ closed = FALSE
    /\ readers = {}
    /\ writer = NoCaller
    /\ Locks!MutexInit
    /\ pc = [c \in Callers |-> "idle"]
    /\ op = [c \in Callers |-> NoCall]
    /\ remote = [k \in Keys |-> None]
    /\ dirty = {}
    /\ failures = 0

(***************************************************************************)
(* The providers.  An instance appears or changes with a new revision; a   *)
(* Consul instance that only lost its health check comes back with the     *)
(* old one.                                                                *)
(***************************************************************************)
SourceUpdate(k) ==
    /\ \E r \in {source[k].rev, source[k].rev + 1} :
        /\ r \in 1 .. MaxRev
        /\ r = source[k].rev => ~source[k].live
        /\ source' = [source EXCEPT ![k] = [rev |-> r, live |-> TRUE]]
        /\ emitted' = emitted \cup {Event(k, r, FALSE)}
        /\ Cardinality(emitted') <= MaxEvents
    /\ UNCHANGED <<ledgerVars, gateVars, pc, op, innerVars>>

\* The delete event repeats the revision of what it deletes.
SourceDelete(k) ==
    /\ source[k].live
    /\ source' = [source EXCEPT ![k] = [rev |-> source[k].rev, live |-> FALSE]]
    /\ emitted' = emitted \cup {Event(k, source[k].rev, TRUE)}
    /\ Cardinality(emitted') <= MaxEvents
    /\ UNCHANGED <<ledgerVars, gateVars, pc, op, innerVars>>

\* The Consul reconcile deletes a record that only the registry has, with the
\* revision it read there: zero when the record has drifted (nacos.go,
\* reconstructForTransport).
DriftDelete(k) ==
    /\ k \in Drifting
    /\ remote[k] # None
    /\ ~source[k].live
    /\ emitted' = emitted \cup {Event(k, 0, TRUE)}
    /\ Cardinality(emitted') <= MaxEvents
    /\ UNCHANGED <<source, ledgerVars, gateVars, pc, op, innerVars>>

-----------------------------------------------------------------------------
\* Push and run: an event, however late, or a repetition of one, takes the
\* gate shared.
Push(c) ==
    /\ pc[c] = "idle"
    /\ writer = NoCaller
    /\ \E e \in emitted : op' = [op EXCEPT ![c] = [NoCall EXCEPT !.items = {e}]]
    /\ readers' = readers \cup {c}
    /\ pc' = [pc EXCEPT ![c] = "keys"]
    /\ UNCHANGED <<source, emitted, ledgerVars, writer, holder, innerVars>>

(***************************************************************************)
(* A full push of provider s.  Only an empty snapshot can be confirmed to  *)
(* be empty.  The snapshot of PushAll stays what it is now; that of        *)
(* PushAllOperation is read again once the gate is taken.  The third kind, *)
(* "revalidate", is PushAllWithRevalidate, see FallBack.                   *)
(***************************************************************************)
CallFull(c) ==
    /\ pc[c] = "idle"
    /\ \E s \in Scopes, kind \in FullKinds \ {"revalidate"}, confirmed \in BOOLEAN :
        /\ confirmed => kind = "operation" /\ Snapshot(s) = {}
        /\ op' = [op EXCEPT ![c] = [kind |-> kind, scope |-> s, items |-> Snapshot(s),
                                    confirmed |-> confirmed, asof |-> Asof, acked |-> FALSE]]
    /\ pc' = [pc EXCEPT ![c] = "gate"]
    /\ UNCHANGED <<source, emitted, ledgerVars, gateVars, innerVars>>

\* Mutant: the shared gate alone, as if identities needed no lock.
LockKeysGateOnly(c) ==
    /\ pc[c] = "keys"
    /\ pc' = [pc EXCEPT ![c] = "ready"]
    /\ UNCHANGED <<source, emitted, ledgerVars, gateVars, op, innerVars>>

\* run, incremental: lockKeys(identityKeys(items)).
LockKeys(c) ==
    /\ pc[c] = "keys"
    /\ Locks!Acquire(c, KeysOf(op[c].items))
    /\ pc' = [pc EXCEPT ![c] = "ready"]
    /\ UNCHANGED <<source, emitted, ledgerVars, readers, writer, op, innerVars>>

\* The deferred unlocks, and the return to the caller.
Return(c) ==
    /\ readers' = readers \ {c}
    /\ writer' = IF writer = c THEN NoCaller ELSE writer
    /\ Locks!Release(c)
    /\ pc' = [pc EXCEPT ![c] = "idle"]
    /\ op' = [op EXCEPT ![c] = NoCall]

\* The call with the snapshot that Revalidate returns now.
Revalidated(call) ==
    IF Trusted(call)
    THEN [call EXCEPT !.items = Snapshot(call.scope), !.asof = Asof]
    ELSE call

\* Mutant: every empty snapshot is taken for confirmed.
UnconfirmedNever(call) == FALSE

\* PushAllOperation: an empty snapshot that nobody confirmed does nothing.
Unconfirmed(call) ==
    call.kind = "operation" /\ call.items = {} /\ ~call.confirmed

(***************************************************************************)
(* fullGate.Lock and what precedes runLocked.  The call returns at once on *)
(* a closed sink, when the provider cannot revalidate, or when its         *)
(* emptiness is not confirmed.                                             *)
(***************************************************************************)
EnterExclusive(c) ==
    LET call == Revalidated(op[c])
    IN  /\ pc[c] = "gate"
        /\ writer = NoCaller
        /\ readers = {}
        /\ \/ /\ ~closed /\ ~Unconfirmed(call)
              /\ writer' = c
              /\ op' = [op EXCEPT ![c] = call]
              /\ pc' = [pc EXCEPT ![c] = "ready"]
              /\ UNCHANGED <<readers, holder>>
           \/ /\ closed \/ Trusted(call)
              /\ Return(c)
        /\ UNCHANGED <<source, emitted, ledgerVars, innerVars>>

-----------------------------------------------------------------------------
\* Mutant: a tombstone is overtaken by any revision that is not older.
StaleRevisionNoTomb(item) ==
    LET previous == latest[item.key]
    IN  previous # None /\ Rev(item) < previous.rev

\* staleRevision: a tombstone also outranks its own revision.
StaleRevision(item) ==
    LET previous == latest[item.key]
    IN  /\ previous # None
        /\ IF previous.tomb THEN Rev(item) <= previous.rev ELSE Rev(item) < previous.rev

\* Mutant: nothing overrides a tombstone of the same revision.
HealsNever(call, item) == FALSE

\* trustedEqualRevisionHeal: a snapshot read under the gate overrides a
\* tombstone of the same revision.
Heals(call, item) ==
    /\ Trusted(call)
    /\ latest[item.key].tomb
    /\ Rev(item) = latest[item.key].rev
    /\ ~item.offline

StaleItems(call) == {i \in call.items : StaleRevision(i) /\ ~Heals(call, i)}

\* The ledger's live identities.
Live == {k \in Keys : latest[k] # None /\ ~latest[k].tomb}

\* Mutant: only the items of the batch are looked at.
RejectedByItems(call) == Full(call) /\ StaleItems(call) # {}

\* errStaleFullPush: a full push is dropped whole if the ledger is ahead of
\* one of its items, or, when it is not trusted, if it omits a live identity.
Rejected(call) ==
    /\ Full(call)
    /\ \/ StaleItems(call) # {}
       \/ ~Trusted(call) /\ ~(Live \subseteq KeysOf(call.items))

\* runLocked up to the inner call, under latestMu.
Filter(c) ==
    LET filtered == op[c].items \ StaleItems(op[c])
    IN  /\ pc[c] = "ready"
        /\ \/ /\ closed \/ Rejected(op[c]) \/ (filtered = {} /\ op[c].items # {})
              /\ Return(c)
           \/ /\ ~(closed \/ Rejected(op[c]) \/ (filtered = {} /\ op[c].items # {}))
              /\ op' = [op EXCEPT ![c].items = filtered]
              /\ pc' = [pc EXCEPT ![c] = "push"]
              /\ UNCHANGED gateVars
        /\ UNCHANGED <<source, emitted, ledgerVars, innerVars>>

\* The worker's second attempt at an operation that was found stale: the gate
\* is left, and PushAllWithRevalidate called, without scope or confirmation.
FallBack(c) ==
    /\ pc[c] = "ready"
    /\ ~closed /\ op[c].kind = "operation" /\ Rejected(op[c])
    /\ "revalidate" \in FullKinds
    /\ writer' = NoCaller
    /\ op' = [op EXCEPT ![c].kind = "revalidate"]
    /\ pc' = [pc EXCEPT ![c] = "gate"]
    /\ UNCHANGED <<source, emitted, ledgerVars, readers, holder, innerVars>>

-----------------------------------------------------------------------------
(***************************************************************************)
(* The inner sink, external to the gate (pkg/nacos/nacos.go, Push, PushAll *)
(* and PushAllOperation).  It registers the online items, deregisters the  *)
(* offline ones, and after a full push removes what it serves in the same  *)
(* clusters and is not in the batch.  An empty batch whose emptiness was   *)
(* confirmed prunes the cluster that has the name of the scope.  The scope *)
(* of a Consul source is its cluster; that of Kubernetes is "k8s", while   *)
(* its instances are in clusters named after their source (clusterOf).     *)
(* When it fails it may have done any part of this.                        *)
(***************************************************************************)
PrunedClusters(call) ==
    {ClusterOf[k] : k \in KeysOf(call.items)} \cup
    {s \in {call.scope} : call.kind = "operation" /\ call.confirmed /\ call.items = {}}

Affected(call) ==
    KeysOf(call.items) \cup
    {k \in Keys : Full(call) /\ ClusterOf[k] \in PrunedClusters(call)}

\* What the inner sink serves for k once it has carried out the call.
Served(call, k) ==
    IF \E i \in call.items : i.key = k /\ ~i.offline
    THEN Rev(CHOOSE i \in call.items : i.key = k)
    ELSE None

InnerPush(c) ==
    /\ pc[c] = "push"
    /\ \E done \in SUBSET Affected(op[c]), acked \in BOOLEAN :
        /\ acked => done = Affected(op[c])
        /\ failures' = IF acked THEN failures ELSE failures + 1
        /\ failures' <= MaxFailures
        /\ remote' = [k \in Keys |-> IF k \in done THEN Served(op[c], k) ELSE remote[k]]
        /\ dirty' = IF acked THEN dirty \ Affected(op[c]) ELSE dirty \cup Affected(op[c])
        /\ op' = [op EXCEPT ![c].acked = acked]
    /\ pc' = [pc EXCEPT ![c] = "commit"]
    /\ UNCHANGED <<source, emitted, ledgerVars, gateVars>>

-----------------------------------------------------------------------------
\* Mutant: a snapshot only ever adds to the ledger.
EntombedNever(call) == {}

\* Mutant: a provider's snapshot speaks for the identities of all providers.
EntombedAnyScope(call) == {k \in Live \ KeysOf(call.items) : Trusted(call)}

\* A trusted snapshot deletes the live identities it omits; the snapshot of
\* an operation only those that an operation of the same scope has confirmed.
Entombed(call) ==
    {k \in Live \ KeysOf(call.items) :
        Trusted(call) /\ (call.kind = "operation" => identityScope[k] = call.scope)}

EntryOf(item) == [rev |-> Rev(item), tomb |-> item.offline]

\* The end of runLocked: an acknowledged push enters the ledger.
Commit(c) ==
    /\ pc[c] = "commit"
    /\ \/ /\ op[c].acked
          /\ latest' = [k \in Keys |->
                IF k \in KeysOf(op[c].items)
                THEN EntryOf(CHOOSE i \in op[c].items : i.key = k)
                ELSE IF k \in Entombed(op[c]) THEN [latest[k] EXCEPT !.tomb = TRUE]
                ELSE latest[k]]
          /\ identityScope' = [k \in Keys |->
                IF op[c].kind = "operation" /\ k \in KeysOf(op[c].items)
                THEN op[c].scope ELSE identityScope[k]]
       \/ /\ ~op[c].acked
          /\ UNCHANGED <<latest, identityScope>>
    /\ Return(c)
    /\ UNCHANGED <<source, emitted, closed, innerVars>>

\* Close waits for the calls in progress and forgets the ledger.
Close ==
    /\ ~closed
    /\ writer = NoCaller /\ readers = {}
    /\ closed' = TRUE
    /\ latest' = [k \in Keys |-> None]
    /\ identityScope' = [k \in Keys |-> None]
    /\ UNCHANGED <<source, emitted, gateVars, pc, op, innerVars>>

Next ==
    \/ \E k \in Keys : SourceUpdate(k) \/ SourceDelete(k) \/ DriftDelete(k)
    \/ \E c \in Callers :
        \/ Push(c) \/ LockKeys(c)
        \/ CallFull(c) \/ EnterExclusive(c)
        \/ Filter(c) \/ FallBack(c) \/ InnerPush(c) \/ Commit(c)
    \/ Close

Spec == Init /\ [][Next]_vars

-----------------------------------------------------------------------------
\* Type invariant of the gate, the ledger and the calls in progress.
TypeOK ==
    /\ source \in [Keys -> [rev : 0 .. MaxRev, live : BOOLEAN]]
    /\ emitted \subseteq Item
    /\ latest \in [Keys -> LedgerEntry \cup {None}]
    /\ identityScope \in [Keys -> Scopes \cup {None}]
    /\ closed \in BOOLEAN
    /\ readers \subseteq Callers
    /\ writer \in Callers \cup {NoCaller}
    /\ holder \in [Keys -> Callers \cup {NoCaller}]
    /\ pc \in [Callers -> {"idle", "gate", "keys", "ready", "push", "commit"}]
    /\ op \in [Callers -> Call]
    /\ remote \in [Keys -> Revision \cup {None}]
    /\ dirty \subseteq Keys
    /\ failures \in Nat

\* c is the caller whose inner push is the step from this state to the next.
Pushes(c) == pc[c] = "push" /\ pc'[c] = "commit"

\* The revision the ledger holds for an identity never decreases, however the
\* filtering and the recording of concurrent pushes interleave.
RevisionsNeverRegress ==
    [][\A k \in Keys :
        latest[k] # None /\ latest'[k] # None => latest'[k].rev >= latest[k].rev]_vars

\* A late event neither overwrites nor removes a newer revision that the
\* registry serves, unless a failed push has left that identity in doubt.
RegistryNeverRegresses ==
    [][\A c \in Callers : Pushes(c) =>
        \A i \in op[c].items :
            i.key \notin dirty /\ remote[i.key] # None => Rev(i) >= remote[i.key]]_vars

\* An identity whose deletion is recorded comes back only with a newer
\* revision, or because a snapshot read under the gate contains it: an event
\* from before the deletion cannot resurrect it.
NoResurrection ==
    [][\A c \in Callers : Pushes(c) =>
        \A k \in Keys :
            /\ remote[k] = None /\ remote'[k] # None
            /\ latest[k] # None /\ latest[k].tomb
            => remote'[k] > latest[k].rev \/ Trusted(op[c])]_vars

\* A full push never removes an instance that was registered from a revision
\* newer than the snapshot it pushes.
PruneIsNeverStale ==
    [][\A c \in Callers : Pushes(c) /\ Full(op[c]) =>
        \A k \in Keys \ dirty :
            remote[k] # None /\ remote'[k] = None => remote[k] <= op[c].asof[k]]_vars

\* A full operation touches neither the ledger's nor the registry's view of
\* another provider's instances, whatever it omits.
OthersUntouched ==
    [][\A c \in Callers :
        op[c].kind = "operation" /\ pc[c] \in {"push", "commit"} /\ pc'[c] # pc[c] =>
            \A k \in Keys : ScopeOf[k] # op[c].scope =>
                latest'[k] = latest[k] /\ remote'[k] = remote[k]]_vars

\* No call is changing what the registry serves for k.
Quiet(k) == \A c \in Callers : pc[c] = "commit" => k \notin Affected(op[c])

\* What the ledger holds for dead is not served by the registry: a tombstone
\* suppresses events of an instance only after it was really removed.
TombstonesAreGone ==
    \A k \in Keys \ dirty :
        Quiet(k) /\ latest[k] # None /\ latest[k].tomb => remote[k] = None

\* What the ledger holds for live and an operation has confirmed is served,
\* with the revision of the ledger.
ConfirmedAreServed ==
    \A k \in Live \ dirty :
        Quiet(k) /\ identityScope[k] # None => remote[k] = latest[k].rev

\* The registry's records have kept their revisions.
NoDrift == \A e \in emitted : e.rev # 0

\* A snapshot read under the gate is never found stale, as long as every
\* event carries the revision of its provider.
FreshSnapshotAccepted ==
    \A c \in Callers :
        pc[c] = "ready" /\ Trusted(op[c]) /\ NoDrift => ~Rejected(op[c])

-----------------------------------------------------------------------------
(***************************************************************************)
(* Statements of the source's comments that the code does not keep.        *)
(***************************************************************************)

\* fanout.go, on identityRevision: "Tombstones keep late pre-delete events
\* from resurrecting an instance".  An event brings back an instance that the
\* registry dropped only with a revision the gate has not accepted before.
LateEventsStayDead ==
    [][\A c \in Callers : Pushes(c) /\ ~Full(op[c]) =>
        \A k \in Keys \ dirty :
            remote[k] = None /\ remote'[k] # None /\ latest[k] # None
            => remote'[k] > latest[k].rev]_vars

\* nacos.go, PushAllOperation, on confirmed empty operations: "this is how a
\* completely vanished K8s source removes registrations".  Once one is
\* acknowledged, the registry serves nothing of its provider.
ConfirmedEmptyPrunes ==
    \A c \in Callers :
        /\ pc[c] = "commit" /\ op[c].acked
        /\ op[c].kind = "operation" /\ op[c].items = {}
        => \A k \in Keys \ dirty : ScopeOf[k] = op[c].scope => remote[k] = None
=============================================================================
