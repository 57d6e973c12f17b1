------------------------ MODULE ConsulProofs ------------------------
(***************************************************************************)
(* The Consul provider, for any set of instances and any number of reads,  *)
(* pushes and ticks, and the Consul monitor that notifies it.              *)
(*                                                                         *)
(* The invariant of the provider has two parts. BaseInv holds throughout:  *)
(* no copy of an instance, in the cache, in a thread's hands, in the pool  *)
(* or in the registry, is ahead of the catalog, and the confirmations of   *)
(* emptiness are not more than the empty reads that were seen. CalmInv     *)
(* follows an undisturbed tick (no new notice, no handler, no retry, no    *)
(* push of another thread) from its comparison to its full push: what it   *)
(* has repaired at each stage is what the last stage needs. Each action is *)
(* shown to be Good: it keeps both parts, and it keeps the two action      *)
(* properties.                                                             *)
(***************************************************************************)
EXTENDS ConsulProvider, TLAPS

Places == {"idle", "sync", "dispatch", "emit", "gate", "compare", "remote", "done"}

Ins == [reversion : Nat, status : 0 .. Offline]
Task == [id : Ids, ins : Ins]
LedgerEntry == [rev : Nat, tomb : BOOLEAN, scoped : BOOLEAN]

\* The last revision an instance had, whether it is in the catalog or not.
Latest ==
    [id \in Ids |-> IF catalog[id] # 0 THEN catalog[id] ELSE IF was[id] # 0 THEN was[id] ELSE 1]

\* Nothing is ahead of the catalog.
ListUpTo(list, top) == list \in [Ids -> Ins] /\ \A id \in Ids : list[id].reversion <= top[id]
TaskUpTo(e, top) == e \in Task /\ e.ins.reversion <= top[e.id]
TasksUpTo(events, top) == events \in Seq(Task) /\ \A i \in DOMAIN events : TaskUpTo(events[i], top)

SourceInv ==
    /\ index \in Nat /\ index >= 1
    /\ catalog \in [Ids -> Nat] /\ was \in [Ids -> Nat]
    /\ \A id \in Ids : catalog[id] <= index /\ was[id] <= index /\ was[id] <= Latest[id]

ThreadInv ==
    /\ pc \in [Threads -> Places]
    /\ emits \in [Threads -> Nat]
    /\ DOMAIN out = Threads /\ DOMAIN held = Threads
    /\ \A t \in Threads : pc[t] = "dispatch" => out[t] # <<>>
    /\ \A t \in Threads : pc[t] \in {"emit", "gate"} => emits[t] >= 1
    /\ pc["tick"] \in {"compare", "remote"} => emits["tick"] >= 1

\* The cache, and what the threads and the pool hold.
Bound(top) ==
    /\ ListUpTo(cache, top)
    /\ \A t \in Threads : ListUpTo(held[t], top) /\ TasksUpTo(out[t], top)
    /\ \A e \in pending : TaskUpTo(e, top)

SinkBound(top) ==
    /\ ListUpTo(served, top)
    /\ ledger \in [Ids -> LedgerEntry] /\ \A id \in Ids : ledger[id].rev <= top[id]

\* A thread counts an empty read at most once.
CountInv ==
    /\ emptyConfirmations \in Nat /\ empties \in Nat
    /\ emptyConfirmations <= empties /\ empties <= Confirmations

\* What a task may do while a tick is undisturbed.
Repairs(e) == IF IsLive(e.ins) THEN e.ins = View(catalog)[e.id] ELSE View(catalog)[e.id] = NoInstance

\* The undisturbed tick, from its compare to its full push.
Undisturbed == calm /\ nacosReconcile /\ View(catalog) # Nothing

CalmInv ==
    /\ ~noticed /\ timer = "nil" /\ callbacks = 0 /\ orphans = 0
    /\ \A t \in Threads \ {"tick"} : pc[t] \in {"idle", "done"}
    /\ \A e \in pending : Repairs(e)
    /\ \/ pc["tick"] = "compare" /\ emits["tick"] = 1
       \/ pc["tick"] = "remote" /\ emits["tick"] = 1 /\ cache = View(catalog) /\ held["tick"] = cache
       \/ pc["tick"] \in {"emit", "gate"} /\ emits["tick"] = 1 /\ cache = View(catalog)
       \/ pc["tick"] = "idle" /\ served = View(catalog)

\* The part of the invariant that holds in every phase.
BaseInv ==
    /\ SourceInv /\ ThreadInv /\ CountInv
    /\ Bound(Latest) /\ SinkBound(Latest)
    /\ DOMAIN confirmed = Threads

IInv == BaseInv /\ (Undisturbed => CalmInv)

-----------------------------------------------------------------------------
(***************************************************************************)
(* Instances and lists of them.                                            *)
(***************************************************************************)
LEMMA InstanceFacts ==
    ASSUME NEW id \in Ids, NEW rev \in Nat
    PROVE  /\ Instance(id, rev) \in Ins /\ Instance(id, rev).reversion = rev
           /\ (Instance(id, rev) = NoInstance) = (rev = 0)
           /\ rev # 0 => IsLive(Instance(id, rev)) /\ Instance(id, rev).status # 0
  BY DEF Instance, NoInstance, Ins, IsLive, Online, Unhealthy, Offline

\* A list without instances.
LEMMA NothingFacts ==
    /\ NoInstance \in Ins /\ NoInstance.reversion = 0 /\ NoInstance.status = 0
    /\ Nothing \in [Ids -> Ins] /\ \A id \in Ids : Nothing[id] = NoInstance
  BY DEF NoInstance, Nothing, Ins, Offline

\* The latest revisions, and those that are in the catalog.
LEMMA LatestFacts ==
    ASSUME SourceInv
    PROVE  /\ Latest \in [Ids -> Nat]
           /\ \A id \in Ids : Latest[id] >= 1 /\ catalog[id] <= Latest[id] /\ was[id] <= Latest[id]
                              /\ Latest[id] <= index /\ (catalog[id] # 0 => Latest[id] = catalog[id])
  <1>1. catalog \in [Ids -> Nat] /\ was \in [Ids -> Nat] /\ index \in Nat /\ index >= 1
    BY Zenon DEF SourceInv
  <1>2. ASSUME NEW id \in Ids
        PROVE  /\ Latest[id] \in Nat /\ Latest[id] >= 1 /\ catalog[id] <= Latest[id] /\ was[id] <= Latest[id]
               /\ Latest[id] <= index /\ (catalog[id] # 0 => Latest[id] = catalog[id])
    <2>1. catalog[id] \in Nat /\ was[id] \in Nat /\ catalog[id] <= index /\ was[id] <= index
      BY Zenon, <1>1 DEF SourceInv
    <2>2. was[id] <= Latest[id]
      BY Zenon DEF SourceInv
    <2>3. Latest[id] = IF catalog[id] # 0 THEN catalog[id] ELSE IF was[id] # 0 THEN was[id] ELSE 1
      BY Zenon DEF Latest
    <2> QED BY <1>1, <2>1, <2>2, <2>3
  <1> QED BY Zenon, <1>2 DEF Latest

\* A list without instances is ahead of nothing.
LEMMA NothingUpTo ==
    ASSUME NEW top \in [Ids -> Nat]
    PROVE  ListUpTo(Nothing, top)
  BY NothingFacts DEF ListUpTo

\* A list of what the catalog held: every instance in it is live.
Listed(list) == \A id \in Ids : list[id] = NoInstance \/ (list[id].reversion >= 1 /\ IsLive(list[id]))

\* What a read of the catalog would list.
LEMMA ViewFacts ==
    ASSUME NEW c \in [Ids -> Nat], NEW top \in [Ids -> Nat], \A id \in Ids : c[id] <= top[id]
    PROVE  /\ ListUpTo(View(c), top) /\ Listed(View(c))
           /\ \A id \in Ids : /\ View(c)[id] = Instance(id, c[id]) /\ View(c)[id].reversion = c[id]
                              /\ (View(c)[id] = NoInstance) = (c[id] = 0)
  <1>1. View(c) = [id \in Ids |-> Instance(id, c[id])]
    BY Zenon DEF View
  <1>2. ASSUME NEW id \in Ids
        PROVE  /\ View(c)[id] = Instance(id, c[id]) /\ View(c)[id] \in Ins /\ View(c)[id].reversion = c[id]
               /\ (View(c)[id] = NoInstance) = (c[id] = 0)
               /\ c[id] # 0 => c[id] >= 1 /\ IsLive(View(c)[id])
    BY <1>1, InstanceFacts
  <1>3. View(c) \in [Ids -> Ins]
    BY Zenon, <1>1, <1>2
  <1> QED BY Zenon, <1>2, <1>3 DEF ListUpTo, Listed

\* What a read may list: nothing that is ahead of the catalog.
LEMMA ReadFacts ==
    ASSUME SourceInv, NEW r \in Reads
    PROVE  /\ ListUpTo(r.list, Latest) /\ Listed(r.list)
           /\ r = Fresh => r.ok /\ r.list = View(catalog)
  <1>1. catalog \in [Ids -> Nat] /\ was \in [Ids -> Nat] /\ Latest \in [Ids -> Nat]
        /\ \A id \in Ids : catalog[id] <= Latest[id] /\ was[id] <= Latest[id]
    BY Zenon, LatestFacts DEF SourceInv
  <1>2. Fresh.ok /\ Fresh.list = View(catalog)
    BY Zenon DEF Fresh
  <1>3. CASE r = Failed
    <2>1. r.list = Nothing /\ r # Fresh
      BY Zenon, <1>3 DEF Failed, Fresh
    <2> QED BY Zenon, <1>1, <2>1, NothingUpTo, NothingFacts DEF Listed
  <1>4. CASE r = Fresh
    BY Zenon, <1>1, <1>2, <1>4, ViewFacts
  <1>5. CASE r \in Mixed
    <2>1. PICK old \in SUBSET Ids : r = [ok |-> TRUE, list |-> View([id \in Ids |-> IF id \in old THEN was[id] ELSE catalog[id]])]
      BY Zenon, <1>5 DEF Mixed
    <2> DEFINE c == [id \in Ids |-> IF id \in old THEN was[id] ELSE catalog[id]]
    <2>2. c \in [Ids -> Nat] /\ \A id \in Ids : c[id] <= Latest[id]
      BY Zenon, <1>1
    <2>3. r.list = View(c)
      BY Zenon, <2>1
    <2> HIDE DEF c
    <2>4. ListUpTo(r.list, Latest) /\ Listed(r.list)
      BY Zenon, <1>1, <2>2, <2>3, ViewFacts
    <2> QED BY Zenon, <1>2, <2>4
  <1> QED BY Zenon, <1>3, <1>4, <1>5 DEF Reads

\* mergeMonotonicInstances goes back in no instance.
LEMMA MergeFacts ==
    ASSUME NEW top \in [Ids -> Nat], ListUpTo(cache, top), NEW list, ListUpTo(list, top), Listed(list)
    PROVE  /\ ListUpTo(mergeMonotonicInstances(list), top)
           /\ \A id \in Ids : mergeMonotonicInstances(list)[id] # NoInstance =>
                                mergeMonotonicInstances(list)[id].reversion >= cache[id].reversion
           /\ \A id \in Ids : (mergeMonotonicInstances(list)[id] = NoInstance) = (list[id] = NoInstance)
           /\ \A id \in Ids : list[id].reversion >= cache[id].reversion => mergeMonotonicInstances(list)[id] = list[id]
  <1> DEFINE m == mergeMonotonicInstances(list)
  <1>1. m = [id \in Ids |-> IF list[id] # NoInstance /\ list[id].reversion < cache[id].reversion
                            THEN cache[id] ELSE list[id]]
    BY Zenon DEF mergeMonotonicInstances
  <1> HIDE DEF m
  <1>2. ASSUME NEW id \in Ids
        PROVE  /\ m[id] \in Ins /\ m[id].reversion <= top[id]
               /\ m[id] # NoInstance => m[id].reversion >= cache[id].reversion
               /\ (m[id] = NoInstance) = (list[id] = NoInstance)
               /\ list[id].reversion >= cache[id].reversion => m[id] = list[id]
    <2>1. /\ list[id] \in Ins /\ cache[id] \in Ins
          /\ list[id].reversion <= top[id] /\ cache[id].reversion <= top[id]
          /\ list[id].reversion \in Nat /\ cache[id].reversion \in Nat
      BY Zenon DEF ListUpTo, Ins
    <2>2. CASE list[id] # NoInstance /\ list[id].reversion < cache[id].reversion
      <3>1. m[id] = cache[id]
        BY Zenon, <1>1, <2>2
      <3>2. cache[id].reversion # 0
        BY <2>1, <2>2
      <3>3. cache[id] # NoInstance
        BY Zenon, <3>2, NothingFacts
      <3> QED BY <2>1, <2>2, <3>1, <3>3
    <2>3. CASE ~(list[id] # NoInstance /\ list[id].reversion < cache[id].reversion)
      <3>1. m[id] = list[id]
        BY Zenon, <1>1, <2>3
      <3> QED BY <2>1, <2>3, <3>1
    <2> QED BY Zenon, <2>2, <2>3
  <1>3. m \in [Ids -> Ins]
    BY Zenon, <1>1, <1>2
  <1> QED BY Zenon, <1>2, <1>3 DEF ListUpTo, m

\* What is read of an undisturbed catalog is taken over as it is.
LEMMA MergeFresh ==
    ASSUME SourceInv, ListUpTo(cache, Latest)
    PROVE  mergeMonotonicInstances(View(catalog)) = View(catalog)
  <1>1. /\ catalog \in [Ids -> Nat] /\ Latest \in [Ids -> Nat]
        /\ \A id \in Ids : catalog[id] <= Latest[id] /\ (catalog[id] # 0 => Latest[id] = catalog[id])
    BY Zenon, LatestFacts DEF SourceInv
  <1> DEFINE v == View(catalog)
             m == mergeMonotonicInstances(v)
  <1>2. /\ \A id \in Ids : v[id].reversion = catalog[id] /\ (v[id] = NoInstance) = (catalog[id] = 0)
        /\ DOMAIN v = Ids
    BY Zenon, <1>1, ViewFacts DEF View
  <1>3. m = [id \in Ids |-> IF v[id] # NoInstance /\ v[id].reversion < cache[id].reversion THEN cache[id] ELSE v[id]]
    BY Zenon DEF mergeMonotonicInstances
  <1>4. v = [id \in Ids |-> v[id]]
    BY Zenon DEF View
  <1> HIDE DEF m, v
  <1>5. ASSUME NEW id \in Ids PROVE m[id] = v[id]
    <2>1. cache[id].reversion \in Nat /\ cache[id].reversion <= Latest[id]
      BY Zenon DEF ListUpTo, Ins
    <2>2. CASE catalog[id] = 0
      BY Zenon, <1>2, <1>3, <2>2
    <2>3. CASE catalog[id] # 0
      <3>1. ~(v[id].reversion < cache[id].reversion)
        BY <1>1, <1>2, <2>1, <2>3
      <3> QED BY Zenon, <1>3, <3>1
    <2> QED BY Zenon, <2>2, <2>3
  <1> QED BY Zenon, <1>3, <1>4, <1>5 DEF m, v

(***************************************************************************)
(* Replacing the cache.                                                    *)
(***************************************************************************)
\* The delete event of a cached instance carries the revision it was cached with.
LEMMA GoneFacts ==
    ASSUME NEW top, ListUpTo(cache, top), NEW id \in Ids
    PROVE  Gone(id) \in Ins /\ Gone(id).reversion <= top[id] /\ TaskUpTo(Event(id, Gone(id)), top)
  <1>1. cache[id] \in Ins /\ cache[id].reversion <= top[id]
    BY Zenon DEF ListUpTo
  <1>2. Gone(id) \in Ins /\ Gone(id).reversion = cache[id].reversion
    BY <1>1 DEF Gone, Ins, Offline
  <1> QED BY Zenon, <1>1, <1>2 DEF TaskUpTo, Event, Task

\* A walk over instances passes each of them; proved at the end of the module.
Walks == \A S \in SUBSET Ids : Cardinality(S) \in Nat /\ Walk(S) \in [1 .. Cardinality(S) -> S]

\* The events of a set of instances, in any order.
LEMMA DiffFacts ==
    ASSUME Walks, NEW top, ListUpTo(cache, top), NEW new, ListUpTo(new, top)
    PROVE  TasksUpTo(Diff(new), top)
  <1> DEFINE Tasks == {e \in Task : TaskUpTo(e, top)}
             online(id) == Event(id, [new[id] EXCEPT !.status = Online])
             newer(id) == Event(id, new[id])
             gone(id) == Event(id, Gone(id))
             a == [i \in 1 .. Cardinality(Added(new)) |-> online(Walk(Added(new))[i])]
             b == [i \in 1 .. Cardinality(Updated(new)) |-> newer(Walk(Updated(new))[i])]
             c == [i \in 1 .. Cardinality(Deleted(new)) |-> gone(Walk(Deleted(new))[i])]
  <1>0. ASSUME NEW id \in Ids PROVE online(id) \in Tasks
    <2>1. new[id] \in Ins /\ new[id].reversion <= top[id]
      BY Zenon DEF ListUpTo
    <2>2. PICK ins : ins = [new[id] EXCEPT !.status = Online]
      BY Zenon
    <2>3. ins \in Ins /\ ins.reversion = new[id].reversion
      BY <2>1, <2>2 DEF Ins, Online, Offline
    <2> QED BY Zenon, <2>1, <2>2, <2>3 DEF Event, TaskUpTo, Task
  <1>1. \A id \in Ids : newer(id) \in Tasks
    BY Zenon DEF ListUpTo, Event, TaskUpTo, Task
  <1>2. \A id \in Ids : gone(id) \in Tasks
    BY Zenon, GoneFacts DEF TaskUpTo
  <1>3. Added(new) \in SUBSET Ids /\ Updated(new) \in SUBSET Ids /\ Deleted(new) \in SUBSET Ids
    BY Zenon DEF Added, Updated, Deleted
  <1>4. Diff(new) = a \o b \o c
    BY Zenon DEF Diff
  <1> HIDE DEF online, newer, gone, Tasks
  <1>5. a \in Seq(Tasks)
    BY <1>0, <1>3 DEF Walks
  <1>6. b \in Seq(Tasks)
    BY <1>1, <1>3 DEF Walks
  <1>7. c \in Seq(Tasks)
    BY <1>2, <1>3 DEF Walks
  <1> HIDE DEF a, b, c
  <1>8. Diff(new) \in Seq(Tasks)
    BY <1>4, <1>5, <1>6, <1>7
  <1>9. \A i \in DOMAIN Diff(new) : Diff(new)[i] \in Tasks
    BY <1>8
  <1>10. Tasks \subseteq Task /\ \A e \in Tasks : TaskUpTo(e, top)
    BY Zenon DEF Tasks
  <1>11. Diff(new) \in Seq(Task)
    BY <1>8, <1>10
  <1> QED BY Zenon, <1>9, <1>10, <1>11 DEF TasksUpTo

\* A thread goes on to a place where it has something to do.
LEMMA MovesOn ==
    ASSUME ThreadInv, NEW t \in Threads, NEW place \in Places, NEW n \in Nat,
           pc' = [pc EXCEPT ![t] = place], emits' = [emits EXCEPT ![t] = n],
           DOMAIN out' = Threads, DOMAIN held' = Threads,
           \A u \in Threads \ {t} : out'[u] = out[u],
           place = "dispatch" => out'[t] # <<>>,
           place \in {"emit", "gate"} => n >= 1,
           t = "tick" /\ place \in {"compare", "remote"} => n >= 1
    PROVE  ThreadInv'
  <1>1. /\ pc \in [Threads -> Places] /\ emits \in [Threads -> Nat]
        /\ \A u \in Threads : pc[u] = "dispatch" => out[u] # <<>>
        /\ \A u \in Threads : pc[u] \in {"emit", "gate"} => emits[u] >= 1
        /\ pc["tick"] \in {"compare", "remote"} => emits["tick"] >= 1
    BY Zenon DEF ThreadInv
  <1>2. /\ pc' \in [Threads -> Places] /\ pc'[t] = place /\ emits' \in [Threads -> Nat] /\ emits'[t] = n
        /\ \A u \in Threads \ {t} : pc'[u] = pc[u] /\ emits'[u] = emits[u]
    BY Zenon, <1>1
  <1>3. "tick" \in Threads
    BY Zenon DEF Threads
  <1>4. \A u \in Threads : pc'[u] = "dispatch" => out'[u] # <<>>
    BY Zenon, <1>1, <1>2
  <1>5. \A u \in Threads : pc'[u] \in {"emit", "gate"} => emits'[u] >= 1
    BY Zenon, <1>1, <1>2
  <1>6. pc'["tick"] \in {"compare", "remote"} => emits'["tick"] >= 1
    <2>1. CASE t = "tick"
      BY Zenon, <1>2, <2>1
    <2>2. CASE t # "tick"
      BY Zenon, <1>1, <1>2, <1>3, <2>2
    <2> QED BY Zenon, <2>1, <2>2
  <1> QED BY Zenon, <1>2, <1>4, <1>5, <1>6 DEF ThreadInv

\* The other threads stay where they are.
LEMMA ReplaceFacts ==
    ASSUME Walks, NEW top, Bound(top), ThreadInv, NEW t \in {"watch", "retry"}, NEW new, ListUpTo(new, top),
           NEW recovered, Replace(t, new, recovered), UNCHANGED <<held, pending>>
    PROVE  Bound(top)' /\ ThreadInv' /\ cache' = new
  <1> DEFINE bulk == AsFullPush(new)
             events == IF bulk THEN <<>> ELSE Diff(new)
             n == (IF bulk THEN 1 ELSE 0) + (IF recovered THEN 1 ELSE 0)
  <1>1. /\ cache' = new
        /\ out' = [out EXCEPT ![t] = events]
        /\ emits' = [emits EXCEPT ![t] = n]
        /\ pc' = [pc EXCEPT ![t] = Then(t, events, n)]
    BY Zenon DEF Replace
  <1>2. n \in Nat
    OBVIOUS
  <1>3. TasksUpTo(events, top)
    <2>1. TasksUpTo(Diff(new), top)
      BY Zenon, DiffFacts DEF Bound
    <2>2. TasksUpTo(<<>>, top)
      BY DEF TasksUpTo
    <2> QED BY Zenon, <2>1, <2>2
  <1>4. t \in Threads /\ t # "tick" /\ t # "startup"
    BY Zenon DEF Threads
  <1> HIDE DEF events, n, bulk
  <1>5. /\ DOMAIN out' = Threads /\ DOMAIN held' = Threads /\ out'[t] = events
        /\ \A u \in Threads \ {t} : out'[u] = out[u]
    BY Zenon, <1>1, <1>4 DEF ThreadInv
  <1>6. Bound(top)'
    BY Zenon, <1>1, <1>3, <1>5 DEF Bound
  <1>7. /\ Then(t, events, n) \in Places
        /\ Then(t, events, n) = "dispatch" => events # <<>>
        /\ Then(t, events, n) \in {"emit", "gate"} => n >= 1
    BY <1>2, <1>4 DEF Then, Places
  <1>8. PICK place : place = Then(t, events, n)
    BY Zenon
  <1>9. ThreadInv'
    BY Zenon, <1>1, <1>2, <1>4, <1>5, <1>7, <1>8, MovesOn
  <1> QED BY Zenon, <1>1, <1>6, <1>9

\* A handler that keeps the cache.
LEMMA IdleFacts ==
    ASSUME NEW top, Bound(top), ThreadInv, NEW t \in {"watch", "retry"}, Idle(t), UNCHANGED <<held, pending>>
    PROVE  Bound(top)' /\ ThreadInv' /\ cache' = cache
  <1>1. t \in Threads /\ t # "tick" /\ "idle" \in Places
    BY Zenon DEF Threads, Places
  <1>2. pc' = [pc EXCEPT ![t] = "idle"] /\ UNCHANGED <<cache, pending, held, out, emits>>
    BY Zenon DEF Idle
  <1>3. Bound(top)'
    BY Zenon, <1>2 DEF Bound
  <1>4. emits \in [Threads -> Nat] /\ DOMAIN out' = Threads /\ DOMAIN held' = Threads
    BY Zenon, <1>2 DEF ThreadInv
  <1>5. emits' = [emits EXCEPT ![t] = emits[t]] /\ emits[t] \in Nat
    BY Zenon, <1>1, <1>2, <1>4
  <1>6. ThreadInv'
    BY Zenon, <1>1, <1>2, <1>4, <1>5, MovesOn
  <1> QED BY Zenon, <1>2, <1>3, <1>6

\* The count of empty reads, in one read.
CountStep ==
    /\ emptyConfirmations' = 0 \/ emptyConfirmations' = emptyConfirmations
        \/ emptyConfirmations' = Bounded(emptyConfirmations + 1)
    /\ emptyConfirmations' = 0 \/ empties' = Bounded(empties + 1)
    /\ empties' = 0 \/ empties' = Bounded(empties + 1)

\* The confirmations never overtake the empty reads.
LEMMA CountFacts ==
    ASSUME CountInv, CountStep
    PROVE  CountInv'
  <1>1. Confirmations \in Nat /\ Confirmations >= 1
    BY LimitsAssumption
  <1>2. /\ emptyConfirmations \in Nat /\ empties \in Nat
        /\ emptyConfirmations <= empties /\ empties <= Confirmations
    BY Zenon DEF CountInv
  <1>3. \A n \in Nat : n <= Confirmations => Bounded(n + 1) \in Nat /\ Bounded(n + 1) <= Confirmations /\ n <= Bounded(n + 1)
    BY <1>1 DEF Bounded
  <1>4. Bounded(emptyConfirmations + 1) <= Bounded(empties + 1)
    BY <1>1, <1>2 DEF Bounded
  <1>5. emptyConfirmations <= Confirmations
    BY <1>1, <1>2
  <1>6. Bounded(emptyConfirmations + 1) \in Nat
    BY Zenon, <1>2, <1>3, <1>5
  <1>7. Bounded(empties + 1) \in Nat /\ Bounded(empties + 1) <= Confirmations /\ empties <= Bounded(empties + 1)
    BY Zenon, <1>2, <1>3
  <1>8. empties' \in Nat /\ empties' <= Confirmations
    BY <1>1, <1>7 DEF CountStep
  <1>9. CASE emptyConfirmations' = 0
    BY <1>8, <1>9 DEF CountInv
  <1>10. CASE emptyConfirmations' # 0 /\ emptyConfirmations' = emptyConfirmations
    <2>1. empties' = Bounded(empties + 1)
      BY Zenon, <1>10 DEF CountStep
    <2> QED BY <1>2, <1>7, <1>8, <1>10, <2>1 DEF CountInv
  <1>11. CASE emptyConfirmations' # 0 /\ emptyConfirmations' = Bounded(emptyConfirmations + 1)
    <2>1. empties' = Bounded(empties + 1)
      BY Zenon, <1>11 DEF CountStep
    <2> QED BY Zenon, <1>4, <1>6, <1>8, <1>11, <2>1 DEF CountInv
  <1> QED BY Zenon, <1>9, <1>10, <1>11 DEF CountStep

-----------------------------------------------------------------------------
(***************************************************************************)
(* The actions.  Of each it is shown that the invariant is kept, that the  *)
(* cache does not go back and that emptiness is confirmed.                 *)
(***************************************************************************)
Forward == \A id \in Ids : cache'[id] # NoInstance => cache'[id].reversion >= cache[id].reversion

Confirmed ==
    (cache # Nothing /\ cache' = Nothing) \/ (\E t \in Threads : confirmed'[t] /\ ~confirmed[t])
    => empties' >= Confirmations

Good == BaseInv' /\ (Undisturbed => CalmInv)' /\ Forward /\ Confirmed

\* The bounds are those of the catalog.
LEMMA SourceStays ==
    ASSUME UNCHANGED sourceVars
    PROVE  Latest' = Latest /\ View(catalog)' = View(catalog) /\ (SourceInv => SourceInv')
  BY Zenon DEF sourceVars, Latest, View, SourceInv

\* A cache that stays does not go back.
LEMMA SameCache ==
    ASSUME BaseInv, UNCHANGED cache
    PROVE  Forward
  <1>1. \A id \in Ids : cache[id].reversion \in Nat
    BY Zenon DEF BaseInv, Bound, ListUpTo, Ins
  <1> QED BY <1>1 DEF Forward

\* syncInstance, from the handler and from its retry.
LEMMA SyncFacts ==
    ASSUME Walks, IInv, NEW t \in {"watch", "retry"}, NEW present, Sync(t, present)
    PROVE  BaseInv' /\ Forward /\ Confirmed
  <1>1. /\ SourceInv /\ ThreadInv /\ CountInv /\ Bound(Latest) /\ SinkBound(Latest)
        /\ BaseInv /\ DOMAIN confirmed = Threads
    BY Zenon DEF IInv, BaseInv
  <1>2. PICK r \in Reads : syncInstance(t, present, r)
    BY Zenon DEF Sync
  <1>3. UNCHANGED <<sourceVars, held, confirmed, pending, served, ledger>>
    BY Zenon DEF Sync, sinkVars
  <1>4. Latest' = Latest /\ SourceInv'
    BY Zenon, <1>1, <1>3, SourceStays
  <1>5. SinkBound(Latest)'
    BY Zenon, <1>1, <1>3, <1>4 DEF SinkBound
  <1>6. PICK top : top = Latest
    BY Zenon
  <1>7. Bound(top) /\ top \in [Ids -> Nat] /\ top' = Latest' /\ ListUpTo(r.list, top) /\ Listed(r.list)
    BY Zenon, <1>1, <1>2, <1>4, <1>6, LatestFacts, ReadFacts
  <1>8. Confirmations \in Nat /\ Confirmations >= 1
    BY LimitsAssumption
  <1>9. DOMAIN confirmed' = Threads /\ \A x \in Threads : ~(confirmed'[x] /\ ~confirmed[x])
    BY Zenon, <1>1, <1>3
  <1>10. ASSUME NEW new, ListUpTo(new, top), NEW recovered, Replace(t, new, recovered)
         PROVE  Bound(top)' /\ ThreadInv' /\ cache' = new
    BY Zenon, <1>1, <1>3, <1>7, <1>10, ReplaceFacts
  <1>11. CASE ~r.ok /\ Counted(r) /\ ReadFailed /\ Idle(t)
    <2>1. Bound(top)' /\ ThreadInv' /\ cache' = cache
      BY Zenon, <1>1, <1>7, <1>3, <1>11, IdleFacts
    <2>2. CountStep
      BY Zenon, <1>11 DEF CountStep, Counted, IsEmpty, ReadFailed
    <2> QED BY Zenon, <1>1, <1>4, <1>5, <1>6, <1>9, <2>1, <2>2, CountFacts, SameCache DEF BaseInv, Confirmed
  <1>12. CASE /\ IsEmpty(r) /\ Counted(r)
              /\ emptyConfirmations' = Bounded(emptyConfirmations + 1)
              /\ emptyConfirmations' < Confirmations /\ Idle(t)
    <2>1. Bound(top)' /\ ThreadInv' /\ cache' = cache
      BY Zenon, <1>1, <1>7, <1>3, <1>12, IdleFacts
    <2>2. CountStep
      BY Zenon, <1>12 DEF CountStep, Counted
    <2> QED BY Zenon, <1>1, <1>4, <1>5, <1>6, <1>9, <2>1, <2>2, CountFacts, SameCache DEF BaseInv, Confirmed
  <1>13. CASE /\ IsEmpty(r) /\ Counted(r)
              /\ emptyConfirmations' = Bounded(emptyConfirmations + 1)
              /\ ~(emptyConfirmations' < Confirmations) /\ Replace(t, Nothing, FALSE)
    <2>1. Bound(top)' /\ ThreadInv' /\ \A id \in Ids : cache'[id] = NoInstance
      BY Zenon, <1>7, <1>10, <1>13, NothingUpTo, NothingFacts
    <2>2. CountStep
      BY Zenon, <1>13 DEF CountStep, Counted
    <2>3. CountInv'
      BY Zenon, <1>1, <2>2, CountFacts
    <2>4. empties' >= Confirmations
      BY <1>8, <1>13, <2>3 DEF CountInv
    <2> QED BY Zenon, <1>4, <1>5, <1>6, <1>9, <2>1, <2>3, <2>4 DEF BaseInv, Confirmed, Forward
  <1>14. CASE /\ r.ok /\ r.list # Nothing /\ Counted(r) /\ emptyConfirmations' = 0
              /\ Replace(t, mergeMonotonicInstances(r.list), emptyConfirmations > 0)
    <2> DEFINE m == mergeMonotonicInstances(r.list)
    <2>1. /\ ListUpTo(m, top)
          /\ \A id \in Ids : m[id] # NoInstance => m[id].reversion >= cache[id].reversion
          /\ \A id \in Ids : (m[id] = NoInstance) = (r.list[id] = NoInstance)
      BY <1>7, MergeFacts DEF Bound
    <2> HIDE DEF m
    <2>2. Bound(top)' /\ ThreadInv' /\ cache' = m
      BY Zenon, <1>10, <1>14, <2>1 DEF m
    <2>3. CountInv'
      <3>1. CountStep
        BY Zenon, <1>14 DEF CountStep, Counted, IsEmpty
      <3> QED BY Zenon, <1>1, <3>1, CountFacts
    <2>4. Forward
      BY Zenon, <2>1, <2>2 DEF Forward
    <2>5. cache' # Nothing
      <3>1. PICK id \in Ids : r.list[id] # NoInstance
        BY Zenon, <1>7, <1>14 DEF ListUpTo, Nothing
      <3>2. cache'[id] # NoInstance
        BY Zenon, <2>1, <2>2, <3>1
      <3> QED BY Zenon, <3>2, NothingFacts
    <2> QED BY SMTT(60), <1>4, <1>5, <1>6, <1>9, <2>2, <2>3, <2>4, <2>5 DEF BaseInv, Confirmed
  <1> QED BY Zenon, <1>2, <1>11, <1>12, <1>13, <1>14 DEF syncInstance

\* A push of one instance through the gate.
LEMMA PushFacts ==
    ASSUME NEW top \in [Ids -> Nat], SinkBound(top), NEW e, TaskUpTo(e, top), Push(e)
    PROVE  /\ SinkBound(top)'
           /\ \/ served' = served
              \/ served' = [served EXCEPT ![e.id] = IF IsLive(e.ins) THEN e.ins ELSE NoInstance]
  <1>1. e.id \in Ids /\ e.ins \in Ins /\ e.ins.reversion \in Nat /\ e.ins.reversion <= top[e.id]
    BY Zenon DEF TaskUpTo, Task, Ins
  <1>2. CASE UNCHANGED sinkVars
    BY Zenon, <1>2 DEF sinkVars, SinkBound
  <1>3. CASE /\ ledger' = [ledger EXCEPT ![e.id] = Accepted(ledger[e.id], e.ins)]
             /\ served' = [served EXCEPT ![e.id] = IF IsLive(e.ins) THEN e.ins ELSE NoInstance]
    <2>1. ledger \in [Ids -> LedgerEntry] /\ \A id \in Ids : ledger[id].rev <= top[id]
      BY Zenon DEF SinkBound
    <2>2. Accepted(ledger[e.id], e.ins) \in LedgerEntry /\ Accepted(ledger[e.id], e.ins).rev = e.ins.reversion
      BY Zenon, <1>1, <2>1 DEF Accepted, LedgerEntry
    <2>3. ledger' \in [Ids -> LedgerEntry] /\ \A id \in Ids : ledger'[id].rev <= top[id]
      BY Zenon, <1>1, <1>3, <2>1, <2>2
    <2>4. served \in [Ids -> Ins] /\ \A id \in Ids : served[id].reversion <= top[id]
      BY Zenon DEF SinkBound, ListUpTo
    <2> DEFINE x == IF IsLive(e.ins) THEN e.ins ELSE NoInstance
    <2>5. x \in Ins
      BY Zenon, <1>1, NothingFacts
    <2> HIDE DEF x
    <2>6. served' \in [Ids -> Ins]
      BY <1>1, <1>3, <2>4, <2>5 DEF x
    <2>7. ASSUME NEW id \in Ids PROVE served'[id].reversion <= top[id]
      <3>1. CASE id = e.id
        <4>1. served'[id] = x
          BY Zenon, <1>1, <1>3, <2>4, <3>1 DEF x
        <4>2. CASE IsLive(e.ins)
          BY Zenon, <1>1, <3>1, <4>1, <4>2 DEF x
        <4>3. CASE ~IsLive(e.ins)
          <5>1. served'[id].reversion = 0
            BY Zenon, <4>1, <4>3, NothingFacts DEF x
          <5>2. top[id] \in Nat
            BY Zenon
          <5> QED BY <5>1, <5>2
        <4> QED BY Zenon, <4>2, <4>3
      <3>2. CASE id # e.id
        BY Zenon, <1>3, <2>4, <3>2
      <3> QED BY Zenon, <3>1, <3>2
    <2> QED BY Zenon, <1>3, <2>3, <2>6, <2>7 DEF SinkBound, ListUpTo
  <1> QED BY Zenon, <1>2, <1>3 DEF Push

\* A step that touches neither the catalog nor what is held of it.
LEMMA StaysBound ==
    ASSUME BaseInv, UNCHANGED <<sourceVars, cache, held, out, pending>>
    PROVE  SourceInv' /\ Latest' = Latest /\ Bound(Latest)' /\ Forward
  <1>1. Latest' = Latest /\ SourceInv'
    BY Zenon, SourceStays DEF BaseInv
  <1>2. Bound(Latest)'
    BY Zenon, <1>1 DEF BaseInv, Bound
  <1> QED BY Zenon, <1>1, <1>2, SameCache

\* While a tick is undisturbed no other thread has anything to do.
LEMMA OnlyTheTick ==
    ASSUME IInv, Undisturbed, NEW t \in Threads, pc[t] \notin {"idle", "done"}
    PROVE  t = "tick" /\ CalmInv /\ pc[t] # "dispatch"
  BY Zenon DEF IInv, CalmInv

\* A thread hands its next event to the pool.
LEMMA DispatchGood ==
    ASSUME IInv, NEW t \in Threads, Dispatch(t)
    PROVE  Good
  <1>1. /\ BaseInv /\ SourceInv /\ ThreadInv /\ CountInv /\ Bound(Latest) /\ SinkBound(Latest)
        /\ DOMAIN confirmed = Threads
    BY Zenon DEF IInv, BaseInv
  <1>2. /\ pc[t] = "dispatch" /\ Push(Head(out[t]))
        /\ out' = [out EXCEPT ![t] = Tail(@)]
        /\ pc' = [pc EXCEPT ![t] = Then(t, Tail(out[t]), emits[t])]
        /\ UNCHANGED <<nacosReconcile, sourceVars, calm, cache, countVars, emits, held, confirmed, pending>>
    BY Zenon DEF Dispatch
  <1>3. PICK top : top = Latest
    BY Zenon
  <1>4. Latest' = Latest /\ SourceInv' /\ View(catalog)' = View(catalog) /\ top \in [Ids -> Nat]
    BY Zenon, <1>1, <1>2, <1>3, SourceStays, LatestFacts
  <1>5. /\ out[t] # <<>> /\ TasksUpTo(out[t], top) /\ emits[t] \in Nat
        /\ DOMAIN out = Threads /\ DOMAIN held = Threads
    BY Zenon, <1>1, <1>2, <1>3 DEF ThreadInv, Bound
  <1>6. TaskUpTo(Head(out[t]), top) /\ TasksUpTo(Tail(out[t]), top)
    <2>1. /\ out[t] \in Seq(Task) /\ Head(out[t]) = out[t][1] /\ 1 \in DOMAIN out[t] /\ Tail(out[t]) \in Seq(Task)
          /\ \A i \in DOMAIN Tail(out[t]) : i + 1 \in DOMAIN out[t] /\ Tail(out[t])[i] = out[t][i + 1]
      BY <1>5 DEF TasksUpTo
    <2> QED BY Zenon, <1>5, <2>1 DEF TasksUpTo
  <1>7. SinkBound(Latest)'
    BY Zenon, <1>1, <1>2, <1>3, <1>4, <1>6, PushFacts
  <1>8. /\ out' = [u \in Threads |-> IF u = t THEN Tail(out[t]) ELSE out[u]]
        /\ emits' = [emits EXCEPT ![t] = emits[t]]
    BY Zenon, <1>1, <1>2, <1>5 DEF ThreadInv
  <1>9. Bound(Latest)'
    <2>1. \A u \in Threads : TasksUpTo(out'[u], top)
      BY Zenon, <1>1, <1>3, <1>6, <1>8 DEF Bound
    <2> QED BY Zenon, <1>1, <1>2, <1>3, <1>4, <2>1 DEF Bound
  <1>10. ThreadInv'
    <2> DEFINE place == Then(t, Tail(out[t]), emits[t])
    <2>1. /\ place \in Places /\ (place = "dispatch" => Tail(out[t]) # <<>>)
          /\ (place \in {"emit", "gate"} => emits[t] >= 1) /\ place \notin {"compare", "remote"}
      BY <1>5 DEF Then, Places
    <2> HIDE DEF place
    <2>2. /\ DOMAIN out' = Threads /\ DOMAIN held' = Threads /\ out'[t] = Tail(out[t])
          /\ \A u \in Threads \ {t} : out'[u] = out[u]
      BY Zenon, <1>2, <1>5, <1>8
    <2> QED BY ZenonT(60), <1>1, <1>2, <1>5, <1>8, <2>1, <2>2, MovesOn DEF place
  <1>11. CountInv' /\ Confirmed /\ Forward /\ DOMAIN confirmed' = Threads
    BY Zenon, <1>1, <1>2, SameCache DEF CountInv, countVars, Confirmed
  <1>12. ~Undisturbed'
    BY Zenon, <1>2, <1>4, OnlyTheTick DEF Undisturbed
  <1> QED BY Zenon, <1>4, <1>7, <1>9, <1>10, <1>11, <1>12 DEF Good, BaseInv

\* A snapshot counts what it saw, and nothing that was not empty.
LEMMA SnapshotFacts ==
    ASSUME CountInv, NEW r, NEW advance \in BOOLEAN, Snapshot(r, advance)
    PROVE  /\ CountInv'
           /\ r.ok /\ emptyConfirmations' >= Confirmations => empties' >= Confirmations
           /\ r.ok /\ r.list # Nothing => emptyConfirmations' = 0 /\ timer' = timer
  <1>1. CountStep
    <2>1. CASE ~r.ok /\ ReadFailed
      BY Zenon, <2>1 DEF Snapshot, Counted, CountStep, ReadFailed, IsEmpty
    <2>2. CASE /\ IsEmpty(r)
               /\ IF advance
                  THEN /\ emptyConfirmationPending' = FALSE
                       /\ emptyConfirmations' = IF emptyConfirmationPending THEN emptyConfirmations
                                                ELSE Bounded(emptyConfirmations + 1)
                  ELSE UNCHANGED <<emptyConfirmations, emptyConfirmationPending>>
      BY Zenon, <2>2 DEF Snapshot, Counted, CountStep
    <2>3. CASE r.ok /\ r.list # Nothing /\ emptyConfirmations' = 0
      BY Zenon, <2>3 DEF Snapshot, Counted, CountStep, IsEmpty
    <2> QED BY Zenon, <2>1, <2>2, <2>3 DEF Snapshot
  <1>2. CountInv'
    BY Zenon, <1>1, CountFacts
  <1>3. Confirmations \in Nat
    BY Zenon, LimitsAssumption
  <1>4. emptyConfirmations' >= Confirmations => empties' >= Confirmations
    BY <1>2, <1>3 DEF CountInv
  <1>5. r.ok /\ r.list # Nothing => emptyConfirmations' = 0 /\ timer' = timer
    BY Zenon DEF Snapshot, IsEmpty
  <1> QED BY Zenon, <1>2, <1>4, <1>5

\* A thread starts its next full push.
LEMMA EmitGood ==
    ASSUME IInv, NEW t \in Threads, EmitSyncAll(t)
    PROVE  Good
  <1>1. /\ BaseInv /\ SourceInv /\ ThreadInv /\ CountInv /\ Bound(Latest) /\ SinkBound(Latest)
        /\ DOMAIN confirmed = Threads
    BY Zenon DEF IInv, BaseInv
  <1>2. /\ pc[t] = "emit"
        /\ UNCHANGED <<nacosReconcile, sourceVars, noticed, cache, orphans, callbacks, out, held, pending, sinkVars>>
    BY Zenon DEF EmitSyncAll
  <1>3. PICK r \in Reads :
            /\ ReadAnswers(r)
            /\ Snapshot(r, TRUE)
            /\ confirmed' = [confirmed EXCEPT ![t] = r.ok /\ emptyConfirmations' >= Confirmations]
            /\ IF r.ok /\ (r.list # Nothing \/ confirmed'[t])
               THEN pc' = [pc EXCEPT ![t] = "gate"] /\ UNCHANGED emits
               ELSE /\ pc' = [pc EXCEPT ![t] = Then(t, <<>>, emits[t] - 1)]
                    /\ emits' = [emits EXCEPT ![t] = @ - 1]
    BY Zenon DEF EmitSyncAll
  <1>4. /\ SourceInv' /\ Latest' = Latest /\ Bound(Latest)' /\ Forward
    BY Zenon, <1>1, <1>2, StaysBound
  <1>5. SinkBound(Latest)' /\ View(catalog)' = View(catalog)
    BY Zenon, <1>1, <1>2, <1>4, SourceStays DEF SinkBound, sinkVars
  <1>6. /\ CountInv'
        /\ r.ok /\ emptyConfirmations' >= Confirmations => empties' >= Confirmations
        /\ r.ok /\ r.list # Nothing => emptyConfirmations' = 0 /\ timer' = timer
    BY Zenon, <1>1, <1>3, SnapshotFacts
  <1>7. emits[t] \in Nat /\ emits[t] >= 1 /\ emits \in [Threads -> Nat] /\ DOMAIN out' = Threads /\ DOMAIN held' = Threads
    BY Zenon, <1>1, <1>2 DEF ThreadInv
  <1>8. ThreadInv'
    <2>1. CASE pc' = [pc EXCEPT ![t] = "gate"] /\ UNCHANGED emits
      <3>1. emits' = [emits EXCEPT ![t] = emits[t]] /\ "gate" \in Places
        BY Zenon, <1>7, <2>1 DEF Places
      <3> QED BY Zenon, <1>1, <1>2, <1>7, <2>1, <3>1, MovesOn
    <2>2. CASE pc' = [pc EXCEPT ![t] = Then(t, <<>>, emits[t] - 1)] /\ emits' = [emits EXCEPT ![t] = @ - 1]
      <3> DEFINE place == Then(t, <<>>, emits[t] - 1)
                 n == emits[t] - 1
      <3>1. n \in Nat /\ emits' = [emits EXCEPT ![t] = n]
        BY <1>7, <2>2
      <3>2. place \in {"emit", "done", "idle"} /\ (place = "emit" => n >= 1)
        BY <3>1 DEF Then
      <3>3. place \in Places /\ pc' = [pc EXCEPT ![t] = place]
        BY Zenon, <2>2, <3>2 DEF Places
      <3> HIDE DEF place, n
      <3> QED BY Zenon, <1>1, <1>2, <1>7, <3>1, <3>2, <3>3, MovesOn
    <2> QED BY Zenon, <1>3, <2>1, <2>2
  <1>9. Confirmed /\ DOMAIN confirmed' = Threads
    <2>1. ASSUME NEW u \in Threads, confirmed'[u], ~confirmed[u] PROVE empties' >= Confirmations
      <3>1. u = t
        BY Zenon, <1>1, <1>3, <2>1
      <3>2. confirmed'[t] => r.ok /\ emptyConfirmations' >= Confirmations
        BY ZenonT(60), <1>1, <1>3, <2>1, <3>1
      <3> QED BY Zenon, <1>6, <2>1, <3>1, <3>2
    <2> QED BY Zenon, <1>1, <1>2, <1>3, <2>1 DEF Confirmed
  <1>10. ASSUME Undisturbed' PROVE CalmInv'
    <2>1. Undisturbed /\ r = Fresh
      BY Zenon, <1>2, <1>3, <1>5, <1>10 DEF Undisturbed, ReadAnswers
    <2>2. t = "tick" /\ CalmInv
      BY Zenon, <1>2, <2>1, OnlyTheTick
    <2>3. r.ok /\ r.list = View(catalog) /\ r.list # Nothing
      BY Zenon, <1>1, <2>1, ReadFacts DEF Undisturbed
    <2>4. pc' = [pc EXCEPT ![t] = "gate"] /\ UNCHANGED emits /\ timer' = timer
      BY Zenon, <1>3, <1>6, <2>3
    <2>5. /\ pc'["tick"] = "gate" /\ \A u \in Threads \ {"tick"} : pc'[u] = pc[u]
      BY Zenon, <1>1, <2>2, <2>4 DEF ThreadInv
    <2>6. cache = View(catalog) /\ emits["tick"] = 1
      BY Zenon, <1>2, <2>2 DEF CalmInv
    <2>7. \A e \in pending' : Repairs(e)'
      BY Zenon, <1>2, <1>5, <2>2 DEF CalmInv, Repairs
    <2> QED BY <1>2, <1>5, <2>2, <2>4, <2>5, <2>6, <2>7 DEF CalmInv
  <1> QED BY Zenon, <1>4, <1>5, <1>6, <1>8, <1>9, <1>10 DEF Good, BaseInv

\* A full push through the gate.
LEMMA FullPushFacts ==
    ASSUME NEW top \in [Ids -> Nat], SinkBound(top), NEW fresh, ListUpTo(fresh, top),
           ledger' = FullLedger(ledger, fresh),
           served' = IF nacosReconcile THEN fresh
                     ELSE [id \in Ids |-> IF id \in Present(fresh) THEN fresh[id] ELSE served[id]]
    PROVE  SinkBound(top)'
  <1>1. /\ served \in [Ids -> Ins] /\ \A id \in Ids : served[id].reversion <= top[id]
        /\ ledger \in [Ids -> LedgerEntry] /\ \A id \in Ids : ledger[id].rev <= top[id]
        /\ fresh \in [Ids -> Ins] /\ \A id \in Ids : fresh[id].reversion <= top[id]
    BY Zenon DEF SinkBound, ListUpTo
  <1>2. served' \in [Ids -> Ins] /\ \A id \in Ids : served'[id].reversion <= top[id]
    <2>1. CASE nacosReconcile
      BY Zenon, <1>1, <2>1
    <2>2. CASE ~nacosReconcile
      BY Zenon, <1>1, <2>2
    <2> QED BY Zenon, <2>1, <2>2
  <1>3. ledger' = [id \in Ids |->
            IF id \in Present(fresh) THEN [rev |-> fresh[id].reversion, tomb |-> FALSE, scoped |-> TRUE]
            ELSE [ledger[id] EXCEPT !.tomb = ledger[id].tomb \/ ledger[id].scoped]]
    BY Zenon, <1>1 DEF FullLedger
  <1>4. ASSUME NEW id \in Ids PROVE ledger'[id] \in LedgerEntry /\ ledger'[id].rev <= top[id]
    <2>1. ledger[id] \in LedgerEntry /\ fresh[id].reversion \in Nat
      BY Zenon, <1>1 DEF Ins
    <2>2. CASE id \in Present(fresh)
      BY <1>1, <1>3, <2>1, <2>2 DEF LedgerEntry
    <2>3. CASE id \notin Present(fresh)
      <3>1. ledger'[id] = [ledger[id] EXCEPT !.tomb = ledger[id].tomb \/ ledger[id].scoped]
        BY Zenon, <1>3, <2>3
      <3>2. (ledger[id].tomb \/ ledger[id].scoped) \in BOOLEAN
        BY Zenon
      <3> QED BY Zenon, <1>1, <2>1, <3>1, <3>2 DEF LedgerEntry
    <2> QED BY Zenon, <2>2, <2>3
  <1>5. ledger' \in [Ids -> LedgerEntry]
    BY Zenon, <1>3, <1>4
  <1> QED BY Zenon, <1>2, <1>4, <1>5 DEF SinkBound, ListUpTo

\* The full push of a thread.
LEMMA GateGood ==
    ASSUME IInv, NEW t \in Threads, GatePush(t)
    PROVE  Good
  <1>1. /\ BaseInv /\ SourceInv /\ ThreadInv /\ CountInv /\ Bound(Latest) /\ SinkBound(Latest)
        /\ DOMAIN confirmed = Threads
    BY Zenon DEF IInv, BaseInv
  <1>2. /\ pc[t] = "gate"
        /\ confirmed' = [confirmed EXCEPT ![t] = FALSE]
        /\ emits' = [emits EXCEPT ![t] = @ - 1]
        /\ pc' = [pc EXCEPT ![t] = Then(t, <<>>, emits[t] - 1)]
        /\ UNCHANGED <<nacosReconcile, sourceVars, noticed, cache, orphans, callbacks, out, held, pending>>
    BY Zenon DEF GatePush
  <1>3. PICK r \in Reads :
            /\ ReadAnswers(r)
            /\ Snapshot(r, FALSE)
            /\ LET fresh == mergeMonotonicInstances(r.list)
               IN  IF ~r.ok \/ (fresh = Nothing /\ ~confirmed[t]) \/ FullRejected(ledger, fresh)
                   THEN UNCHANGED sinkVars
                   ELSE /\ served' = IF nacosReconcile THEN fresh
                                     ELSE [id \in Ids |-> IF id \in Present(fresh) THEN fresh[id] ELSE served[id]]
                        /\ ledger' = FullLedger(ledger, fresh)
    BY Zenon DEF GatePush
  <1>4. PICK top : top = Latest
    BY Zenon
  <1>5. PICK fresh : fresh = mergeMonotonicInstances(r.list)
    BY Zenon
  <1>6. IF ~r.ok \/ (fresh = Nothing /\ ~confirmed[t]) \/ FullRejected(ledger, fresh)
        THEN UNCHANGED sinkVars
        ELSE /\ served' = IF nacosReconcile THEN fresh
                          ELSE [id \in Ids |-> IF id \in Present(fresh) THEN fresh[id] ELSE served[id]]
             /\ ledger' = FullLedger(ledger, fresh)
    BY Zenon, <1>3, <1>5
  <1>7. SourceInv' /\ Latest' = Latest /\ Bound(Latest)' /\ Forward /\ View(catalog)' = View(catalog)
    BY Zenon, <1>1, <1>2, StaysBound, SourceStays
  <1>8. top \in [Ids -> Nat] /\ ListUpTo(fresh, top)
    BY Zenon, <1>1, <1>4, <1>5, LatestFacts, ReadFacts, MergeFacts DEF Bound
  <1>9. SinkBound(Latest)'
    <2>1. CASE UNCHANGED sinkVars
      BY Zenon, <1>1, <1>7, <2>1 DEF SinkBound, sinkVars
    <2>2. CASE ~UNCHANGED sinkVars
      <3>1. SinkBound(top)'
        BY Zenon, <1>1, <1>4, <1>6, <1>8, <2>2, FullPushFacts
      <3> QED BY Zenon, <1>4, <1>7, <3>1
    <2> QED BY Zenon, <2>1, <2>2
  <1>10. CountInv' /\ (r.ok /\ r.list # Nothing => timer' = timer)
    BY Zenon, <1>1, <1>3, SnapshotFacts
  <1>11. Confirmed /\ DOMAIN confirmed' = Threads
    BY Zenon, <1>1, <1>2 DEF Confirmed
  <1>12. /\ emits[t] \in Nat /\ emits[t] >= 1 /\ emits \in [Threads -> Nat] /\ pc \in [Threads -> Places]
         /\ DOMAIN out' = Threads /\ DOMAIN held' = Threads
    BY Zenon, <1>1, <1>2 DEF ThreadInv
  <1>13. ThreadInv'
    <2> DEFINE place == Then(t, <<>>, emits[t] - 1)
               n == emits[t] - 1
    <2>1. n \in Nat /\ emits' = [emits EXCEPT ![t] = n]
      BY <1>2, <1>12
    <2>2. place \in {"emit", "done", "idle"} /\ (place = "emit" => n >= 1)
      BY <2>1 DEF Then
    <2>3. place \in Places /\ pc' = [pc EXCEPT ![t] = place]
      BY Zenon, <1>2, <2>2 DEF Places
    <2> HIDE DEF place, n
    <2> QED BY ZenonT(60), <1>1, <1>2, <1>12, <2>1, <2>2, <2>3, MovesOn
  <1>14. ASSUME Undisturbed' PROVE CalmInv'
    <2>1. Undisturbed /\ r = Fresh /\ nacosReconcile
      BY Zenon, <1>2, <1>3, <1>7, <1>14 DEF Undisturbed, ReadAnswers
    <2>2. t = "tick" /\ CalmInv
      BY Zenon, <1>2, <2>1, OnlyTheTick
    <2>3. r.ok /\ r.list = View(catalog) /\ r.list # Nothing
      BY Zenon, <1>1, <2>1, ReadFacts DEF Undisturbed
    <2>4. fresh = View(catalog)
      BY Zenon, <1>1, <1>5, <2>3, MergeFresh DEF Bound
    <2>5. ~FullRejected(ledger, fresh)
      <3>1. ASSUME NEW id \in Present(fresh) PROVE ~(ledger[id].rev > fresh[id].reversion)
        <4>1. id \in Ids /\ fresh[id].status # 0
          BY Zenon, <2>4, <3>1 DEF Present, View
        <4>2. fresh[id].reversion = catalog[id] /\ (fresh[id] = NoInstance) = (catalog[id] = 0)
          <5>1. catalog \in [Ids -> Nat] /\ \A x \in Ids : catalog[x] <= Latest[x]
            BY Zenon, <1>1, LatestFacts DEF SourceInv
          <5> QED BY Zenon, <1>4, <1>8, <2>4, <4>1, <5>1, ViewFacts
        <4>3. catalog[id] # 0
          BY Zenon, <4>1, <4>2, NothingFacts
        <4>4. Latest[id] = catalog[id] /\ ledger[id].rev <= Latest[id]
          BY Zenon, <1>1, <4>1, <4>3, LatestFacts DEF SinkBound
        <4>5. ledger[id].rev \in Nat /\ catalog[id] \in Nat
          BY Zenon, <1>1, <4>1 DEF SinkBound, LedgerEntry, SourceInv
        <4> QED BY <4>2, <4>4, <4>5
      <3> QED BY Zenon, <3>1 DEF FullRejected
    <2>6. served' = View(catalog)
      BY Zenon, <1>6, <2>1, <2>3, <2>4, <2>5
    <2>7. emits["tick"] = 1
      BY Zenon, <1>2, <2>2 DEF CalmInv
    <2>8. Then(t, <<>>, emits[t] - 1) = "idle"
      BY <2>2, <2>7 DEF Then
    <2>9. pc'["tick"] = "idle" /\ \A u \in Threads \ {"tick"} : pc'[u] = pc[u]
      BY Zenon, <1>2, <1>12, <2>2, <2>8
    <2>10. \A e \in pending' : Repairs(e)'
      BY Zenon, <1>2, <1>7, <2>2 DEF CalmInv, Repairs
    <2>11. ~noticed' /\ timer' = "nil" /\ callbacks' = 0 /\ orphans' = 0
      BY Zenon, <1>2, <1>10, <2>2, <2>3 DEF CalmInv
    <2> QED BY ZenonT(60), <1>7, <2>2, <2>6, <2>9, <2>10, <2>11 DEF CalmInv
  <1> QED BY ZenonT(60), <1>7, <1>9, <1>10, <1>11, <1>13, <1>14 DEF Good, BaseInv

\* The comparison of the tick: the cache is read anew.
LEMMA CompareGood ==
    ASSUME IInv, NEW t \in Threads, Compare(t)
    PROVE  Good
  <1>1. /\ BaseInv /\ SourceInv /\ ThreadInv /\ CountInv /\ Bound(Latest) /\ SinkBound(Latest)
        /\ DOMAIN confirmed = Threads
    BY Zenon DEF IInv, BaseInv
  <1>2. /\ pc[t] = "compare"
        /\ UNCHANGED <<nacosReconcile, sourceVars, noticed, orphans, callbacks, emits, confirmed, sinkVars>>
    BY Zenon DEF Compare
  <1>3. PICK r \in Reads : ReadAnswers(r) /\ CompareLocal(t, r)
    BY Zenon DEF Compare
  <1>4. PICK top : top = Latest
    BY Zenon
  <1>5. /\ Latest' = Latest /\ SourceInv' /\ View(catalog)' = View(catalog) /\ top \in [Ids -> Nat]
        /\ Bound(top) /\ ListUpTo(cache, top) /\ ListUpTo(r.list, top) /\ Listed(r.list)
    BY Zenon, <1>1, <1>2, <1>4, SourceStays, LatestFacts, ReadFacts DEF Bound
  <1>6. SinkBound(Latest)' /\ DOMAIN confirmed' = Threads /\ \A u \in Threads : ~(confirmed'[u] /\ ~confirmed[u])
    BY Zenon, <1>1, <1>2, <1>5 DEF SinkBound, sinkVars
  <1>7. /\ pc \in [Threads -> Places] /\ emits \in [Threads -> Nat] /\ emits[t] \in Nat
        /\ DOMAIN out = Threads /\ DOMAIN held = Threads
        /\ t = "tick" => emits[t] >= 1
    BY Zenon, <1>1, <1>2 DEF ThreadInv
  <1>8. UNCHANGED <<out, pending>> /\ Counted(r)
    BY Zenon, <1>3 DEF CompareLocal
  <1>9. ASSUME NEW place \in {Compared(t), "remote"}, pc' = [pc EXCEPT ![t] = place], DOMAIN held' = Threads
        PROVE  ThreadInv'
    <2>1. place \in Places /\ place # "dispatch" /\ place # "gate" /\ (place = "emit" => t = "tick")
      BY Zenon DEF Compared, Places
    <2>2. emits' = [emits EXCEPT ![t] = emits[t]]
      BY Zenon, <1>2, <1>7
    <2>3. place \in {"emit", "gate"} => emits[t] >= 1
      BY Zenon, <1>7, <2>1
    <2>4. DOMAIN out' = Threads /\ \A u \in Threads \ {t} : out'[u] = out[u]
      BY Zenon, <1>7, <1>8
    <2> QED BY Zenon, <1>1, <1>7, <1>9, <2>1, <2>2, <2>3, <2>4, MovesOn
  <1>10. ASSUME NEW list, ListUpTo(list, top), cache' = list, held' = [held EXCEPT ![t] = list]
         PROVE  Bound(Latest)' /\ DOMAIN held' = Threads
    <2>1. \A u \in Threads : ListUpTo(held'[u], top) /\ TasksUpTo(out'[u], top)
      BY Zenon, <1>5, <1>7, <1>8, <1>10 DEF Bound
    <2>2. \A e \in pending' : TaskUpTo(e, top)
      BY Zenon, <1>5, <1>8 DEF Bound
    <2>3. Bound(top)'
      BY Zenon, <1>10, <2>1, <2>2 DEF Bound
    <2> QED BY Zenon, <1>4, <1>5, <1>7, <1>10, <2>3
  <1>11. UNCHANGED <<cache, held>> => Bound(Latest)' /\ Forward /\ DOMAIN held' = Threads /\ Confirmed
    <2> SUFFICES ASSUME UNCHANGED <<cache, held>> PROVE Bound(Latest)' /\ Forward /\ DOMAIN held' = Threads /\ Confirmed
      BY Zenon
    <2>1. Confirmed
      BY Zenon, <1>6 DEF Confirmed
    <2> QED BY Zenon, <1>1, <1>2, <1>7, <1>8, <2>1, StaysBound
  <1>12. Confirmations \in Nat
    BY Zenon, LimitsAssumption
  <1>13. CASE ~r.ok /\ ReadFailed /\ pc' = [pc EXCEPT ![t] = Compared(t)] /\ UNCHANGED <<cache, held>>
    <2>1. CountStep
      BY Zenon, <1>8, <1>13 DEF CountStep, Counted, IsEmpty, ReadFailed
    <2>2. r # Fresh
      BY Zenon, <1>1, <1>13, ReadFacts
    <2>3. ~Undisturbed'
      BY Zenon, <1>3, <2>2 DEF Undisturbed, ReadAnswers
    <2>4. CountInv' /\ ThreadInv'
      BY <1>1, <1>9, <1>11, <1>13, <2>1, CountFacts
    <2> QED BY Zenon, <1>5, <1>6, <1>11, <1>13, <2>3, <2>4 DEF Good, BaseInv
  <1>14. CASE /\ IsEmpty(r)
              /\ emptyConfirmations' = IF emptyConfirmationPending THEN emptyConfirmations
                                       ELSE Bounded(emptyConfirmations + 1)
              /\ \/ pc' = [pc EXCEPT ![t] = Compared(t)] /\ UNCHANGED <<cache, held>>
                 \/ /\ ~(emptyConfirmations' < Confirmations)
                    /\ cache' = Nothing
                    /\ held' = [held EXCEPT ![t] = Nothing]
                    /\ pc' = [pc EXCEPT ![t] = "remote"]
    <2>1. CountStep
      BY Zenon, <1>8, <1>14 DEF CountStep, Counted
    <2>2. CountInv'
      BY Zenon, <1>1, <2>1, CountFacts
    <2>3. ~Undisturbed'
      <3>1. r.list = Nothing
        BY Zenon, <1>14 DEF IsEmpty
      <3> QED BY ZenonT(60), <1>1, <1>3, <1>5, <3>1, ReadFacts DEF Undisturbed, ReadAnswers
    <2>4. CASE pc' = [pc EXCEPT ![t] = Compared(t)] /\ UNCHANGED <<cache, held>>
      BY <1>5, <1>6, <1>9, <1>11, <2>2, <2>3, <2>4 DEF Good, BaseInv
    <2>5. CASE /\ ~(emptyConfirmations' < Confirmations)
               /\ cache' = Nothing
               /\ held' = [held EXCEPT ![t] = Nothing]
               /\ pc' = [pc EXCEPT ![t] = "remote"]
      <3>1. empties' >= Confirmations
        BY <1>12, <2>2, <2>5 DEF CountInv
      <3>2. Bound(Latest)' /\ DOMAIN held' = Threads
        BY Zenon, <1>5, <1>10, <2>5, NothingUpTo
      <3>3. ThreadInv'
        BY Zenon, <1>9, <2>5, <3>2
      <3>4. Forward
        BY Zenon, <2>5, NothingFacts DEF Forward
      <3> QED BY ZenonT(60), <1>5, <1>6, <2>2, <2>3, <3>1, <3>2, <3>3, <3>4 DEF Good, BaseInv, Confirmed
    <2> QED BY Zenon, <1>14, <2>4, <2>5
  <1>15. CASE /\ r.ok /\ r.list # Nothing
              /\ emptyConfirmations' = 0
              /\ cache' = mergeMonotonicInstances(r.list)
              /\ held' = [held EXCEPT ![t] = cache']
              /\ pc' = [pc EXCEPT ![t] = "remote"]
              /\ UNCHANGED timer
    <2>1. PICK m : m = mergeMonotonicInstances(r.list)
      BY Zenon
    <2>2. /\ ListUpTo(m, top)
          /\ \A id \in Ids : m[id] # NoInstance => m[id].reversion >= cache[id].reversion
          /\ \A id \in Ids : (m[id] = NoInstance) = (r.list[id] = NoInstance)
      BY <1>5, <2>1, MergeFacts
    <2>3. cache' = m /\ held' = [held EXCEPT ![t] = m]
      BY Zenon, <1>15, <2>1
    <2>4. Bound(Latest)' /\ DOMAIN held' = Threads
      BY ZenonT(60), <1>10, <2>2, <2>3
    <2>5. CountInv'
      <3>1. CountStep
        BY Zenon, <1>8, <1>15 DEF CountStep, Counted, IsEmpty
      <3> QED BY Zenon, <1>1, <3>1, CountFacts
    <2>6. ThreadInv'
      BY Zenon, <1>9, <1>15, <2>4
    <2>7. Forward
      BY Zenon, <2>2, <2>3 DEF Forward
    <2>8. Confirmed
      <3>1. PICK id \in Ids : r.list[id] # NoInstance
        BY Zenon, <1>5, <1>15 DEF ListUpTo, Nothing
      <3>2. cache'[id] # NoInstance
        BY Zenon, <2>2, <2>3, <3>1
      <3>3. cache' # Nothing
        BY ZenonT(60), <3>2, NothingFacts
      <3> QED BY Zenon, <1>6, <3>3 DEF Confirmed
    <2>9. ASSUME Undisturbed' PROVE CalmInv'
      <3>1. Undisturbed /\ r = Fresh
        BY Zenon, <1>2, <1>3, <1>5, <2>9 DEF Undisturbed, ReadAnswers
      <3>2. t = "tick" /\ CalmInv
        BY Zenon, <1>2, <3>1, OnlyTheTick
      <3>3. cache' = View(catalog)
        BY <1>1, <1>4, <1>5, <2>1, <2>3, <3>1, ReadFacts, MergeFresh
      <3>4. /\ pc'["tick"] = "remote" /\ held'["tick"] = cache'
            /\ \A u \in Threads \ {"tick"} : pc'[u] = pc[u]
        BY Zenon, <1>7, <1>15, <3>2
      <3>5. emits'["tick"] = 1
        BY Zenon, <1>2, <3>2 DEF CalmInv
      <3>6. \A e \in pending' : Repairs(e)'
        BY Zenon, <1>5, <1>8, <3>2 DEF CalmInv, Repairs
      <3>7. ~noticed' /\ timer' = "nil" /\ callbacks' = 0 /\ orphans' = 0
        BY Zenon, <1>2, <1>15, <3>2 DEF CalmInv
      <3> QED BY <1>5, <3>2, <3>3, <3>4, <3>5, <3>6, <3>7 DEF CalmInv
    <2> QED BY SMTT(60), <1>5, <1>6, <2>4, <2>5, <2>6, <2>7, <2>8, <2>9 DEF Good, BaseInv
  <1> QED BY Zenon, <1>3, <1>13, <1>14, <1>15 DEF CompareLocal
\* What a compare tells the registry is no newer than the catalog; if it has
\* read the catalog as it is, it is a repair.
LEMMA CorrectionFacts ==
    ASSUME NEW local \in Ins, NEW remote \in Ins, NEW n \in Nat, local.reversion <= n, remote.reversion <= n
    PROVE  /\ Correction(local, remote) \in Ins /\ Correction(local, remote).reversion <= n
           /\ \/ Correction(local, remote) = local
              \/ Correction(local, remote) = NoInstance
              \/ local = NoInstance /\ (nacosReconcile => Correction(local, remote).status = Offline)
  <1> DEFINE c == Correction(local, remote)
             gone == [remote EXCEPT !.status = IF nacosReconcile THEN Offline ELSE Unhealthy]
  <1>1. c = local \/ c = NoInstance \/ (local = NoInstance /\ c = gone)
    BY Zenon DEF Correction
  <1>2. gone \in Ins /\ gone.reversion = remote.reversion /\ (nacosReconcile => gone.status = Offline)
    BY DEF Ins, Offline, Unhealthy
  <1> HIDE DEF c, gone
  <1>3. CASE c = local
    BY Zenon, <1>3 DEF c
  <1>4. CASE c = NoInstance
    BY <1>4, NothingFacts DEF c
  <1>5. CASE local = NoInstance /\ c = gone
    BY Zenon, <1>2, <1>5 DEF c
  <1> QED BY Zenon, <1>1, <1>3, <1>4, <1>5

\* The correction of the registry by the tick.
LEMMA RemoteGood ==
    ASSUME IInv, NEW t \in Threads, CompareRemote(t)
    PROVE  Good
  <1>1. /\ BaseInv /\ SourceInv /\ ThreadInv /\ CountInv /\ Bound(Latest) /\ SinkBound(Latest)
        /\ DOMAIN confirmed = Threads
    BY Zenon DEF IInv, BaseInv
  <1>2. /\ pc[t] = "remote"
        /\ held' = [held EXCEPT ![t] = Nothing]
        /\ pc' = [pc EXCEPT ![t] = Compared(t)]
        /\ UNCHANGED <<nacosReconcile, sourceVars, calm, noticed, cache, countVars, timerVars, out, emits,
                       confirmed, sinkVars>>
    BY Zenon DEF CompareRemote
  <1>3. PICK told : /\ told = IF Remote = Nothing THEN held[t]
                              ELSE [id \in Ids |-> Correction(held[t][id], Remote[id])]
                    /\ pending' \subseteq pending \cup {Event(id, told[id]) : id \in Present(told)}
    BY Zenon DEF CompareRemote
  <1>4. PICK top : top = Latest
    BY Zenon
  <1>5. /\ Latest' = Latest /\ SourceInv' /\ View(catalog)' = View(catalog) /\ top \in [Ids -> Nat]
        /\ ListUpTo(cache, top) /\ ListUpTo(held[t], top) /\ ListUpTo(served, top)
    BY Zenon, <1>1, <1>2, <1>4, SourceStays, LatestFacts DEF Bound, SinkBound
  <1>6. /\ CountInv' /\ SinkBound(Latest)' /\ DOMAIN confirmed' = Threads /\ Confirmed /\ Forward
    BY Zenon, <1>1, <1>2, <1>5, SameCache DEF SinkBound, sinkVars, CountInv, countVars, Confirmed
  <1>7. \A id \in Ids : Remote[id] \in Ins /\ Remote[id].reversion <= top[id]
    <2>1. \A id \in Ids : Remote[id] = served[id] \/ Remote[id] = NoInstance
      BY Zenon DEF Remote
    <2>2. \A id \in Ids : served[id] \in Ins /\ served[id].reversion <= top[id] /\ 0 <= top[id]
      BY <1>5 DEF ListUpTo
    <2> QED BY Zenon, <2>1, <2>2, NothingFacts
  <1>8. /\ told \in [Ids -> Ins]
        /\ \A id \in Ids : /\ told[id].reversion <= top[id]
                           /\ \/ told[id] = held[t][id]
                              \/ told[id] = NoInstance
                              \/ held[t][id] = NoInstance /\ (nacosReconcile => told[id].status = Offline)
    <2>1. CASE Remote = Nothing
      BY Zenon, <1>3, <1>5, <2>1 DEF ListUpTo
    <2>2. CASE Remote # Nothing
      <3>1. told = [id \in Ids |-> Correction(held[t][id], Remote[id])]
        BY ZenonT(60), <1>3, <2>2
      <3>2. ASSUME NEW id \in Ids
            PROVE  /\ told[id] \in Ins /\ told[id].reversion <= top[id]
                   /\ \/ told[id] = held[t][id]
                      \/ told[id] = NoInstance
                      \/ held[t][id] = NoInstance /\ (nacosReconcile => told[id].status = Offline)
        <4>1. held[t][id] \in Ins /\ held[t][id].reversion <= top[id] /\ top[id] \in Nat
          BY Zenon, <1>5 DEF ListUpTo
        <4>2. told[id] = Correction(held[t][id], Remote[id])
          BY Zenon, <3>1
        <4> QED BY <1>7, <4>1, <4>2, CorrectionFacts
      <3> QED BY Zenon, <3>1, <3>2
    <2> QED BY Zenon, <2>1, <2>2
  <1>9. Present(told) \subseteq Ids /\ \A id \in Present(told) : told[id].status # 0
    BY Zenon, <1>8 DEF Present
  <1>10. \A e \in pending' : TaskUpTo(e, top)
    <2>1. \A id \in Present(told) : TaskUpTo(Event(id, told[id]), top)
      BY Zenon, <1>8, <1>9 DEF TaskUpTo, Task, Event
    <2> QED BY ZenonT(60), <1>1, <1>3, <1>4, <2>1 DEF Bound
  <1>11. /\ pc \in [Threads -> Places] /\ emits \in [Threads -> Nat] /\ emits[t] \in Nat
         /\ DOMAIN out = Threads /\ DOMAIN held = Threads
         /\ t = "tick" => emits[t] >= 1
    BY Zenon, <1>1, <1>2 DEF ThreadInv
  <1>12. Bound(Latest)'
    <2>1. \A u \in Threads : ListUpTo(held'[u], top) /\ TasksUpTo(out'[u], top)
      BY ZenonT(60), <1>1, <1>2, <1>4, <1>5, <1>11, NothingUpTo DEF Bound
    <2>2. Bound(top)'
      BY Zenon, <1>2, <1>5, <1>10, <2>1 DEF Bound
    <2> QED BY Zenon, <1>4, <1>5, <2>2
  <1>13. ThreadInv'
    <2> DEFINE place == Compared(t)
    <2>1. place \in Places /\ place \notin {"dispatch", "gate", "compare", "remote"} /\ (place = "emit" => t = "tick")
      BY Zenon DEF Compared, Places
    <2>2. emits' = [emits EXCEPT ![t] = emits[t]] /\ pc' = [pc EXCEPT ![t] = place]
      BY Zenon, <1>2, <1>11
    <2> HIDE DEF place
    <2>3. place \in {"emit", "gate"} => emits[t] >= 1
      BY Zenon, <1>11, <2>1
    <2>4. DOMAIN out' = Threads /\ DOMAIN held' = Threads /\ \A u \in Threads \ {t} : out'[u] = out[u]
      BY ZenonT(60), <1>2, <1>11
    <2> QED BY ZenonT(60), <1>1, <1>11, <2>1, <2>2, <2>3, <2>4, MovesOn
  <1>14. ASSUME Undisturbed' PROVE CalmInv'
    <2>1. Undisturbed /\ nacosReconcile
      BY Zenon, <1>2, <1>5, <1>14 DEF Undisturbed
    <2>2. t = "tick" /\ CalmInv
      BY Zenon, <1>2, <2>1, OnlyTheTick
    <2>3. emits["tick"] = 1 /\ cache = View(catalog) /\ held["tick"] = cache
      BY Zenon, <1>2, <2>2 DEF CalmInv
    <2>4. pc'["tick"] = "emit" /\ \A u \in Threads \ {"tick"} : pc'[u] = pc[u]
      BY Zenon, <1>2, <1>11, <2>2 DEF Compared
    <2>5. ASSUME NEW id \in Present(told) PROVE Repairs(Event(id, told[id]))
      <3>1. id \in Ids /\ told[id].status # 0 /\ told[id] # NoInstance
        BY Zenon, <1>9, NothingFacts
      <3>2. Event(id, told[id]).id = id /\ Event(id, told[id]).ins = told[id]
        BY Zenon DEF Event
      <3>3. /\ catalog \in [Ids -> Nat] /\ \A x \in Ids : catalog[x] <= Latest[x]
        BY Zenon, <1>1, LatestFacts DEF SourceInv
      <3>4. Listed(View(catalog))
        BY Zenon, <1>4, <1>5, <3>3, ViewFacts
      <3>5. CASE told[id] = held[t][id]
        <4>1. told[id] = View(catalog)[id] /\ IsLive(told[id])
          BY Zenon, <2>2, <2>3, <3>1, <3>4, <3>5 DEF Listed
        <4> QED BY Zenon, <3>2, <4>1 DEF Repairs
      <3>6. CASE held[t][id] = NoInstance /\ told[id].status = Offline
        BY Zenon, <2>2, <2>3, <3>2, <3>6 DEF Repairs, IsLive
      <3> QED BY Zenon, <1>8, <2>1, <3>1, <3>5, <3>6
    <2>6. \A e \in pending' : Repairs(e)
      BY ZenonT(30), <1>3, <2>2, <2>5 DEF CalmInv
    <2>7. \A e \in pending' : Repairs(e)'
      BY Zenon, <1>5, <2>6 DEF Repairs
    <2>8. ~noticed' /\ timer' = "nil" /\ callbacks' = 0 /\ orphans' = 0
      BY Zenon, <1>2, <2>2 DEF CalmInv, timerVars
    <2> QED BY <1>2, <1>5, <2>2, <2>3, <2>4, <2>7, <2>8 DEF CalmInv
  <1> QED BY Zenon, <1>5, <1>6, <1>12, <1>13, <1>14 DEF Good, BaseInv

\* The pool runs one of its tasks.
LEMMA TaskGood ==
    ASSUME IInv, NEW e \in pending, RunTask(e)
    PROVE  Good
  <1>1. /\ BaseInv /\ SourceInv /\ ThreadInv /\ CountInv /\ Bound(Latest) /\ SinkBound(Latest)
        /\ DOMAIN confirmed = Threads
    BY Zenon DEF IInv, BaseInv
  <1>2. /\ pending' = pending \ {e} /\ Push(e)
        /\ UNCHANGED <<nacosReconcile, sourceVars, calm, noticed, cache, countVars, timerVars>>
        /\ UNCHANGED <<pc, out, emits, held, confirmed>>
    BY Zenon DEF RunTask, threadVars
  <1>3. PICK top : top = Latest
    BY Zenon
  <1>4. /\ Latest' = Latest /\ SourceInv' /\ View(catalog)' = View(catalog) /\ top \in [Ids -> Nat]
        /\ TaskUpTo(e, top)
    BY Zenon, <1>1, <1>2, <1>3, SourceStays, LatestFacts DEF Bound
  <1>5. /\ SinkBound(top)'
        /\ \/ served' = served
           \/ served' = [served EXCEPT ![e.id] = IF IsLive(e.ins) THEN e.ins ELSE NoInstance]
    BY Zenon, <1>1, <1>2, <1>3, <1>4, PushFacts
  <1>6. SinkBound(Latest)'
    BY Zenon, <1>3, <1>4, <1>5
  <1>7. ThreadInv'
    BY Zenon, <1>1, <1>2 DEF ThreadInv
  <1>8. CountInv' /\ DOMAIN confirmed' = Threads /\ Confirmed /\ Forward
    BY Zenon, <1>1, <1>2, SameCache DEF CountInv, countVars, Confirmed
  <1>9. Bound(Latest)'
    BY ZenonT(60), <1>1, <1>2, <1>4 DEF Bound
  <1>10. ASSUME Undisturbed' PROVE CalmInv'
    <2>1. Undisturbed
      BY Zenon, <1>2, <1>4, <1>10 DEF Undisturbed
    <2>2. CalmInv
      BY Zenon, <2>1 DEF IInv
    <2>3. Repairs(e) /\ \A x \in pending' : Repairs(x)
      BY Zenon, <1>2, <2>2 DEF CalmInv
    <2>4. \A x \in pending' : Repairs(x)'
      BY Zenon, <1>4, <2>3 DEF Repairs
    <2>5. served = View(catalog) => served' = View(catalog)
      <3> SUFFICES ASSUME served = View(catalog) PROVE served' = served
        BY Zenon
      <3>1. (IF IsLive(e.ins) THEN e.ins ELSE NoInstance) = served[e.id]
        BY Zenon, <2>3 DEF Repairs
      <3>2. served \in [Ids -> Ins] /\ e.id \in Ids
        BY Zenon, <1>1, <1>4 DEF SinkBound, ListUpTo, TaskUpTo, Task
      <3> QED BY <1>5, <3>1, <3>2
    <2>6. ~noticed' /\ timer' = "nil" /\ callbacks' = 0 /\ orphans' = 0
      BY Zenon, <1>2, <2>2 DEF CalmInv, timerVars
    <2> QED BY <1>2, <1>4, <2>2, <2>4, <2>5, <2>6 DEF CalmInv
  <1> QED BY Zenon, <1>4, <1>6, <1>7, <1>8, <1>9, <1>10 DEF Good, BaseInv

\* The handler of the monitor and its retry.
LEMMA HandlerGood ==
    ASSUME Walks, IInv, Notified \/ Retry
    PROVE  Good
  <1>1. CASE Notified
    <2>1. Sync("watch", timer) /\ noticed
      BY Zenon, <1>1 DEF Notified
    <2>2. BaseInv' /\ Forward /\ Confirmed
      BY Zenon, <2>1, SyncFacts
    <2>3. ~Undisturbed
      BY Zenon, <2>1 DEF IInv, CalmInv
    <2>4. UNCHANGED <<nacosReconcile, sourceVars>> /\ (calm' => calm)
      BY Zenon, <2>1 DEF Sync, ReadAnswers
    <2>5. ~Undisturbed'
      BY Zenon, <2>3, <2>4, SourceStays DEF Undisturbed
    <2> QED BY Zenon, <2>2, <2>5 DEF Good
  <1>2. CASE Retry
    <2>1. Sync("retry", timer) /\ pc["retry"] = "sync" /\ "retry" \in Threads
      BY Zenon, <1>2 DEF Retry, Threads
    <2>2. BaseInv' /\ Forward /\ Confirmed
      BY Zenon, <2>1, SyncFacts
    <2>3. ~Undisturbed
      BY Zenon, <2>1, OnlyTheTick
    <2>4. UNCHANGED <<nacosReconcile, sourceVars>> /\ (calm' => calm)
      BY Zenon, <2>1 DEF Sync, ReadAnswers
    <2>5. ~Undisturbed'
      BY Zenon, <2>3, <2>4, SourceStays DEF Undisturbed
    <2> QED BY Zenon, <2>2, <2>5 DEF Good
  <1> QED BY Zenon, <1>1, <1>2

\* A callback of the timer that goes on to a read, or that comes after the end.
LEMMA CallbackGood ==
    ASSUME IInv, Callback \/ RetryAfterStop
    PROVE  Good
  <1>1. /\ BaseInv /\ SourceInv /\ ThreadInv /\ CountInv /\ Bound(Latest) /\ SinkBound(Latest)
        /\ DOMAIN confirmed = Threads
    BY Zenon DEF IInv, BaseInv
  <1>2. /\ UNCHANGED <<nacosReconcile, catalog, was, index, calm, noticed, cache>>
        /\ UNCHANGED <<emptyConfirmations, emptyConfirmationPending, empties>>
        /\ UNCHANGED <<out, emits, held, confirmed, pending, served, ledger>>
    BY Zenon DEF Callback, RetryAfterStop, Idle, sourceVars, countVars, sinkVars
  <1>3. /\ Latest' = Latest /\ SourceInv' /\ Bound(Latest)' /\ Forward /\ View(catalog)' = View(catalog)
    BY Zenon, <1>1, <1>2, StaysBound, SourceStays DEF sourceVars
  <1>4. SinkBound(Latest)'
    BY Zenon, <1>1, <1>2, <1>3 DEF SinkBound
  <1>5. PICK place \in {"idle", "sync"} : pc' = [pc EXCEPT !["retry"] = place]
    BY Zenon DEF Callback, RetryAfterStop, Idle
  <1>6. "retry" \in Threads /\ "retry" # "tick" /\ place \in Places
    BY Zenon DEF Threads, Places
  <1>7. emits \in [Threads -> Nat] /\ DOMAIN out' = Threads /\ DOMAIN held' = Threads
    BY Zenon, <1>1, <1>2 DEF ThreadInv
  <1>8. emits' = [emits EXCEPT !["retry"] = emits["retry"]] /\ emits["retry"] \in Nat
    BY Zenon, <1>2, <1>6, <1>7
  <1>9. ThreadInv'
    BY Zenon, <1>1, <1>2, <1>5, <1>6, <1>7, <1>8, MovesOn
  <1>10. CountInv' /\ DOMAIN confirmed' = Threads /\ Confirmed
    BY Zenon, <1>1, <1>2 DEF CountInv, Confirmed
  <1>11. ~Undisturbed
    <2>1. CASE Callback
      BY <2>1 DEF Callback, IInv, CalmInv
    <2>2. CASE RetryAfterStop
      BY Zenon, <1>6, <2>2, OnlyTheTick DEF RetryAfterStop
    <2> QED BY Zenon, <2>1, <2>2
  <1>12. ~Undisturbed'
    BY Zenon, <1>2, <1>3, <1>11 DEF Undisturbed
  <1> QED BY Zenon, <1>3, <1>4, <1>9, <1>10, <1>12 DEF Good, BaseInv

\* A step of the timer, of Run, or none.
LEMMA QuietGood ==
    ASSUME IInv, TimerFires \/ Shutdown \/ UNCHANGED vars
    PROVE  Good
  <1>1. /\ BaseInv /\ SourceInv /\ ThreadInv /\ CountInv /\ Bound(Latest) /\ SinkBound(Latest)
        /\ DOMAIN confirmed = Threads
    BY Zenon DEF IInv, BaseInv
  <1>2. /\ UNCHANGED <<nacosReconcile, catalog, was, index, calm, noticed, cache>>
        /\ UNCHANGED <<emptyConfirmations, emptyConfirmationPending, empties>>
        /\ UNCHANGED <<pc, out, emits, held, confirmed, pending, served, ledger>>
    BY Zenon DEF TimerFires, Shutdown, vars, sourceVars, countVars, threadVars, sinkVars
  <1>3. /\ Latest' = Latest /\ SourceInv' /\ Bound(Latest)' /\ Forward /\ View(catalog)' = View(catalog)
    BY Zenon, <1>1, <1>2, StaysBound, SourceStays DEF sourceVars
  <1>4. SinkBound(Latest)'
    BY Zenon, <1>1, <1>2, <1>3 DEF SinkBound
  <1>5. ThreadInv'
    BY Zenon, <1>1, <1>2 DEF ThreadInv
  <1>6. CountInv' /\ DOMAIN confirmed' = Threads /\ Confirmed
    BY Zenon, <1>1, <1>2 DEF CountInv, Confirmed
  <1>7. ASSUME Undisturbed' PROVE CalmInv'
    <2>1. Undisturbed
      BY Zenon, <1>2, <1>3, <1>7 DEF Undisturbed
    <2>2. CalmInv
      BY Zenon, <2>1 DEF IInv
    <2>3. timer = "nil" /\ callbacks = 0 /\ orphans = 0
      BY Zenon, <2>2 DEF CalmInv
    <2>4. ~TimerFires
      BY <2>3 DEF TimerFires
    <2>5. timer' = "nil" /\ callbacks' = 0 /\ orphans' = 0
      BY Zenon, <2>3, <2>4 DEF Shutdown, vars, timerVars
    <2>6. \A x \in pending' : Repairs(x)'
      BY Zenon, <1>2, <1>3, <2>2 DEF Repairs, CalmInv
    <2> QED BY Zenon, <1>2, <1>3, <2>2, <2>5, <2>6 DEF CalmInv
  <1> QED BY Zenon, <1>3, <1>4, <1>5, <1>6, <1>7 DEF Good, BaseInv

\* The start of a tick.
LEMMA TickGood ==
    ASSUME IInv, Tick
    PROVE  Good
  <1>1. /\ BaseInv /\ SourceInv /\ ThreadInv /\ CountInv /\ Bound(Latest) /\ SinkBound(Latest)
        /\ DOMAIN confirmed = Threads
    BY Zenon DEF IInv, BaseInv
  <1>2. /\ pc' = [pc EXCEPT !["tick"] = "compare"]
        /\ emits' = [emits EXCEPT !["tick"] = 1]
        /\ calm' = Quiet
        /\ UNCHANGED <<nacosReconcile, catalog, was, index, noticed, cache, timer, orphans, callbacks>>
        /\ UNCHANGED <<emptyConfirmations, emptyConfirmationPending, empties>>
        /\ UNCHANGED <<out, held, confirmed, pending, served, ledger>>
    BY Zenon DEF Tick, sourceVars, countVars, timerVars, sinkVars
  <1>3. /\ Latest' = Latest /\ SourceInv' /\ Bound(Latest)' /\ Forward
    BY Zenon, <1>1, <1>2, StaysBound DEF sourceVars
  <1>4. SinkBound(Latest)'
    BY Zenon, <1>1, <1>2, <1>3 DEF SinkBound
  <1>5. /\ pc \in [Threads -> Places] /\ emits \in [Threads -> Nat] /\ "tick" \in Threads
        /\ DOMAIN out' = Threads /\ DOMAIN held' = Threads /\ "compare" \in Places
    BY Zenon, <1>1, <1>2 DEF ThreadInv, Threads, Places
  <1>6. ThreadInv'
    <2>1. PICK place \in Places, n \in Nat : place = "compare" /\ n = 1
      BY Zenon, <1>5
    <2>2. pc' = [pc EXCEPT !["tick"] = place] /\ emits' = [emits EXCEPT !["tick"] = n]
      BY Zenon, <1>2, <2>1
    <2>3. \A u \in Threads \ {"tick"} : out'[u] = out[u]
      BY Zenon, <1>2
    <2>4. place # "dispatch" /\ n >= 1
      BY <2>1
    <2> QED BY Zenon, <1>1, <1>5, <2>2, <2>3, <2>4, MovesOn
  <1>7. CountInv' /\ DOMAIN confirmed' = Threads /\ Confirmed
    BY Zenon, <1>1, <1>2 DEF CountInv, Confirmed
  <1>8. ASSUME Undisturbed' PROVE CalmInv'
    <2>1. Quiet
      BY Zenon, <1>2, <1>8 DEF Undisturbed
    <2>2. /\ pc'["tick"] = "compare" /\ emits'["tick"] = 1
          /\ \A u \in Threads \ {"tick"} : pc'[u] = pc[u]
      BY Zenon, <1>2, <1>5
    <2> QED BY Zenon, <1>2, <2>1, <2>2 DEF CalmInv, Quiet
  <1> QED BY Zenon, <1>3, <1>4, <1>6, <1>7, <1>8 DEF Good, BaseInv
\* The catalog goes on; what is behind it stays behind it.
LEMMA Behind ==
    ASSUME NEW top \in [Ids -> Nat], NEW top2 \in [Ids -> Nat], \A id \in Ids : top[id] <= top2[id],
           Bound(top), SinkBound(top)
    PROVE  Bound(top2) /\ SinkBound(top2)
  <1>1. \A n \in Nat, id \in Ids : n <= top[id] => n <= top2[id]
    OBVIOUS
  <1>2. ASSUME NEW list, ListUpTo(list, top) PROVE ListUpTo(list, top2)
    BY Zenon, <1>1, <1>2 DEF ListUpTo, Ins
  <1>3. ASSUME NEW e, TaskUpTo(e, top) PROVE TaskUpTo(e, top2)
    BY Zenon, <1>1, <1>3 DEF TaskUpTo, Task, Ins
  <1>4. ASSUME NEW events, TasksUpTo(events, top) PROVE TasksUpTo(events, top2)
    BY Zenon, <1>3, <1>4 DEF TasksUpTo
  <1>5. Bound(top2)
    BY Zenon, <1>2, <1>3, <1>4 DEF Bound
  <1>6. \A id \in Ids : ledger[id].rev <= top2[id]
    BY Zenon, <1>1 DEF SinkBound, LedgerEntry
  <1> QED BY Zenon, <1>2, <1>5, <1>6 DEF SinkBound

\* The catalog changes.
LEMMA SourceGood ==
    ASSUME IInv, Source
    PROVE  Good
  <1>1. /\ BaseInv /\ SourceInv /\ ThreadInv /\ CountInv /\ Bound(Latest) /\ SinkBound(Latest)
        /\ DOMAIN confirmed = Threads
    BY Zenon DEF IInv, BaseInv
  <1>2. PICK id \in Movers : Register(id) \/ Leave(id) \/ Return(id)
    BY Zenon DEF Source
  <1>3. id \in Ids
    BY Zenon, <1>2, SetsAssumption
  <1>4. PICK rev : /\ Becomes(id, rev)
                   /\ \/ rev = index + 1
                      \/ catalog[id] # 0 /\ rev = 0
                      \/ catalog[id] = 0 /\ was[id] # 0 /\ rev = was[id]
    BY Zenon, <1>2 DEF Register, Leave, Return
  <1>5. /\ index' = index + 1
        /\ catalog' = [catalog EXCEPT ![id] = rev]
        /\ was' = [was EXCEPT ![id] = catalog[id]]
        /\ ~calm'
        /\ UNCHANGED <<cache, emptyConfirmations, emptyConfirmationPending, empties>>
        /\ UNCHANGED <<pc, out, emits, held, confirmed, pending, served, ledger>>
    BY Zenon, <1>4 DEF Becomes, countVars, threadVars, sinkVars
  <1>6. /\ index \in Nat /\ index >= 1 /\ catalog \in [Ids -> Nat] /\ was \in [Ids -> Nat] /\ rev \in Nat
        /\ \A x \in Ids : catalog[x] <= index /\ was[x] <= index /\ was[x] <= Latest[x]
    BY <1>1, <1>3, <1>4 DEF SourceInv
  <1>7. /\ \A x \in Ids : Latest[x] = IF catalog[x] # 0 THEN catalog[x] ELSE IF was[x] # 0 THEN was[x] ELSE 1
        /\ \A x \in Ids : Latest'[x] = IF catalog'[x] # 0 THEN catalog'[x] ELSE IF was'[x] # 0 THEN was'[x] ELSE 1
    BY Zenon DEF Latest
  <1>8. /\ catalog' \in [Ids -> Nat] /\ was' \in [Ids -> Nat] /\ catalog'[id] = rev /\ was'[id] = catalog[id]
        /\ \A x \in Ids \ {id} : catalog'[x] = catalog[x] /\ was'[x] = was[x]
    BY Zenon, <1>3, <1>5, <1>6
  <1>9. \A x \in Ids : Latest[x] <= Latest'[x] /\ was'[x] <= Latest'[x]
    <2>1. ASSUME NEW x \in Ids \ {id} PROVE Latest[x] <= Latest'[x] /\ was'[x] <= Latest'[x]
      <3>1. Latest'[x] = Latest[x] /\ was'[x] = was[x] /\ Latest[x] \in Nat
        BY <1>6, <1>7, <1>8
      <3> QED BY <1>6, <3>1
    <2>2. Latest[id] <= Latest'[id] /\ was'[id] <= Latest'[id]
      <3>1. /\ catalog[id] \in Nat /\ was[id] \in Nat /\ catalog[id] <= index /\ was[id] <= index
        BY Zenon, <1>3, <1>6
      <3>2. /\ Latest[id] = IF catalog[id] # 0 THEN catalog[id] ELSE IF was[id] # 0 THEN was[id] ELSE 1
            /\ Latest'[id] = IF rev # 0 THEN rev ELSE IF catalog[id] # 0 THEN catalog[id] ELSE 1
        BY Zenon, <1>3, <1>7, <1>8
      <3>3. was[id] <= Latest[id]
        BY ZenonT(60), <1>3, <1>6
      <3> QED BY <1>4, <1>6, <1>8, <3>1, <3>2, <3>3
    <2> QED BY Zenon, <2>1, <2>2
  <1>10. SourceInv'
    <2>1. \A x \in Ids : catalog'[x] <= index' /\ was'[x] <= index'
      <3>1. \A x \in Ids \ {id} : catalog'[x] <= index + 1 /\ was'[x] <= index + 1
        BY <1>6, <1>8
      <3>2. rev <= index + 1 /\ catalog[id] <= index + 1
        BY <1>3, <1>4, <1>6
      <3> QED BY ZenonT(60), <1>5, <1>8, <3>1, <3>2
    <2> QED BY <1>5, <1>6, <1>8, <1>9, <2>1 DEF SourceInv
  <1>11. PICK top, top2 : top = Latest /\ top2 = Latest'
    BY Zenon
  <1>12. top \in [Ids -> Nat] /\ top2 \in [Ids -> Nat] /\ \A x \in Ids : top[x] <= top2[x]
    <2>1. Latest \in [Ids -> Nat]
      BY Zenon, <1>1, LatestFacts
    <2>2. \A x \in Ids : Latest'[x] \in Nat
      BY <1>6, <1>7, <1>8
    <2>3. Latest' \in [Ids -> Nat]
      BY Zenon, <2>2 DEF Latest
    <2> QED BY Zenon, <1>9, <1>11, <2>1, <2>3
  <1>13. Bound(top2) /\ SinkBound(top2)
    BY Zenon, <1>1, <1>11, <1>12, Behind
  <1>14. Bound(Latest)' /\ SinkBound(Latest)'
    BY Zenon, <1>5, <1>11, <1>13 DEF Bound, SinkBound
  <1>15. ThreadInv' /\ CountInv' /\ DOMAIN confirmed' = Threads /\ Confirmed /\ Forward
    BY Zenon, <1>1, <1>5, SameCache DEF ThreadInv, CountInv, Confirmed
  <1>16. ~Undisturbed'
    BY Zenon, <1>5 DEF Undisturbed
  <1> QED BY Zenon, <1>10, <1>14, <1>15, <1>16 DEF Good, BaseInv

\* The empty provider.
LEMMA InitIInv ==
    Init => IInv
  <1> SUFFICES ASSUME Init PROVE IInv
    BY Zenon
  <1>1. catalog \in [Ids -> {0, 1}] /\ was = catalog /\ index = 1
    BY Zenon DEF Init
  <1>2. SourceInv
    <2>1. catalog \in [Ids -> Nat] /\ \A id \in Ids : catalog[id] <= 1
      BY <1>1
    <2>2. \A id \in Ids : catalog[id] <= Latest[id]
      BY Zenon, <1>1, <2>1 DEF Latest
    <2> QED BY <1>1, <2>1, <2>2 DEF SourceInv
  <1>3. PICK top : top = Latest
    BY Zenon
  <1>4. top \in [Ids -> Nat] /\ \A id \in Ids : 1 <= top[id]
    BY Zenon, <1>2, <1>3, LatestFacts
  <1>5. ThreadInv
    BY Zenon DEF Init, ThreadInv, Threads, Places
  <1>6. CountInv /\ DOMAIN confirmed = Threads
    BY LimitsAssumption DEF Init, CountInv
  <1>7. Bound(top)
    <2>1. cache = Nothing /\ pending = {} /\ \A t \in Threads : held[t] = Nothing /\ out[t] = <<>>
      BY Zenon DEF Init
    <2>2. TasksUpTo(<<>>, top)
      BY DEF TasksUpTo
    <2>3. ListUpTo(Nothing, top)
      BY Zenon, <1>4, NothingUpTo
    <2> QED BY Zenon, <2>1, <2>2, <2>3 DEF Bound
  <1>8. SinkBound(top)
    <2>1. /\ served = [id \in Ids |-> IF id \in Movers \/ catalog[id] # 0 THEN NoInstance ELSE Instance(id, 1)]
          /\ ledger = [id \in Ids |-> NoEntry]
      BY Zenon DEF Init
    <2>2. \A id \in Ids : served[id] = NoInstance \/ served[id] = Instance(id, 1)
      BY Zenon, <2>1
    <2>3. \A id \in Ids : served[id] \in Ins /\ served[id].reversion <= top[id]
      BY <1>4, <2>2, InstanceFacts, NothingFacts
    <2>4. NoEntry \in LedgerEntry /\ NoEntry.rev = 0
      BY Zenon DEF NoEntry, LedgerEntry
    <2>5. ledger \in [Ids -> LedgerEntry] /\ \A id \in Ids : ledger[id].rev <= top[id]
      BY <1>4, <2>1, <2>4
    <2> QED BY Zenon, <2>1, <2>3, <2>5 DEF SinkBound, ListUpTo
  <1>9. ~Undisturbed
    BY Zenon DEF Init, Undisturbed
  <1> QED BY ZenonT(60), <1>2, <1>3, <1>5, <1>6, <1>7, <1>8, <1>9 DEF IInv, BaseInv

\* Every step is good.
LEMMA StepGood ==
    ASSUME Walks, IInv, [Next]_vars
    PROVE  Good
  <1>1. CASE Source
    BY Zenon, <1>1, SourceGood
  <1>2. ASSUME NEW t \in Threads, ThreadStep(t) PROVE Good
    BY Zenon, <1>2, DispatchGood, EmitGood, GateGood, CompareGood, RemoteGood DEF ThreadStep
  <1>3. CASE Notified \/ Retry
    BY Zenon, <1>3, HandlerGood
  <1>4. CASE TimerFires \/ Shutdown \/ UNCHANGED vars
    BY Zenon, <1>4, QuietGood
  <1>7. CASE Callback \/ RetryAfterStop
    BY Zenon, <1>7, CallbackGood
  <1>5. CASE Tick
    BY Zenon, <1>5, TickGood
  <1>6. ASSUME NEW e \in pending, RunTask(e) PROVE Good
    BY Zenon, <1>6, TaskGood
  <1> QED BY Zenon, <1>1, <1>2, <1>3, <1>4, <1>5, <1>6, <1>7 DEF Next

-----------------------------------------------------------------------------
(***************************************************************************)
(* The monitor (monitor.Start). Its invariant follows the time of a notice *)
(* from the watch goroutine to the handler: each notice that no handler    *)
(* has covered yet is on its way (Carried), and no later time has taken    *)
(* its place (NotLater).                                                   *)
(***************************************************************************)
CONSTANTS MaxChanges, MaxRestores

VARIABLES
    changes, monitorIndex, restores, cancelled, watch, waitIndex, lastIndex, watchAt, watchTimestamps,
    change, update, lastChange, firstWatchAt, running, called, returned, uncovered

Monitor == INSTANCE ConsulMonitor WITH index <- monitorIndex

\* A time that is not later than notice n is on its way to the handler.
Carried(n) ==
    \/ watch = "stamp" /\ n = watchAt
    \/ watchTimestamps # 0 /\ watchTimestamps <= n /\ (change \/ update = "take" \/ watch = "signal")
    \/ firstWatchAt # 0 /\ firstWatchAt <= n

\* The time the handler would be given is not later than n.
NotLater(n) ==
    /\ firstWatchAt # 0 => firstWatchAt <= n
    /\ watchTimestamps # 0 /\ firstWatchAt = 0 => watchTimestamps <= n
    /\ watch = "stamp" /\ watchTimestamps = 0 /\ firstWatchAt = 0 => watchAt <= n

\* The watch only stops when it is told to.
StopsWhenTold == watch = "done" => cancelled

MonitorInv ==
    /\ Monitor!TypeOK
    /\ Monitor!NoCallAfterReturn
    /\ returned => watch = "done" /\ update = "done"
    /\ StopsWhenTold
    /\ firstWatchAt # 0 => lastChange
    /\ changes # 0
    /\ watch = "stamp" => watchAt # 0
    /\ \A n \in uncovered : (Carried(n) \/ watch = "done") /\ NotLater(n)

\* The initial state has no notice.
LEMMA InitMonitorInv == Monitor!Init => MonitorInv
<1> SUFFICES ASSUME Monitor!Init PROVE MonitorInv
  OBVIOUS
<1>1. Monitor!TypeOK
  <2>1. cancelled \in BOOLEAN /\ change \in BOOLEAN /\ lastChange \in BOOLEAN /\ returned \in BOOLEAN
    BY Zenon DEF Monitor!Init
  <2>2. uncovered \subseteq 1 .. changes
    BY DEF Monitor!Init
  <2>3. /\ watchAt \in 0 .. changes /\ watchTimestamps \in 0 .. changes
        /\ firstWatchAt \in 0 .. changes /\ called \in 0 .. changes
    BY DEF Monitor!Init
  <2> QED
    BY <2>1, <2>2, <2>3 DEF Monitor!Init, Monitor!TypeOK
<1>2. \A n \in uncovered : (Carried(n) \/ watch = "done") /\ NotLater(n)
  BY Zenon DEF Monitor!Init
<1> QED
  BY <1>1, <1>2 DEF Monitor!Init, MonitorInv, Monitor!NoCallAfterReturn, StopsWhenTold

\* Every step preserves the invariant.
LEMMA StepMonitorInv == MonitorInv /\ [Monitor!Next]_(Monitor!vars) => MonitorInv'
<1> SUFFICES ASSUME MonitorInv, [Monitor!Next]_(Monitor!vars) PROVE MonitorInv'
  OBVIOUS
<1> USE DEF MonitorInv, Monitor!TypeOK, Monitor!NoCallAfterReturn, StopsWhenTold, Carried, NotLater,
            Monitor!sourceVars, Monitor!watchVars, Monitor!channels, Monitor!updateVars, Monitor!handlerVars
<1>1. CASE Monitor!CatalogChanges
  BY <1>1 DEF Monitor!CatalogChanges
<1>2. CASE Monitor!Cancel
  BY <1>2 DEF Monitor!Cancel
<1>3. CASE Monitor!GetClient
  BY <1>3 DEF Monitor!GetClient, Monitor!OnlyWatch
<1>4. ASSUME NEW answer \in Nat, Monitor!QueryAnswers(answer) PROVE MonitorInv'
  <2>1. watch = "query" /\ changes \in Nat /\ lastIndex \in Nat
    BY <1>4 DEF Monitor!QueryAnswers
  <2>2. /\ waitIndex' \in Nat /\ lastIndex' \in Nat
        /\ \/ watch' = "stamp" /\ watchAt' = changes /\ uncovered' = uncovered \cup {changes}
           \/ watch' = "wait" /\ watchAt' = 0 /\ uncovered' = uncovered
    BY <1>4, <2>1 DEF Monitor!QueryAnswers, Monitor!observe
  <2>3. UNCHANGED <<Monitor!sourceVars, cancelled, Monitor!channels, Monitor!updateVars, Monitor!handlerVars, returned>>
    BY <1>4 DEF Monitor!QueryAnswers, Monitor!OnlyWatch
  <2>4. changes # 0
    OBVIOUS
  <2>5. Monitor!TypeOK'
    <3>1. changes \in 1 .. changes /\ 0 \in 0 .. changes /\ uncovered \subseteq 1 .. changes
      BY <2>1, <2>4
    <3>3. uncovered' \subseteq 1 .. changes
      BY <3>1, <2>2, Zenon
    <3>4. watchAt' \in 0 .. changes
      BY <3>1, <2>2
    <3>2. watch' \in {"client", "query", "stamp", "signal", "wait", "done"}
      BY <2>2
    <3> QED
      BY <3>2, <3>3, <3>4, <2>2, <2>3
  <2>6. ASSUME NEW n \in uncovered' PROVE (Carried(n) /\ NotLater(n))'
    <3>1. CASE n \in uncovered
      BY <3>1, <2>1, <2>2, <2>3, <2>4
    <3>2. CASE n = changes /\ watch' = "stamp" /\ watchAt' = changes
      BY <3>2, <2>1, <2>2, <2>3, <2>4
    <3> QED
      BY <3>1, <3>2, <2>2, <2>6
  <2> QED
    BY <2>1, <2>2, <2>3, <2>4, <2>5, <2>6
<1>5. CASE Monitor!QueryFails
  BY <1>5 DEF Monitor!QueryFails, Monitor!OnlyWatch
<1>6. CASE Monitor!Stamp
  BY <1>6 DEF Monitor!Stamp, Monitor!OnlyWatch
<1>7. CASE Monitor!Signal
  BY <1>7 DEF Monitor!Signal, Monitor!AfterSignal, Monitor!OnlyWatch
<1>8. CASE Monitor!Waited
  BY <1>8 DEF Monitor!Waited, Monitor!OnlyWatch
<1>9. CASE Monitor!WatchStops
  BY <1>9 DEF Monitor!WatchStops, Monitor!OnlyWatch
<1>10. CASE Monitor!Receive
  BY ZenonT(60), <1>10 DEF Monitor!Receive
<1>11. CASE Monitor!Take
  <2>1. /\ watchTimestamps' = 0 /\ lastChange' = TRUE /\ update' = "select" /\ update = "take"
        /\ firstWatchAt' = Monitor!EarlierWatchAt
        /\ UNCHANGED <<changes, monitorIndex, restores, cancelled, watch, waitIndex, lastIndex, watchAt,
                       change, running, called, returned, uncovered>>
    BY <1>11 DEF Monitor!Take
  <2>2. firstWatchAt' \in 0 .. changes
    BY <2>1 DEF Monitor!EarlierWatchAt
  <2>3. Monitor!TypeOK'
    BY <2>1, <2>2
  <2>4. ASSUME NEW n \in uncovered PROVE ((Carried(n) \/ watch = "done") /\ NotLater(n))'
    BY <2>1, <2>2, <2>4 DEF Monitor!EarlierWatchAt
  <2> QED
    BY <2>1, <2>3, <2>4
<1>12. CASE Monitor!Fire
  <2>1. /\ lastChange' = FALSE /\ firstWatchAt' = 0
        /\ UNCHANGED <<changes, monitorIndex, restores, cancelled, watch, waitIndex, lastIndex, watchAt,
                       watchTimestamps, change, update, called, returned>>
    BY <1>12 DEF Monitor!Fire
  <2>2. CASE firstWatchAt # 0
    <3>1. running' = running + 1 /\ uncovered' = {}
      BY <1>12, <2>2 DEF Monitor!Fire
    <3>2. uncovered' \subseteq 1 .. changes
      BY <3>1
    <3>3. ~returned
      BY <1>12 DEF Monitor!Fire
    <3>4. Monitor!TypeOK'
      <4>1. lastChange' \in BOOLEAN
        BY <2>1, Zenon
      <4>2. firstWatchAt' \in 0 .. changes /\ running' \in Nat
        BY <2>1, <3>1
      <4> QED
        BY <2>1, <3>2, <4>1, <4>2
    <3>5. \A n \in uncovered' : ((Carried(n) \/ watch = "done") /\ NotLater(n))'
      BY <3>1
    <3> QED
      BY <2>1, <3>1, <3>3, <3>4, <3>5
  <2>3. CASE firstWatchAt = 0
    <3>1. running' = running /\ uncovered' = uncovered
      BY <1>12, <2>3 DEF Monitor!Fire
    <3> QED
      BY ZenonT(60), <2>1, <2>3, <3>1
  <2> QED
    BY <2>2, <2>3
<1>13. CASE Monitor!UpdateStops
  BY <1>13 DEF Monitor!UpdateStops
<1>14. CASE Monitor!HandlerRuns
  BY <1>14 DEF Monitor!HandlerRuns
<1>15. CASE Monitor!Return
  BY <1>15 DEF Monitor!Return, Monitor!Joined
<1>16. CASE UNCHANGED Monitor!vars
  BY <1>16 DEF Monitor!vars
<1>17. QED
  BY ZenonT(60), <1>1, <1>2, <1>3, <1>4, <1>5, <1>6, <1>7, <1>8, <1>9, <1>10, <1>11, <1>12, <1>13, <1>14,
     <1>15, <1>16 DEF Monitor!Next, Monitor!WatchStep

\* The invariant holds throughout.
LEMMA MonitorInvariantHolds == Monitor!Spec => []MonitorInv
  BY InitMonitorInv, StepMonitorInv, PTL DEF Monitor!Spec

\* Type correctness.
THEOREM MonitorTypeCorrect == Monitor!Spec => []Monitor!TypeOK
<1>1. MonitorInv => Monitor!TypeOK
  BY DEF MonitorInv
<1> QED
  BY <1>1, MonitorInvariantHolds, PTL

\* Start returns only when no handler call is running.
THEOREM StartJoinsHandlers == Monitor!Spec => []Monitor!NoCallAfterReturn
<1>1. MonitorInv => Monitor!NoCallAfterReturn
  BY DEF MonitorInv
<1> QED
  BY <1>1, MonitorInvariantHolds, PTL

\* A periodic check that calls nobody leaves no notice behind.
THEOREM NoticesAreKept == Monitor!Spec => Monitor!NoNoticeDropped
<1> DEFINE Kept == lastChange /\ ~lastChange' /\ running' = running =>
                       uncovered = {} \/ Monitor!Signalled \/ cancelled
<1>1. MonitorInv /\ [Monitor!Next]_(Monitor!vars) => Kept
  <2> SUFFICES ASSUME MonitorInv, [Monitor!Next]_(Monitor!vars), lastChange, ~lastChange', running' = running
               PROVE  uncovered = {} \/ Monitor!Signalled \/ cancelled
    OBVIOUS
  <2>1. Monitor!Fire
    BY Zenon DEF Monitor!Next, Monitor!WatchStep, Monitor!vars, Monitor!CatalogChanges, Monitor!Cancel,
           Monitor!GetClient, Monitor!QueryAnswers, Monitor!QueryFails, Monitor!Stamp, Monitor!Signal,
           Monitor!Waited, Monitor!WatchStops, Monitor!OnlyWatch, Monitor!Receive, Monitor!Take,
           Monitor!UpdateStops, Monitor!HandlerRuns, Monitor!Return, Monitor!updateVars
  <2>2. update = "select" /\ firstWatchAt = 0
    BY <2>1 DEF Monitor!Fire, MonitorInv, Monitor!TypeOK
  <2>3. \A n \in uncovered : Carried(n) \/ watch = "done"
    BY DEF MonitorInv
  <2> QED
    BY <2>2, <2>3 DEF Carried, Monitor!Signalled, MonitorInv, StopsWhenTold
<1>2. MonitorInv /\ [Monitor!Next]_(Monitor!vars) => [Kept]_(Monitor!vars)
  BY <1>1
<1> QED
  BY <1>2, MonitorInvariantHolds, PTL DEF Monitor!Spec, Monitor!NoNoticeDropped

\* The handler is given the time of the earliest notice it covers.
THEOREM OriginIsEarliest == Monitor!Spec => Monitor!EarliestNotice
<1> DEFINE Early == running' = running + 1 => \A n \in uncovered : firstWatchAt <= n
<1>1. MonitorInv /\ [Monitor!Next]_(Monitor!vars) => Early
  <2> SUFFICES ASSUME MonitorInv, [Monitor!Next]_(Monitor!vars), running' = running + 1, NEW n \in uncovered
               PROVE  firstWatchAt <= n
    OBVIOUS
  <2>1. running \in Nat
    BY DEF MonitorInv, Monitor!TypeOK
  <2>2. running' # running /\ running' # running - 1
    BY <2>1
  <2>3. Monitor!Fire \/ Monitor!HandlerRuns
    BY Zenon, <2>2 DEF Monitor!Next, Monitor!WatchStep, Monitor!vars, Monitor!CatalogChanges, Monitor!Cancel,
           Monitor!GetClient, Monitor!QueryAnswers, Monitor!QueryFails, Monitor!Stamp, Monitor!Signal,
           Monitor!Waited, Monitor!WatchStops, Monitor!OnlyWatch, Monitor!Receive, Monitor!Take,
           Monitor!UpdateStops, Monitor!Return, Monitor!handlerVars
  <2>4. ~Monitor!HandlerRuns
    BY Zenon, <2>2 DEF Monitor!HandlerRuns
  <2>5. firstWatchAt # 0
    BY Zenon, <2>2, <2>3, <2>4 DEF Monitor!Fire
  <2> QED
    BY <2>5 DEF MonitorInv, NotLater
<1>2. MonitorInv /\ [Monitor!Next]_(Monitor!vars) => [Early]_(Monitor!vars)
  BY <1>1
<1> QED
  BY <1>2, MonitorInvariantHolds, PTL DEF Monitor!Spec, Monitor!EarliestNotice

-----------------------------------------------------------------------------
(***************************************************************************)
(* The theorems about the provider. Only the order in which the instances  *)
(* of a difference are walked needs facts about finite sets.               *)
(***************************************************************************)
INSTANCE FiniteSetTheorems

\* There are finitely many instances, so that a walk ends.
LEMMA WalkFacts == Walks
  <1> SUFFICES ASSUME NEW S \in SUBSET Ids
               PROVE  Cardinality(S) \in Nat /\ Walk(S) \in [1 .. Cardinality(S) -> S]
    BY Zenon DEF Walks
  <1>1. IsFiniteSet(S)
    BY Zenon, SetsAssumption, FS_Subset
  <1>2. Cardinality(S) \in Nat /\ ExistsBijection(1 .. Cardinality(S), S)
    BY Zenon, <1>1, FS_CardinalityType
  <1>3. Walk(S) \in Bijection(1 .. Cardinality(S), S)
    BY Zenon, <1>2 DEF ExistsBijection, Walk
  <1> QED BY Zenon, <1>2, <1>3 DEF Bijection, Injection

\* The inductive invariant: nothing the provider, the pool or the registry
\* holds is ahead of the catalog, the empty reads are not overcounted, and an
\* undisturbed tick has, at each of its stages, done its part of the repair.
THEOREM ConsulInvariantHolds == Spec => []IInv
  <1>1. Init => IInv
    BY Zenon, InitIInv
  <1>2. IInv /\ [Next]_vars => IInv'
    BY Zenon, StepGood, WalkFacts DEF Good, IInv
  <1> QED BY <1>1, <1>2, PTL DEF Spec

\* mergeMonotonicInstances: whichever thread reads the catalog, and however old
\* what it reads is, no cached instance goes back to an earlier revision.
THEOREM ConsulCacheNeverRegresses == Spec => CacheNeverRegresses
  <1>1. IInv /\ [Next]_vars =>
            [\A id \in Ids : cache'[id] # NoInstance => cache'[id].reversion >= cache[id].reversion]_vars
    BY Zenon, StepGood, WalkFacts DEF Good, Forward
  <1> QED BY <1>1, ConsulInvariantHolds, PTL DEF Spec, CacheNeverRegresses

\* The cache is emptied, and an empty full push authorised, only after
\* Confirmations healthy empty reads in a row.
THEOREM ConsulEmptyIsConfirmed == Spec => EmptyIsConfirmed
  <1>1. IInv /\ [Next]_vars =>
            [(cache # Nothing /\ cache' = Nothing) \/ (\E t \in Threads : confirmed'[t] /\ ~confirmed[t])
             => empties' >= Confirmations]_vars
    BY ZenonT(60), StepGood, WalkFacts DEF Good, Confirmed
  <1> QED BY <1>1, ConsulInvariantHolds, PTL DEF Spec, EmptyIsConfirmed

\* After an undisturbed tick (CompareAndFlush and the full push after it) the
\* registry serves what the catalog holds, whatever went wrong before.
THEOREM ConsulQuietTickRepairs == Spec => []QuietTickRepairs
  <1>1. IInv => QuietTickRepairs
    <2> SUFFICES ASSUME IInv, calm, Quiet, nacosReconcile, View(catalog) # Nothing PROVE served = View(catalog)
      BY Zenon DEF QuietTickRepairs
    <2>1. CalmInv
      BY Zenon DEF IInv, Undisturbed
    <2>2. pc["tick"] \in {"idle", "done"}
      BY Zenon DEF Quiet, Threads
    <2> QED BY Zenon, <2>1, <2>2 DEF CalmInv
  <1> QED BY <1>1, ConsulInvariantHolds, PTL

=============================================================================
