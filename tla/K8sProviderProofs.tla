-------------------------- MODULE K8sProviderProofs --------------------------
(***************************************************************************)
(* The Kubernetes provider, for any set of pods, any number of versions of *)
(* them and any shapes that keep the assumption on Shapes.                 *)
(*                                                                         *)
(* The invariant follows every incarnation of a pod through a list of      *)
(* instances, the cache or the list a full compare has built (Tracked):    *)
(* the instance is not newer than the pod; it is the pod's as soon as no   *)
(* event of the incarnation is on its way; and an instance whose           *)
(* incarnation is gone is live only while the delete event is on its way   *)
(* or the incarnation was swallowed by a relist. An incarnation whose      *)
(* delete is queued does not come back (Sound), which is what makes the    *)
(* last part inductive.  A list made at any time is at least Consistent    *)
(* with the pods, from which a second invariant (PushInv) shows that what  *)
(* is registered, or submitted to be, is never ahead of the cache.         *)
(***************************************************************************)
EXTENDS K8sProvider, SequenceTheorems, TLAPS

\* The string without characters: no event, no address.
Blank == ""

Events == {"add", "update", "delete"}
Item == [key : Keys, uid : Nat, event : Events]
Fields == {"ip", "appCode", "envType", "envGroup", "idc", "cluster", "enabled", "state", "status", "reversion"}

\* A pod of the store has one of the shapes, and a version.
IsVersion(pod, s, n) == pod = [s EXCEPT !.version = n]
PodOK(pod) == \E s \in Shapes, n \in 1 .. version : IsVersion(pod, s, n)

StoreInv ==
    /\ version \in 0 .. MaxVersion
    /\ DOMAIN store = Keys
    /\ \A k \in Keys : /\ store[k].uid \in 0 .. version
                       /\ store[k].uid # 0 => PodOK(store[k].pod)

\* An incarnation whose delete is on its way does not come back.
Sound(o) == o \in Item /\ o.uid \in 1 .. version /\ (o.event = "delete" => store[o.key].uid # o.uid)

QueueInv ==
    /\ queue \in Seq(Item) /\ \A i \in DOMAIN queue : Sound(queue[i])
    /\ pop = "read" => Sound(obj)

\* The events on their way to the cache.
Items == {queue[i] : i \in DOMAIN queue} \cup (IF pop = "read" THEN {obj} ELSE {})
Waits(k, u) == \E o \in Items : o.key = k /\ o.uid = u
Dying(k, u) == \E o \in Items : o.key = k /\ o.uid = u /\ o.event = "delete"

LiveOf(ins) == IF IsLive(ins) THEN ins ELSE NoInstance

\* The instance of incarnation u of pod k in a list follows the pod.
Known(ins) == DOMAIN ins = Fields /\ ins.reversion \in Nat /\ ins.status \in 1 .. 3

Present1(k, ins) ==
    LET now == Converted(Blank, store[k].pod)
    IN  ins # NoInstance => /\ now # NoInstance /\ ins.reversion <= store[k].pod.version
                            /\ ins.reversion = store[k].pod.version => LiveOf(ins) = LiveOf(now)

\* What holds of a list whenever it was made.
Consistent(k, u, ins) ==
    /\ ins = NoInstance \/ Known(ins)
    /\ u > version => ins = NoInstance
    /\ IsLive(ins) => ins.ip # Blank
    /\ store[k].uid = u => Present1(k, ins)

\* What holds of one whose pods have all their events before them.
Tracked(k, u, ins) ==
    /\ Consistent(k, u, ins)
    /\ store[k].uid = u /\ ~Waits(k, u) => LiveOf(ins) = LiveOf(Converted(Blank, store[k].pod))
    /\ store[k].uid # u /\ IsLive(ins) => k \in relisted \/ Dying(k, u)

FitsAll(list) == \A k \in Keys, u \in 1 .. MaxVersion : Consistent(k, u, list[<<k, u>>])
TracksAll(list) == \A k \in Keys, u \in 1 .. MaxVersion : Tracked(k, u, list[<<k, u>>])

CacheInv ==
    /\ DOMAIN cache = Ids /\ DOMAIN held = Ids
    /\ FitsAll(cache)
    /\ full = "install" => FitsAll(held)
    /\ bootedBy = "startup" => TracksAll(cache)
    /\ full = "install" /\ ~ticking => TracksAll(held)

\* The startup compare comes before the pop loop and the ticker.
LifeInv ==
    /\ generation \in Nat /\ heldGeneration \in Nat /\ heldGeneration <= generation
    /\ bootedBy = "startup" => generation # 0
    /\ full = "install" => heldGeneration = 0
    /\ ~ticking /\ full # "idle" => pop = "off"
    /\ monitor \in {"syncing", "startup"} => pop = "off" /\ ~ticking
    /\ monitor = "syncing" => full = "idle"
    /\ pop # "read" => pop \in {"off", "pop", "done"}
    /\ full = "end" => ~ticking
    /\ full = "compare" /\ generation = heldGeneration => held = Live(cache)

IInv == StoreInv /\ QueueInv /\ CacheInv /\ LifeInv

-----------------------------------------------------------------------------
(***************************************************************************)
(* Instances of pods.                                                      *)
(***************************************************************************)
PodFields == {"phase", "reason", "deleting", "containers", "statuses", "ip", "labels", "env", "nsName", "version"}

\* Two pods that differ at most in their version.
SameLook(p, q) ==
    /\ p.phase = q.phase /\ p.reason = q.reason /\ p.deleting = q.deleting
    /\ p.containers = q.containers /\ p.statuses = q.statuses /\ p.ip = q.ip
    /\ p.labels = q.labels /\ p.env = q.env /\ p.nsName = q.nsName

\* A new version of a pod looks as its shape does.
LEMMA VersionedFields ==
    ASSUME NEW s \in Shapes, NEW n, NEW pod, IsVersion(pod, s, n)
    PROVE  pod.version = n /\ SameLook(pod, s) /\ SameLook(s, pod)
  <1>1. DOMAIN s = PodFields
    BY Zenon, ShapesAssumption DEF PodFields
  <1> QED BY Zenon, <1>1 DEF PodFields, SameLook, IsVersion

\* Pods that look alike become instances that differ at most in the revision.
LEMMA Formatted ==
    ASSUME NEW event, event # "delete", NEW p, NEW q, SameLook(p, q)
    PROVE  /\ formatAppCode(p) = formatAppCode(q)
           /\ formatInstance(event, p) = [formatInstance(Blank, q) EXCEPT !.reversion = p.version]
           /\ formatInstance(event, p).ip = q.ip
           /\ formatInstance(event, p).status = formatStatus(Blank, q)
  <1>1. /\ p.phase = q.phase /\ p.reason = q.reason /\ p.deleting = q.deleting
        /\ p.containers = q.containers /\ p.statuses = q.statuses /\ p.ip = q.ip
        /\ p.labels = q.labels /\ p.env = q.env /\ p.nsName = q.nsName
    BY Zenon DEF SameLook
  <1>4. formatAppCode(p) = formatAppCode(q)
    BY Zenon, <1>1 DEF formatAppCode
  <1>5. containersReady(p) = containersReady(q) 
    BY ZenonT(60), <1>1 DEF containersReady
  <1>6. formatEnvType(p, Value(p.env, "K8S_CLUSTER_TYPE")) = formatEnvType(q, Value(q.env, "K8S_CLUSTER_TYPE"))
    BY Zenon, <1>1 DEF formatEnvType
  <1>7. Value(p.labels, "env-group") = Value(q.labels, "env-group") /\ formatIDC(p) = formatIDC(q)
        /\ formatCluster(p) = formatCluster(q)
    BY Zenon, <1>1 DEF formatIDC, formatCluster
  <1>8. formatContainerEnabled(p) = formatContainerEnabled(q)
    BY Zenon, <1>1, <1>5 DEF formatContainerEnabled
  <1>9. formatState(p) = formatState(q)
    <2>1. Looping(p) = Looping(q)
      BY Zenon, <1>1 DEF Looping
    <2> QED BY Zenon, <1>1, <1>5, <2>1 DEF formatState
  <1>10. formatStatus(event, p) = formatStatus(Blank, q)
    <2>1. event = "delete" <=> Blank = "delete"
      BY Zenon DEF Blank
    <2> QED BY Zenon, <1>1, <1>5, <2>1 DEF formatStatus
  <1>11. formatInstance(event, p) = [formatInstance(Blank, q) EXCEPT !.reversion = p.version]
    <2> DEFINE a == formatInstance(event, p)
               b == formatInstance(Blank, q)
    <2>1. /\ DOMAIN a = Fields /\ DOMAIN b = Fields
          /\ a = [f \in Fields |-> a[f]]
      BY Zenon DEF formatInstance, Fields
    <2>2. /\ a.ip = p.ip /\ a.appCode = formatAppCode(p) /\ a.envGroup = Value(p.labels, "env-group")
          /\ a.envType = formatEnvType(p, Value(p.env, "K8S_CLUSTER_TYPE"))
          /\ a.idc = formatIDC(p) /\ a.cluster = formatCluster(p) /\ a.enabled = formatContainerEnabled(p)
          /\ a.state = formatState(p) /\ a.status = formatStatus(event, p) /\ a.reversion = p.version
      BY Zenon DEF formatInstance
    <2>3. /\ b.ip = q.ip /\ b.appCode = formatAppCode(q) /\ b.envGroup = Value(q.labels, "env-group")
          /\ b.envType = formatEnvType(q, Value(q.env, "K8S_CLUSTER_TYPE"))
          /\ b.idc = formatIDC(q) /\ b.cluster = formatCluster(q) /\ b.enabled = formatContainerEnabled(q)
          /\ b.state = formatState(q) /\ b.status = formatStatus(Blank, q)
      BY Zenon DEF formatInstance
    <2> HIDE DEF a, b
    <2>4. \A f \in Fields : a[f] = IF f = "reversion" THEN p.version ELSE b[f]
      BY <1>1, <1>4, <1>6, <1>7, <1>8, <1>9, <1>10, <2>2, <2>3 DEF Fields
    <2>5. a = [b EXCEPT !.reversion = p.version]
      BY Zenon, <2>1, <2>4
    <2> QED BY Zenon, <2>5 DEF a, b
  <1>12. formatInstance(event, p).ip = p.ip /\ formatInstance(event, p).status = formatStatus(event, p)
    BY Zenon DEF formatInstance
  <1> QED BY Zenon, <1>1, <1>4, <1>10, <1>11, <1>12

\* formatStatus answers one of the three states.
LEMMA StatusFacts ==
    ASSUME NEW event, NEW pod
    PROVE  formatStatus(event, pod) \in 1 .. 3
  BY DEF formatStatus, Online, Unhealthy, Offline

\* The absent instance is not live.
LEMMA NoInstanceFacts ==
    NoInstance.status = 0 /\ ~IsLive(NoInstance) /\ LiveOf(NoInstance) = NoInstance
  BY Zenon DEF NoInstance, IsLive, LiveOf

\* formatInstanceWithDeps and VerifyInstance look at everything but the
\* version, and take every event but a delete alike.
LEMMA ConvertedAlike ==
    ASSUME NEW pod, NEW first, NEW s, SameLook(pod, s), SameLook(pod, first),
           NEW n \in Nat \ {0}, pod.version = n, first.version = 1, NEW event, event # "delete"
    PROVE  /\ Converted(event, pod) = Converted(Blank, pod)
           /\ (Converted(Blank, pod) # NoInstance) <=> (Converted(Blank, first) # NoInstance)
           /\ Converted(Blank, pod) # NoInstance =>
                /\ Known(Converted(Blank, pod)) /\ Converted(Blank, pod).reversion = n
                /\ Converted(Blank, pod).ip = s.ip /\ Converted(Blank, pod).status = formatStatus(Blank, s)
  <1> DEFINE a == formatInstance(Blank, pod)
             b == formatInstance(Blank, first)
  <1>1. /\ formatAppCode(pod) = formatAppCode(first)
        /\ a = [b EXCEPT !.reversion = n] /\ a.ip = s.ip /\ a.status = formatStatus(Blank, s)
        /\ formatInstance(event, pod) = [b EXCEPT !.reversion = n]
    <2>1. Blank # "delete"
      BY Zenon DEF Blank
    <2>2. ASSUME NEW e, e # "delete"
          PROVE  /\ formatAppCode(pod) = formatAppCode(first)
                 /\ formatInstance(e, pod) = [b EXCEPT !.reversion = n]
                 /\ formatInstance(e, pod).ip = s.ip /\ formatInstance(e, pod).status = formatStatus(Blank, s)
      <3>1. /\ formatAppCode(pod) = formatAppCode(first)
            /\ formatInstance(e, pod) = [formatInstance(Blank, first) EXCEPT !.reversion = pod.version]
        BY <2>2, Formatted
      <3>2. formatInstance(e, pod).ip = s.ip /\ formatInstance(e, pod).status = formatStatus(Blank, s)
        BY <2>2, Formatted
      <3> QED BY Zenon, <3>1, <3>2
    <2> QED BY Zenon, <2>1, <2>2
  <1>2. DOMAIN a = Fields /\ DOMAIN b = Fields /\ a.reversion = pod.version
    BY Zenon DEF formatInstance, Fields
  <1>3. b.reversion = 1
    BY Zenon DEF formatInstance
  <1>4. a.status \in 1 .. 3 /\ pod.version = n
    BY <1>1, StatusFacts
  <1> HIDE DEF a, b
  <1>5. a.appCode = b.appCode /\ a.envType = b.envType /\ a.status = b.status /\ a.ip = b.ip /\ a.state = b.state
    BY Zenon, <1>1, <1>2 DEF Fields
  <1>6. Valid(a) <=> Valid(b)
    <2>1. a.reversion # 0 /\ b.reversion # 0
      BY <1>2, <1>3, <1>4
    <2> QED BY Zenon, <1>5, <2>1 DEF Valid
  <1>7. Unconvertible(pod, PushAppCodes) <=> Unconvertible(first, PushAppCodes)
    BY Zenon, <1>1 DEF Unconvertible
  <1>8. Converted(Blank, pod) = IF Unconvertible(pod, PushAppCodes) \/ ~Valid(a) THEN NoInstance ELSE a
    BY Zenon DEF Converted, a
  <1>9. Converted(event, pod) = Converted(Blank, pod)
    <2>1. formatInstance(event, pod) = a
      BY Zenon, <1>1
    <2> QED BY Zenon, <1>8, <2>1 DEF Converted
  <1>10. (Converted(Blank, first) # NoInstance) <=> ~(Unconvertible(first, PushAppCodes) \/ ~Valid(b))
    <2>1. b # NoInstance
      BY <1>4, <1>5, NoInstanceFacts
    <2> QED BY Zenon, <2>1 DEF Converted, b
  <1>11. a # NoInstance
    BY <1>4, NoInstanceFacts
  <1>12. (Converted(Blank, pod) # NoInstance) <=> (Converted(Blank, first) # NoInstance)
    BY Zenon, <1>6, <1>7, <1>8, <1>10, <1>11
  <1>13. ASSUME Converted(Blank, pod) # NoInstance
         PROVE  /\ Known(Converted(Blank, pod)) /\ Converted(Blank, pod).reversion = n
                /\ Converted(Blank, pod).ip = s.ip /\ Converted(Blank, pod).status = formatStatus(Blank, s)
    <2>1. Converted(Blank, pod) = a
      BY Zenon, <1>8, <1>13
    <2>2. Known(a) /\ a.reversion = n
      BY Zenon, <1>2, <1>4 DEF Known
    <2> QED BY Zenon, <1>1, <2>1, <2>2
  <1> QED BY Zenon, <1>9, <1>12, <1>13

\* The instance of a pod of the store.
LEMMA ConvertedFacts ==
    ASSUME NEW s \in Shapes, NEW n \in Nat \ {0}, NEW pod, IsVersion(pod, s, n)
    PROVE  /\ \A event : event # "delete" => Converted(event, pod) = Converted(Blank, pod)
           /\ (Converted(Blank, pod) # NoInstance) <=> Registrable(s)
           /\ Registrable(s) => /\ Known(Converted(Blank, pod)) /\ Converted(Blank, pod).reversion = n
                                /\ IsLive(Converted(Blank, pod)) => Converted(Blank, pod).ip # Blank
  <1>1. PICK first : IsVersion(first, s, 1)
    BY Zenon DEF IsVersion
  <1>2. /\ SameLook(pod, s) /\ SameLook(pod, first) /\ pod.version = n /\ first.version = 1
    <2>1. SameLook(pod, s) /\ SameLook(first, s) /\ pod.version = n /\ first.version = 1
      BY Zenon, <1>1, VersionedFields
    <2> QED BY Zenon, <2>1 DEF SameLook
  <1>3. Registrable(s) <=> (Converted(Blank, first) # NoInstance)
    BY Zenon, <1>1 DEF Registrable, Blank, IsVersion
  <1>4. Blank # "delete"
    BY Zenon DEF Blank
  <1>5. ASSUME NEW event, event # "delete"
        PROVE  /\ Converted(event, pod) = Converted(Blank, pod)
               /\ (Converted(Blank, pod) # NoInstance) <=> (Converted(Blank, first) # NoInstance)
               /\ Converted(Blank, pod) # NoInstance =>
                    /\ Known(Converted(Blank, pod)) /\ Converted(Blank, pod).reversion = n
                    /\ Converted(Blank, pod).ip = s.ip /\ Converted(Blank, pod).status = formatStatus(Blank, s)
    BY <1>2, <1>5, ConvertedAlike
  <1>6. Registrable(s) /\ s.ip = Blank => formatStatus(Blank, s) = Offline
    BY Zenon, ShapesAssumption DEF Blank
  <1>7. Registrable(s) => /\ Known(Converted(Blank, pod)) /\ Converted(Blank, pod).reversion = n
                          /\ IsLive(Converted(Blank, pod)) => Converted(Blank, pod).ip # Blank
    BY <1>3, <1>4, <1>5, <1>6 DEF IsLive
  <1> QED BY <1>3, <1>4, <1>5, <1>7

\* The same of a pod of the store.
LEMMA PodFacts ==
    ASSUME StoreInv, NEW k \in Keys, store[k].uid # 0
    PROVE  LET pod == store[k].pod
               now == Converted(Blank, store[k].pod)
           IN  /\ pod.version \in 1 .. version
               /\ \A event : event # "delete" => Converted(event, pod) = now
               /\ now # NoInstance => Known(now) /\ now.reversion = pod.version /\ (IsLive(now) => now.ip # Blank)
  <1>1. version \in Nat
    BY MaxVersionAssumption DEF StoreInv
  <1>2. PICK s \in Shapes, n \in 1 .. version : IsVersion(store[k].pod, s, n)
    BY Zenon DEF StoreInv, PodOK
  <1>3. n \in Nat \ {0} /\ store[k].pod.version = n
    BY <1>1, <1>2, VersionedFields
  <1> QED BY <1>2, <1>3, ConvertedFacts
\* hasInstanceDiff: what it takes for the same.
LEMMA NoDiffFacts ==
    ASSUME NEW old, Known(old), NEW new, Known(new), ~hasInstanceDiff(old, new)
    PROVE  \/ old.status = Offline /\ new.status = Offline
           \/ ~(new.reversion > old.reversion) /\ old.status = new.status
  <1>1. "status" \in {"envType", "state", "status", "envGroup", "ip", "enabled"}
    BY Zenon
  <1>2. new["status"] # old["status"] => \E f \in {"envType", "state", "status", "envGroup", "ip", "enabled"} : new[f] # old[f]
    BY Zenon, <1>1
  <1> QED BY Zenon, <1>2 DEF hasInstanceDiff

\* pod2Instance on a pod that is there: the cached instance comes to stand for
\* the pod as it is, or does so already.
LEMMA OutcomeFollows ==
    ASSUME NEW ins, Known(ins), NEW cached, cached = NoInstance \/ Known(cached),
           IsLive(cached) => cached.ip # Blank,
           cached # NoInstance => /\ cached.reversion <= ins.reversion
                                  /\ cached.reversion = ins.reversion => LiveOf(cached) = LiveOf(ins),
           NEW result, result = IF Outcome(ins, cached) = NoInstance THEN cached ELSE Outcome(ins, cached)
    PROVE  /\ result = NoInstance \/ (Known(result) /\ result.reversion <= ins.reversion)
           /\ LiveOf(result) = LiveOf(ins)
  <1>1. /\ ins # NoInstance /\ ins.reversion \in Nat /\ ins.status \in 1 .. 3
        /\ cached # NoInstance => cached.reversion \in Nat /\ cached.status \in 1 .. 3
    BY NoInstanceFacts DEF Known
  <1>2. PICK new : new = Recovered(ins, cached)
    BY Zenon
  <1>3. Outcome(ins, cached) = IF new # NoInstance /\ (cached = NoInstance \/ hasInstanceDiff(cached, new))
                               THEN new ELSE NoInstance
    BY Zenon, <1>1, <1>2 DEF Outcome
  <1>4. CASE ins.status = Offline /\ ins.ip = Blank
    <2>1. LiveOf(ins) = NoInstance
      BY Zenon, <1>4 DEF LiveOf, IsLive
    <2>2. CASE cached = NoInstance \/ cached.ip = Blank
      <3>1. new = NoInstance
        BY Zenon, <1>2, <1>4, <2>2 DEF Recovered, Blank
      <3>2. result = cached /\ ~IsLive(cached)
        BY Zenon, <1>3, <2>2, <3>1, NoInstanceFacts
      <3> QED BY Zenon, <1>1, <2>1, <3>2 DEF LiveOf
    <2>3. CASE cached # NoInstance /\ cached.ip # Blank
      <3>1. new = [cached EXCEPT !.status = Offline, !.state = "terminated", !.enabled = FALSE,
                                 !.reversion = ins.reversion]
        BY Zenon, <1>2, <1>4, <2>3 DEF Recovered, Blank
      <3>2. DOMAIN cached = Fields /\ Known(cached)
        BY Zenon, <2>3 DEF Known
      <3>3. DOMAIN new = Fields /\ new.status = Offline /\ new.reversion = ins.reversion
        BY Zenon, <3>1, <3>2 DEF Fields
      <3>4. Known(new) /\ ~IsLive(new)
        BY <1>1, <3>3 DEF Known, Offline, IsLive
      <3>5. CASE result = new
        BY <1>1, <2>1, <3>3, <3>4, <3>5 DEF LiveOf
      <3>6. CASE result # new
        <4>1. result = cached /\ ~hasInstanceDiff(cached, new)
          BY <1>3, <2>3, <3>4, <3>6, NoInstanceFacts DEF Known
        <4>2. cached.status = Offline
          BY Zenon, <3>2, <3>3, <3>4, <4>1, NoDiffFacts
        <4> QED BY Zenon, <1>1, <2>1, <2>3, <3>2, <4>1, <4>2 DEF LiveOf, IsLive
      <3> QED BY Zenon, <3>5, <3>6
    <2> QED BY Zenon, <2>2, <2>3
  <1>5. CASE ~(ins.status = Offline /\ ins.ip = Blank)
    <2>1. new = ins
      BY Zenon, <1>2, <1>5 DEF Recovered, Blank
    <2>2. CASE result = ins
      BY <1>1, <2>2
    <2>3. CASE result # ins
      <3>1. result = cached /\ cached # NoInstance /\ Known(cached) /\ ~hasInstanceDiff(cached, ins)
        BY Zenon, <1>1, <1>3, <2>1, <2>3
      <3>2. CASE cached.status = Offline /\ ins.status = Offline
        BY Zenon, <1>1, <3>1, <3>2 DEF LiveOf, IsLive
      <3>3. CASE ~(ins.reversion > cached.reversion)
        BY <1>1, <3>1, <3>3
      <3> QED BY Zenon, <3>1, <3>2, <3>3, NoDiffFacts
    <2> QED BY Zenon, <2>2, <2>3
  <1> QED BY Zenon, <1>4, <1>5

-----------------------------------------------------------------------------
(***************************************************************************)
(* The informers.                                                          *)
(***************************************************************************)
\* What queueing item makes of the queue.
Enqueues(after, item) ==
    /\ after \in Seq(Item)
    /\ \E i \in DOMAIN after : after[i] = item
    /\ \A i \in DOMAIN after : after[i] = item \/ \E j \in DOMAIN queue : after[i] = queue[j]
    /\ \A j \in DOMAIN queue : \/ \E i \in DOMAIN after : after[i] = queue[j]
                               \/ queue[j].key = item.key /\ queue[j].uid = item.uid

\* Queueing supersedes the events of the same incarnation only.
LEMMA EnqueuedFacts ==
    ASSUME queue \in Seq(Item), NEW item \in Item, NEW after, after = Enqueued(item)
    PROVE  Enqueues(after, item)
  <1> DEFINE same == {i \in DOMAIN queue : queue[i].key = item.key /\ queue[i].uid = item.uid}
  <1>1. after = IF same = {} THEN Append(queue, item) ELSE [i \in DOMAIN queue |-> IF i \in same THEN item ELSE queue[i]]
    BY Zenon DEF Enqueued
  <1>2. Len(queue) \in Nat /\ DOMAIN queue = 1 .. Len(queue) /\ \A i \in DOMAIN queue : queue[i] \in Item
    OBVIOUS
  <1>3. \A i \in same : i \in DOMAIN queue /\ queue[i].key = item.key /\ queue[i].uid = item.uid
    BY Zenon
  <1>4. same \subseteq DOMAIN queue
    BY Zenon
  <1> HIDE DEF same
  <1>5. CASE same = {}
    <2>1. /\ after \in Seq(Item) /\ DOMAIN after = 1 .. Len(queue) + 1 /\ after[Len(queue) + 1] = item
          /\ \A j \in 1 .. Len(queue) : after[j] = queue[j]
      BY <1>1, <1>2, <1>5
    <2>2. Len(queue) + 1 \in DOMAIN after /\ \A j \in DOMAIN queue : j \in DOMAIN after
      BY <1>2, <2>1
    <2>3. \A i \in DOMAIN after : i = Len(queue) + 1 \/ i \in DOMAIN queue
      BY <1>2, <2>1
    <2> QED BY Zenon, <1>2, <2>1, <2>2, <2>3 DEF Enqueues
  <1>6. CASE same # {}
    <2>1. after = [i \in 1 .. Len(queue) |-> IF i \in same THEN item ELSE queue[i]]
      BY Zenon, <1>1, <1>2, <1>6
    <2>2. after \in Seq(Item)
      BY <1>2, <2>1
    <2>3. DOMAIN after = DOMAIN queue
      BY Zenon, <1>2, <2>1
    <2>4. \A i \in DOMAIN queue : after[i] = IF i \in same THEN item ELSE queue[i]
      BY Zenon, <1>2, <2>1
    <2> QED BY Zenon, <1>3, <1>4, <1>6, <2>2, <2>3, <2>4 DEF Enqueues
  <1> QED BY Zenon, <1>5, <1>6

\* What a change of pod k is: a new incarnation, a new version, or its end.
NewPod(k, pod, item) ==
    /\ pod.uid = version + 1 /\ item.uid = version + 1 /\ item.event # "delete"
    /\ store[k].uid # 0 => k \in relisted'
    /\ \E s \in Shapes : IsVersion(pod.pod, s, version + 1)

NewVersion(k, pod, item) ==
    /\ store[k].uid # 0 /\ pod.uid = store[k].uid /\ item.uid = store[k].uid /\ item.event # "delete"
    /\ \E s \in Shapes : /\ IsVersion(pod.pod, s, version + 1)
                         /\ Converted(Blank, store[k].pod) # NoInstance => Registrable(s)

PodEnds(k, pod, item) ==
    store[k].uid # 0 /\ pod.uid = 0 /\ item.uid = store[k].uid /\ item.event = "delete"

Effect(k, pod, item) ==
    /\ version < MaxVersion /\ version' = version + 1
    /\ store' = [store EXCEPT ![k] = pod] /\ queue' = Enqueued(item) /\ item.key = k
    /\ relisted \subseteq relisted'
    /\ UNCHANGED <<popVars, cacheVars, fullVars, lifeVars>>
    /\ NewPod(k, pod, item) \/ NewVersion(k, pod, item) \/ PodEnds(k, pod, item)

\* What the API server stores.
LEMMA VersionedFacts ==
    ASSUME NEW uid, NEW s, NEW pod, pod = Versioned(uid, s)
    PROVE  pod.uid = uid /\ IsVersion(pod.pod, s, version + 1)
  BY Zenon DEF Versioned, IsVersion

\* Every step of the API server has one of three effects on a pod.
LEMMA SourceEffect ==
    ASSUME StoreInv, Source
    PROVE  \E k, pod, item : k \in Keys /\ item \in Item /\ Effect(k, pod, item)
  <1>1. version \in Nat /\ \A k \in Keys : store[k].uid \in Nat
    BY MaxVersionAssumption DEF StoreInv
  <1>2. ASSUME NEW k \in Keys, NEW pod, NEW event \in Events, Changed(k, pod, event),
               relisted \subseteq relisted', pod.uid \in Nat
        PROVE  \E item : /\ item \in Item /\ item.key = k /\ item.event = event
                         /\ item.uid = (IF pod.uid = 0 THEN store[k].uid ELSE pod.uid)
                         /\ version < MaxVersion /\ version' = version + 1
                         /\ store' = [store EXCEPT ![k] = pod] /\ queue' = Enqueued(item)
                         /\ UNCHANGED <<popVars, cacheVars, fullVars, lifeVars>>
    <2> DEFINE item == [key |-> k, uid |-> IF pod.uid = 0 THEN store[k].uid ELSE pod.uid, event |-> event]
    <2>1. item \in Item
      BY Zenon, <1>1, <1>2 DEF Item
    <2>2. /\ version < MaxVersion /\ version' = version + 1
          /\ store' = [store EXCEPT ![k] = pod] /\ queue' = Enqueued(item)
          /\ UNCHANGED <<popVars, cacheVars, fullVars, lifeVars>>
      BY Zenon, <1>2 DEF Changed
    <2>3. item.key = k /\ item.event = event /\ item.uid = (IF pod.uid = 0 THEN store[k].uid ELSE pod.uid)
      BY Zenon
    <2> HIDE DEF item
    <2> QED BY Zenon, <2>1, <2>2, <2>3
  <1>3. "add" \in Events /\ "update" \in Events /\ "delete" \in Events /\ "add" # "delete" /\ "update" # "delete"
    BY Zenon DEF Events
  <1>4. PICK k \in Keys : (\E s \in Shapes : Create(k, s) \/ Update(k, s) \/ Replace(k, s)) \/ Delete(k)
    BY Zenon DEF Source
  <1>5. CASE Delete(k)
    <2>1. store[k].uid # 0 /\ Changed(k, NoPod, "delete") /\ relisted' = relisted
      BY Zenon, <1>5 DEF Delete
    <2>2. PICK pod : pod = NoPod /\ pod.uid = 0
      <3>1. NoPod.uid = 0
        BY Zenon DEF NoPod
      <3> QED BY Zenon, <3>1
    <2>3. PICK item : /\ item \in Item /\ item.key = k /\ item.event = "delete"
                      /\ item.uid = (IF pod.uid = 0 THEN store[k].uid ELSE pod.uid)
                      /\ version < MaxVersion /\ version' = version + 1
                      /\ store' = [store EXCEPT ![k] = pod] /\ queue' = Enqueued(item)
                      /\ UNCHANGED <<popVars, cacheVars, fullVars, lifeVars>>
      BY <1>2, <1>3, <2>1, <2>2
    <2>4. Effect(k, pod, item)
      BY Zenon, <2>1, <2>2, <2>3 DEF Effect, PodEnds
    <2> QED BY Zenon, <2>3, <2>4
  <1>6. ASSUME NEW s \in Shapes, Create(k, s) \/ Replace(k, s)
        PROVE  \E pod, item : item \in Item /\ Effect(k, pod, item)
    <2>1. PICK pod : pod = Versioned(version + 1, s)
      BY Zenon
    <2>2. pod.uid = version + 1 /\ IsVersion(pod.pod, s, version + 1) /\ pod.uid \in Nat /\ pod.uid # 0
      BY <1>1, <2>1, VersionedFacts
    <2>3. /\ relisted \subseteq relisted' /\ (store[k].uid # 0 => k \in relisted')
          /\ \E event \in Events \ {"delete"} : Changed(k, pod, event)
      BY Zenon, <1>3, <1>6, <2>1 DEF Create, Replace
    <2>4. PICK event \in Events \ {"delete"} : Changed(k, pod, event)
      BY Zenon, <2>3
    <2>5. PICK item : /\ item \in Item /\ item.key = k /\ item.event = event
                      /\ item.uid = (IF pod.uid = 0 THEN store[k].uid ELSE pod.uid)
                      /\ version < MaxVersion /\ version' = version + 1
                      /\ store' = [store EXCEPT ![k] = pod] /\ queue' = Enqueued(item)
                      /\ UNCHANGED <<popVars, cacheVars, fullVars, lifeVars>>
      BY <1>2, <2>2, <2>3, <2>4
    <2>6. Effect(k, pod, item)
      BY Zenon, <1>6, <2>2, <2>3, <2>4, <2>5 DEF Effect, NewPod
    <2> QED BY Zenon, <2>5, <2>6
  <1>7. ASSUME NEW s \in Shapes, Update(k, s)
        PROVE  \E pod, item : item \in Item /\ Effect(k, pod, item)
    <2>1. /\ store[k].uid # 0 /\ MayBecome(store[k].pod.phase, s)
          /\ Changed(k, Versioned(store[k].uid, s), "update") /\ relisted' = relisted
      BY Zenon, <1>7 DEF Update
    <2>2. PICK pod : pod = Versioned(store[k].uid, s)
      BY Zenon
    <2>3. pod.uid = store[k].uid /\ IsVersion(pod.pod, s, version + 1) /\ pod.uid \in Nat /\ pod.uid # 0
      BY <1>1, <2>1, <2>2, VersionedFacts
    <2>4. PICK item : /\ item \in Item /\ item.key = k /\ item.event = "update"
                      /\ item.uid = (IF pod.uid = 0 THEN store[k].uid ELSE pod.uid)
                      /\ version < MaxVersion /\ version' = version + 1
                      /\ store' = [store EXCEPT ![k] = pod] /\ queue' = Enqueued(item)
                      /\ UNCHANGED <<popVars, cacheVars, fullVars, lifeVars>>
      BY <1>2, <1>3, <2>1, <2>2, <2>3
    <2>5. Converted(Blank, store[k].pod) # NoInstance => Registrable(s)
      <3>1. PICK r \in Shapes, n \in 1 .. version : IsVersion(store[k].pod, r, n)
        BY Zenon, <2>1 DEF StoreInv, PodOK
      <3>2. n \in Nat \ {0} /\ store[k].pod.phase = r.phase
        BY <1>1, <3>1, VersionedFields DEF SameLook
      <3>3. Converted(Blank, store[k].pod) # NoInstance <=> Registrable(r)
        BY Zenon, <3>1, <3>2, ConvertedFacts
      <3>4. Registrable(r) /\ MayBecome(r.phase, s) => Registrable(s)
        BY Zenon, ShapesAssumption
      <3> QED BY Zenon, <2>1, <3>2, <3>3, <3>4
    <2>6. Effect(k, pod, item)
      BY Zenon, <1>3, <1>7, <2>1, <2>3, <2>4, <2>5 DEF Effect, NewVersion
    <2> QED BY Zenon, <2>4, <2>6
  <1> QED BY Zenon, <1>4, <1>5, <1>6, <1>7

\* An event that is queued supersedes those of the same incarnation only.
LEMMA ItemsAfter ==
    ASSUME QueueInv, NEW item \in Item, queue' = Enqueued(item), UNCHANGED popVars
    PROVE  /\ queue' \in Seq(Item) /\ item \in Items'
           /\ \A o \in Items' : o = item \/ o \in Items
           /\ \A o \in Items : o \in Items' \/ (o.key = item.key /\ o.uid = item.uid)
  <1>1. queue \in Seq(Item)
    BY Zenon DEF QueueInv
  <1>2. PICK after : after = Enqueued(item)
    BY Zenon
  <1>3. queue' = after /\ pop' = pop /\ obj' = obj
    BY Zenon, <1>2 DEF popVars
  <1>4. /\ after \in Seq(Item)
        /\ \E i \in DOMAIN after : after[i] = item
        /\ \A i \in DOMAIN after : after[i] = item \/ \E j \in DOMAIN queue : after[i] = queue[j]
        /\ \A j \in DOMAIN queue : \/ \E i \in DOMAIN after : after[i] = queue[j]
                                   \/ queue[j].key = item.key /\ queue[j].uid = item.uid
    <2>1. Enqueues(after, item)
      BY <1>1, <1>2, EnqueuedFacts
    <2> QED BY Zenon, <2>1 DEF Enqueues
  <1>5. Items' = {after[i] : i \in DOMAIN after} \cup (IF pop = "read" THEN {obj} ELSE {})
    BY Zenon, <1>3 DEF Items
  <1>6. Items = {queue[i] : i \in DOMAIN queue} \cup (IF pop = "read" THEN {obj} ELSE {})
    BY Zenon DEF Items
  <1>7. \A o \in Items' : o = item \/ o \in Items
    BY Zenon, <1>4, <1>5, <1>6
  <1>8. \A o \in Items : o \in Items' \/ (o.key = item.key /\ o.uid = item.uid)
    BY <1>4, <1>5, <1>6
  <1> QED BY Zenon, <1>3, <1>4, <1>5, <1>7, <1>8

\* The queue and the event in hand, taken together.
LEMMA ItemsSound ==
    QueueInv <=> queue \in Seq(Item) /\ \A o \in Items : Sound(o)
  <1>1. (\A o \in Items : Sound(o)) <=> (\A i \in DOMAIN queue : Sound(queue[i])) /\ (pop = "read" => Sound(obj))
    BY Zenon DEF Items
  <1> QED BY Zenon, <1>1 DEF QueueInv

\* A change of a pod keeps the store and the queue in order.
LEMMA EffectStore ==
    ASSUME StoreInv, QueueInv, NEW k \in Keys, NEW pod, NEW item \in Item, Effect(k, pod, item)
    PROVE  /\ StoreInv' /\ QueueInv'
           /\ store'[k] = pod /\ \A x \in Keys : x # k => store'[x] = store[x]
           /\ version' = version + 1 /\ version \in Nat
  <1>1. version \in Nat /\ \A x \in Keys : store[x].uid \in 0 .. version
    BY MaxVersionAssumption DEF StoreInv
  <1>2. version' = version + 1 /\ version' \in 0 .. MaxVersion
    BY <1>1, MaxVersionAssumption DEF Effect
  <1>3. DOMAIN store' = Keys /\ store'[k] = pod /\ \A x \in Keys : x # k => store'[x] = store[x]
    BY Zenon DEF Effect, StoreInv
  <1>4. /\ pod.uid \in {0, version + 1, store[k].uid}
        /\ pod.uid # 0 => \E s \in Shapes : IsVersion(pod.pod, s, version + 1)
        /\ item.uid \in 1 .. version + 1
        /\ item.event = "delete" => pod.uid # item.uid
    BY <1>1 DEF Effect, NewPod, NewVersion, PodEnds
  <1>5. version + 1 \in 1 .. version' /\ \A n \in 1 .. version : n \in 1 .. version'
    BY <1>1, <1>2
  <1>6. ASSUME NEW x \in Keys
        PROVE  store'[x].uid \in 0 .. version' /\ (store'[x].uid # 0 => PodOK(store[x].pod)')
    <2>1. CASE x = k
      <3>1. pod.uid \in 0 .. version'
        BY <1>1, <1>2, <1>4
      <3>2. pod.uid # 0 => \E s \in Shapes, n \in 1 .. version' : IsVersion(pod.pod, s, n)
        BY Zenon, <1>4, <1>5
      <3> QED BY Zenon, <1>3, <2>1, <3>1, <3>2 DEF PodOK
    <2>2. CASE x # k
      <3>1. store'[x].uid \in 0 .. version'
        BY <1>1, <1>2, <1>3, <2>2
      <3>2. store[x].uid # 0 => \E s \in Shapes, n \in 1 .. version : IsVersion(store[x].pod, s, n)
        BY Zenon DEF StoreInv, PodOK
      <3>3. store[x].uid # 0 => \E s \in Shapes, n \in 1 .. version' : IsVersion(store[x].pod, s, n)
        BY Zenon, <1>5, <3>2
      <3> QED BY Zenon, <1>3, <2>2, <3>1, <3>3 DEF PodOK
    <2> QED BY Zenon, <2>1, <2>2
  <1>7. StoreInv'
    BY Zenon, <1>2, <1>3, <1>6 DEF StoreInv
  <1>8. UNCHANGED popVars /\ queue' = Enqueued(item) /\ item.key = k
    BY Zenon DEF Effect
  <1>9. queue' \in Seq(Item) /\ \A o \in Items' : o = item \/ o \in Items
    BY Zenon, <1>8, ItemsAfter
  <1>10. \A o \in Items : Sound(o)
    BY Zenon, ItemsSound
  <1>11. Sound(item)'
    BY Zenon, <1>2, <1>3, <1>4, <1>8 DEF Sound
  <1>12. ASSUME NEW o, Sound(o)
         PROVE  Sound(o)'
    <2>1. o \in Item /\ o.uid \in 1 .. version /\ o.key \in Keys /\ (o.event = "delete" => store[o.key].uid # o.uid)
      BY Zenon, <1>12 DEF Sound, Item
    <2>2. o.event = "delete" => store'[o.key].uid # o.uid
      BY <1>1, <1>3, <1>4, <2>1
    <2>3. o.uid \in 1 .. version'
      BY Zenon, <1>5, <2>1
    <2> QED BY Zenon, <2>1, <2>2, <2>3 DEF Sound
  <1>13. \A o \in Items' : Sound(o)'
    BY Zenon, <1>9, <1>10, <1>11, <1>12
  <1>14. QueueInv'
    BY Zenon, <1>9, <1>13 DEF QueueInv, Items
  <1> QED BY Zenon, <1>1, <1>2, <1>3, <1>7, <1>14

\* An instance stays consistent with its pod when a pod changes.
LEMMA EffectFits ==
    ASSUME StoreInv, QueueInv, NEW k \in Keys, NEW pod, NEW item \in Item, Effect(k, pod, item),
           NEW x \in Keys, NEW u \in 1 .. MaxVersion, NEW ins, Consistent(x, u, ins)
    PROVE  Consistent(x, u, ins)'
  <1>1. /\ store'[k] = pod /\ (x # k => store'[x] = store[x])
        /\ version' = version + 1 /\ version \in Nat
    BY Zenon, EffectStore
  <1>2. u \in Nat /\ u # 0
    BY MaxVersionAssumption
  <1>3. /\ ins = NoInstance \/ Known(ins)
        /\ (u > version => ins = NoInstance) /\ (IsLive(ins) => ins.ip # Blank)
        /\ store[x].uid = u => Present1(x, ins)
    BY Zenon DEF Consistent
  <1>4. version' > version /\ (u > version' => ins = NoInstance)
    BY <1>1, <1>2, <1>3
  <1>5. CASE x # k
    <2>1. store'[x] = store[x]
      BY Zenon, <1>1, <1>5
    <2>2. Present1(x, ins)' <=> Present1(x, ins)
      BY Zenon, <2>1 DEF Present1
    <2> QED BY Zenon, <1>3, <1>4, <2>1, <2>2 DEF Consistent
  <1>6. CASE x = k
    <2>1. ASSUME store'[k].uid = u
          PROVE  Present1(k, ins)'
      <3>1. item.uid = u /\ pod.uid = u
        BY Zenon, <1>1, <1>2, <2>1 DEF Effect, NewPod, NewVersion, PodEnds
      <3>2. CASE NewPod(k, pod, item)
        <4>1. ins = NoInstance
          BY <1>1, <1>2, <1>3, <3>1, <3>2 DEF NewPod
        <4> QED BY Zenon, <4>1 DEF Present1
      <3>3. CASE NewVersion(k, pod, item)
        <4>1. store[k].uid = u /\ store[k].uid # 0
          BY Zenon, <3>1, <3>3 DEF NewVersion
        <4>2. PICK s \in Shapes : /\ IsVersion(pod.pod, s, version + 1)
                                  /\ Converted(Blank, store[k].pod) # NoInstance => Registrable(s)
          BY Zenon, <3>3 DEF NewVersion
        <4>3. version + 1 \in Nat \ {0}
          BY <1>1
        <4>4. pod.pod.version = version + 1 /\ (Registrable(s) => Converted(Blank, pod.pod) # NoInstance)
          BY <4>2, <4>3, VersionedFields, ConvertedFacts
        <4>5. store[k].pod.version \in 1 .. version
          BY Zenon, <4>1, PodFacts
        <4>6. ins # NoInstance => Converted(Blank, store[k].pod) # NoInstance /\ ins.reversion <= store[k].pod.version
          BY Zenon, <1>3, <1>6, <4>1 DEF Present1
        <4>7. ins # NoInstance => ins.reversion \in Nat
          BY Zenon, <1>3 DEF Known
        <4>8. ins # NoInstance => /\ Converted(Blank, pod.pod) # NoInstance
                                  /\ ins.reversion <= pod.pod.version /\ ins.reversion # pod.pod.version
          BY <1>1, <4>2, <4>4, <4>5, <4>6, <4>7
        <4> QED BY Zenon, <1>1, <4>8 DEF Present1
      <3>4. CASE PodEnds(k, pod, item)
        BY Zenon, <1>2, <3>1, <3>4 DEF PodEnds
      <3> QED BY Zenon, <3>2, <3>3, <3>4 DEF Effect
    <2> QED BY Zenon, <1>3, <1>4, <1>6, <2>1 DEF Consistent
  <1> QED BY Zenon, <1>5, <1>6

\* An instance that follows its pod goes on following it when a pod changes:
\* the event that says so is on its way.
LEMMA EffectTracks ==
    ASSUME StoreInv, QueueInv, NEW k \in Keys, NEW pod, NEW item \in Item, Effect(k, pod, item),
           NEW x \in Keys, NEW u \in 1 .. MaxVersion, NEW ins, Tracked(x, u, ins)
    PROVE  Tracked(x, u, ins)'
  <1>1. /\ store'[k] = pod /\ (x # k => store'[x] = store[x])
        /\ version' = version + 1 /\ version \in Nat
    BY Zenon, EffectStore
  <1>2. /\ item \in Items' /\ (\A o \in Items' : o = item \/ o \in Items)
        /\ (\A o \in Items : o \in Items' \/ (o.key = k /\ o.uid = item.uid)) /\ item.key = k
    BY Zenon, ItemsAfter DEF Effect
  <1>3. u \in Nat /\ u # 0
    BY MaxVersionAssumption
  <1>4. relisted \subseteq relisted'
    BY Zenon DEF Effect
  <1>5. Consistent(x, u, ins) /\ Consistent(x, u, ins)'
    <2>1. Consistent(x, u, ins)
      BY Zenon DEF Tracked
    <2> QED BY <2>1, EffectFits
  <1>6. u > version => ins = NoInstance
    BY Zenon, <1>5 DEF Consistent
  <1>7. /\ store[x].uid = u /\ ~Waits(x, u) => LiveOf(ins) = LiveOf(Converted(Blank, store[x].pod))
        /\ store[x].uid # u /\ IsLive(ins) => x \in relisted \/ Dying(x, u)
    BY Zenon DEF Tracked
  <1>9. CASE x # k
    <2>1. Waits(x, u)' <=> Waits(x, u)
      BY Zenon, <1>2, <1>9 DEF Waits
    <2>2. Dying(x, u)' <=> Dying(x, u)
      BY Zenon, <1>2, <1>9 DEF Dying
    <2>3. store'[x] = store[x]
      BY Zenon, <1>1, <1>9
    <2>4. /\ store'[x].uid = u /\ ~Waits(x, u)' => LiveOf(ins) = LiveOf(Converted(Blank, store'[x].pod))
          /\ store'[x].uid # u /\ IsLive(ins) => x \in relisted' \/ Dying(x, u)'
      BY ZenonT(60), <1>4, <1>7, <2>1, <2>2, <2>3
    <2> QED BY Zenon, <1>5, <2>4 DEF Tracked
  <1>10. CASE x = k
    <2>1. ASSUME store'[k].uid = u
          PROVE  Waits(k, u)'
      <3>1. item.uid = u
        BY Zenon, <1>1, <1>3, <2>1 DEF Effect, NewPod, NewVersion, PodEnds
      <3> QED BY Zenon, <1>2, <3>1 DEF Waits
    <2>2. ASSUME store'[k].uid # u, IsLive(ins)
          PROVE  k \in relisted' \/ Dying(k, u)'
      <3>1. ins # NoInstance
        BY Zenon, <2>2, NoInstanceFacts
      <3>2. u <= version
        BY <1>1, <1>3, <1>6, <3>1
      <3>3. CASE store[k].uid = u
        <4>1. CASE NewPod(k, pod, item)
          BY Zenon, <1>3, <3>3, <4>1 DEF NewPod
        <4>2. CASE NewVersion(k, pod, item)
          BY Zenon, <1>1, <2>2, <3>3, <4>2 DEF NewVersion
        <4>3. CASE PodEnds(k, pod, item)
          BY Zenon, <1>2, <3>3, <4>3 DEF PodEnds, Dying
        <4> QED BY Zenon, <4>1, <4>2, <4>3 DEF Effect
      <3>4. CASE store[k].uid # u
        <4>1. k \in relisted \/ Dying(k, u)
          BY Zenon, <1>7, <1>10, <2>2, <3>4
        <4>2. ASSUME NEW o \in Items, o.key = k, o.uid = u, o.event = "delete"
              PROVE  o \in Items'
          <5>1. item.uid # u
            BY <1>1, <1>3, <3>2, <3>4 DEF Effect, NewPod, NewVersion, PodEnds
          <5> QED BY ZenonT(60), <1>2, <4>2, <5>1
        <4>3. Dying(k, u) => Dying(k, u)'
          BY Zenon, <4>2 DEF Dying
        <4> QED BY Zenon, <1>4, <4>1, <4>3
      <3> QED BY Zenon, <3>3, <3>4
    <2>3. /\ store'[x].uid = u /\ ~Waits(x, u)' => LiveOf(ins) = LiveOf(Converted(Blank, store'[x].pod))
          /\ store'[x].uid # u /\ IsLive(ins) => x \in relisted' \/ Dying(x, u)'
      BY Zenon, <1>10, <2>1, <2>2
    <2> QED BY Zenon, <1>5, <2>3 DEF Tracked
  <1> QED BY Zenon, <1>9, <1>10

\* Nothing but the store, the version, the queue and relisted changes.
LEMMA SourceKeeps ==
    ASSUME IInv, Source
    PROVE  IInv'
  <1>1. StoreInv /\ QueueInv /\ CacheInv /\ LifeInv
    BY Zenon DEF IInv
  <1>2. PICK k, pod, item : k \in Keys /\ item \in Item /\ Effect(k, pod, item)
    BY Zenon, <1>1, SourceEffect
  <1>3. StoreInv' /\ QueueInv'
    BY Zenon, <1>1, <1>2, EffectStore
  <1>4. /\ UNCHANGED <<pop, obj, cache, generation, bootedBy, full, held, heldGeneration, confirmed>>
        /\ UNCHANGED <<monitor, ticking>>
    BY Zenon, <1>2 DEF Effect, popVars, cacheVars, fullVars, lifeVars
  <1>5. LifeInv'
    BY Zenon, <1>1, <1>4 DEF LifeInv, Live
  <1>6. CacheInv'
    <2>1. TracksAll(cache) => TracksAll(cache)'
      BY Zenon, <1>1, <1>2, <1>4, EffectTracks DEF TracksAll
    <2>2. TracksAll(held) => TracksAll(held)'
      BY Zenon, <1>1, <1>2, <1>4, EffectTracks DEF TracksAll
    <2>3. FitsAll(cache) => FitsAll(cache)'
      BY Zenon, <1>1, <1>2, <1>4, EffectFits DEF FitsAll
    <2>4. FitsAll(held) => FitsAll(held)'
      BY Zenon, <1>1, <1>2, <1>4, EffectFits DEF FitsAll
    <2> QED BY Zenon, <1>1, <1>4, <2>1, <2>2, <2>3, <2>4 DEF CacheInv
  <1> QED BY Zenon, <1>3, <1>5, <1>6 DEF IInv

-----------------------------------------------------------------------------
(***************************************************************************)
(* The pop loop.                                                           *)
(***************************************************************************)
LEMMA SameEvents ==
    ASSUME UNCHANGED sourceVars, Items' = Items
    PROVE  /\ StoreInv <=> StoreInv'
           /\ \A o : Sound(o) <=> Sound(o)'
           /\ \A x, u, ins : Consistent(x, u, ins) <=> Consistent(x, u, ins)'
           /\ \A x, u, ins : Tracked(x, u, ins) <=> Tracked(x, u, ins)'
  <1>1. store' = store /\ version' = version /\ relisted' = relisted
    BY Zenon DEF sourceVars
  <1>2. \A x, u : (Waits(x, u) <=> Waits(x, u)') /\ (Dying(x, u) <=> Dying(x, u)')
    BY Zenon DEF Waits, Dying
  <1>3. StoreInv <=> StoreInv'
    BY Zenon, <1>1 DEF StoreInv, PodOK
  <1>4. \A o : Sound(o) <=> Sound(o)'
    BY ZenonT(60), <1>1 DEF Sound
  <1>5. \A x, u, ins : Consistent(x, u, ins) <=> Consistent(x, u, ins)'
    BY <1>1 DEF Consistent, Present1
  <1>6. \A x, u, ins : Tracked(x, u, ins) <=> Tracked(x, u, ins)'
    BY <1>1, <1>2, <1>5 DEF Tracked
  <1> QED BY Zenon, <1>3, <1>4, <1>5, <1>6

\* A step that leaves the pods, the events and the cache alone, and starts no
\* bootstrap.
LEMMA CacheQuiet ==
    ASSUME CacheInv, UNCHANGED sourceVars, Items' = Items, UNCHANGED <<cache, bootedBy>>, DOMAIN held' = Ids,
           full' = "install" => full = "install" /\ held' = held /\ (~ticking' => ~ticking)
    PROVE  CacheInv'
  <1>1. /\ \A x, u, ins : Consistent(x, u, ins) <=> Consistent(x, u, ins)'
        /\ \A x, u, ins : Tracked(x, u, ins) <=> Tracked(x, u, ins)'
    BY Zenon, SameEvents
  <1>2. cache' = cache /\ bootedBy' = bootedBy
    BY Zenon
  <1>3. (FitsAll(cache) => FitsAll(cache)') /\ (TracksAll(cache) => TracksAll(cache)')
    BY Zenon, <1>1, <1>2 DEF FitsAll, TracksAll
  <1>4. held' = held => (FitsAll(held) => FitsAll(held)') /\ (TracksAll(held) => TracksAll(held)')
    BY Zenon, <1>1 DEF FitsAll, TracksAll
  <1> QED BY Zenon, <1>2, <1>3, <1>4 DEF CacheInv

\* Pop: an event passes from the queue into the hands of the monitor.
LEMMA PopKeeps ==
    ASSUME IInv, Pop
    PROVE  IInv'
  <1>1. StoreInv /\ QueueInv /\ CacheInv /\ LifeInv
    BY Zenon DEF IInv
  <1>2. /\ pop = "pop" /\ queue # <<>> /\ obj' = Head(queue) /\ queue' = Tail(queue) /\ pop' = "read"
        /\ UNCHANGED sourceVars
        /\ UNCHANGED <<cache, generation, bootedBy, full, held, heldGeneration, monitor, ticking>>
    BY Zenon DEF Pop, cacheVars, fullVars, lifeVars
  <1>3. queue \in Seq(Item) /\ \A o \in Items : Sound(o)
    BY Zenon, <1>1, ItemsSound
  <1>4. /\ Len(queue) \in Nat \ {0} /\ DOMAIN queue = 1 .. Len(queue)
        /\ Head(queue) = queue[1] /\ Tail(queue) \in Seq(Item) /\ Len(Tail(queue)) = Len(queue) - 1
        /\ \A i \in 1 .. Len(queue) - 1 : Tail(queue)[i] = queue[i + 1]
    BY <1>2, <1>3, EmptySeq, HeadTailProperties
  <1>5. DOMAIN Tail(queue) = 1 .. Len(queue) - 1
    BY <1>4
  <1>6. Items' = Items
    <2>1. Items' = {Tail(queue)[i] : i \in DOMAIN Tail(queue)} \cup {Head(queue)}
      BY Zenon, <1>2 DEF Items
    <2>2. Items = {queue[i] : i \in DOMAIN queue}
      BY Zenon, <1>2 DEF Items
    <2>3. ASSUME NEW i \in DOMAIN queue
          PROVE  queue[i] \in Items'
      <3>1. CASE i = 1
        BY Zenon, <1>4, <2>1, <3>1
      <3>2. CASE i # 1
        <4>1. i - 1 \in 1 .. Len(queue) - 1 /\ (i - 1) + 1 = i
          BY <1>4, <3>2
        <4>2. Tail(queue)[i - 1] = queue[i] /\ i - 1 \in DOMAIN Tail(queue)
          BY Zenon, <1>4, <1>5, <4>1
        <4> QED BY Zenon, <2>1, <4>2
      <3> QED BY Zenon, <3>1, <3>2
    <2>4. ASSUME NEW i \in DOMAIN Tail(queue)
          PROVE  Tail(queue)[i] \in Items
      <3>1. i + 1 \in DOMAIN queue /\ Tail(queue)[i] = queue[i + 1]
        BY <1>4, <1>5
      <3> QED BY Zenon, <2>2, <3>1
    <2>5. Head(queue) \in Items
      BY <1>4, <2>2
    <2> QED BY Zenon, <2>1, <2>2, <2>3, <2>4, <2>5
  <1>7. StoreInv' /\ \A o \in Items' : Sound(o)'
    BY Zenon, <1>1, <1>2, <1>3, <1>6, SameEvents
  <1>8. QueueInv'
    BY Zenon, <1>2, <1>4, <1>7 DEF QueueInv, Items
  <1>9. CacheInv'
    <2>1. DOMAIN held = Ids
      BY Zenon, <1>1 DEF CacheInv
    <2> QED BY Zenon, <1>1, <1>2, <1>6, <2>1, CacheQuiet
  <1>10. LifeInv'
    BY Zenon, <1>1, <1>2 DEF LifeInv, Live
  <1> QED BY Zenon, <1>7, <1>8, <1>9, <1>10 DEF IInv

\* What applying event o makes of the cached instance.
Applied(o, cached, result) ==
    /\ result = NoInstance \/ Known(result)
    /\ IsLive(result) => result.ip # Blank
    /\ Found(o) => Present1(o.key, result) /\ LiveOf(result) = LiveOf(Converted(Blank, store[o.key].pod))
    /\ ~Found(o) => ~IsLive(result) \/ (o.event # "delete" /\ result = cached)

\* The instance pod2Instance converts for event o, the one it stores, if any,
\* and the one that is cached then.
Applies(o, cached, ins, new, result) ==
    /\ ins = IF Found(o) THEN Converted(o.event, store[o.key].pod) ELSE NoInstance
    /\ new = IF (Found(o) /\ ins # NoInstance) \/ (~Found(o) /\ o.event = "delete")
             THEN Outcome(ins, cached) ELSE NoInstance
    /\ result = IF new = NoInstance THEN cached ELSE new

\* What pod2Instance makes of the instance of its pod.
LEMMA AppliedTracks ==
    ASSUME StoreInv, NEW o, Sound(o), NEW cached, Consistent(o.key, o.uid, cached),
           NEW ins, NEW new, NEW result, Applies(o, cached, ins, new, result)
    PROVE  Applied(o, cached, result)
  <1>0. /\ ins = IF Found(o) THEN Converted(o.event, store[o.key].pod) ELSE NoInstance
        /\ new = IF (Found(o) /\ ins # NoInstance) \/ (~Found(o) /\ o.event = "delete")
                 THEN Outcome(ins, cached) ELSE NoInstance
        /\ result = IF new = NoInstance THEN cached ELSE new
    BY Zenon DEF Applies
  <1>1. /\ o.key \in Keys /\ o.uid # 0 /\ o.uid \in Nat
        /\ o.event = "delete" => ~Found(o)
    BY DEF Sound, Item, Found
  <1>2. cached = NoInstance \/ Known(cached)
    BY Zenon DEF Consistent
  <1>3. IsLive(cached) => cached.ip # Blank
    BY Zenon DEF Consistent
  <1>4. CASE Found(o)
    <2>1. store[o.key].uid = o.uid /\ store[o.key].uid # 0 /\ o.event # "delete"
      BY Zenon, <1>1, <1>4 DEF Found
    <2>2. PICK pod : pod = store[o.key].pod
      BY Zenon
    <2>3. /\ pod.version \in 1 .. version /\ Converted(o.event, pod) = Converted(Blank, pod)
          /\ Converted(Blank, pod) # NoInstance =>
                /\ Known(Converted(Blank, pod)) /\ Converted(Blank, pod).reversion = pod.version
                /\ IsLive(Converted(Blank, pod)) => Converted(Blank, pod).ip # Blank
      BY Zenon, <1>1, <2>1, <2>2, PodFacts
    <2>4. ins = Converted(Blank, pod)
      BY Zenon, <1>0, <1>4, <2>2, <2>3
    <2>5. cached # NoInstance => /\ ins # NoInstance /\ cached.reversion <= pod.version
                                 /\ cached.reversion = pod.version => LiveOf(cached) = LiveOf(ins)
      BY Zenon, <2>1, <2>2, <2>4 DEF Consistent, Present1
    <2>6. CASE ins = NoInstance
      <3>1. result = NoInstance
        BY Zenon, <1>0, <1>4, <2>5, <2>6
      <3> QED BY Zenon, <1>4, <2>2, <2>4, <2>6, <3>1, NoInstanceFacts DEF Present1, Applied
    <2>7. CASE ins # NoInstance
      <3>1. Known(ins) /\ ins.reversion = pod.version /\ (IsLive(ins) => ins.ip # Blank)
        BY Zenon, <2>3, <2>4, <2>7
      <3>2. result = IF Outcome(ins, cached) = NoInstance THEN cached ELSE Outcome(ins, cached)
        BY ZenonT(60), <1>0, <1>4, <2>7
      <3>3. /\ result = NoInstance \/ (Known(result) /\ result.reversion <= ins.reversion)
            /\ LiveOf(result) = LiveOf(ins)
        BY <1>2, <1>3, <2>5, <3>1, <3>2, OutcomeFollows
      <3>4. IsLive(result) => result.ip # Blank
        <4>1. IsLive(result) => result = ins \/ result = NoInstance
          BY Zenon, <3>3 DEF LiveOf
        <4> QED BY Zenon, <3>1, <4>1, NoInstanceFacts
      <3>5. Present1(o.key, result)
        BY Zenon, <2>2, <2>4, <2>7, <3>1, <3>3 DEF Present1
      <3> QED BY Zenon, <1>4, <2>2, <2>4, <3>3, <3>4, <3>5 DEF Applied
    <2> QED BY Zenon, <2>6, <2>7
  <1>5. CASE ~Found(o)
    <2>1. ins = NoInstance
      BY Zenon, <1>0, <1>5
    <2>2. CASE o.event # "delete"
      <3>1. result = cached
        BY Zenon, <1>0, <1>5, <2>2
      <3> QED BY Zenon, <1>2, <1>3, <1>5, <2>2, <3>1 DEF Applied
    <2>3. CASE o.event = "delete" /\ IsLive(cached)
      <3>1. cached # NoInstance /\ Known(cached)
        BY Zenon, <1>2, <2>3, NoInstanceFacts
      <3>2. new = [cached EXCEPT !.status = Offline]
        BY Zenon, <1>0, <1>5, <2>1, <2>3 DEF Outcome
      <3>3. DOMAIN new = Fields /\ new.status = Offline /\ new.reversion = cached.reversion
        BY Zenon, <3>1, <3>2 DEF Known, Fields
      <3>4. Known(new) /\ ~IsLive(new) /\ new # NoInstance
        <4>1. Known(new) /\ ~IsLive(new)
          BY <3>1, <3>3 DEF Known, IsLive, Offline
        <4>2. new.status # 0
          BY <3>3 DEF Offline
        <4> QED BY ZenonT(60), <4>1, <4>2, NoInstanceFacts
      <3> QED BY Zenon, <1>0, <1>5, <3>4 DEF Applied
    <2>4. CASE o.event = "delete" /\ ~IsLive(cached)
      <3>1. result = cached
        BY Zenon, <1>0, <1>5, <2>1, <2>4 DEF Outcome
      <3> QED BY Zenon, <1>2, <1>3, <1>5, <2>4, <3>1 DEF Applied
    <2> QED BY Zenon, <2>2, <2>3, <2>4
  <1> QED BY ZenonT(60), <1>4, <1>5

\* The event in hand is converted and applied to the cache.
LEMMA Pod2InstanceKeeps ==
    ASSUME IInv, Pod2Instance
    PROVE  IInv'
  <1>1. StoreInv /\ QueueInv /\ CacheInv /\ LifeInv
    BY Zenon DEF IInv
  <1>2. /\ pop = "read" /\ pop' = "pop" /\ UNCHANGED sourceVars /\ queue' = queue
        /\ UNCHANGED <<bootedBy, full, held, heldGeneration, monitor, ticking>>
    BY Zenon DEF Pod2Instance, fullVars, lifeVars
  <1>3. queue \in Seq(Item) /\ (\A o \in Items : Sound(o)) /\ Sound(obj)
    BY Zenon, <1>1, <1>2, ItemsSound DEF QueueInv
  <1>4. store' = store /\ version' = version /\ relisted' = relisted
    BY Zenon, <1>2 DEF sourceVars
  <1>5. Items' \subseteq Items /\ Items = Items' \cup {obj}
    BY Zenon, <1>2 DEF Items
  <1>6. PICK k, u : k = obj.key /\ u = obj.uid
    BY Zenon
  <1>7. k \in Keys /\ u \in 1 .. version /\ u \in 1 .. MaxVersion
    BY <1>1, <1>3, <1>6, MaxVersionAssumption DEF Sound, Item, StoreInv
  <1>8. PICK cached : cached = cache[<<k, u>>]
    BY Zenon
  <1>9. PICK ins : ins = IF Found(obj) THEN Converted(obj.event, store[obj.key].pod) ELSE NoInstance
    BY Zenon
  <1>10. PICK new : new = IF (Found(obj) /\ ins # NoInstance) \/ (~Found(obj) /\ obj.event = "delete")
                          THEN Outcome(ins, cached) ELSE NoInstance
    BY Zenon
  <1>11. \/ new = NoInstance /\ cache' = cache /\ generation' = generation
         \/ new # NoInstance /\ cache' = [cache EXCEPT ![<<k, u>>] = new] /\ generation' = generation + 1
    <2>1. <<obj.key, IF Found(obj) THEN store[obj.key].uid ELSE obj.uid>> = <<k, u>>
      BY Zenon, <1>6 DEF Found
    <2> QED BY Zenon, <1>6, <1>8, <1>9, <1>10, <2>1 DEF Pod2Instance
  <1>12. PICK result : result = IF new = NoInstance THEN cached ELSE new
    BY Zenon
  <1>13. <<k, u>> \in Ids /\ DOMAIN cache = Ids
    BY Zenon, <1>1, <1>7 DEF Ids, CacheInv
  <1>14. /\ DOMAIN cache' = Ids /\ cache'[<<k, u>>] = result
         /\ \A id \in Ids : id # <<k, u>> => cache'[id] = cache[id]
    BY Zenon, <1>8, <1>11, <1>12, <1>13
  <1>15. StoreInv'
    BY Zenon, <1>1, <1>4 DEF StoreInv, PodOK
  <1>16. QueueInv'
    BY Zenon, <1>2, <1>3, <1>4 DEF QueueInv, Sound, Items
  <1>17. LifeInv'
    <2>1. generation' \in Nat /\ heldGeneration <= generation' /\ (bootedBy = "startup" => generation' # 0)
      BY <1>1, <1>11 DEF LifeInv
    <2>2. full = "compare" /\ generation' = heldGeneration => held = Live(cache')
      <3>1. generation' = heldGeneration => generation' = generation /\ cache' = cache
        BY <1>1, <1>11 DEF LifeInv
      <3> QED BY Zenon, <1>1, <3>1 DEF LifeInv
    <2>3. pop # "off"
      BY Zenon, <1>2
    <2> QED BY Zenon, <1>1, <1>2, <2>1, <2>2, <2>3 DEF LifeInv, Live
  <1>18. PICK before : before = cache
    BY Zenon
  <1>20. Applied(obj, cached, result) /\ Consistent(k, u, result)'
    <2>1. Consistent(obj.key, obj.uid, cached)
      BY Zenon, <1>1, <1>6, <1>7, <1>8 DEF CacheInv, FitsAll
    <2>2. Applies(obj, cached, ins, new, result)
      BY Zenon, <1>9, <1>10, <1>12 DEF Applies
    <2>3. Applied(obj, cached, result)
      BY <1>1, <1>3, <2>1, <2>2, AppliedTracks
    <2>4. Present1(k, result) => Present1(k, result)'
      BY Zenon, <1>4 DEF Present1
    <2>5. ~(u > version')
      BY <1>1, <1>4, <1>7, MaxVersionAssumption DEF StoreInv
    <2>6. store'[k].uid = u => Found(obj)
      BY Zenon, <1>4, <1>6 DEF Found
    <2> QED BY Zenon, <1>6, <2>3, <2>4, <2>5, <2>6 DEF Consistent, Applied
  <1>21. ASSUME NEW x \in Keys, NEW v \in 1 .. MaxVersion, ~(x = k /\ v = u)
         PROVE  cache'[<<x, v>>] = before[<<x, v>>]
    <2>1. <<x, v>> \in Ids /\ <<x, v>> # <<k, u>>
      BY Zenon, <1>21 DEF Ids
    <2> QED BY Zenon, <1>14, <1>18, <2>1
  <1>22. ASSUME NEW x \in Keys, NEW v \in 1 .. MaxVersion
         PROVE  Consistent(x, v, cache[<<x, v>>])'
    <2>1. CASE x = k /\ v = u
      BY Zenon, <1>14, <1>20, <2>1 DEF Consistent, Present1
    <2>2. CASE ~(x = k /\ v = u)
      <3>1. PICK c : c = before[<<x, v>>] /\ c = cache'[<<x, v>>]
        BY Zenon, <1>21, <2>2
      <3>2. Consistent(x, v, c)
        BY Zenon, <1>1, <1>18, <3>1 DEF CacheInv, FitsAll
      <3>3. Consistent(x, v, c)'
        BY Zenon, <1>4, <3>2 DEF Consistent, Present1
      <3> QED BY Zenon, <3>1, <3>3 DEF Consistent, Present1
    <2> QED BY Zenon, <2>1, <2>2
  <1>23. ASSUME TracksAll(cache), NEW x \in Keys, NEW v \in 1 .. MaxVersion
         PROVE  Tracked(x, v, cache[<<x, v>>])'
    <2>1. CASE x = k /\ v = u
      <3>1. Tracked(k, u, cached)
        BY Zenon, <1>7, <1>8, <1>23 DEF TracksAll
      <3>2. Found(obj) <=> store[k].uid = u
        BY Zenon, <1>6 DEF Found
      <3>3. ASSUME store[k].uid # u, IsLive(result)
            PROVE  k \in relisted' \/ Dying(k, u)'
        <4>1. obj.event # "delete" /\ result = cached
          BY Zenon, <1>20, <3>2, <3>3 DEF Applied
        <4>2. k \in relisted \/ Dying(k, u)
          BY ZenonT(60), <3>1, <3>3, <4>1 DEF Tracked
        <4>3. Dying(k, u) => Dying(k, u)'
          BY Zenon, <1>5, <4>1 DEF Dying
        <4> QED BY Zenon, <1>4, <4>2, <4>3
      <3>4. store'[k].uid = u => LiveOf(result) = LiveOf(Converted(Blank, store'[k].pod))
        BY Zenon, <1>4, <1>6, <1>20, <3>2 DEF Applied
      <3>5. Tracked(k, u, result)'
        BY Zenon, <1>4, <1>20, <3>3, <3>4 DEF Tracked
      <3> QED BY Zenon, <1>14, <2>1, <3>5 DEF Tracked, Consistent, Present1
    <2>2. CASE ~(x = k /\ v = u)
      <3>1. PICK c : c = before[<<x, v>>] /\ c = cache'[<<x, v>>]
        BY Zenon, <1>21, <2>2
      <3>2. Tracked(x, v, c)
        BY Zenon, <1>18, <1>23, <3>1 DEF TracksAll
      <3>3. (Waits(x, v)' <=> Waits(x, v)) /\ (Dying(x, v)' <=> Dying(x, v))
        BY Zenon, <1>5, <1>6, <2>2 DEF Waits, Dying
      <3>4. Tracked(x, v, c)'
        BY Zenon, <1>4, <3>2, <3>3 DEF Tracked, Consistent, Present1
      <3> QED BY Zenon, <3>1, <3>4 DEF Tracked, Consistent, Present1
    <2> QED BY Zenon, <2>1, <2>2
  <1>19. CacheInv'
    <2>1. (TracksAll(cache) => TracksAll(cache)') /\ FitsAll(cache)'
      BY Zenon, <1>22, <1>23 DEF TracksAll, FitsAll
    <2>2. ~(full' = "install" /\ ~ticking')
      BY Zenon, <1>1, <1>2 DEF LifeInv
    <2>3. FitsAll(held) => FitsAll(held)'
      BY Zenon, <1>2, <1>4 DEF FitsAll, Consistent, Present1
    <2> QED BY Zenon, <1>1, <1>2, <1>14, <2>1, <2>2, <2>3 DEF CacheInv
  <1> QED BY Zenon, <1>15, <1>16, <1>17, <1>19 DEF IInv

-----------------------------------------------------------------------------
(***************************************************************************)
(* The full push.                                                          *)
(***************************************************************************)
\* A step that leaves the pods, the queue and the event in work alone.
LEMMA QuietSource ==
    ASSUME StoreInv, QueueInv, UNCHANGED <<sourceVars, queue, obj>>, pop' = "read" <=> pop = "read"
    PROVE  StoreInv' /\ QueueInv' /\ UNCHANGED sourceVars /\ Items' = Items
  <1>1. UNCHANGED sourceVars /\ queue' = queue /\ obj' = obj
    BY Zenon
  <1>2. Items' = Items
    BY Zenon, <1>1 DEF Items
  <1>3. StoreInv' /\ \A o : Sound(o) <=> Sound(o)'
    BY Zenon, <1>1, <1>2, SameEvents
  <1>4. QueueInv'
    BY Zenon, <1>1, <1>3 DEF QueueInv
  <1> QED BY Zenon, <1>1, <1>2, <1>3, <1>4

\* GetAll follows the pods.
LEMMA GetAllTracks ==
    ASSUME StoreInv, NEW all, all = GetAll
    PROVE  DOMAIN all = Ids /\ TracksAll(all) /\ FitsAll(all)
  <1>1. DOMAIN all = Ids
    BY Zenon DEF GetAll
  <1>2. ASSUME NEW k \in Keys, NEW u \in 1 .. MaxVersion
        PROVE  Tracked(k, u, all[<<k, u>>])
    <2>1. version \in Nat /\ store[k].uid \in 0 .. version /\ u \in Nat /\ u # 0
      BY MaxVersionAssumption DEF StoreInv
    <2>2. PICK now : now = Converted(Blank, store[k].pod)
      BY Zenon
    <2>3. PICK ins : ins = IF store[k].uid = u THEN now ELSE NoInstance
      BY Zenon
    <2>4. all[<<k, u>>] = ins
      <3>1. <<k, u>> \in Ids /\ <<k, u>>[1] = k /\ <<k, u>>[2] = u
        BY Zenon DEF Ids
      <3>2. all = [id \in Ids |-> IF store[id[1]].uid = id[2] THEN Converted(Blank, store[id[1]].pod) ELSE NoInstance]
        BY Zenon DEF GetAll, Blank
      <3> QED BY Zenon, <2>2, <2>3, <3>1, <3>2
    <2>5. CASE store[k].uid # u
      <3>1. ins = NoInstance
        BY Zenon, <2>3, <2>5
      <3> QED BY Zenon, <2>4, <2>5, <3>1, NoInstanceFacts DEF Tracked, Consistent
    <2>6. CASE store[k].uid = u
      <3>1. ins = now
        BY Zenon, <2>3, <2>6
      <3>2. now # NoInstance => Known(now) /\ now.reversion = store[k].pod.version /\ (IsLive(now) => now.ip # Blank)
        BY ZenonT(60), <2>1, <2>2, <2>6, PodFacts
      <3>3. store[k].pod.version \in Nat
        BY <2>1, <2>6, PodFacts
      <3>4. Present1(k, ins)
        BY <2>2, <3>1, <3>2, <3>3 DEF Present1
      <3>5. ~(u > version)
        BY <2>1, <2>6
      <3> QED BY ZenonT(60), <2>2, <2>4, <2>6, <3>1, <3>2, <3>4, <3>5, NoInstanceFacts DEF Tracked, Consistent
    <2> QED BY Zenon, <2>5, <2>6
  <1> QED BY Zenon, <1>1, <1>2 DEF TracksAll, FitsAll, Tracked

\* The startup compare and the tick build their list from the store.
LEMMA BootstrapKeeps ==
    ASSUME IInv, Synced \/ Tick
    PROVE  IInv'
  <1>1. StoreInv /\ QueueInv /\ CacheInv /\ LifeInv
    BY Zenon DEF IInv
  <1>2. /\ UNCHANGED <<sourceVars, queue, obj>> /\ pop' = pop /\ Bootstrap
        /\ UNCHANGED <<cache, generation, bootedBy, ticking>>
    BY Zenon DEF Synced, Tick, popVars, cacheVars, lifeVars
  <1>3. /\ full = "idle" /\ (~ticking => pop = "off")
        /\ monitor' # "syncing" /\ (monitor' = "startup" => pop = "off" /\ ~ticking)
    BY Zenon, <1>1 DEF Synced, Tick, LifeInv, lifeVars
  <1>4. StoreInv' /\ QueueInv' /\ UNCHANGED sourceVars /\ Items' = Items
    BY Zenon, <1>1, <1>2, QuietSource
  <1>5. /\ held' = IF generation # 0 THEN Nothing ELSE GetAll
        /\ full' = IF generation # 0 THEN "snapshot" ELSE IF held' = Nothing THEN "syncall" ELSE "install"
        /\ heldGeneration' = 0
    BY Zenon, <1>2 DEF Bootstrap
  <1>6. DOMAIN held' = Ids /\ (full' = "install" => held' = GetAll)
    <2>1. PICK all : all = GetAll
      BY Zenon
    <2>2. DOMAIN all = Ids /\ DOMAIN Nothing = Ids
      BY Zenon, <1>1, <2>1, GetAllTracks DEF Nothing
    <2> QED BY Zenon, <1>5, <2>1, <2>2
  <1>7. /\ \A x, u, ins : Consistent(x, u, ins) <=> Consistent(x, u, ins)'
        /\ \A x, u, ins : Tracked(x, u, ins) <=> Tracked(x, u, ins)'
    BY Zenon, <1>4, SameEvents
  <1>10. full' = "install" => TracksAll(held)' /\ FitsAll(held)'
    <2>1. PICK all : all = GetAll
      BY Zenon
    <2>2. TracksAll(all) /\ FitsAll(all)
      BY Zenon, <1>1, <2>1, GetAllTracks
    <2>3. \A x \in Keys, u \in 1 .. MaxVersion : Tracked(x, u, all[<<x, u>>])' /\ Consistent(x, u, all[<<x, u>>])'
      BY Zenon, <1>7, <2>2 DEF TracksAll, FitsAll
    <2> QED BY Zenon, <1>6, <2>1, <2>3 DEF TracksAll, FitsAll
  <1>8. CacheInv'
    <2>1. (FitsAll(cache) => FitsAll(cache)') /\ (TracksAll(cache) => TracksAll(cache)')
      BY Zenon, <1>2, <1>7 DEF FitsAll, TracksAll
    <2> QED BY Zenon, <1>1, <1>2, <1>6, <1>10, <2>1 DEF CacheInv
  <1>9. LifeInv'
    BY <1>1, <1>2, <1>3, <1>5 DEF LifeInv
  <1> QED BY Zenon, <1>4, <1>8, <1>9 DEF IInv

\* The list replaces the cache, unless an event has changed it in the meantime.
LEMMA InstallKeeps ==
    ASSUME IInv, Install
    PROVE  IInv'
  <1>1. StoreInv /\ QueueInv /\ CacheInv /\ LifeInv
    BY Zenon DEF IInv
  <1>2. /\ UNCHANGED <<sourceVars, queue, obj>> /\ pop' = pop
        /\ UNCHANGED <<monitor, ticking>> /\ full = "install" /\ full' = "snapshot"
        /\ held' = Nothing /\ heldGeneration' = 0
    BY Zenon DEF Install, popVars, lifeVars
  <1>3. StoreInv' /\ QueueInv' /\ UNCHANGED sourceVars /\ Items' = Items
    BY Zenon, <1>1, <1>2, QuietSource
  <1>4. \/ cache' = held /\ generation' = generation + 1 /\ bootedBy' = IF ticking THEN "tick" ELSE "startup"
        \/ cache' = cache /\ generation' = generation /\ bootedBy' = bootedBy
    BY Zenon DEF Install, cacheVars
  <1>5. DOMAIN held' = Ids
    BY Zenon, <1>2 DEF Nothing
  <1>6. CacheInv'
    <2>1. CASE cache' = held /\ bootedBy' = IF ticking THEN "tick" ELSE "startup"
      <3>1. bootedBy' = "startup" => ~ticking
        BY Zenon, <2>1
      <3>2. (bootedBy' = "startup" => TracksAll(held)) /\ FitsAll(held)
        BY Zenon, <1>1, <1>2, <3>1 DEF CacheInv
      <3>3. /\ \A x, u, ins : Consistent(x, u, ins) <=> Consistent(x, u, ins)'
            /\ \A x, u, ins : Tracked(x, u, ins) <=> Tracked(x, u, ins)'
        BY Zenon, <1>3, SameEvents
      <3>4. (FitsAll(held) => FitsAll(cache)') /\ (TracksAll(held) => TracksAll(cache)')
        BY Zenon, <2>1, <3>3 DEF FitsAll, TracksAll
      <3> QED BY Zenon, <1>1, <1>2, <1>5, <2>1, <3>2, <3>4 DEF CacheInv
    <2>2. CASE cache' = cache /\ bootedBy' = bootedBy
      BY Zenon, <1>1, <1>2, <1>3, <1>5, <2>2, CacheQuiet
    <2> QED BY Zenon, <1>4, <2>1, <2>2
  <1>7. LifeInv'
    <2>1. generation' \in Nat /\ (bootedBy' = "startup" => generation' # 0)
      BY <1>1, <1>4 DEF LifeInv
    <2> QED BY <1>1, <1>2, <2>1 DEF LifeInv
  <1> QED BY Zenon, <1>3, <1>6, <1>7 DEF IInv

\* The snapshot for the comparison.
LEMMA SnapshotKeeps ==
    ASSUME IInv, Snapshot
    PROVE  IInv'
  <1>1. StoreInv /\ QueueInv /\ CacheInv /\ LifeInv
    BY Zenon DEF IInv
  <1>2. /\ UNCHANGED <<sourceVars, queue, obj>> /\ pop' = pop
        /\ UNCHANGED <<cache, generation, bootedBy, monitor, ticking>>
        /\ full = "snapshot" /\ held' = Live(cache)
        /\ heldGeneration' = (IF held' = Nothing THEN 0 ELSE generation)
        /\ full' = (IF held' = Nothing THEN "syncall" ELSE "compare")
    BY Zenon DEF Snapshot, OnlyFull, popVars, cacheVars, lifeVars
  <1>3. StoreInv' /\ QueueInv' /\ UNCHANGED sourceVars /\ Items' = Items
    BY Zenon, <1>1, <1>2, QuietSource
  <1>4. DOMAIN held' = Ids
    BY Zenon, <1>2 DEF Live
  <1>5. full' # "install" /\ full' # "end" /\ full' # "idle"
    BY Zenon, <1>2
  <1>6. CacheInv'
    BY Zenon, <1>1, <1>2, <1>3, <1>4, <1>5, CacheQuiet
  <1>7. LifeInv'
    <2>1. heldGeneration' \in Nat /\ heldGeneration' <= generation
      BY <1>1, <1>2 DEF LifeInv
    <2>2. Live(cache)' = Live(cache)
      BY Zenon, <1>2 DEF Live
    <2> QED BY ZenonT(60), <1>1, <1>2, <1>5, <2>1, <2>2 DEF LifeInv
  <1> QED BY Zenon, <1>3, <1>6, <1>7 DEF IInv

\* The steps after the snapshot read the cache and leave it alone.
LEMMA PushKeeps ==
    ASSUME IInv, Compare \/ Check \/ (\E id \in Ids : Submit(id)) \/ EmitSyncAll \/ GatePush
    PROVE  IInv'
  <1>1. StoreInv /\ QueueInv /\ CacheInv /\ LifeInv
    BY Zenon DEF IInv
  <1>2. /\ UNCHANGED <<sourceVars, queue, obj>> /\ pop' = pop
        /\ UNCHANGED <<cache, generation, bootedBy, monitor, ticking>>
    BY Zenon DEF Compare, Check, Submit, EmitSyncAll, GatePush, OnlyFull, popVars, cacheVars, lifeVars
  <1>3. /\ full \in {"compare", "check", "submit", "syncall", "gate"}
        /\ full' \in {"check", "submit", "syncall", "gate", Finished}
    BY Zenon DEF Compare, Check, Submit, EmitSyncAll, GatePush
  <1>4. heldGeneration' = heldGeneration \/ heldGeneration' = 0
    BY Zenon DEF Compare, Check, Submit, EmitSyncAll, GatePush
  <1>5. StoreInv' /\ QueueInv' /\ UNCHANGED sourceVars /\ Items' = Items
    BY Zenon, <1>1, <1>2, QuietSource
  <1>6. DOMAIN held' = Ids
    <2>1. DOMAIN held = Ids /\ DOMAIN Nothing = Ids
      BY Zenon, <1>1 DEF CacheInv, Nothing
    <2>2. CASE Compare
      <3>1. PICK answer : held' = IF answer # Nothing THEN [id \in Ids |-> Correction(held[id], Pushed(answer)[id])]
                                  ELSE IF nacosReconcile THEN Nothing ELSE held
        BY Zenon, <2>2 DEF Compare
      <3> QED BY Zenon, <2>1, <3>1
    <2>3. CASE Check \/ (\E id \in Ids : Submit(id)) \/ EmitSyncAll \/ GatePush
      BY Zenon, <2>1, <2>3 DEF Check, Submit, EmitSyncAll, GatePush
    <2> QED BY Zenon, <2>2, <2>3
  <1>7. full' # "install" /\ full' # "compare" /\ (full' = "end" => ~ticking)
    BY Zenon, <1>3 DEF Finished
  <1>8. CacheInv'
    BY Zenon, <1>1, <1>2, <1>5, <1>6, <1>7, CacheQuiet
  <1>9. LifeInv'
    <2>1. heldGeneration' \in Nat /\ heldGeneration' <= generation
      BY <1>1, <1>4 DEF LifeInv
    <2>2. monitor # "syncing" /\ (~ticking => pop = "off")
      BY Zenon, <1>1, <1>3 DEF LifeInv
    <2> QED BY ZenonT(60), <1>1, <1>2, <1>7, <2>1, <2>2 DEF LifeInv
  <1> QED BY Zenon, <1>5, <1>8, <1>9 DEF IInv

-----------------------------------------------------------------------------
(***************************************************************************)
(* The goroutines' lives.                                                  *)
(***************************************************************************)
\* The pop loop ends, the ticker exits, or the monitor goes on: the cache and
\* the full push are left alone.
LEMMA LifeKeeps ==
    ASSUME IInv, PopFails \/ TickerExits \/ Cancel \/ StopRobot \/ Shutdown \/ Release
    PROVE  IInv'
  <1>1. StoreInv /\ QueueInv /\ CacheInv /\ LifeInv
    BY Zenon DEF IInv
  <1>2. /\ UNCHANGED <<sourceVars, queue, obj>>
        /\ UNCHANGED <<cache, generation, bootedBy, full, held, heldGeneration>>
    BY Zenon DEF PopFails, TickerExits, Cancel, StopRobot, Shutdown, Release, popVars, cacheVars, fullVars
  <1>3. pop' = pop \/ (pop = "pop" /\ pop' = "done")
    BY Zenon DEF PopFails, TickerExits, Cancel, StopRobot, Shutdown, Release, popVars
  <1>4. ticking' = ticking \/ (ticking /\ ~ticking' /\ full = "idle" /\ monitor' = monitor)
    <2>1. CASE TickerExits
      BY Zenon, <2>1 DEF TickerExits
    <2>2. CASE PopFails \/ Cancel \/ StopRobot \/ Shutdown \/ Release
      BY Zenon, <2>2 DEF PopFails, Cancel, StopRobot, Shutdown, Release, lifeVars
    <2> QED BY Zenon, <2>1, <2>2
  <1>5. monitor' = monitor \/ monitor' \in {"draining", "closing", "gone"}
    <2>1. CASE PopFails \/ Cancel \/ TickerExits
      BY Zenon, <2>1 DEF PopFails, Cancel, TickerExits, lifeVars
    <2>2. CASE StopRobot \/ Shutdown \/ Release
      BY Zenon, <2>2 DEF StopRobot, Shutdown, Release
    <2> QED BY Zenon, <2>1, <2>2
  <1>6. StoreInv' /\ QueueInv' /\ UNCHANGED sourceVars /\ Items' = Items
    BY Zenon, <1>1, <1>2, <1>3, QuietSource
  <1>7. full' = "install" /\ ~ticking' => full = "install" /\ ~ticking
    BY Zenon, <1>2, <1>4
  <1>8. CacheInv'
    <2>1. DOMAIN held = Ids
      BY Zenon, <1>1 DEF CacheInv
    <2> QED BY Zenon, <1>1, <1>2, <1>6, <1>7, <2>1, CacheQuiet
  <1>9. LifeInv'
    <2>1. Live(cache)' = Live(cache)
      BY Zenon, <1>2 DEF Live
    <2>2. ~ticking' /\ full' # "idle" => pop' = "off"
      BY Zenon, <1>1, <1>2, <1>3, <1>4 DEF LifeInv
    <2>3. monitor' \in {"syncing", "startup"} => pop' = "off" /\ ~ticking'
      BY Zenon, <1>1, <1>3, <1>4, <1>5 DEF LifeInv
    <2>4. monitor' = "syncing" => full' = "idle"
      BY Zenon, <1>1, <1>2, <1>5 DEF LifeInv
    <2>5. (pop' # "read" => pop' \in {"off", "pop", "done"}) /\ (full' = "end" => ~ticking')
      BY <1>1, <1>2, <1>3, <1>4 DEF LifeInv
    <2> QED BY Zenon, <1>1, <1>2, <2>1, <2>2, <2>3, <2>4, <2>5 DEF LifeInv
  <1> QED BY Zenon, <1>6, <1>8, <1>9 DEF IInv

\* The full push is over, and the provider serves.
LEMMA ServeKeeps ==
    ASSUME IInv, Serve
    PROVE  IInv'
  <1>1. StoreInv /\ QueueInv /\ CacheInv /\ LifeInv
    BY Zenon DEF IInv
  <1>2. /\ UNCHANGED <<sourceVars, queue, obj>>
        /\ UNCHANGED <<cache, generation, bootedBy, held, heldGeneration>>
        /\ monitor = "startup" /\ monitor' = "serving" /\ ticking' = TRUE /\ pop' = "pop" /\ full' = "idle"
    BY Zenon DEF Serve, cacheVars
  <1>3. pop = "off"
    BY Zenon, <1>1, <1>2 DEF LifeInv
  <1>4. StoreInv' /\ QueueInv' /\ UNCHANGED sourceVars /\ Items' = Items
    BY Zenon, <1>1, <1>2, <1>3, QuietSource
  <1>5. CacheInv'
    <2>1. DOMAIN held = Ids
      BY Zenon, <1>1 DEF CacheInv
    <2> QED BY Zenon, <1>1, <1>2, <1>4, <2>1, CacheQuiet
  <1>6. LifeInv'
    BY Zenon, <1>1, <1>2 DEF LifeInv
  <1> QED BY Zenon, <1>4, <1>5, <1>6 DEF IInv

\* A task of the pool, and a step that changes nothing.
LEMMA IdleKeeps ==
    ASSUME IInv, UNCHANGED <<sourceVars, queue, popVars, cacheVars, fullVars, lifeVars>>
    PROVE  IInv'
  <1>1. StoreInv /\ QueueInv /\ CacheInv /\ LifeInv
    BY Zenon DEF IInv
  <1>2. /\ UNCHANGED <<sourceVars, queue, obj>> /\ pop' = pop
        /\ UNCHANGED <<cache, generation, bootedBy, full, held, heldGeneration, monitor, ticking>>
    BY Zenon DEF popVars, cacheVars, fullVars, lifeVars
  <1>3. StoreInv' /\ QueueInv' /\ UNCHANGED sourceVars /\ Items' = Items
    BY Zenon, <1>1, <1>2, QuietSource
  <1>4. CacheInv'
    <2>1. DOMAIN held = Ids
      BY Zenon, <1>1 DEF CacheInv
    <2> QED BY Zenon, <1>1, <1>2, <1>3, <2>1, CacheQuiet
  <1>5. LifeInv'
    BY Zenon, <1>1, <1>2 DEF LifeInv, Live
  <1> QED BY Zenon, <1>3, <1>4, <1>5 DEF IInv

\* The provider before its start.
LEMMA InitIInv == Init => IInv
  <1> SUFFICES ASSUME Init PROVE IInv
    BY Zenon
  <1>1. /\ store = [k \in Keys |-> NoPod] /\ version = 0 /\ queue = <<>> /\ pop = "off"
        /\ cache = Nothing /\ generation = 0 /\ bootedBy = "nobody"
        /\ full = "idle" /\ held = Nothing /\ heldGeneration = 0 /\ monitor = "syncing" /\ ticking = FALSE
    BY Zenon DEF Init
  <1>2. NoPod.uid = 0
    BY Zenon DEF NoPod
  <1>3. StoreInv
    BY <1>1, <1>2, MaxVersionAssumption DEF StoreInv
  <1>4. QueueInv
    BY <1>1 DEF QueueInv
  <1>5. CacheInv
    <2>1. ASSUME NEW k \in Keys, NEW u \in 1 .. MaxVersion
          PROVE  Consistent(k, u, cache[<<k, u>>])
      <3>1. cache[<<k, u>>] = NoInstance
        BY Zenon, <1>1 DEF Nothing, Ids
      <3> QED BY Zenon, <3>1, NoInstanceFacts DEF Consistent, Present1
    <2> QED BY Zenon, <1>1, <2>1 DEF CacheInv, FitsAll, Nothing
  <1>6. LifeInv
    BY <1>1 DEF LifeInv
  <1> QED BY Zenon, <1>3, <1>4, <1>5, <1>6 DEF IInv

\* Every step preserves the invariant.
LEMMA StepIInv == IInv /\ [Next]_vars => IInv'
  <1> SUFFICES ASSUME IInv, [Next]_vars PROVE IInv'
    BY Zenon
  <1>1. CASE Source
    BY Zenon, <1>1, SourceKeeps
  <1>2. CASE PopStep
    BY Zenon, <1>2, PopKeeps, LifeKeeps, Pod2InstanceKeeps DEF PopStep
  <1>3. CASE FullStep
    BY Zenon, <1>3, BootstrapKeeps, InstallKeeps, SnapshotKeeps, PushKeeps DEF FullStep
  <1>4. CASE \E e \in pending : RunTask(e)
    BY Zenon, <1>4, IdleKeeps DEF RunTask
  <1>5. CASE TickerExits \/ Cancel
    BY Zenon, <1>5, LifeKeeps
  <1>6. CASE MonitorStep
    BY Zenon, <1>6, BootstrapKeeps, ServeKeeps, LifeKeeps DEF MonitorStep
  <1>7. CASE UNCHANGED vars
    BY Zenon, <1>7, IdleKeeps DEF vars
  <1> QED BY ZenonT(60), <1>1, <1>2, <1>3, <1>4, <1>5, <1>6, <1>7 DEF Next

-----------------------------------------------------------------------------
(***************************************************************************)
(* The theorems.                                                           *)
(***************************************************************************)
\* The startup copy of the informer store, the events of the queue and the
\* object the pop loop works on together account for the cache, whatever the
\* pods do and whichever way the monitor, the pop loop and the ticker of the
\* provider interleave.
THEOREM K8sInvariantHolds == Spec => []IInv
  <1>1. Init => IInv
    BY Zenon, InitIInv
  <1>2. IInv /\ [Next]_vars => IInv'
    BY Zenon, StepIInv
  <1> QED BY <1>1, <1>2, PTL DEF Spec

-----------------------------------------------------------------------------
(***************************************************************************)
(* The corrections of a compare, against the cache.  What is served, and   *)
(* what is on its way to the registry, is behind the cache (Behind); what  *)
(* a compare may still submit gives way to it (Yields).                    *)
(***************************************************************************)
Behind(ins, now) == Known(ins) /\ now # NoInstance /\ ins.reversion <= now.reversion
Yields(ins, now) == Known(ins) /\ GivesWay(ins, now)

\* The corrections in hand are worth sending.
MaySend == full \in {"compare", "submit"} \/ (full = "check" /\ generation = heldGeneration)

PushInv ==
    /\ generation = 0 => cache = Nothing
    /\ DOMAIN served = Ids
    /\ \A id \in Ids : served[id] = NoInstance \/ Behind(served[id], cache[id])
    /\ \A e \in pending : e.id \in Ids /\ Behind(e.ins, cache[e.id])
    /\ MaySend => \A id \in Ids : held[id] = NoInstance \/ Yields(held[id], cache[id])

\* What pod2Instance makes of a cached instance: it is newer, or as old and
\* not live.
Advances(now, new) ==
    /\ Known(new)
    /\ now # NoInstance => now.reversion < new.reversion \/ (now.reversion = new.reversion /\ ~IsLive(new))

\* What gives way to an instance gives way to what comes after it.
LEMMA AdvanceFacts ==
    ASSUME NEW now, now = NoInstance \/ Known(now), NEW new, Advances(now, new), NEW ins
    PROVE  /\ Yields(ins, now) => Yields(ins, new)
           /\ Behind(ins, now) => Behind(ins, new)
           /\ Behind(new, new)
  <1>1. new # NoInstance /\ new.reversion \in Nat /\ Known(new)
    BY NoInstanceFacts DEF Advances, Known
  <1>2. now # NoInstance => now.reversion \in Nat
    BY Zenon DEF Known
  <1>3. now # NoInstance => now.reversion < new.reversion \/ (now.reversion = new.reversion /\ ~IsLive(new))
    BY Zenon DEF Advances
  <1>4. Known(ins) => ins.reversion \in Nat
    BY Zenon DEF Known
  <1>5. ASSUME Yields(ins, now)
        PROVE  Yields(ins, new)
    <2>1. /\ Known(ins) /\ now # NoInstance
          /\ ins = now \/ ins.reversion < now.reversion \/ ins.reversion = now.reversion
      BY Zenon, <1>5 DEF Yields, GivesWay
    <2>2. ins.reversion < new.reversion \/ (ins.reversion = new.reversion /\ ~IsLive(new))
      BY <1>1, <1>2, <1>3, <1>4, <2>1
    <2> QED BY Zenon, <1>1, <2>1, <2>2 DEF Yields, GivesWay
  <1>6. ASSUME Behind(ins, now)
        PROVE  Behind(ins, new)
    <2>1. Known(ins) /\ now # NoInstance /\ ins.reversion <= now.reversion
      BY Zenon, <1>6 DEF Behind
    <2>2. ins.reversion <= new.reversion
      BY <1>1, <1>2, <1>3, <1>4, <2>1
    <2> QED BY Zenon, <1>1, <2>1, <2>2 DEF Behind
  <1>7. Behind(new, new)
    BY <1>1 DEF Behind
  <1> QED BY Zenon, <1>5, <1>6, <1>7

\* What is submitted as a correction is behind the cache.
LEMMA YieldsBehind ==
    ASSUME NEW ins, NEW now, now = NoInstance \/ Known(now), Yields(ins, now)
    PROVE  Behind(ins, now)
  <1>1. /\ Known(ins) /\ now # NoInstance
        /\ ins = now \/ ins.reversion < now.reversion \/ ins.reversion = now.reversion
    BY Zenon DEF Yields, GivesWay
  <1>2. ins.reversion \in Nat /\ now.reversion \in Nat
    BY Zenon, <1>1 DEF Known
  <1>3. ins.reversion <= now.reversion
    BY <1>1, <1>2
  <1> QED BY Zenon, <1>1, <1>3 DEF Behind

\* pod2Instance never takes an instance back.
LEMMA OutcomeAdvances ==
    ASSUME NEW ins, ins = NoInstance \/ Known(ins), NEW cached, cached = NoInstance \/ Known(cached),
           ins # NoInstance /\ cached # NoInstance =>
                /\ cached.reversion <= ins.reversion
                /\ cached.reversion = ins.reversion => LiveOf(cached) = LiveOf(ins),
           NEW new, new = Outcome(ins, cached), new # NoInstance
    PROVE  Advances(cached, new)
  <1>1. CASE ins = NoInstance
    <2>1. IsLive(cached) /\ new = [cached EXCEPT !.status = Offline]
      BY Zenon, <1>1 DEF Outcome
    <2>2. Known(cached) /\ DOMAIN cached = Fields /\ cached.reversion \in Nat
      BY Zenon, <2>1, NoInstanceFacts DEF Known
    <2>3. DOMAIN new = Fields /\ new.status = Offline /\ new.reversion = cached.reversion
      BY Zenon, <2>1, <2>2 DEF Fields
    <2>4. Known(new) /\ ~IsLive(new)
      BY <2>2, <2>3 DEF Known, IsLive, Offline
    <2> QED BY Zenon, <2>3, <2>4 DEF Advances
  <1>2. CASE ins # NoInstance
    <2>1. Known(ins) /\ ins.reversion \in Nat
      BY Zenon, <1>2 DEF Known
    <2>2. new = Recovered(ins, cached) /\ (cached = NoInstance \/ hasInstanceDiff(cached, new))
      BY Zenon, <1>2 DEF Outcome
    <2>3. CASE new = ins
      <3>1. ASSUME cached # NoInstance
            PROVE  cached.reversion < ins.reversion \/ (cached.reversion = ins.reversion /\ ~IsLive(ins))
        <4>1. Known(cached) /\ cached.reversion \in Nat /\ cached.reversion <= ins.reversion
          BY Zenon, <1>2, <3>1 DEF Known
        <4>2. ASSUME cached.reversion = ins.reversion, IsLive(ins)
              PROVE  FALSE
          <5>1. LiveOf(cached) = LiveOf(ins)
            BY Zenon, <1>2, <3>1, <4>2
          <5>2. cached = ins
            BY Zenon, <1>2, <4>2, <5>1 DEF LiveOf
          <5>3. hasInstanceDiff(ins, ins)
            BY Zenon, <2>2, <2>3, <3>1, <5>2
          <5>4. ~(ins.reversion > ins.reversion)
            BY <2>1
          <5> QED BY Zenon, <5>3, <5>4 DEF hasInstanceDiff
        <4> QED BY <2>1, <4>1, <4>2
      <3> QED BY Zenon, <2>1, <2>3, <3>1 DEF Advances
    <2>4. CASE new # ins
      <3>1. /\ cached # NoInstance
            /\ new = [cached EXCEPT !.status = Offline, !.state = "terminated", !.enabled = FALSE,
                                    !.reversion = ins.reversion]
        BY Zenon, <2>2, <2>4 DEF Recovered
      <3>2. Known(cached) /\ DOMAIN cached = Fields /\ cached.reversion \in Nat
        BY Zenon, <3>1 DEF Known
      <3>3. DOMAIN new = Fields /\ new.status = Offline /\ new.reversion = ins.reversion
        BY Zenon, <3>1, <3>2 DEF Fields
      <3>4. Known(new) /\ ~IsLive(new)
        BY <2>1, <3>3 DEF Known, IsLive, Offline
      <3>5. cached.reversion < new.reversion \/ cached.reversion = new.reversion
        BY <1>2, <2>1, <3>1, <3>2, <3>3
      <3> QED BY Zenon, <3>4, <3>5 DEF Advances
    <2> QED BY Zenon, <2>3, <2>4
  <1> QED BY Zenon, <1>1, <1>2

\* The cached instances are known.
LEMMA CachedFacts ==
    ASSUME IInv, NEW id \in Ids
    PROVE  cache[id] = NoInstance \/ Known(cache[id])
  <1>1. PICK k \in Keys, u \in 1 .. MaxVersion : id = <<k, u>>
    BY DEF Ids
  <1> QED BY Zenon, <1>1 DEF IInv, CacheInv, FitsAll, Consistent

\* What processing an event changes.
LEMMA Pod2InstanceAdvances ==
    ASSUME IInv, Pod2Instance
    PROVE  \/ cache' = cache /\ generation' = generation /\ pending' = pending
           \/ \E id \in Ids : \E new :
                /\ cache' = [cache EXCEPT ![id] = new] /\ generation' = generation + 1
                /\ pending' = pending \cup {[id |-> id, ins |-> new]} /\ Advances(cache[id], new)
  <1>1. StoreInv /\ QueueInv /\ CacheInv /\ LifeInv
    BY Zenon DEF IInv
  <1>2. pop = "read" /\ Sound(obj)
    BY Zenon, <1>1 DEF Pod2Instance, QueueInv
  <1>3. PICK k, u : k = obj.key /\ u = obj.uid
    BY Zenon
  <1>4. k \in Keys /\ u \in 1 .. MaxVersion /\ u # 0 /\ (obj.event = "delete" => ~Found(obj))
    <2>1. k \in Keys /\ u \in 1 .. version
      BY Zenon, <1>2, <1>3 DEF Sound, Item
    <2>2. u \in 1 .. MaxVersion /\ u # 0
      BY <1>1, <2>1, MaxVersionAssumption DEF StoreInv
    <2> QED BY Zenon, <1>2, <2>1, <2>2 DEF Sound, Found
  <1>5. PICK id : id = <<k, u>> /\ id \in Ids
    <2>1. <<k, u>> \in Ids
      BY Zenon, <1>4 DEF Ids
    <2> QED BY Zenon, <2>1
  <1>6. PICK ins : ins = IF Found(obj) THEN Converted(obj.event, store[obj.key].pod) ELSE NoInstance
    BY Zenon
  <1>7. PICK new : new = IF (Found(obj) /\ ins # NoInstance) \/ (~Found(obj) /\ obj.event = "delete")
                         THEN Outcome(ins, cache[id]) ELSE NoInstance
    BY Zenon
  <1>8. \/ new = NoInstance /\ cache' = cache /\ generation' = generation /\ pending' = pending
        \/ /\ new # NoInstance /\ cache' = [cache EXCEPT ![id] = new] /\ generation' = generation + 1
           /\ pending' = pending \cup {[id |-> id, ins |-> new]}
    <2>1. <<obj.key, IF Found(obj) THEN store[obj.key].uid ELSE obj.uid>> = id
      BY Zenon, <1>3, <1>5 DEF Found
    <2> QED BY Zenon, <1>6, <1>7, <2>1 DEF Pod2Instance
  <1>9. ASSUME new # NoInstance
        PROVE  Advances(cache[id], new)
    <2>1. PICK cached : cached = cache[id]
      BY Zenon
    <2>2. new = Outcome(ins, cached)
      BY Zenon, <1>7, <1>9, <2>1
    <2>3. Consistent(k, u, cached)
      BY Zenon, <1>1, <1>4, <1>5, <2>1 DEF CacheInv, FitsAll
    <2>4. cached = NoInstance \/ Known(cached)
      BY Zenon, <2>3 DEF Consistent
    <2>5. /\ ins = NoInstance \/ Known(ins)
          /\ ins # NoInstance /\ cached # NoInstance =>
                /\ cached.reversion <= ins.reversion
                /\ cached.reversion = ins.reversion => LiveOf(cached) = LiveOf(ins)
      <3>1. CASE ~Found(obj)
        BY Zenon, <1>6, <3>1
      <3>2. CASE Found(obj)
        <4>1. store[k].uid = u /\ store[k].uid # 0 /\ obj.event # "delete"
          BY Zenon, <1>3, <1>4, <3>2 DEF Found
        <4>2. ins = Converted(Blank, store[k].pod)
          BY Zenon, <1>1, <1>3, <1>4, <1>6, <3>2, <4>1, PodFacts
        <4>3. ins # NoInstance => Known(ins) /\ ins.reversion = store[k].pod.version
          BY ZenonT(60), <1>1, <1>4, <4>1, <4>2, PodFacts
        <4>4. cached # NoInstance => /\ cached.reversion <= store[k].pod.version
                                     /\ cached.reversion = store[k].pod.version => LiveOf(cached) = LiveOf(ins)
          BY Zenon, <2>3, <4>1, <4>2 DEF Consistent, Present1
        <4> QED BY Zenon, <4>3, <4>4
      <3> QED BY Zenon, <3>1, <3>2
    <2>6. Advances(cached, new)
      BY <1>9, <2>2, <2>4, <2>5, OutcomeAdvances
    <2> QED BY Zenon, <2>1, <2>6
  <1> QED BY Zenon, <1>5, <1>8, <1>9

\* A step that leaves the cache, the registry and what is on its way alone,
\* and starts no compare.
LEMMA PushQuiet ==
    ASSUME PushInv, UNCHANGED <<cache, generation, served, pending>>,
           MaySend' => MaySend /\ held' = held
    PROVE  PushInv'
  <1>1. cache' = cache /\ generation' = generation /\ served' = served /\ pending' = pending
    BY Zenon
  <1>2. MaySend' => \A id \in Ids : held'[id] = NoInstance \/ Yields(held'[id], cache'[id])
    BY Zenon, <1>1 DEF PushInv
  <1> QED BY Zenon, <1>1, <1>2 DEF PushInv

\* Processing an event.
LEMMA PushPod2Instance ==
    ASSUME IInv, PushInv, Pod2Instance
    PROVE  PushInv'
  <1>1. full' = full /\ held' = held /\ heldGeneration' = heldGeneration /\ served' = served
    BY Zenon DEF Pod2Instance, fullVars, sinkVars
  <1>2. CASE cache' = cache /\ generation' = generation /\ pending' = pending
    BY Zenon, <1>1, <1>2, PushQuiet DEF MaySend
  <1>3. ASSUME NEW id \in Ids, NEW new,
               cache' = [cache EXCEPT ![id] = new], generation' = generation + 1,
               pending' = pending \cup {[id |-> id, ins |-> new]}, Advances(cache[id], new)
        PROVE  PushInv'
    <2>1. /\ DOMAIN cache = Ids /\ generation \in Nat /\ heldGeneration \in Nat /\ heldGeneration <= generation
      BY Zenon DEF IInv, CacheInv, LifeInv
    <2>2. generation' # 0 /\ generation' # heldGeneration
      BY <1>3, <2>1
    <2>3. cache'[id] = new /\ \A i \in Ids : i # id => cache'[i] = cache[i]
      BY Zenon, <1>3, <2>1
    <2>4. ASSUME NEW i \in Ids, NEW x
          PROVE  /\ Yields(x, cache[i]) => Yields(x, cache'[i])
                 /\ Behind(x, cache[i]) => Behind(x, cache'[i])
      <3>1. PICK now : now = cache[id]
        BY Zenon
      <3>2. (now = NoInstance \/ Known(now)) /\ Advances(now, new)
        BY Zenon, <1>3, <3>1, CachedFacts
      <3>3. (Yields(x, now) => Yields(x, new)) /\ (Behind(x, now) => Behind(x, new))
        BY <3>2, AdvanceFacts
      <3> QED BY Zenon, <2>3, <3>1, <3>3
    <2>5. Behind(new, new)
      <3>1. PICK now : now = cache[id]
        BY Zenon
      <3>2. (now = NoInstance \/ Known(now)) /\ Advances(now, new)
        BY Zenon, <1>3, <3>1, CachedFacts
      <3> QED BY <3>2, AdvanceFacts
    <2>6. \A i \in Ids : served[i] = NoInstance \/ Behind(served[i], cache'[i])
      BY Zenon, <2>4 DEF PushInv
    <2>7. ASSUME NEW e \in pending'
          PROVE  e.id \in Ids /\ Behind(e.ins, cache'[e.id])
      <3>1. CASE e \in pending
        BY Zenon, <2>4, <3>1 DEF PushInv
      <3>2. CASE e = [id |-> id, ins |-> new]
        <4>1. e.id = id /\ e.ins = new
          BY Zenon, <3>2
        <4> QED BY Zenon, <2>3, <2>5, <4>1
      <3> QED BY Zenon, <1>3, <3>1, <3>2
    <2>8. MaySend' => MaySend
      BY Zenon, <1>1, <2>2 DEF MaySend
    <2>9. MaySend' => \A i \in Ids : held'[i] = NoInstance \/ Yields(held'[i], cache'[i])
      BY Zenon, <1>1, <2>4, <2>8 DEF PushInv
    <2> QED BY Zenon, <1>1, <2>2, <2>6, <2>7, <2>9 DEF PushInv
  <1> QED BY Zenon, <1>2, <1>3, Pod2InstanceAdvances

\* The bootstrap fills a cache that nothing was made of yet.
LEMMA PushInstall ==
    ASSUME IInv, PushInv, Install
    PROVE  PushInv'
  <1>1. full = "install" /\ full' = "snapshot" /\ served' = served /\ pending' = pending
    BY Zenon DEF Install, sinkVars
  <1>2. ~MaySend'
    BY <1>1 DEF MaySend
  <1>3. CASE cache' = cache /\ generation' = generation
    BY Zenon, <1>1, <1>2, <1>3, PushQuiet
  <1>4. CASE generation = heldGeneration /\ generation' = generation + 1
    <2>1. generation = 0
      BY Zenon, <1>1, <1>4 DEF IInv, LifeInv
    <2>2. generation' # 0
      BY <1>4, <2>1
    <2>3. \A id \in Ids : cache[id] = NoInstance
      BY Zenon, <2>1 DEF PushInv, Nothing
    <2>4. \A id \in Ids : served[id] = NoInstance
      BY Zenon, <2>3 DEF PushInv, Behind
    <2>5. \A e \in pending : FALSE
      BY Zenon, <2>3 DEF PushInv, Behind
    <2> QED BY Zenon, <1>1, <1>2, <2>2, <2>4, <2>5 DEF PushInv
  <1> QED BY Zenon, <1>3, <1>4 DEF Install, MayInstall, cacheVars

\* The local list of a compare is what the cache holds.
LEMMA PushSnapshot ==
    ASSUME IInv, PushInv, Snapshot
    PROVE  PushInv'
  <1>1. /\ cache' = cache /\ generation' = generation /\ served' = served /\ pending' = pending
        /\ held' = Live(cache) /\ full' \in {"syncall", "compare"}
    BY Zenon DEF Snapshot, OnlyFull, cacheVars, sinkVars
  <1>2. ASSUME NEW id \in Ids
        PROVE  held'[id] = NoInstance \/ Yields(held'[id], cache'[id])
    <2>1. held'[id] = NoInstance \/ (IsLive(cache[id]) /\ held'[id] = cache[id])
      BY Zenon, <1>1 DEF Live
    <2>2. IsLive(cache[id]) => Known(cache[id]) /\ cache[id] # NoInstance
      BY Zenon, CachedFacts, NoInstanceFacts
    <2> QED BY Zenon, <1>1, <2>1, <2>2 DEF Yields, GivesWay
  <1> QED BY Zenon, <1>1, <1>2 DEF PushInv

\* What the comparison makes of a list that gives way to the cache, and of a
\* registry that is behind it, if the cache is still what was listed.
LEMMA CorrectionYields ==
    ASSUME NEW local, NEW remote, NEW now, now = NoInstance \/ Known(now),
           local = NoInstance \/ Yields(local, now), remote = NoInstance \/ Behind(remote, now),
           local = NoInstance => ~IsLive(now), NEW c, c = Correction(local, remote)
    PROVE  c = NoInstance \/ Yields(c, now)
  <1>1. \/ c = NoInstance \/ c = local
        \/ /\ local = NoInstance /\ remote # NoInstance
           /\ c = [remote EXCEPT !.enabled = FALSE, !.status = Offline, !.state = "terminated"]
    BY Zenon DEF Correction
  <1>2. ASSUME local = NoInstance, remote # NoInstance,
               c = [remote EXCEPT !.enabled = FALSE, !.status = Offline, !.state = "terminated"]
        PROVE  Yields(c, now)
    <2>1. Known(remote) /\ now # NoInstance /\ remote.reversion <= now.reversion /\ ~IsLive(now)
      BY Zenon, <1>2 DEF Behind
    <2>2. DOMAIN remote = Fields /\ remote.reversion \in Nat /\ now.reversion \in Nat
      BY Zenon, <2>1 DEF Known
    <2>3. DOMAIN c = Fields /\ c.status = Offline /\ c.reversion = remote.reversion
      BY Zenon, <1>2, <2>2 DEF Fields
    <2>4. Known(c)
      BY <2>2, <2>3 DEF Known, Offline
    <2>5. c.reversion < now.reversion \/ c.reversion = now.reversion
      BY <2>1, <2>2, <2>3
    <2> QED BY Zenon, <2>1, <2>4, <2>5 DEF Yields, GivesWay
  <1> QED BY Zenon, <1>1, <1>2

\* The remote read returns.
LEMMA PushCompare ==
    ASSUME IInv, PushInv, Compare
    PROVE  PushInv'
  <1>1. /\ cache' = cache /\ generation' = generation /\ served' = served /\ pending' = pending
        /\ heldGeneration' = heldGeneration /\ full = "compare" /\ full' = "check"
    BY Zenon DEF Compare, OnlyFull, cacheVars, sinkVars
  <1>2. MaySend /\ (MaySend' => generation = heldGeneration)
    BY <1>1 DEF MaySend
  <1>3. PICK answer \in Answers :
            held' = IF answer # Nothing THEN [id \in Ids |-> Correction(held[id], Pushed(answer)[id])]
                    ELSE IF nacosReconcile THEN Nothing ELSE held
    BY Zenon DEF Compare
  <1>4. ASSUME NEW id \in Ids, generation = heldGeneration
        PROVE  held'[id] = NoInstance \/ Yields(held'[id], cache[id])
    <2>1. PICK local, now : local = held[id] /\ now = cache[id]
      BY Zenon
    <2>2. (local = NoInstance \/ Yields(local, now)) /\ (now = NoInstance \/ Known(now))
      BY Zenon, <1>2, <2>1, CachedFacts DEF PushInv
    <2>3. CASE answer = Nothing
      <3>1. held'[id] = NoInstance \/ held'[id] = held[id]
        BY Zenon, <1>3, <2>3 DEF Nothing
      <3> QED BY Zenon, <2>1, <2>2, <3>1
    <2>4. CASE answer # Nothing
      <3>1. answer = served
        BY Zenon, <2>4 DEF Answers
      <3>2. PICK remote : remote = Pushed(answer)[id]
        BY Zenon
      <3>3. remote = NoInstance \/ remote = served[id]
        BY Zenon, <3>1, <3>2 DEF Pushed
      <3>4. remote = NoInstance \/ Behind(remote, now)
        BY Zenon, <2>1, <3>3 DEF PushInv
      <3>5. local = NoInstance => ~IsLive(now)
        <4>1. held = Live(cache)
          BY Zenon, <1>1, <1>4 DEF IInv, LifeInv
        <4>2. IsLive(now) => local = now
          BY Zenon, <2>1, <4>1 DEF Live
        <4> QED BY Zenon, <4>2, NoInstanceFacts
      <3>6. PICK c : c = Correction(local, remote)
        BY Zenon
      <3>7. held'[id] = c
        BY Zenon, <1>3, <2>1, <2>4, <3>2, <3>6
      <3>8. c = NoInstance \/ Yields(c, now)
        BY <2>2, <3>4, <3>5, <3>6, CorrectionYields
      <3> QED BY Zenon, <2>1, <3>7, <3>8
    <2> QED BY Zenon, <2>3, <2>4
  <1> QED BY Zenon, <1>1, <1>2, <1>4 DEF PushInv

\* The generation is looked at.
LEMMA PushCheck ==
    ASSUME IInv, PushInv, Check
    PROVE  PushInv'
  <1>1. /\ cache' = cache /\ generation' = generation /\ served' = served /\ pending' = pending
        /\ full = "check" /\ held' = IF Overtaken THEN Nothing ELSE held
    BY Zenon DEF Check, OnlyFull, cacheVars, sinkVars
  <1>2. ASSUME NEW id \in Ids
        PROVE  held'[id] = NoInstance \/ Yields(held'[id], cache'[id])
    <2>1. CASE Overtaken
      BY Zenon, <1>1, <2>1 DEF Nothing
    <2>2. CASE ~Overtaken
      <3>1. MaySend
        BY Zenon, <1>1, <2>2 DEF MaySend, Overtaken
      <3> QED BY Zenon, <1>1, <2>2, <3>1 DEF PushInv
    <2> QED BY Zenon, <2>1, <2>2
  <1> QED BY Zenon, <1>1, <1>2 DEF PushInv

\* A correction is submitted.
LEMMA PushSubmit ==
    ASSUME IInv, PushInv, NEW id \in Ids, Submit(id)
    PROVE  PushInv' /\ \A e \in pending' \ pending : GivesWay(e.ins, cache[e.id])
  <1>1. /\ cache' = cache /\ generation' = generation /\ served' = served
        /\ full = "submit" /\ held[id] # NoInstance /\ held' = [held EXCEPT ![id] = NoInstance]
        /\ pending' = pending \cup {[id |-> id, ins |-> held[id]]}
    BY Zenon DEF Submit, cacheVars, sinkVars
  <1>2. MaySend
    BY Zenon, <1>1 DEF MaySend
  <1>3. Yields(held[id], cache[id]) /\ Behind(held[id], cache[id])
    <2>1. PICK now, ins : now = cache[id] /\ ins = held[id]
      BY Zenon
    <2>2. Yields(ins, now) /\ (now = NoInstance \/ Known(now))
      BY Zenon, <1>1, <1>2, <2>1, CachedFacts DEF PushInv
    <2>3. Behind(ins, now)
      BY <2>2, YieldsBehind
    <2> QED BY Zenon, <2>1, <2>2, <2>3
  <1>4. ASSUME NEW e \in pending', e \notin pending
        PROVE  e.id = id /\ e.ins = held[id]
    <2>1. e = [id |-> id, ins |-> held[id]]
      BY Zenon, <1>1, <1>4
    <2> QED BY Zenon, <2>1
  <1>5. \A e \in pending' : e.id \in Ids /\ Behind(e.ins, cache'[e.id])
    BY Zenon, <1>1, <1>3, <1>4 DEF PushInv
  <1>6. DOMAIN held = Ids
    BY Zenon DEF IInv, CacheInv
  <1>7. \A i \in Ids : held'[i] = NoInstance \/ Yields(held'[i], cache'[i])
    BY Zenon, <1>1, <1>2, <1>6 DEF PushInv
  <1>8. \A e \in pending' \ pending : GivesWay(e.ins, cache[e.id])
    BY Zenon, <1>3, <1>4 DEF Yields
  <1> QED BY Zenon, <1>1, <1>5, <1>7, <1>8 DEF PushInv

\* The full push registers what the cache holds.
LEMMA PushGate ==
    ASSUME IInv, PushInv, GatePush
    PROVE  PushInv'
  <1>1. /\ cache' = cache /\ generation' = generation /\ pending' = pending /\ full' = Finished
    BY Zenon DEF GatePush, cacheVars
  <1>2. ~MaySend'
    BY <1>1 DEF MaySend, Finished
  <1>3. PICK fresh : fresh = Live(cache)
    BY Zenon
  <1>4. \/ served' = served \/ served' = fresh
        \/ served' = [id \in Ids |-> IF id \in Present(fresh) THEN fresh[id] ELSE served[id]]
    BY Zenon, <1>3 DEF GatePush, sinkVars
  <1>5. DOMAIN served' = Ids /\ \A id \in Ids : served'[id] = served[id] \/ served'[id] = fresh[id]
    <2>1. DOMAIN served = Ids /\ DOMAIN fresh = Ids
      BY Zenon, <1>3 DEF PushInv, Live
    <2> QED BY Zenon, <1>4, <2>1
  <1>6. ASSUME NEW id \in Ids
        PROVE  served'[id] = NoInstance \/ Behind(served'[id], cache[id])
    <2>1. fresh[id] = NoInstance \/ (IsLive(cache[id]) /\ fresh[id] = cache[id])
      BY Zenon, <1>3 DEF Live
    <2>2. PICK now : now = cache[id]
      BY Zenon
    <2>3. IsLive(now) => Known(now) /\ now # NoInstance
      BY Zenon, <2>2, CachedFacts, NoInstanceFacts
    <2>4. IsLive(now) => now.reversion <= now.reversion
      BY <2>3 DEF Known
    <2>5. fresh[id] = NoInstance \/ Behind(fresh[id], cache[id])
      BY Zenon, <2>1, <2>2, <2>3, <2>4 DEF Behind
    <2> QED BY Zenon, <1>5, <2>5 DEF PushInv
  <1> QED BY Zenon, <1>1, <1>2, <1>5, <1>6 DEF PushInv

\* A task of the pool.
LEMMA PushRunTask ==
    ASSUME IInv, PushInv, NEW e \in pending, RunTask(e)
    PROVE  PushInv'
  <1>1. /\ cache' = cache /\ generation' = generation /\ pending' = pending \ {e}
        /\ full' = full /\ held' = held /\ heldGeneration' = heldGeneration
    BY Zenon DEF RunTask, cacheVars, fullVars
  <1>2. MaySend' => MaySend
    BY Zenon, <1>1 DEF MaySend
  <1>3. e.id \in Ids /\ Behind(e.ins, cache[e.id]) /\ DOMAIN served = Ids
    BY Zenon DEF PushInv
  <1>4. served' = served \/ served' = [served EXCEPT ![e.id] = IF IsLive(e.ins) THEN e.ins ELSE NoInstance]
    BY Zenon DEF RunTask, sinkVars
  <1>5. /\ DOMAIN served' = Ids
        /\ \A id \in Ids : \/ served'[id] = served[id] \/ served'[id] = NoInstance
                           \/ id = e.id /\ served'[id] = e.ins
    BY Zenon, <1>3, <1>4
  <1>6. \A id \in Ids : served'[id] = NoInstance \/ Behind(served'[id], cache[id])
    BY Zenon, <1>3, <1>5 DEF PushInv
  <1> QED BY Zenon, <1>1, <1>2, <1>5, <1>6 DEF PushInv

\* Nothing is registered before the start.
LEMMA InitPushInv == Init => PushInv
  <1> SUFFICES ASSUME Init PROVE PushInv
    BY Zenon
  <1>1. generation = 0 /\ cache = Nothing /\ served = Nothing /\ pending = {} /\ full = "idle"
    BY Zenon DEF Init
  <1>2. ~MaySend
    BY <1>1 DEF MaySend
  <1> QED BY Zenon, <1>1, <1>2 DEF PushInv, Nothing

\* Every step keeps the registry and the corrections behind the cache, and
\* submits only corrections that give way.
LEMMA StepPushInv ==
    ASSUME IInv, PushInv, [Next]_vars
    PROVE  /\ PushInv'
           /\ full = "submit" /\ held' # held => \A e \in pending' \ pending : GivesWay(e.ins, cache[e.id])
  <1>1. ASSUME UNCHANGED <<cacheVars, fullVars, pending, sinkVars>>
        PROVE  PushInv' /\ held' = held
    <2>1. UNCHANGED <<cache, generation, served, pending>> /\ UNCHANGED <<full, held, heldGeneration>>
      BY Zenon, <1>1 DEF cacheVars, fullVars, sinkVars
    <2>2. MaySend' => MaySend
      BY Zenon, <2>1 DEF MaySend
    <2> QED BY Zenon, <2>1, <2>2, PushQuiet
  <1>2. ASSUME UNCHANGED <<cacheVars, pending, sinkVars>>, ~MaySend', full # "submit" \/ held' = held
        PROVE  PushInv' /\ (full = "submit" => held' = held)
    <2>1. UNCHANGED <<cache, generation, served, pending>>
      BY Zenon, <1>2 DEF cacheVars, sinkVars
    <2> QED BY Zenon, <1>2, <2>1, PushQuiet
  <1>3. CASE Source
    BY Zenon, <1>1, <1>3 DEF Source, Create, Update, Delete, Replace, Changed
  <1>4. CASE PopStep
    <2>1. CASE Pop \/ PopFails
      BY Zenon, <1>1, <2>1 DEF Pop, PopFails
    <2>2. CASE Pod2Instance
      BY Zenon, <2>2, PushPod2Instance DEF Pod2Instance, fullVars
    <2> QED BY Zenon, <1>4, <2>1, <2>2 DEF PopStep
  <1>5. CASE Tick \/ Synced
    <2>1. full = "idle" /\ full' \in {"snapshot", "syncall", "install"}
      BY Zenon, <1>5 DEF Tick, Synced, Bootstrap, IInv, LifeInv
    <2>2. ~MaySend'
      BY <2>1 DEF MaySend
    <2>3. full # "submit"
      BY Zenon, <2>1
    <2> QED BY Zenon, <1>2, <1>5, <2>2, <2>3 DEF Tick, Synced
  <1>6. CASE EmitSyncAll \/ Serve
    <2>1. full \in {"syncall", "end"} /\ full' \in {"gate", "idle", "end"}
      BY Zenon, <1>6 DEF EmitSyncAll, Serve, Finished
    <2>2. ~MaySend' /\ full # "submit"
      BY <2>1 DEF MaySend
    <2> QED BY Zenon, <1>2, <1>6, <2>2 DEF EmitSyncAll, Serve, OnlyFull
  <1>7. CASE Install \/ Snapshot \/ Compare \/ Check \/ GatePush
    <2>1. full # "submit"
      BY Zenon, <1>7 DEF Install, Snapshot, Compare, Check, GatePush
    <2> QED BY Zenon, <1>7, <2>1, PushInstall, PushSnapshot, PushCompare, PushCheck, PushGate
  <1>8. CASE \E id \in Ids : Submit(id)
    BY Zenon, <1>8, PushSubmit
  <1>9. CASE \E e \in pending : RunTask(e)
    BY Zenon, <1>9, PushRunTask DEF RunTask, fullVars
  <1>10. CASE TickerExits \/ Cancel \/ StopRobot \/ Shutdown \/ Release
    BY Zenon, <1>1, <1>10 DEF TickerExits, Cancel, StopRobot, Shutdown, Release
  <1>11. CASE UNCHANGED vars
    BY Zenon, <1>1, <1>11 DEF vars
  <1> QED BY ZenonT(60), <1>3, <1>4, <1>5, <1>6, <1>7, <1>8, <1>9, <1>10, <1>11 DEF Next, FullStep, MonitorStep

\* CompareAndFlush of the provider: a correction is submitted only if it is
\* what the processed cache holds of that instance or gives way to it at the
\* gate, whatever the pop loop did between the local list, the remote read,
\* the check of the generation and the submission, and however many
\* corrections are submitted meanwhile.  For Atlas, which is also told what to
\* take offline, this needs that the registry is never ahead of the cache.
THEOREM K8sCorrectionsGiveWay == Spec => CorrectionsGiveWay
  <1>1. Init => IInv /\ PushInv
    BY Zenon, InitIInv, InitPushInv
  <1>2. IInv /\ PushInv /\ [Next]_vars => IInv' /\ PushInv'
    BY Zenon, StepIInv, StepPushInv
  <1>3. IInv /\ PushInv /\ [Next]_vars =>
            [full = "submit" /\ held' # held => \A e \in pending' \ pending : GivesWay(e.ins, cache[e.id])]_vars
    BY Zenon, StepPushInv
  <1> QED BY <1>1, <1>2, <1>3, PTL DEF Spec, CorrectionsGiveWay

\* A settled pod is cached as the store has it.
LEMMA WantedFacts ==
    ASSUME IInv, bootedBy = "startup", NEW k \in Keys, NEW u \in 1 .. MaxVersion, Settled(k)
    PROVE  LET id == <<k, u>>
           IN  /\ store[k].uid = u => LiveOf(cache[id]) = Wanted(id)
               /\ store[k].uid # u => Wanted(id) = NoInstance
               /\ store[k].uid # u /\ k \notin relisted => LiveOf(cache[id]) = NoInstance
  <1>1. StoreInv /\ CacheInv
    BY Zenon DEF IInv
  <1>2. PICK id : id = <<k, u>>
    BY Zenon
  <1>3. PICK ins : ins = cache[id]
    BY Zenon
  <1>4. Tracked(k, u, ins)
    BY Zenon, <1>1, <1>2, <1>3 DEF CacheInv, TracksAll
  <1>5. ~Waits(k, u) /\ ~Dying(k, u)
    BY Zenon DEF Settled, Waits, Dying, Items
  <1>6. PICK now : now = Converted(Blank, store[k].pod)
    BY Zenon
  <1>7. Wanted(id) = IF store[k].uid = u THEN LiveOf(now) ELSE NoInstance
    <2>1. id \in Ids /\ id[1] = k /\ id[2] = u
      BY Zenon, <1>2 DEF Ids
    <2>2. GetAll = [i \in Ids |-> IF store[i[1]].uid = i[2] THEN Converted(Blank, store[i[1]].pod) ELSE NoInstance]
      BY Zenon DEF GetAll, Blank
    <2>3. GetAll[id] = IF store[k].uid = u THEN now ELSE NoInstance
      BY Zenon, <1>6, <2>1, <2>2
    <2>4. Wanted(id) = LiveOf(GetAll[id])
      BY Zenon DEF Wanted, LiveOf
    <2> QED BY Zenon, <2>3, <2>4, NoInstanceFacts
  <1>8. store[k].uid = u => LiveOf(ins) = LiveOf(now)
    BY Zenon, <1>4, <1>5, <1>6 DEF Tracked
  <1>9. store[k].uid # u /\ k \notin relisted => ~IsLive(ins)
    BY Zenon, <1>4, <1>5 DEF Tracked
  <1>10. store[k].uid # u /\ k \notin relisted => LiveOf(ins) = NoInstance
    BY Zenon, <1>9 DEF LiveOf
  <1> QED BY Zenon, <1>2, <1>3, <1>7, <1>8, <1>10

\* For every number of pods and of changes: once the cache was filled at
\* startup, a pod whose events pod2Instance has applied has in the processed
\* cache exactly the instance its present state stands for, and no earlier
\* incarnation of it is live.
THEOREM K8sCacheFollowsPods == Spec => []CacheFollowsPods
  <1>1. IInv => CacheFollowsPods
    <2> SUFFICES ASSUME IInv, bootedBy = "startup", NEW id \in Ids, Settled(id[1]), id[1] \notin relisted
                 PROVE  Live(cache)[id] = Wanted(id)
      BY Zenon DEF CacheFollowsPods
    <2>1. PICK k \in Keys, u \in 1 .. MaxVersion : id = <<k, u>>
      BY DEF Ids
    <2>2. id[1] = k
      BY Zenon, <2>1
    <2>3. Live(cache)[id] = LiveOf(cache[id])
      BY Zenon DEF Live, LiveOf
    <2> QED BY <2>1, <2>2, <2>3, WantedFacts
  <1> QED BY <1>1, K8sInvariantHolds, PTL

\* Only the full push moves the full push on.
LEMMA FullMoves ==
    ASSUME IInv, [Next]_vars, full = "syncall", full' # full
    PROVE  EmitSyncAll
  <1>1. CASE Source
    BY Zenon, <1>1, SourceEffect DEF IInv, Effect, fullVars
  <1>2. CASE PopStep
    BY Zenon, <1>2 DEF PopStep, Pop, PopFails, Pod2Instance, fullVars
  <1>3. CASE FullStep
    BY Zenon, <1>3 DEF FullStep, Tick, Install, Snapshot, Compare, Check, Submit, EmitSyncAll, GatePush
  <1>4. CASE \E e \in pending : RunTask(e)
    BY Zenon, <1>4 DEF RunTask, fullVars
  <1>5. CASE TickerExits \/ Cancel
    BY Zenon, <1>5 DEF TickerExits, Cancel, fullVars
  <1>6. CASE MonitorStep
    <2>1. monitor = "syncing" => full = "idle"
      BY Zenon DEF IInv, LifeInv
    <2>2. CASE Synced \/ Serve
      BY Zenon, <2>1, <2>2 DEF Synced, Serve
    <2>3. CASE StopRobot \/ Shutdown \/ Release
      BY Zenon, <2>3 DEF StopRobot, Shutdown, Release, fullVars
    <2> QED BY Zenon, <1>6, <2>2, <2>3 DEF MonitorStep
  <1>7. CASE UNCHANGED vars
    BY Zenon, <1>7 DEF vars, fullVars
  <1> QED BY ZenonT(60), <1>1, <1>2, <1>3, <1>4, <1>5, <1>6, <1>7 DEF Next

\* emitSyncAll: a full push whose emptiness counts as confirmed is only
\* emitted when no pod that is settled has a live instance.
THEOREM K8sConfirmedEmptyIsEmpty == Spec => ConfirmedEmptyIsEmpty
  <1>1. IInv /\ [Next]_vars =>
            [full = "syncall" /\ full' = "gate" /\ confirmed' =>
                \A id \in Ids : (bootedBy = "startup" /\ Settled(id[1])) => Wanted(id) = NoInstance]_vars
    <2> SUFFICES ASSUME IInv, [Next]_vars, full = "syncall", full' = "gate", confirmed',
                        NEW id \in Ids, bootedBy = "startup", Settled(id[1])
                 PROVE  Wanted(id) = NoInstance
      BY Zenon
    <2>1. EmitSyncAll
      BY Zenon, FullMoves
    <2>2. Live(cache) = Nothing
      <3>1. ASSUME Live(cache) # Nothing
            PROVE  FALSE
        <4>1. full' # Finished
          BY Zenon DEF Finished
        <4>2. emptyConfirmations' = Counted(TRUE, Live(cache)) /\ confirmed' = (emptyConfirmations' >= Confirmations)
          BY Zenon, <2>1, <4>1 DEF EmitSyncAll
        <4>3. Counted(TRUE, Live(cache)) = 0
          BY Zenon, <3>1 DEF Counted
        <4>4. ~(0 >= Confirmations)
          BY ConfirmationsAssumption
        <4> QED BY Zenon, <4>2, <4>3, <4>4
      <3> QED BY Zenon, <3>1
    <2>3. PICK k \in Keys, u \in 1 .. MaxVersion : id = <<k, u>>
      BY DEF Ids
    <2>4. id[1] = k
      BY Zenon, <2>3
    <2>5. LiveOf(cache[id]) = NoInstance
      <3>1. Live(cache)[id] = LiveOf(cache[id])
        BY Zenon DEF Live, LiveOf
      <3> QED BY Zenon, <2>2, <3>1 DEF Nothing
    <2> QED BY Zenon, <2>3, <2>4, <2>5, WantedFacts
  <1> QED BY <1>1, K8sInvariantHolds, PTL DEF Spec, ConfirmedEmptyIsEmpty
=============================================================================
