--------------------------- MODULE InstanceProofs ---------------------------
(***************************************************************************)
(* What the rules about single instances guarantee, for every instance,    *)
(* list and configuration: the indexes, the comparison and the cache       *)
(* (InstanceRules), the two policies about a pod (PodConversion), the wire *)
(* form (NacosWire), and the conversion of Consul endpoints with the       *)
(* choice of sources (ConsulConversion).                                   *)
(***************************************************************************)
EXTENDS InstanceRules, NacosWire, SequenceTheorems, WellFoundedInduction, TLAPS

CONSTANTS Joined(_), Safe(_), Digest(_)    \* those of ConsulConversion

-----------------------------------------------------------------------------
(***************************************************************************)
(* The indexes, the comparison with Nacos, and the cache.                  *)
(***************************************************************************)
\* StrictListToMap resolves a key to the one instance of the list that has it,
\* wherever that instance stands.
THEOREM StrictIsUnambiguous ==
    ASSUME NEW list, DOMAIN list \subseteq Nat, NEW key \in DOMAIN StrictListToMap(list).index
    PROVE  \E i \in DOMAIN list : /\ Places(list, key) = {i}
                                  /\ StrictListToMap(list).index[key] = list[i]
<1>1. key \in KeysOf(list) \ Ambiguous(list)
  BY Zenon DEF StrictListToMap
<1>2. PICK i \in DOMAIN list : IdentityKey(list[i]) = key
  BY ZenonT(60), <1>1 DEF KeysOf
<1>3. Places(list, key) = {i}
  BY ZenonT(60), <1>1, <1>2 DEF Ambiguous, Places
<1>4. FirstListToMap(list)[key] = list[CHOOSE j \in Places(list, key) : \A k \in Places(list, key) : j <= k]
  BY ZenonT(60), <1>1 DEF FirstListToMap
<1>5. StrictListToMap(list).index[key] = list[CHOOSE j \in Places(list, key) : \A k \in Places(list, key) : j <= k]
  BY ZenonT(60), <1>1, <1>4 DEF StrictListToMap
<1>6. (CHOOSE j \in Places(list, key) : \A k \in Places(list, key) : j <= k) = i
  <2>1. i \in Nat /\ \A k \in Places(list, key) : i <= k
    BY <1>3
  <2> QED BY ZenonT(60), <1>3, <2>1
<1> QED BY <1>3, <1>5, <1>6

\* LookupIdentity never pairs two instances that both name their source and
\* agree neither on the key nor on the endpoint: sharing a wire ID is not
\* enough ("never fall back on InstanceId alone").
THEOREM PairsShareSource ==
    ASSUME NEW index, \A key \in DOMAIN index : IdentityKey(index[key]) = key,
           NEW list, NEW target,
           LookupIdentity(index, list, target) # NotFound,
           ~isLegacy(target), ~isLegacy(LookupIdentity(index, list, target))
    PROVE  \/ IdentityKey(LookupIdentity(index, list, target)) = IdentityKey(target)
           \/ SameEndpoint(target, LookupIdentity(index, list, target))
<1> DEFINE at == ByWireId(list, target.id)
<1>1. CASE IdentityKey(target) \in DOMAIN index
  BY Zenon, <1>1 DEF LookupIdentity
<1>2. CASE IdentityKey(target) \notin DOMAIN index
  <2>1. PICK i \in at : at = {i} /\ (isLegacy(target) \/ isLegacy(list[i]) \/ SameEndpoint(target, list[i]))
    BY ZenonT(60), <1>2 DEF LookupIdentity
  <2>2. (CHOOSE j \in at : TRUE) = i
    BY ZenonT(60), <2>1
  <2>3. LookupIdentity(index, list, target) = list[i]
    BY ZenonT(60), <1>2, <2>2 DEF LookupIdentity
  <2> QED BY ZenonT(60), <2>1, <2>3
<1> QED BY ZenonT(60), <1>1, <1>2

\* The record a provider instance is compared with is never also reported as
\* remote-only, so no comparison pushes an instance and removes its record.
THEOREM MatchedIsNotRemoteOnly ==
    ASSUME NEW provider, NEW remote, NEW i \in DOMAIN provider
    PROVE  MatchOf(provider, remote, i) \cap RemoteOnly(provider, remote) = {}
<1> DEFINE p == provider[i]
<1> SUFFICES ASSUME NEW j \in MatchOf(provider, remote, i), j \in RemoteOnly(provider, remote)
             PROVE  FALSE
  BY Zenon
<1>1. IdentityKey(p) \in KeysOf(provider)
  BY Zenon DEF KeysOf
<1>2. CASE Places(remote, IdentityKey(p)) # {}
  <2>1. IdentityKey(remote[j]) = IdentityKey(p)
    BY ZenonT(60), <1>2 DEF MatchOf, Places
  <2> QED BY ZenonT(60), <1>1, <2>1 DEF RemoteOnly
<1>3. CASE Places(remote, IdentityKey(p)) = {}
  <2>1. /\ j \in UniqueAt(remote, p.id) /\ i \in UniqueAt(provider, p.id)
        /\ isLegacy(p) \/ isLegacy(remote[j])
    BY ZenonT(60), <1>3 DEF MatchOf
  <2>2. remote[j].id = p.id
    BY ZenonT(60), <2>1 DEF UniqueAt, ByWireId
  <2> QED BY ZenonT(60), <2>1, <2>2 DEF RemoteOnly
<1> QED BY ZenonT(60), <1>2, <1>3

\* Conversely a record that is neither remote-only nor the partner of any
\* instance is shadowed by a later record with the same key: CompareThreeWay
\* loses nothing else.
THEOREM NothingElseIsLost ==
    ASSUME NEW provider, NEW remote, NEW j \in DOMAIN remote, DOMAIN remote \subseteq Nat,
           j \notin RemoteOnly(provider, remote),
           \A i \in DOMAIN provider : j \notin MatchOf(provider, remote, i)
    PROVE  \/ \E k \in DOMAIN remote : k > j /\ IdentityKey(remote[k]) = IdentityKey(remote[j])
           \/ \E i \in DOMAIN provider : /\ provider[i].id = remote[j].id
                                         /\ Places(remote, IdentityKey(provider[i])) # {}
<1>1. CASE IdentityKey(remote[j]) \in KeysOf(provider)
  <2>1. PICK i \in DOMAIN provider : IdentityKey(provider[i]) = IdentityKey(remote[j])
    BY ZenonT(60), <1>1 DEF KeysOf
  <2>2. j \in Places(remote, IdentityKey(provider[i]))
    BY Zenon, <2>1 DEF Places
  <2>3. PICK k \in Places(remote, IdentityKey(provider[i])) : ~(k <= j)
    BY Zenon, <2>2 DEF MatchOf
  <2> QED BY <2>1, <2>3 DEF Places
<1>2. CASE IdentityKey(remote[j]) \notin KeysOf(provider)
  <2>1. PICK i \in UniqueAt(provider, remote[j].id) :
           j \in UniqueAt(remote, remote[j].id) /\ (isLegacy(remote[j]) \/ isLegacy(provider[i]))
    BY ZenonT(60), <1>2 DEF RemoteOnly
  <2>2. i \in DOMAIN provider /\ provider[i].id = remote[j].id
    BY ZenonT(60), <2>1 DEF UniqueAt, ByWireId
  <2>3. Places(remote, IdentityKey(provider[i])) # {}
    BY ZenonT(60), <2>1, <2>2 DEF MatchOf
  <2> QED BY ZenonT(60), <2>2, <2>3
<1> QED BY ZenonT(60), <1>1, <1>2

-----------------------------------------------------------------------------
\* Delete removes at most the instance cached under the ID, or the only one
\* that has it as its wire ID: "an ambiguous same-name multi-source set must
\* remain untouched".
THEOREM DeleteIsExact ==
    ASSUME NEW cache, NEW id, NEW key \in DOMAIN cache, key \notin DOMAIN Delete(cache, id)
    PROVE  \/ key = id
           \/ /\ Len(id) = 1 /\ cache[key].id = id[1]
              /\ \A other \in DOMAIN cache \ {key} : cache[other].id # id[1]
<1>1. key \in Meant(cache, id)
  BY ZenonT(60) DEF Delete
<1>2. CASE id \in DOMAIN cache
  BY ZenonT(60), <1>1, <1>2 DEF Meant
<1>3. CASE id \notin DOMAIN cache
  <2>1. WireKeys(cache, id) = {key}
    BY ZenonT(60), <1>1, <1>3 DEF Meant
  <2> QED BY ZenonT(60), <2>1 DEF WireKeys
<1> QED BY ZenonT(60), <1>2, <1>3

\* What Delete leaves is what was there, and the deleted identity is gone.
THEOREM DeleteKeepsTheRest ==
    ASSUME NEW cache, NEW id
    PROVE  /\ id \notin DOMAIN Delete(cache, id)
           /\ DOMAIN Delete(cache, id) \subseteq DOMAIN cache
           /\ \A key \in DOMAIN Delete(cache, id) : Delete(cache, id)[key] = cache[key]
BY Zenon DEF Delete, Meant

\* An instance that was cached is found under its identity key, and caching
\* it changes no other entry: two sources that share a wire ID do not
\* overwrite each other.
THEOREM InsertIsExact ==
    ASSUME NEW cache, NEW ins
    PROVE  /\ Get(ReplaceOrInsert(cache, ins), IdentityKey(ins)) = ins
           /\ \A key \in DOMAIN cache \ {IdentityKey(ins)} : ReplaceOrInsert(cache, ins)[key] = cache[key]
<1> DEFINE new == ReplaceOrInsert(cache, ins)
<1>1. IdentityKey(ins) \in DOMAIN new /\ new[IdentityKey(ins)] = ins
  BY Zenon DEF ReplaceOrInsert
<1>2. Meant(new, IdentityKey(ins)) = {IdentityKey(ins)}
  BY ZenonT(60), <1>1 DEF Meant
<1>3. Get(new, IdentityKey(ins)) = ins
  BY ZenonT(60), <1>1, <1>2 DEF Get
<1>4. \A key \in DOMAIN cache \ {IdentityKey(ins)} : new[key] = cache[key]
  BY ZenonT(60) DEF ReplaceOrInsert
<1> QED BY ZenonT(60), <1>3, <1>4

-----------------------------------------------------------------------------
(***************************************************************************)
(* The provider-independent policy of observation.go and the Kubernetes    *)
(* provider's own conversion decide the same question twice.               *)
(***************************************************************************)
Pod == INSTANCE PodConversion

\* For a pod of one container, which the kubelet reports ready only while it
\* runs, StateOf and StatusOf agree with formatState and formatStatus, before
\* the container has reported as well as after.
THEOREM PolicyAgrees ==
    ASSUME NEW event, NEW pod, pod.containers = 1,
           pod.statuses \in Seq(Pod!ContainerStatus), Len(pod.statuses) <= 1,
           \A i \in DOMAIN pod.statuses : pod.statuses[i].ready => pod.statuses[i].state = "running"
    PROVE  /\ Pod!StatusOf(Pod!Observation(event, pod)) = Pod!formatStatus(event, pod)
           /\ Pod!StateOf(Pod!Observation(event, pod)) = Pod!formatState(pod)
<1> DEFINE obs == Pod!Observation(event, pod)
<1>1. /\ obs.phase = pod.phase /\ obs.podReason = pod.reason
      /\ obs.deleting = pod.deleting /\ obs.event = event
      /\ obs.crashLoop = (Pod!Looping(pod) # {})
      /\ obs.lastError = (\E i \in Pod!Looping(pod) : pod.statuses[i].lastError)
  BY Zenon DEF Pod!Observation
<1>2. /\ Len(pod.statuses) \in {0, 1}
      /\ DOMAIN pod.statuses = 1 .. Len(pod.statuses)
  <2>1. Len(pod.statuses) \in Nat /\ DOMAIN pod.statuses = 1 .. Len(pod.statuses)
    BY LenProperties, Zenon
  <2>2. \A n \in Nat : n <= 1 => n \in {0, 1}
    OBVIOUS
  <2> QED BY <2>1, <2>2, Zenon
<1>3. /\ obs.ready = (\E i \in DOMAIN pod.statuses : pod.statuses[i].ready)
      /\ obs.running = (\E i \in DOMAIN pod.statuses : pod.statuses[i].state = "running")
  BY Zenon DEF Pod!Observation
<1>4. /\ obs.ready <=> Pod!containersReady(pod)
      /\ (obs.ready /\ obs.running) <=> Pod!containersReady(pod)
  <2>1. CASE Len(pod.statuses) = 0
    <3>1. DOMAIN pod.statuses = {}
      BY <1>2, <2>1
    <3>2. ~Pod!containersReady(pod)
      BY ZenonT(60), <2>1 DEF Pod!containersReady
    <3> QED BY ZenonT(60), <1>3, <3>1, <3>2
  <2>2. CASE Len(pod.statuses) = 1
    <3>1. DOMAIN pod.statuses = {1}
      BY <1>2, <2>2
    <3>2. Pod!containersReady(pod) <=> (pod.statuses[1].ready /\ pod.statuses[1].state = "running")
      BY <2>2, <3>1 DEF Pod!containersReady
    <3>3. /\ obs.ready <=> pod.statuses[1].ready
          /\ obs.running <=> pod.statuses[1].state = "running"
      BY <1>3, <3>1
    <3>4. pod.statuses[1].ready => pod.statuses[1].state = "running"
      BY ZenonT(60), <3>1
    <3> HIDE DEF obs
    <3> QED BY <3>2, <3>3, <3>4
  <2> QED BY ZenonT(60), <1>2, <2>1, <2>2
<1>5. (\E i \in Pod!Looping(pod) : pod.statuses[i].lastError) => Pod!Looping(pod) # {}
  BY Zenon
<1> HIDE DEF obs
<1>6. Pod!StatusOf(obs) = Pod!formatStatus(event, pod)
  BY ZenonT(60), <1>1, <1>4 DEF Pod!StatusOf, Pod!formatStatus
<1>7. Pod!StateOf(obs) = Pod!formatState(pod)
  BY <1>1, <1>4, <1>5 DEF Pod!StateOf, Pod!formatState
<1> QED BY ZenonT(60), <1>6, <1>7 DEF obs

-----------------------------------------------------------------------------
(***************************************************************************)
(* The wire form of an instance.                                           *)
(***************************************************************************)
\* The fields of an instance, as a set of records.
Fields(K, C, I, W, P, A, IP, R, X) ==
    [key : K, cluster : C, id : I, workload : W, provider : P, app : A, ip : IP,
     ports : Seq(Nat), enabled : BOOLEAN, status : {Online, Unhealthy}, rev : R, rest : X]

\* The payload of a host that was written carries the instance: reconstruct
\* gives it back.
LEMMA RoundTripBare ==
    ASSUME NEW K, NEW C, NEW I, NEW W, NEW P, NEW A, NEW IP, NEW R, NEW X,
           NEW ins \in Fields(K, C, I, W, P, A, IP, R, X), NEW sdk \in BOOLEAN,
           ins.provider # "", ins.ports # <<>>
    PROVE  reconstruct(ins.app, Registered(ins, sdk)) = ins
<1> DEFINE host == Registered(ins, sdk)
<1>1. Decodes(host.meta) /\ host.meta.payload.instance = ins
  BY Zenon DEF Registered, metadataOf, Decodes, CanonicalPayload
<1>2. host.ip = ins.ip /\ host.port = ins.ports[1] /\ host.meta.id = ins.id
  BY Zenon DEF Registered, metadataOf, firstPort
<1>3. host.enabled = IF ins.status = Unhealthy THEN sdk ELSE ins.enabled
  BY ZenonT(60) DEF Registered, persistentWireFlags
<1>4. [ins.ports EXCEPT ![1] = host.port] = ins.ports
  <2>1. ins.ports \in Seq(Nat)
    BY ZenonT(60) DEF Fields
  <2>2. \A s \in Seq(Nat) : [s EXCEPT ![1] = s[1]] = s
    <3> TAKE s \in Seq(Nat)
    <3>1. DOMAIN s = 1..Len(s) /\ s \in [1..Len(s) -> Nat]
      BY ZenonT(60), LenProperties
    <3> QED BY ZenonT(60), <3>1
  <2>3. [ins.ports EXCEPT ![1] = ins.ports[1]] = ins.ports
    BY ZenonT(60), <2>1, <2>2
  <2> QED BY ZenonT(60), <1>2, <2>3
<1>5. FromPayload(ins.app, host) = ins
  <2>1. FromPayload(ins.app, host) =
          [ins EXCEPT !.app = ins.app, !.ip = ins.ip, !.ports = ins.ports, !.provider = ins.provider,
                      !.enabled = ins.enabled, !.id = ins.id]
    BY ZenonT(60), <1>1, <1>2, <1>3, <1>4 DEF FromPayload
  <2> QED BY ZenonT(60), <2>1 DEF Fields
<1> QED BY ZenonT(60), <1>1, <1>5 DEF reconstruct

\* Writing an instance that has a port and reading it back gives the instance
\* itself, on both wires: the comparison with Nacos (EqualNacosReconcile)
\* finds nothing to push again.
THEOREM RoundTrip ==
    ASSUME NEW K, NEW C, NEW I, NEW W, NEW P, NEW A, NEW IP, NEW R, NEW X,
           NEW ins \in Fields(K, C, I, W, P, A, IP, R, X), NEW sdk \in BOOLEAN,
           ins.provider # "", ins.ports # <<>>
    PROVE  reconstructForTransport(ins.app, Registered(ins, sdk), sdk) = ins
<1> DEFINE host == Registered(ins, sdk)
<1>1. reconstruct(ins.app, host) = ins
  BY ZenonT(60), RoundTripBare
<1>2. host.enabled = IF ins.status = Unhealthy THEN sdk ELSE ins.enabled
  BY Zenon DEF Registered, persistentWireFlags
<1> QED BY ZenonT(60), <1>1, <1>2 DEF reconstructForTransport

\* A host whose enabled bit is not the one the registration wrote is never
\* read back as the instance, so the next comparison pushes the instance
\* again: on the SDK wire a flipped bit cannot hide, whatever the status and
\* whatever happened to the metadata.
THEOREM WireDriftIsSeen ==
    ASSUME NEW K, NEW C, NEW I, NEW W, NEW P, NEW A, NEW IP, NEW R, NEW X,
           NEW ins \in Fields(K, C, I, W, P, A, IP, R, X), ins.rev # 0,
           NEW host, host.enabled \in BOOLEAN, host.enabled # Registered(ins, TRUE).enabled,
           Decodes(host.meta) => host.meta.payload.instance \in Fields(K, C, I, W, P, A, IP, R, X)
    PROVE  reconstructForTransport(ins.app, host, TRUE) # ins
<1> DEFINE was == reconstruct(ins.app, host)
<1> SUFFICES ASSUME reconstructForTransport(ins.app, host, TRUE) = ins PROVE FALSE
  BY ZenonT(60)
<1>1. Registered(ins, TRUE).enabled = IF ins.status = Unhealthy THEN TRUE ELSE ins.enabled
  BY ZenonT(60) DEF Registered, persistentWireFlags
<1>2. was.enabled = host.enabled \/ was.status = Unhealthy
  <2>1. CASE Decodes(host.meta)
    <3> DEFINE sent == host.meta.payload.instance
    <3>1. was = FromPayload(ins.app, host)
      BY ZenonT(60), <2>1 DEF reconstruct
    <3>2. was.status = sent.status /\ was.enabled = IF sent.status # Unhealthy THEN host.enabled ELSE sent.enabled
      BY ZenonT(60), <2>1, <3>1 DEF FromPayload, Fields
    <3> QED BY ZenonT(60), <3>2
  <2>2. CASE ~Decodes(host.meta)
    BY ZenonT(60), <2>2 DEF reconstruct, FromScalars
  <2> QED BY ZenonT(60), <2>1, <2>2
<1>3. "rev" \in DOMAIN was
  <2>1. CASE Decodes(host.meta)
    BY ZenonT(60), <2>1 DEF reconstruct, FromPayload, Fields
  <2>2. CASE ~Decodes(host.meta)
    BY ZenonT(60), <2>2 DEF reconstruct, FromScalars
  <2> QED BY ZenonT(60), <2>1, <2>2
<1>4. CASE was.status = Unhealthy /\ ~host.enabled
  <2>1. ins = [was EXCEPT !.rev = 0]
    BY ZenonT(60), <1>4 DEF reconstructForTransport
  <2>2. ins.rev = 0
    BY ZenonT(60), <1>3, <2>1
  <2> QED BY ZenonT(60), <2>2
<1>5. CASE ~(was.status = Unhealthy /\ ~host.enabled)
  <2>1. was = ins
    BY ZenonT(60), <1>5 DEF reconstructForTransport
  <2> QED BY ZenonT(60), <1>1, <1>2, <1>5, <2>1
<1> QED BY ZenonT(60), <1>4, <1>5

\* A record that another writer left, under another schema or none, is never
\* read back as the instance: it takes part in the comparison with a revision
\* no provider assigns and is pushed again under the current schema.
THEOREM OtherSchemasAreRewritten ==
    ASSUME NEW K, NEW C, NEW I, NEW W, NEW P, NEW A, NEW IP, NEW R, NEW X,
           NEW ins \in Fields(K, C, I, W, P, A, IP, R, X), ins.rev # 0,
           NEW host, NEW sdk \in BOOLEAN, host.meta.schema # Schema
    PROVE  reconstructForTransport(ins.app, host, sdk) # ins
<1> DEFINE was == reconstruct(ins.app, host)
<1>1. "rev" \in DOMAIN was /\ was.rev = 0
  BY Zenon DEF reconstruct, Decodes, FromScalars
<1>2. reconstructForTransport(ins.app, host, sdk).rev = 0
  BY ZenonT(60), <1>1 DEF reconstructForTransport
<1> QED BY ZenonT(60), <1>2

\* What Nacos returns names the identity and the owner that wrote it, so a
\* process that restarts recovers the ownership it had (recoverWireOwnership).
THEOREM OwnershipIsRecovered ==
    ASSUME NEW K, NEW C, NEW I, NEW W, NEW P, NEW A, NEW IP, NEW R, NEW X,
           NEW ins \in Fields(K, C, I, W, P, A, IP, R, X), NEW sdk \in BOOLEAN,
           ins.provider # "", ins.ports # <<>>,
           ins.key # <<>> \/ ins.cluster # "" \/ ins.id # ""
    PROVE  /\ sourceIdentityFromHost(ins.app, Registered(ins, sdk)) = Key(ins)
           /\ sourceOwnerScopeFromHost(ins.app, Registered(ins, sdk)) = wireOwnerScope(ins)
<1>1. reconstruct(ins.app, Registered(ins, sdk)) = ins
  BY ZenonT(60), RoundTripBare
<1> QED BY ZenonT(60), <1>1 DEF sourceIdentityFromHost, sourceOwnerScopeFromHost

\* The host of an instance is stored under the identity the instance is
\* deregistered and pruned by (compositeID against hostCompositeID).
THEOREM HostKeepsIdentity ==
    ASSUME NEW ins, NEW group, NEW sdk
    PROVE  hostCompositeID(ins.app, group, Registered(ins, sdk)) = compositeID(ins, group)
BY Zenon DEF hostCompositeID, Registered, compositeID

\* An instance without a port is read back with one, port 0: no comparison
\* ever finds it equal, so every interval pushes it again, although
\* EqualNacosReconcile promises no false difference after a round trip.
THEOREM PortlessNeverSettles ==
    ASSUME NEW K, NEW C, NEW I, NEW W, NEW P, NEW A, NEW IP, NEW R, NEW X,
           NEW ins \in Fields(K, C, I, W, P, A, IP, R, X), NEW sdk \in BOOLEAN, ins.ports = <<>>
    PROVE  reconstructForTransport(ins.app, Registered(ins, sdk), sdk) # ins
<1> DEFINE host == Registered(ins, sdk)
           was == reconstruct(ins.app, host)
<1>1. Decodes(host.meta) /\ host.meta.payload.instance = ins
  BY Zenon DEF Registered, metadataOf, Decodes, CanonicalPayload
<1>2. was.ports = <<host.port>>
  BY ZenonT(60), <1>1 DEF reconstruct, FromPayload, Fields
<1>3. reconstructForTransport(ins.app, host, sdk).ports = <<host.port>>
  <2>1. "ports" \in DOMAIN was
    BY ZenonT(60), <1>1 DEF reconstruct, FromPayload, Fields
  <2> QED BY ZenonT(60), <1>2, <2>1 DEF reconstructForTransport
<1> QED BY <1>3

-----------------------------------------------------------------------------
(***************************************************************************)
(* What a loop over a list makes of a value, for lists of any length.      *)
(***************************************************************************)
\* A property of some natural number has a least number.
LEMMA LeastNatural ==
    ASSUME NEW T, T \subseteq Nat, T # {}
    PROVE  \E n \in T : \A m \in T : n <= m
  <1> DEFINE lt == {ss \in Nat \X Nat : ss[1] < ss[2]}
  <1>1. IsWellFoundedOn(lt, Nat)
    BY Zenon, NatLessThanWellFounded DEF OpToRel
  <1> HIDE DEF lt
  <1>2. PICK n \in T : \A m \in T : ~(<<m, n>> \in lt)
    BY Zenon, <1>1, WFMin
  <1>3. ASSUME NEW m \in T PROVE n <= m
    <2>1. m \in Nat /\ n \in Nat /\ <<m, n>> \notin lt
      BY Zenon, <1>2
    <2>2. ~(m < n)
      BY Zenon, <2>1 DEF lt
    <2> QED BY <2>1, <2>2
  <1> QED BY Zenon, <1>3

\* Induction over the naturals, for a set of them.
LEMMA SetInduction ==
    ASSUME NEW S, 0 \in S, \A n \in Nat : n \in S => n + 1 \in S
    PROVE  \A n \in Nat : n \in S
  <1> DEFINE T == Nat \ S
  <1> SUFFICES ASSUME T # {} PROVE FALSE
    BY Zenon
  <1>1. PICK n \in T : \A m \in T : n <= m
    BY Zenon, LeastNatural
  <1>2. n \in Nat /\ n # 0 /\ n - 1 \in Nat /\ n - 1 \notin T
    BY <1>1
  <1> QED BY <1>1, <1>2

\* g[n] is what n rounds of the loop step make of v.
Rounds(g, v, n, step) == g[0] = v /\ \A i \in 1 .. n : g[i] = step[<<i, g[i - 1]>>]

\* A function defined by recursion over 0 .. n obeys its equation.
LEMMA Recursion ==
    ASSUME NEW V, NEW v \in V, NEW N \in Nat, NEW step \in [(1 .. N) \X V -> V]
    PROVE  \E g \in [0 .. N -> V] : Rounds(g, v, N, step)
  <1> USE DEF Rounds
  <1> DEFINE Upto(n, g) == Rounds(g, v, n, step)
             S == {n \in Nat : n <= N => \E g \in [0 .. n -> V] : Upto(n, g)}
  <1>1. 0 \in S
    <2>1. [i \in 0 .. 0 |-> v] \in [0 .. 0 -> V] /\ Upto(0, [i \in 0 .. 0 |-> v])
      OBVIOUS
    <2> QED BY Zenon, <2>1
  <1>2. ASSUME NEW n \in Nat, n \in S PROVE n + 1 \in S
    <2> SUFFICES ASSUME n + 1 <= N PROVE \E g \in [0 .. n + 1 -> V] : Upto(n + 1, g)
      OBVIOUS
    <2>1. PICK g \in [0 .. n -> V] : Upto(n, g)
      BY <1>2
    <2> DEFINE h == [i \in 0 .. n + 1 |-> IF i = n + 1 THEN step[<<n + 1, g[n]>>] ELSE g[i]]
    <2>2. g[n] \in V /\ n + 1 \in 1 .. N
      BY <2>1
    <2>3. step[<<n + 1, g[n]>>] \in V
      BY Zenon, <2>2
    <2>4. h \in [0 .. n + 1 -> V] /\ h[0] = v /\ h[n + 1] = step[<<n + 1, h[n]>>]
      <3>1. h[n] = g[n] /\ h[n + 1] = step[<<n + 1, g[n]>>] /\ h[0] = g[0]
        BY <2>1
      <3>2. \A i \in 0 .. n + 1 : i = n + 1 \/ g[i] \in V
        BY <2>1
      <3>3. h \in [0 .. n + 1 -> V]
        BY Zenon, <2>3, <3>2
      <3> HIDE DEF h
      <3> QED BY ZenonT(60), <2>1, <3>1, <3>3
    <2>5. ASSUME NEW i \in 1 .. n PROVE h[i] = step[<<i, h[i - 1]>>]
      <3>1. i \in 0 .. n + 1 /\ i # n + 1 /\ i - 1 \in 0 .. n + 1 /\ i - 1 # n + 1
        OBVIOUS
      <3>2. h[i] = g[i] /\ h[i - 1] = g[i - 1]
        BY Zenon, <3>1
      <3> QED BY Zenon, <2>1, <3>2
    <2>6. \A i \in 1 .. n + 1 : i = n + 1 \/ i \in 1 .. n
      OBVIOUS
    <2> HIDE DEF h
    <2>7. \A i \in 1 .. n + 1 : h[i] = step[<<i, h[i - 1]>>]
      <3>1. (n + 1) - 1 = n
        OBVIOUS
      <3> QED BY ZenonT(60), <2>4, <2>5, <2>6, <3>1
    <2> QED BY Zenon, <2>4, <2>7
  <1> HIDE DEF S
  <1>3. N \in S
    BY Zenon, <1>1, <1>2, SetInduction
  <1> QED BY <1>3 DEF S

-----------------------------------------------------------------------------
(***************************************************************************)
(* The comparison with Nacos takes its instances in any order.             *)
(***************************************************************************)
\* A record of the list that has the wire ID of target, the only one, and
\* agrees with it on the source where both have one.
WireMatch(list, target, i) ==
    /\ target.id # "" /\ ByWireId(list, target.id) = {i}
    /\ isLegacy(target) \/ isLegacy(list[i]) \/ SameEndpoint(target, list[i])

\* The lookup by wire ID alone.
ByWire(list, target) == LookupIdentity(NewCache, list, target)

\* LookupIdentity goes by the index where it holds the key, and otherwise by
\* the wire ID, for which the index does not matter.
LEMMA LookupCases ==
    ASSUME NEW index, NEW list, NEW target
    PROVE  /\ IdentityKey(target) \in DOMAIN index =>
                LookupIdentity(index, list, target) = index[IdentityKey(target)]
           /\ IdentityKey(target) \notin DOMAIN index =>
                LookupIdentity(index, list, target) = ByWire(list, target)
  <1>1. DOMAIN NewCache = {}
    BY Zenon DEF NewCache
  <1>2. CASE IdentityKey(target) \in DOMAIN index
    BY Zenon, <1>2 DEF LookupIdentity
  <1>3. CASE IdentityKey(target) \notin DOMAIN index
    <2>1. IdentityKey(target) \notin DOMAIN NewCache
      BY Zenon, <1>1
    <2> DEFINE at == ByWireId(list, target.id)
               rest == IF target.id # "" /\ \E i \in at : /\ at = {i}
                                                         /\ \/ isLegacy(target) \/ isLegacy(list[i])
                                                            \/ SameEndpoint(target, list[i])
                       THEN list[CHOOSE i \in at : TRUE] ELSE NotFound
    <2>2. LookupIdentity(index, list, target) = rest
      BY Zenon, <1>3 DEF LookupIdentity
    <2>3. ByWire(list, target) = rest
      BY Zenon, <2>1 DEF LookupIdentity, ByWire
    <2> HIDE DEF rest
    <2> QED BY Zenon, <1>3, <2>2, <2>3
  <1> QED BY Zenon, <1>2, <1>3

\* What the lookup by wire ID finds.
LEMMA ByWireCases ==
    ASSUME NEW list, NEW target
    PROVE  /\ \A i \in DOMAIN list : WireMatch(list, target, i) => ByWire(list, target) = list[i]
           /\ ByWire(list, target) = NotFound \/ \E i \in DOMAIN list : WireMatch(list, target, i)
  <1> DEFINE at == ByWireId(list, target.id)
  <1>1. ByWire(list, target) =
           IF target.id # "" /\ \E i \in at : /\ at = {i}
                                              /\ isLegacy(target) \/ isLegacy(list[i]) \/ SameEndpoint(target, list[i])
           THEN list[CHOOSE i \in at : TRUE] ELSE NotFound
    BY ZenonT(60) DEF ByWire, LookupIdentity, NewCache
  <1>2. \A i \in at : i \in DOMAIN list
    BY Zenon DEF ByWireId
  <1>3. ASSUME NEW i \in DOMAIN list, WireMatch(list, target, i) PROVE ByWire(list, target) = list[i]
    <2>1. at = {i} /\ target.id # "" /\ (isLegacy(target) \/ isLegacy(list[i]) \/ SameEndpoint(target, list[i]))
      BY Zenon, <1>3 DEF WireMatch
    <2>2. (CHOOSE j \in at : TRUE) = i
      BY Zenon, <2>1
    <2> HIDE DEF at
    <2> QED BY ZenonT(60), <1>1, <2>1, <2>2
  <1>4. ASSUME ByWire(list, target) # NotFound PROVE \E i \in DOMAIN list : WireMatch(list, target, i)
    BY ZenonT(60), <1>1, <1>2, <1>4 DEF WireMatch
  <1> QED BY Zenon, <1>3, <1>4

\* The index holds records of the list.
Indexes(index, list) == \A key \in DOMAIN index : \E j \in DOMAIN list : index[key] = list[j]

\* Whatever is found is a record of the list.
LEMMA FoundIsRecord ==
    ASSUME NEW list, NEW index, Indexes(index, list),
           NEW target, LookupIdentity(index, list, target) # NotFound
    PROVE  \E j \in DOMAIN list : LookupIdentity(index, list, target) = list[j]
  <1>1. CASE IdentityKey(target) \in DOMAIN index
    <2>1. LookupIdentity(index, list, target) = index[IdentityKey(target)]
      BY <1>1, LookupCases
    <2> QED BY Zenon, <1>1, <2>1 DEF Indexes
  <1>2. CASE IdentityKey(target) \notin DOMAIN index
    <2>1. LookupIdentity(index, list, target) = ByWire(list, target)
      BY <1>2, LookupCases
    <2>2. PICK i \in DOMAIN list : WireMatch(list, target, i)
      BY Zenon, <2>1, ByWireCases
    <2> QED BY Zenon, <2>1, <2>2, ByWireCases
  <1> QED BY Zenon, <1>1, <1>2

\* The index of a list without ambiguous keys.
LEMMA IndexOfList ==
    ASSUME NEW I, NEW list \in Seq(I), Ambiguous(list) = {}
    PROVE  /\ DOMAIN StrictListToMap(list).index = KeysOf(list)
           /\ \A j \in DOMAIN list : StrictListToMap(list).index[IdentityKey(list[j])] = list[j]
           /\ \A i, j \in DOMAIN list : IdentityKey(list[i]) = IdentityKey(list[j]) => i = j
  <1>1. DOMAIN StrictListToMap(list).index = KeysOf(list)
    BY Zenon DEF StrictListToMap
  <1>2. ASSUME NEW i \in DOMAIN list, NEW j \in DOMAIN list, IdentityKey(list[i]) = IdentityKey(list[j]) PROVE i = j
    BY Zenon, <1>2 DEF Ambiguous, KeysOf, Places
  <1>3. ASSUME NEW j \in DOMAIN list PROVE StrictListToMap(list).index[IdentityKey(list[j])] = list[j]
    <2>1. IdentityKey(list[j]) \in DOMAIN StrictListToMap(list).index
      BY Zenon, <1>1 DEF KeysOf
    <2>2. DOMAIN list \subseteq Nat
      OBVIOUS
    <2>3. PICK i \in DOMAIN list : /\ Places(list, IdentityKey(list[j])) = {i}
                                   /\ StrictListToMap(list).index[IdentityKey(list[j])] = list[i]
      BY Zenon, <2>1, <2>2, StrictIsUnambiguous
    <2>4. j \in Places(list, IdentityKey(list[j]))
      BY Zenon DEF Places
    <2> QED BY Zenon, <2>3, <2>4
  <1> QED BY Zenon, <1>1, <1>2, <1>3

\* What the loop takes out of the index when it comes to an instance.
Less(left, remote, ins) ==
    LET found == LookupIdentity(left, remote, ins)
        gone  == IF found = NotFound THEN {} ELSE {IdentityKey(found)}
    IN [key \in DOMAIN left \ gone |-> left[key]]

\* The loop of CompareAndFlush, one instance at a time.
LEMMA RemainingSteps ==
    ASSUME NEW I, NEW order \in Seq(I), NEW remote
    PROVE  /\ Remaining(order, remote)[0] = StrictListToMap(remote).index
           /\ \A n \in 1 .. Len(order) :
                Remaining(order, remote)[n] = Less(Remaining(order, remote)[n - 1], remote, order[n])
  <1> DEFINE index == StrictListToMap(remote).index
             Loop(g) == [n \in 0 .. Len(order) |->
                           IF n = 0 THEN index
                           ELSE LET found == LookupIdentity(g[n - 1], remote, order[n])
                                    gone  == IF found = NotFound THEN {} ELSE {IdentityKey(found)}
                                IN [key \in DOMAIN g[n - 1] \ gone |-> g[n - 1][key]]]
             left == CHOOSE g : g = Loop(g)
             V == UNION {[K -> {index[key] : key \in DOMAIN index}] : K \in SUBSET DOMAIN index}
             step == [x \in (1 .. Len(order)) \X V |-> Less(x[2], remote, order[x[1]])]
  <1>1. Remaining(order, remote) = left
    BY Zenon DEF Remaining
  <1>2. Len(order) \in Nat
    OBVIOUS
  <1>3. index \in V
    <2>1. index = [key \in DOMAIN index |-> index[key]]
      BY Zenon DEF StrictListToMap
    <2>2. index \in [DOMAIN index -> {index[key] : key \in DOMAIN index}]
      BY Zenon, <2>1
    <2> QED BY Zenon, <2>2
  <1>4. ASSUME NEW n \in 1 .. Len(order), NEW v \in V PROVE Less(v, remote, order[n]) \in V
    <2>1. PICK K \in SUBSET DOMAIN index : v \in [K -> {index[key] : key \in DOMAIN index}]
      BY Zenon, <1>4
    <2>2. PICK L : Less(v, remote, order[n]) = [key \in DOMAIN v \ L |-> v[key]]
      BY Zenon DEF Less
    <2>3. DOMAIN v \ L \in SUBSET DOMAIN index
      BY Zenon, <2>1
    <2>4. [key \in DOMAIN v \ L |-> v[key]] \in [DOMAIN v \ L -> {index[key] : key \in DOMAIN index}]
      BY Zenon, <2>1
    <2> QED BY ZenonT(60), <2>2, <2>3, <2>4
  <1> HIDE DEF V, index
  <1>5. step \in [(1 .. Len(order)) \X V -> V]
    <2>1. \A x \in (1 .. Len(order)) \X V : x[1] \in 1 .. Len(order) /\ x[2] \in V
      BY Zenon
    <2> QED BY Zenon, <1>4, <2>1
  <1>6. PICK g \in [0 .. Len(order) -> V] : Rounds(g, index, Len(order), step)
    <2> HIDE DEF step
    <2> QED BY Zenon, <1>2, <1>3, <1>5, Recursion
  <1>7. ASSUME NEW n \in 1 .. Len(order) PROVE g[n] = Less(g[n - 1], remote, order[n])
    <2>1. g[n - 1] \in V
      BY <1>2
    <2>2. g[n] = step[<<n, g[n - 1]>>]
      BY Zenon, <1>6 DEF Rounds
    <2> QED BY Zenon, <2>1, <2>2
  <1>8. g = Loop(g)
    <2>1. \A n \in 0 .. Len(order) : n = 0 \/ n \in 1 .. Len(order)
      BY <1>2
    <2>2. g = [n \in 0 .. Len(order) |-> g[n]]
      BY Zenon
    <2>3. \A n \in 0 .. Len(order) : g[n] = IF n = 0 THEN index ELSE Less(g[n - 1], remote, order[n])
      BY Zenon, <1>6, <1>7, <2>1 DEF Rounds
    <2> QED BY Zenon, <2>2, <2>3 DEF Less
  <1>9. left = Loop(left)
    <2> HIDE DEF Loop
    <2> QED BY Zenon, <1>8
  <1> HIDE DEF left
  <1>10. left[0] = index
    <2>1. 0 \in 0 .. Len(order)
      BY <1>2
    <2> QED BY Zenon, <1>9, <2>1
  <1>11. ASSUME NEW n \in 1 .. Len(order) PROVE left[n] = Less(left[n - 1], remote, order[n])
    <2>1. n \in 0 .. Len(order) /\ n # 0
      BY <1>2
    <2> DEFINE f == Loop(left)
    <2>2. f[n] = Less(left[n - 1], remote, order[n])
      BY Zenon, <2>1 DEF Less
    <2> HIDE DEF Loop
    <2> QED BY Zenon, <1>9, <2>2
  <1> QED BY Zenon, <1>1, <1>10, <1>11 DEF index

\* The keys that have left the index after n instances are those of the
\* records found so far.
Left(order, remote, found, n) ==
    LET left == Remaining(order, remote)[n] IN
    /\ DOMAIN left \subseteq KeysOf(remote)
    /\ \A key \in DOMAIN left : left[key] = StrictListToMap(remote).index[key]
    /\ \A key \in KeysOf(remote) :
          key \in DOMAIN left <=> ~\E m \in 1 .. n : found[m] # NotFound /\ IdentityKey(found[m]) = key

\* What has left the index, by induction over the instances.
LEMMA LeftIsFound ==
    ASSUME NEW I, NEW order \in Seq(I), NEW remote \in Seq(I), Ambiguous(remote) = {}, NEW found,
           \A n \in 1 .. Len(order) : found[n] = Resolved(order, remote, n)
    PROVE  \A n \in 0 .. Len(order) : Left(order, remote, found, n)
  <1> DEFINE S == {n \in Nat : n <= Len(order) => Left(order, remote, found, n)}
             R == Remaining(order, remote)
             index == StrictListToMap(remote).index
  <1>1. Len(order) \in Nat
    OBVIOUS
  <1>2. R[0] = index /\ \A n \in 1 .. Len(order) : R[n] = Less(R[n - 1], remote, order[n])
    BY Zenon, RemainingSteps
  <1>3. 0 \in S
    <2>1. DOMAIN index = KeysOf(remote)
      BY Zenon, IndexOfList
    <2>2. ~\E m \in 1 .. 0 : TRUE
      OBVIOUS
    <2>3. Left(order, remote, found, 0)
      BY Zenon, <1>2, <2>1, <2>2 DEF Left
    <2> QED BY Zenon, <2>3
  <1>4. ASSUME NEW n \in Nat, n \in S PROVE n + 1 \in S
    <2> SUFFICES ASSUME n + 1 <= Len(order) PROVE Left(order, remote, found, n + 1)
      OBVIOUS
    <2>1. n + 1 \in 1 .. Len(order) /\ (n + 1) - 1 = n /\ n <= Len(order)
      BY <1>1
    <2>2. Left(order, remote, found, n)
      BY Zenon, <1>4, <2>1
    <2>3. R[n + 1] = Less(R[n], remote, order[n + 1]) /\ found[n + 1] = LookupIdentity(R[n], remote, order[n + 1])
      BY Zenon, <1>2, <2>1 DEF Resolved
    <2>4. PICK gone : /\ gone = IF found[n + 1] = NotFound THEN {} ELSE {IdentityKey(found[n + 1])}
                      /\ R[n + 1] = [key \in DOMAIN R[n] \ gone |-> R[n][key]]
      BY Zenon, <2>3 DEF Less
    <2>5. DOMAIN R[n + 1] = DOMAIN R[n] \ gone /\ \A key \in DOMAIN R[n] \ gone : R[n + 1][key] = R[n][key]
      BY Zenon, <2>4
    <2>6. \A m : m \in 1 .. n + 1 <=> m \in 1 .. n \/ m = n + 1
      OBVIOUS
    <2>7. ASSUME NEW key \in KeysOf(remote)
          PROVE  key \in DOMAIN R[n + 1] <=> ~\E m \in 1 .. n + 1 : found[m] # NotFound /\ IdentityKey(found[m]) = key
      <3>1. key \in gone <=> found[n + 1] # NotFound /\ IdentityKey(found[n + 1]) = key
        BY Zenon, <2>4
      <3>2. key \in DOMAIN R[n] <=> ~\E m \in 1 .. n : found[m] # NotFound /\ IdentityKey(found[m]) = key
        BY Zenon, <2>2 DEF Left
      <3> QED BY Zenon, <2>5, <2>6, <3>1, <3>2
    <2> QED BY Zenon, <2>2, <2>5, <2>7 DEF Left
  <1> HIDE DEF S
  <1>5. ASSUME NEW n \in 0 .. Len(order) PROVE Left(order, remote, found, n)
    <2>1. n \in Nat /\ n <= Len(order)
      BY <1>1
    <2>2. n \in S
      BY Zenon, <1>3, <1>4, <2>1, SetInduction
    <2> QED BY Zenon, <2>1, <2>2 DEF S
  <1> QED BY Zenon, <1>5

\* Instance m finds what it would find in the whole index; or it is online,
\* finds nothing because its record was taken out, and is pushed either way.
Agrees(order, remote, found, whole, m) ==
    \/ found[m] = whole[m]
    \/ /\ found[m] = NotFound /\ whole[m] # NotFound
       /\ order[m].status = 1 /\ whole[m] # order[m]
       /\ \E k \in DOMAIN order : found[k] = whole[m] /\ whole[k] = whole[m]

\* Other instances of the provider do not come between an instance and its
\* record.
LEMMA FindsTheSame ==
    ASSUME NEW I, NotFound \notin I, NEW order \in Seq(I), NEW remote \in Seq(I),
           Ambiguous(order) = {}, Ambiguous(remote) = {}, Stationary(order, remote),
           NEW found, \A n \in 1 .. Len(order) : found[n] = Resolved(order, remote, n),
           NEW whole, \A n \in 1 .. Len(order) :
                          whole[n] = LookupIdentity(StrictListToMap(remote).index, remote, order[n]),
           NEW m \in 1 .. Len(order)
    PROVE  Agrees(order, remote, found, whole, m)
  <1> DEFINE index == StrictListToMap(remote).index
             R == Remaining(order, remote)
             K(n) == IdentityKey(order[n])
  <1>1. /\ DOMAIN order = 1 .. Len(order) /\ \A j \in DOMAIN remote : remote[j] \in I
        /\ \A n \in 1 .. Len(order) : n - 1 \in 0 .. Len(order)
    OBVIOUS
  <1>2. /\ DOMAIN index = KeysOf(remote) /\ \A j \in DOMAIN remote : index[IdentityKey(remote[j])] = remote[j]
        /\ \A i, j \in DOMAIN remote : IdentityKey(remote[i]) = IdentityKey(remote[j]) => i = j
    BY Zenon, IndexOfList
  <1>3. \A n, k \in 1 .. Len(order) : K(n) = K(k) => n = k
    BY Zenon, <1>1, IndexOfList
  <1>4. \A n \in 1 .. Len(order) : Left(order, remote, found, n - 1)
    BY Zenon, <1>1, LeftIsFound
  <1>5. \A n \in 1 .. Len(order) :
            /\ K(n) \in DOMAIN R[n - 1] => found[n] = index[K(n)] /\ K(n) \in KeysOf(remote)
            /\ K(n) \notin DOMAIN R[n - 1] => found[n] = ByWire(remote, order[n])
            /\ K(n) \in KeysOf(remote) => whole[n] = index[K(n)]
            /\ K(n) \notin KeysOf(remote) => whole[n] = ByWire(remote, order[n])
    <2> SUFFICES ASSUME NEW n \in 1 .. Len(order)
                 PROVE  /\ K(n) \in DOMAIN R[n - 1] => found[n] = index[K(n)] /\ K(n) \in KeysOf(remote)
                        /\ K(n) \notin DOMAIN R[n - 1] => found[n] = ByWire(remote, order[n])
                        /\ K(n) \in KeysOf(remote) => whole[n] = index[K(n)]
                        /\ K(n) \notin KeysOf(remote) => whole[n] = ByWire(remote, order[n])
      BY Zenon
    <2>1. found[n] = LookupIdentity(R[n - 1], remote, order[n]) /\ whole[n] = LookupIdentity(index, remote, order[n])
      BY Zenon DEF Resolved
    <2>2. K(n) \in DOMAIN R[n - 1] => K(n) \in KeysOf(remote) /\ R[n - 1][K(n)] = index[K(n)]
      BY Zenon, <1>4 DEF Left
    <2>3. /\ K(n) \in DOMAIN R[n - 1] => found[n] = R[n - 1][K(n)]
          /\ K(n) \notin DOMAIN R[n - 1] => found[n] = ByWire(remote, order[n])
      BY <2>1, LookupCases
    <2>4. /\ K(n) \in DOMAIN index => whole[n] = index[K(n)]
          /\ K(n) \notin DOMAIN index => whole[n] = ByWire(remote, order[n])
      BY <2>1, LookupCases
    <2> QED BY Zenon, <1>2, <2>2, <2>3, <2>4
  <1> HIDE DEF index, R
  <1>6. CASE K(m) \in DOMAIN R[m - 1] \/ K(m) \notin KeysOf(remote)
    <2>1. K(m) \in DOMAIN R[m - 1] => K(m) \in KeysOf(remote)
      BY Zenon, <1>5
    <2>2. found[m] = whole[m]
      BY Zenon, <1>5, <1>6, <2>1
    <2> QED BY Zenon, <2>2 DEF Agrees
  <1>7. CASE K(m) \notin DOMAIN R[m - 1] /\ K(m) \in KeysOf(remote)
    <2>1. PICK k \in 1 .. m - 1 : found[k] # NotFound /\ IdentityKey(found[k]) = K(m)
      BY Zenon, <1>4, <1>7 DEF Left, R
    <2>2. k \in 1 .. Len(order) /\ k # m
      BY <1>1
    <2>3. PICK j \in DOMAIN remote : IdentityKey(remote[j]) = K(m)
      BY Zenon, <1>7 DEF KeysOf
    <2>4. whole[m] = remote[j] /\ remote[j] # NotFound
      BY ZenonT(60), <1>1, <1>2, <1>5, <1>7, <2>3
    <2>5. K(k) # K(m)
      BY Zenon, <1>3, <2>2
    <2>6. K(k) \notin DOMAIN R[k - 1]
      <3> SUFFICES ASSUME K(k) \in DOMAIN R[k - 1] PROVE FALSE
        BY Zenon
      <3>1. found[k] = index[K(k)] /\ K(k) \in KeysOf(remote)
        BY Zenon, <1>5, <2>2
      <3>2. PICK i \in DOMAIN remote : IdentityKey(remote[i]) = K(k)
        BY Zenon, <3>1 DEF KeysOf
      <3>3. found[k] = remote[i]
        BY Zenon, <1>2, <3>1, <3>2
      <3> QED BY Zenon, <2>1, <2>5, <3>2, <3>3
    <2>7. found[k] = ByWire(remote, order[k])
      BY Zenon, <1>5, <2>2, <2>6
    <2>8. PICK i \in DOMAIN remote : WireMatch(remote, order[k], i)
      BY Zenon, <2>1, <2>7, ByWireCases
    <2>9. found[k] = remote[i]
      BY ZenonT(60), <2>7, <2>8, ByWireCases
    <2>10. i = j
      BY Zenon, <1>2, <2>1, <2>3, <2>9
    <2>11. order[k].id # "" /\ ByWireId(remote, order[k].id) = {j} /\ remote[j].id = order[k].id
      BY Zenon, <2>8, <2>10 DEF WireMatch, ByWireId
    <2>12. /\ order[m].cluster # "" /\ order[m].id = remote[j].id
           /\ order[m].status = 1 \/ SameEndpoint(order[m], remote[j])
      BY Zenon, <1>1, <2>3 DEF Stationary
    <2>13. whole[k] = remote[j]
      <3>1. K(k) \notin KeysOf(remote)
        <4> SUFFICES ASSUME K(k) \in KeysOf(remote) PROVE FALSE
          BY Zenon
        <4>1. PICK h \in DOMAIN remote : IdentityKey(remote[h]) = K(k)
          BY Zenon DEF KeysOf
        <4>2. order[k].id = remote[h].id
          BY Zenon, <1>1, <2>2, <4>1 DEF Stationary
        <4>3. h \in ByWireId(remote, order[k].id)
          BY Zenon, <4>2 DEF ByWireId
        <4> QED BY ZenonT(60), <2>3, <2>5, <2>11, <4>1, <4>3
      <3> QED BY ZenonT(60), <1>5, <2>2, <2>7, <2>9, <2>10, <3>1
    <2>14. found[m] = ByWire(remote, order[m])
      BY Zenon, <1>5, <1>7
    <2>15. CASE SameEndpoint(order[m], remote[j])
      <3>1. WireMatch(remote, order[m], j)
        BY Zenon, <2>11, <2>12, <2>15 DEF WireMatch
      <3>2. found[m] = whole[m]
        BY ZenonT(60), <2>4, <2>14, <3>1, ByWireCases
      <3> QED BY Zenon, <3>2 DEF Agrees
    <2>16. CASE ~SameEndpoint(order[m], remote[j])
      <3>1. remote[j] # order[m] /\ order[m].status = 1
        BY Zenon, <2>12, <2>16 DEF SameEndpoint
      <3>2. found[m] = NotFound \/ found[m] = remote[j]
        <4>1. ASSUME NEW h \in DOMAIN remote, WireMatch(remote, order[m], h) PROVE found[m] = remote[j]
          <5>1. h = j
            BY Zenon, <2>11, <2>12, <4>1 DEF WireMatch
          <5> QED BY ZenonT(60), <2>14, <4>1, <5>1, ByWireCases
        <4> QED BY Zenon, <2>14, <4>1, ByWireCases
      <3> QED BY Zenon, <1>1, <2>2, <2>4, <2>9, <2>10, <2>13, <3>1, <3>2 DEF Agrees
    <2> QED BY Zenon, <2>15, <2>16
  <1> QED BY Zenon, <1>6, <1>7

\* CompareAndFlush takes the records it resolves out of the index while it
\* walks over a map.  For lists of any length, what it pushes and what it
\* leaves as remote-only is what it would be if no record left the index, so
\* that the order of the walk does not matter.
THEOREM ComparisonIgnoresOrder ==
    ASSUME NEW I, NotFound \notin I, NEW order \in Seq(I), NEW remote \in Seq(I)
    PROVE  OrderFree(order, remote)
<1> SUFFICES ASSUME Stationary(order, remote)
             PROVE  CompareAndFlush(order, remote) = Independently(order, remote)
  BY Zenon DEF OrderFree
<1> DEFINE index == StrictListToMap(remote).index
           whole == [n \in DOMAIN order |-> LookupIdentity(index, remote, order[n])]
           found == [n \in DOMAIN order |-> Resolved(order, remote, n)]
           left == Remaining(order, remote)[Len(order)]
<1>1. CASE Ambiguous(order) # {} \/ Ambiguous(remote) # {}
  BY Zenon, <1>1 DEF CompareAndFlush, Independently
<1>2. CASE Ambiguous(order) = {} /\ Ambiguous(remote) = {}
  <2>1. DOMAIN order = 1 .. Len(order) /\ Len(order) \in 0 .. Len(order)
    OBVIOUS
  <2>2. /\ \A n \in 1 .. Len(order) : found[n] = Resolved(order, remote, n)
        /\ \A n \in 1 .. Len(order) : whole[n] = LookupIdentity(index, remote, order[n])
    BY Zenon, <2>1
  <2> HIDE DEF found, whole
  <2>3. \A m \in DOMAIN order : Agrees(order, remote, found, whole, m)
    BY ZenonT(60), <1>2, <2>1, <2>2, FindsTheSame
  <2>4. Left(order, remote, found, Len(order))
    BY ZenonT(60), <1>2, <2>1, <2>2, LeftIsFound
  <2>5. /\ \A j \in DOMAIN remote : index[IdentityKey(remote[j])] = remote[j] /\ remote[j] # NotFound
        /\ \A i, j \in DOMAIN remote : IdentityKey(remote[i]) = IdentityKey(remote[j]) => i = j
    <3>1. \A j \in DOMAIN remote : remote[j] \in I
      OBVIOUS
    <3> QED BY ZenonT(60), <1>2, <3>1, IndexOfList
  <2>6. \A n \in DOMAIN order : IsPushed(order[n], found[n]) <=> IsPushed(order[n], whole[n])
    BY Zenon, <2>3 DEF Agrees, IsPushed
  <2>7. \A j \in DOMAIN remote : (\E n \in DOMAIN order : found[n] = remote[j]) <=> (\E n \in DOMAIN order : whole[n] = remote[j])
    <3>1. ASSUME NEW j \in DOMAIN remote, NEW n \in DOMAIN order, found[n] = remote[j]
          PROVE  whole[n] = remote[j]
      BY ZenonT(60), <2>3, <2>5, <3>1 DEF Agrees
    <3>2. ASSUME NEW j \in DOMAIN remote, NEW n \in DOMAIN order, whole[n] = remote[j]
          PROVE  \E k \in DOMAIN order : found[k] = remote[j]
      BY ZenonT(60), <2>3, <3>2 DEF Agrees
    <3> QED BY ZenonT(60), <3>1, <3>2
  <2>8. ASSUME NEW n \in DOMAIN order, found[n] # NotFound PROVE \E j \in DOMAIN remote : found[n] = remote[j]
    <3>1. found[n] = whole[n] /\ whole[n] = LookupIdentity(index, remote, order[n])
      BY Zenon, <2>1, <2>2, <2>3, <2>8 DEF Agrees
    <3>2. Indexes(index, remote)
      <4>1. DOMAIN index = KeysOf(remote)
        BY Zenon, <1>2, IndexOfList
      <4> QED BY ZenonT(60), <2>5, <4>1 DEF KeysOf, Indexes
    <3> HIDE DEF index
    <3>3. LookupIdentity(index, remote, order[n]) # NotFound
      BY Zenon, <2>8, <3>1
    <3>4. \E j \in DOMAIN remote : LookupIdentity(index, remote, order[n]) = remote[j]
      BY Zenon, <3>2, <3>3, FoundIsRecord
    <3> QED BY Zenon, <3>1, <3>4
  <2>9. \A j \in DOMAIN remote : IdentityKey(remote[j]) \in DOMAIN left <=> ~\E n \in DOMAIN order : found[n] = remote[j]
    <3> SUFFICES ASSUME NEW j \in DOMAIN remote
                 PROVE  IdentityKey(remote[j]) \in DOMAIN left <=> ~\E n \in DOMAIN order : found[n] = remote[j]
      BY Zenon
    <3>1. IdentityKey(remote[j]) \in KeysOf(remote)
      BY Zenon DEF KeysOf
    <3>2. IdentityKey(remote[j]) \in DOMAIN left <=>
            ~\E n \in DOMAIN order : found[n] # NotFound /\ IdentityKey(found[n]) = IdentityKey(remote[j])
      BY Zenon, <2>1, <2>4, <3>1 DEF Left
    <3>3. ASSUME NEW n \in DOMAIN order, found[n] # NotFound, IdentityKey(found[n]) = IdentityKey(remote[j])
          PROVE  found[n] = remote[j]
      BY Zenon, <2>5, <2>8, <3>3
    <3>4. remote[j] # NotFound
      BY Zenon, <2>5
    <3> QED BY Zenon, <3>2, <3>3, <3>4
  <2>10. {left[key] : key \in DOMAIN left} = {remote[j] : j \in DOMAIN remote} \ {whole[n] : n \in DOMAIN order}
    <3>1. \A key \in DOMAIN left : \E j \in DOMAIN remote : key = IdentityKey(remote[j]) /\ left[key] = remote[j]
      <4> SUFFICES ASSUME NEW key \in DOMAIN left
                   PROVE  \E j \in DOMAIN remote : key = IdentityKey(remote[j]) /\ left[key] = remote[j]
        BY Zenon
      <4>1. key \in KeysOf(remote) /\ left[key] = index[key]
        BY Zenon, <2>4 DEF Left
      <4>2. PICK j \in DOMAIN remote : key = IdentityKey(remote[j])
        BY Zenon, <4>1 DEF KeysOf
      <4> QED BY Zenon, <2>5, <4>1, <4>2
    <3>2. \A j \in DOMAIN remote : IdentityKey(remote[j]) \in DOMAIN left => left[IdentityKey(remote[j])] = remote[j]
      BY Zenon, <2>4, <2>5 DEF Left
    <3>3. ASSUME NEW key \in DOMAIN left
          PROVE  left[key] \in {remote[j] : j \in DOMAIN remote} \ {whole[n] : n \in DOMAIN order}
      <4>1. PICK j \in DOMAIN remote : key = IdentityKey(remote[j]) /\ left[key] = remote[j]
        BY Zenon, <3>1
      <4>2. ~\E n \in DOMAIN order : whole[n] = remote[j]
        BY Zenon, <2>7, <2>9, <4>1
      <4> QED BY Zenon, <4>1, <4>2
    <3>4. ASSUME NEW x \in {remote[j] : j \in DOMAIN remote} \ {whole[n] : n \in DOMAIN order}
          PROVE  x \in {left[key] : key \in DOMAIN left}
      <4>1. PICK j \in DOMAIN remote : x = remote[j]
        BY Zenon
      <4>2. IdentityKey(remote[j]) \in DOMAIN left
        BY Zenon, <2>7, <2>9, <4>1
      <4> QED BY Zenon, <3>2, <4>1, <4>2
    <3> HIDE DEF left
    <3> QED BY Zenon, <3>3, <3>4
  <2>11. CompareAndFlush(order, remote) =
            [pushed |-> {order[n] : n \in {k \in DOMAIN order : IsPushed(order[k], Resolved(order, remote, k))}},
             remoteOnly |-> {left[key] : key \in DOMAIN left}]
    BY Zenon, <1>2 DEF CompareAndFlush
  <2>12. Independently(order, remote) =
            [pushed |-> {order[n] : n \in {k \in DOMAIN order : IsPushed(order[k], whole[k])}},
             remoteOnly |-> {remote[j] : j \in DOMAIN remote} \ {whole[n] : n \in DOMAIN order}]
    BY Zenon, <1>2 DEF Independently, whole
  <2>13. {k \in DOMAIN order : IsPushed(order[k], Resolved(order, remote, k))} = {k \in DOMAIN order : IsPushed(order[k], whole[k])}
    BY ZenonT(60), <2>1, <2>2, <2>6
  <2> QED BY ZenonT(60), <2>10, <2>11, <2>12, <2>13
<1> QED BY Zenon, <1>1, <1>2

-----------------------------------------------------------------------------
(***************************************************************************)
(* The conversion of Consul endpoints.                                     *)
(***************************************************************************)
Consul == INSTANCE ConsulConversion

\* The two answers about health agree: an instance that is converted runs
\* exactly when it is online, although convertState and convertSatus decide
\* separately.
THEOREM HealthIsOneAnswer ==
    ASSUME NEW endpoint, NEW source, Consul!Convertible(endpoint)
    PROVE  LET ins == Consul!convertInstanceForSource(endpoint, source)
           IN ins.state = "running" <=> ins.status = Consul!Online
<1>1. Consul!MetaValue(endpoint.meta, "appCode") # ""
  BY ZenonT(60) DEF Consul!Convertible
<1>2. Consul!convertState(endpoint) = "running" <=> Consul!convertSatus(endpoint) = Consul!Online
  <2>1. CASE Consul!Passes(endpoint)
    BY ZenonT(60), <1>1, <2>1 DEF Consul!convertState, Consul!convertSatus
  <2>2. CASE ~Consul!Passes(endpoint)
    <3>1. Consul!convertState(endpoint) = "probing"
      BY ZenonT(60), <1>1, <2>2 DEF Consul!convertState
    <3>2. Consul!convertSatus(endpoint) = 2
      BY ZenonT(60), <2>2 DEF Consul!convertSatus, Consul!Unhealthy
    <3> QED BY SMTT(60), <3>1, <3>2 DEF Consul!Online
  <2> QED BY SMTT(60), <2>1, <2>2
<1>3. /\ Consul!convertInstanceForSource(endpoint, source).state = Consul!convertState(endpoint)
      /\ Consul!convertInstanceForSource(endpoint, source).status = Consul!convertSatus(endpoint)
  BY ZenonT(60) DEF Consul!convertInstanceForSource
<1> QED BY SMTT(60), <1>2, <1>3

\* The names convertLabels never writes keep their value.
LEMMA LabelsKeepNames ==
    ASSUME NEW meta, NEW name, name \notin Consul!Compatibility, name # "env:san"
    PROVE  Consul!MetaValue(Consul!convertLabels(meta), name) = Consul!MetaValue(meta, name)
BY ZenonT(60) DEF Consul!convertLabels, Consul!MetaValue, Consul!Compatibility

\* convertLabels writes into the Meta map it was given; doing so twice is
\* doing so once.
LEMMA LabelsIdempotent ==
    ASSUME NEW meta
    PROVE  Consul!convertLabels(Consul!convertLabels(meta)) = Consul!convertLabels(meta)
<1> DEFINE once == Consul!convertLabels(meta)
           san(m) == IF "spring.application.name" \in DOMAIN m THEN {"env:san"} ELSE {}
<1>1. DOMAIN once = DOMAIN meta \cup Consul!Compatibility \cup san(meta)
  BY ZenonT(60) DEF Consul!convertLabels
<1>2. san(once) = san(meta)
  BY ZenonT(60), <1>1 DEF Consul!Compatibility
<1>3. Consul!MetaValue(once, "appCode") = Consul!MetaValue(meta, "appCode")
  BY ZenonT(60), LabelsKeepNames DEF Consul!Compatibility
<1>4. Consul!MetaValue(once, "namespace") = Consul!MetaValue(meta, "namespace")
  BY ZenonT(60), LabelsKeepNames DEF Consul!Compatibility
<1>5. "spring.application.name" \in DOMAIN meta =>
        once["spring.application.name"] = meta["spring.application.name"]
  BY ZenonT(60) DEF Consul!convertLabels, Consul!Compatibility
<1>6. DOMAIN Consul!convertLabels(once) = DOMAIN once
  BY ZenonT(60), <1>1, <1>2 DEF Consul!convertLabels
<1>7. ASSUME NEW l \in DOMAIN once PROVE Consul!convertLabels(once)[l] = once[l]
  BY SMTT(60), <1>1, <1>2, <1>3, <1>4, <1>5 DEF Consul!convertLabels, Consul!Compatibility
<1> QED BY ZenonT(60), <1>6, <1>7 DEF Consul!convertLabels

\* Converting an endpoint changes its Meta, and converting it again gives the
\* same instance: the side effect of convertLabels is never seen.
THEOREM ConversionIsRepeatable ==
    ASSUME NEW M, NEW P, NEW C, NEW S, NEW N, NEW I, NEW source,
           NEW endpoint \in [meta : M, ports : P, checks : C, service : S, node : N, index : I]
    PROVE  Consul!convertInstanceForSource([endpoint EXCEPT !.meta = Consul!convertLabels(endpoint.meta)], source)
             = Consul!convertInstanceForSource(endpoint, source)
<1> DEFINE again == [endpoint EXCEPT !.meta = Consul!convertLabels(endpoint.meta)]
<1>1. /\ again.meta = Consul!convertLabels(endpoint.meta) /\ again.ports = endpoint.ports
      /\ again.checks = endpoint.checks /\ again.service = endpoint.service
      /\ again.node = endpoint.node /\ again.index = endpoint.index
  BY ZenonT(60)
<1> HIDE DEF again
<1>2. \A name \in {"appCode", "version", "instanceId", "envType", "envGroup"} :
         Consul!MetaValue(again.meta, name) = Consul!MetaValue(endpoint.meta, name)
  BY ZenonT(60), <1>1, LabelsKeepNames DEF Consul!Compatibility
<1>3. Consul!Convertible(again) <=> Consul!Convertible(endpoint)
  BY ZenonT(60), <1>1, <1>2 DEF Consul!Convertible
<1>4. Consul!OwnChecks(again) = Consul!OwnChecks(endpoint)
  BY ZenonT(60), <1>1, <1>2 DEF Consul!OwnChecks
<1>5. Consul!convertState(again) = Consul!convertState(endpoint) /\ Consul!convertSatus(again) = Consul!convertSatus(endpoint)
  BY ZenonT(60), <1>1, <1>2, <1>4 DEF Consul!convertState, Consul!convertSatus, Consul!Passes
<1>6. Consul!convertLabels(again.meta) = Consul!convertLabels(endpoint.meta)
  BY ZenonT(60), <1>1, LabelsIdempotent
<1>7. \A id : Consul!consulSourceKey(source, again, id) = Consul!consulSourceKey(source, endpoint, id)
  BY ZenonT(60), <1>1 DEF Consul!consulSourceKey
<1>8. Consul!convertInstanceForSource(again, source) = Consul!convertInstanceForSource(endpoint, source)
  BY ZenonT(60), <1>1, <1>2, <1>3, <1>5, <1>6, <1>7 DEF Consul!convertInstanceForSource
<1> QED BY ZenonT(60), <1>8 DEF again

\* Endpoints of different sources, nodes or services have different keys: a
\* service ID that two nodes share does not merge their instances.
THEOREM KeysKeepEndpointsApart ==
    ASSUME NEW a, NEW b, NEW s, NEW t, NEW i, NEW j,
           Consul!NodeName(a.node) # "", Consul!NodeName(b.node) # "", a.service # "", b.service # "",
           Consul!consulSourceKey(s, a, i) = Consul!consulSourceKey(t, b, j)
    PROVE  s = t /\ Consul!NodeName(a.node) = Consul!NodeName(b.node) /\ a.service = b.service
BY ZenonT(60) DEF Consul!consulSourceKey

-----------------------------------------------------------------------------
\* The sources that are accepted have different wire scopes, and the ID of
\* each is its own wire scope ("raw source scopes and Nacos wire scopes must
\* remain identical for reconciliation and confirmed-empty prune"), given that
\* the derived IDs are hexadecimal.
THEOREM SourcesKeepApart ==
    ASSUME NEW sources, Consul!Acceptable(sources),
           \A set : Sanitize(Digest(set)) = Digest(set)
    PROVE  LET all == Consul!NormalizeSources(sources) IN
           /\ DOMAIN all = DOMAIN sources
           /\ \A n \in DOMAIN all : Sanitize(all[n].id) = all[n].id
           /\ \A m, n \in DOMAIN all : m # n => Sanitize(all[m].id) # Sanitize(all[n].id)
<1> DEFINE all == Consul!AllNormalized(sources)
<1>1. Consul!NormalizeSources(sources) = all /\ DOMAIN all = DOMAIN sources
  BY ZenonT(60) DEF Consul!NormalizeSources, Consul!AllNormalized
<1>2. \A m, n \in DOMAIN sources : m # n => Sanitize(all[m].id) # Sanitize(all[n].id)
  BY ZenonT(60) DEF Consul!Acceptable
<1>3. ASSUME NEW n \in DOMAIN sources PROVE Sanitize(all[n].id) = all[n].id
  <2>1. all[n] = Consul!Normalized(sources[n]) /\ all[n] # Consul!BadSource
    BY ZenonT(60) DEF Consul!Acceptable, Consul!AllNormalized
  <2>2. /\ Consul!AcceptableID(sources[n].id)
        /\ all[n].id = Consul!ConsulSourceID(sources[n].id, Consul!Usable(sources[n].addresses))
    BY SMTT(60), <2>1 DEF Consul!Normalized
  <2> QED BY ZenonT(60), <2>2 DEF Consul!AcceptableID, Consul!ConsulSourceID
<1> QED BY ZenonT(60), <1>1, <1>2, <1>3

\* When a constructor fails, every provider that was built is shut down, and
\* none that was not: nothing is left running behind the error.
THEOREM FailedConstructionLeavesNothing ==
    ASSUME NEW S, NEW sources \in Seq(S), NEW fails,
           NEW first \in DOMAIN sources, sources[first] \in fails,
           \A n \in 1..(first - 1) : sources[n] \notin fails
    PROVE  Consul!Built(sources, fails) = <<>> /\ Consul!ShutDown(sources, fails) = 1..(first - 1)
<1>1. DOMAIN sources = 1..Len(sources) /\ Len(sources) \in Nat
  OBVIOUS
<1>2. Consul!Built(sources, fails) = <<>>
  BY ZenonT(60) DEF Consul!Built
<1>3. ASSUME NEW n \in Consul!ShutDown(sources, fails) PROVE n \in 1..(first - 1)
  BY SMTT(60), <1>1, <1>3 DEF Consul!ShutDown
<1>4. ASSUME NEW n \in 1..(first - 1) PROVE n \in Consul!ShutDown(sources, fails)
  BY SMTT(60), <1>1, <1>4 DEF Consul!ShutDown
<1> QED BY ZenonT(60), <1>2, <1>3, <1>4
=============================================================================
