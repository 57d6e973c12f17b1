--------------------------- MODULE InstanceRules ---------------------------
(***************************************************************************)
(* Identities, indexes and comparisons of instances                        *)
(* (internal/domain/instance/identity.go and rules.go, pkg/providers/      *)
(* common.go, identity.go and cache.go, and the comparison loop that       *)
(* pkg/providers/k8s/k8s.go and pkg/providers/consul/consul.go share).     *)
(*                                                                         *)
(* An instance is a record                                                 *)
(*   [key, label, cluster, labelCluster, provider, id, app, ip, status,    *)
(*    rev].                                                                *)
(* key and label are the SourceKey and its copy in the labels; a key is    *)
(* the sequence of its segments, <<>> when it is empty.  id is the         *)
(* InstanceId; a key or an id of one segment is what the code calls a wire *)
(* ID.  A list is a sequence of instances: every loop below skips a nil    *)
(* entry, so lists hold none.                                              *)
(***************************************************************************)
EXTENDS Naturals, Sequences, FiniteSets

\* The nil instance of the code.
NotFound == [found |-> FALSE]

-----------------------------------------------------------------------------
\* IdentityKey: the source key, else the source key in the labels, else the
\* provider and the wire ID.
IdentityKey(ins) ==
    IF ins.key # <<>> THEN ins.key
    ELSE IF ins.label # <<>> THEN ins.label
    ELSE IF ins.provider = "" THEN <<ins.id>>
    ELSE <<ins.provider, ins.id>>

\* isLegacy, legacyIdentity: the record carries no source at all.
isLegacy(ins) ==
    ins.key = <<>> /\ ins.cluster = "" /\ ins.label = <<>> /\ ins.labelCluster = ""

\* The places of a list that hold an instance with this identity.
Places(list, key) == {i \in DOMAIN list : IdentityKey(list[i]) = key}
KeysOf(list) == {IdentityKey(list[i]) : i \in DOMAIN list}

\* providers.ListToMap keeps the first instance of a key ...
FirstListToMap(list) ==
    [key \in KeysOf(list) |-> list[CHOOSE i \in Places(list, key) : \A j \in Places(list, key) : i <= j]]

\* ... and instance.ListToMap the last.
LastListToMap(list) ==
    [key \in KeysOf(list) |-> list[CHOOSE i \in Places(list, key) : \A j \in Places(list, key) : j <= i]]

\* A key that the list holds more than once.
Ambiguous(list) == {key \in KeysOf(list) : \E i, j \in Places(list, key) : i # j}

\* IdentityIndex reports the ambiguous keys and still resolves them to the
\* first instance.
IdentityIndex(list) == [index |-> FirstListToMap(list), ambiguous |-> Ambiguous(list)]

\* StrictListToMap reports them and resolves none of them.
StrictListToMap(list) ==
    [index |-> [key \in KeysOf(list) \ Ambiguous(list) |-> FirstListToMap(list)[key]],
     ambiguous |-> Ambiguous(list)]

\* LookupIdentity.  An instance that the index does not hold is looked up by
\* wire ID: one record of the list may have it, and when both carry a source
\* they must agree on cluster, provider, application and address.
SameEndpoint(a, b) ==
    a.cluster # "" /\ a.cluster = b.cluster /\ a.provider = b.provider /\ a.app = b.app /\ a.ip = b.ip

ByWireId(list, id) == {i \in DOMAIN list : list[i].id = id}

LookupIdentity(index, list, target) ==
    IF IdentityKey(target) \in DOMAIN index THEN index[IdentityKey(target)]
    ELSE LET at == ByWireId(list, target.id) IN
         IF target.id # "" /\ \E i \in at : /\ at = {i}
                                             /\ \/ isLegacy(target) \/ isLegacy(list[i])
                                                \/ SameEndpoint(target, list[i])
         THEN list[CHOOSE i \in at : TRUE]
         ELSE NotFound

-----------------------------------------------------------------------------
(***************************************************************************)
(* CompareAndFlush: every instance of the provider, in the order the map   *)
(* iteration happens to take, is resolved against the remote index; the    *)
(* record it resolves to leaves the index.  What remains in the index at   *)
(* the end is remote-only.  This is the comparison with Nacos, for a       *)
(* remote list that is not empty.                                          *)
(***************************************************************************)
\* Mutant: a record leaves the index under the key of the instance that was
\* resolved to it, not under its own.
RemainingByInstance(order, remote) ==
    LET left[n \in 0..Len(order)] ==
            IF n = 0 THEN StrictListToMap(remote).index
            ELSE [key \in DOMAIN left[n - 1] \ {IdentityKey(order[n])} |-> left[n - 1][key]]
    IN left

\* The remote index after the first n instances of the order.
Remaining(order, remote) ==
    LET left[n \in 0..Len(order)] ==
            IF n = 0 THEN StrictListToMap(remote).index
            ELSE LET found == LookupIdentity(left[n - 1], remote, order[n])
                     gone  == IF found = NotFound THEN {} ELSE {IdentityKey(found)}
                 IN [key \in DOMAIN left[n - 1] \ gone |-> left[n - 1][key]]
    IN left

\* The record instance n of the order resolves to.
Resolved(order, remote, n) ==
    LookupIdentity(Remaining(order, remote)[n - 1], remote, order[n])

\* An instance is pushed when its record differs, or when it has none and is
\* online (diff is DiffNacosReconcile, which compares the whole projection).
IsPushed(ins, found) ==
    IF found = NotFound THEN ins.status = 1 ELSE found # ins

\* The comparison, quarantined when a key of either side is ambiguous.
CompareAndFlush(order, remote) ==
    IF Ambiguous(order) # {} \/ Ambiguous(remote) # {}
    THEN [pushed |-> {}, remoteOnly |-> {}]
    ELSE [pushed     |-> {order[n] : n \in {k \in DOMAIN order :
                              IsPushed(order[k], Resolved(order, remote, k))}},
          remoteOnly |-> LET left == Remaining(order, remote)[Len(order)]
                         IN {left[key] : key \in DOMAIN left}]

(***************************************************************************)
(* What the loop promises.  It takes records out of the index while it     *)
(* goes over a map, in an order Go leaves open.                            *)
(***************************************************************************)
\* What the comparison decides when no record leaves the index: the pairing
\* of each instance does not depend on the ones before it.
Independently(order, remote) ==
    LET found == [n \in DOMAIN order |-> LookupIdentity(StrictListToMap(remote).index, remote, order[n])]
    IN IF Ambiguous(order) # {} \/ Ambiguous(remote) # {}
       THEN [pushed |-> {}, remoteOnly |-> {}]
       ELSE [pushed |-> {order[n] : n \in {k \in DOMAIN order : IsPushed(order[k], found[k])}},
             remoteOnly |-> {remote[j] : j \in DOMAIN remote} \ {found[n] : n \in DOMAIN order}]

\* The record of an instance, which carries its source, has its wire ID; and
\* an instance that is not online has not left the endpoint of its record.
Stationary(order, remote) ==
    \A n \in DOMAIN order, j \in DOMAIN remote :
        IdentityKey(order[n]) = IdentityKey(remote[j]) =>
            /\ order[n].cluster # "" /\ order[n].id = remote[j].id
            /\ order[n].status = 1 \/ SameEndpoint(order[n], remote[j])

\* The order does not matter: an instance whose record was taken out by
\* another one resolves to it by wire ID, or is pushed in any case, and no
\* record that an instance resolves to is remote-only.
OrderFree(order, remote) ==
    Stationary(order, remote) => CompareAndFlush(order, remote) = Independently(order, remote)

-----------------------------------------------------------------------------
(***************************************************************************)
(* CompareThreeWay: the same comparison as a function of two lists.        *)
(***************************************************************************)
\* uniqueWireIDs: the one place that holds this wire ID, if it is the only one.
UniqueAt(list, id) == {i \in DOMAIN list : id # "" /\ ByWireId(list, id) = {i}}

\* The place of the remote record that provider instance i is compared with.
\* A record with the same key wins; a wire ID that is unique on both sides
\* pairs two records of which one carries no source.
MatchOf(provider, remote, i) ==
    LET p == provider[i]
        same == Places(remote, IdentityKey(p))
    IN IF same # {} THEN {j \in same : \A k \in same : k <= j}
       ELSE {j \in UniqueAt(remote, p.id) :
                i \in UniqueAt(provider, p.id) /\ (isLegacy(p) \/ isLegacy(remote[j]))}

ProviderOnly(provider, remote) == {i \in DOMAIN provider : MatchOf(provider, remote, i) = {}}

\* A record is remote-only when no provider instance has its key and the wire
\* ID does not pair it with one.
RemoteOnly(provider, remote) ==
    {j \in DOMAIN remote :
        /\ IdentityKey(remote[j]) \notin KeysOf(provider)
        /\ ~\E i \in UniqueAt(provider, remote[j].id) :
               j \in UniqueAt(remote, remote[j].id) /\ (isLegacy(remote[j]) \/ isLegacy(provider[i]))}

-----------------------------------------------------------------------------
(***************************************************************************)
(* The cache of a provider: a b-tree ordered by identity key, so a         *)
(* function from keys.  Every operation copies what goes in and comes out. *)
(***************************************************************************)
NewCache == [key \in {} |-> NotFound]

\* The keys under which the instances with this wire ID are cached.  An ID
\* that contains a separator is never taken for a wire ID.
WireKeys(cache, id) == {key \in DOMAIN cache : Len(id) = 1 /\ cache[key].id = id[1]}

\* The one key an ID stands for: itself, or the key of the only instance that
\* has it as its wire ID.
Meant(cache, id) ==
    IF id \in DOMAIN cache THEN {id}
    ELSE {key \in WireKeys(cache, id) : WireKeys(cache, id) = {key}}

Get(cache, id) ==
    IF Meant(cache, id) = {} THEN NotFound ELSE cache[CHOOSE key \in Meant(cache, id) : TRUE]

Delete(cache, id) == [key \in DOMAIN cache \ Meant(cache, id) |-> cache[key]]

ReplaceOrInsert(cache, ins) ==
    [key \in DOMAIN cache \cup {IdentityKey(ins)} |->
        IF key = IdentityKey(ins) THEN ins ELSE cache[key]]

List(cache) == {cache[key] : key \in DOMAIN cache}
=============================================================================
