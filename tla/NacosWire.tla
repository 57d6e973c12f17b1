----------------------------- MODULE NacosWire -----------------------------
(***************************************************************************)
(* The wire form of an instance in Nacos and the way back                  *)
(* (pkg/nacos/nacos.go from persistentWireFlags to parseInt64, and         *)
(* internal/domain/instance/metadata.go).                                  *)
(*                                                                         *)
(* An instance is a record                                                 *)
(*   [key, cluster, id, workload, provider, app, ip, ports, enabled,       *)
(*    status, rev, rest]                                                   *)
(* where cluster is SourceCluster, workload is Cluster, ports the sequence *)
(* of port numbers and rest every field that is only copied.  A host is    *)
(* what Nacos stores: the address, the two health bits and the metadata.   *)
(* Keys of instances are those of IdentityKey (module InstanceRules).      *)
(***************************************************************************)
EXTENDS Naturals, Sequences, InstanceStatus, WireScope

CONSTANT Key(_)    \* IdentityKey of an instance

DefaultCluster == "DEFAULT"

\* The schema this binary writes, and the answer of a payload that does not
\* decode.
Schema == 1
NoPayload == [version |-> 0]

-----------------------------------------------------------------------------
\* persistentWireFlags: an unhealthy instance stays enabled on the SDK wire,
\* so that queries still return it, and is disabled on the HTTP wire.
persistentWireFlags(ins, sdk) ==
    IF ins.status = Unhealthy THEN [enabled |-> sdk, healthy |-> FALSE]
    ELSE [enabled |-> ins.enabled, healthy |-> ins.enabled]

\* clusterOf: the workload's cluster unless it only repeats the provider, else
\* the source, else the provider.
clusterOf(ins) ==
    IF ins.workload # "" /\ (ins.cluster = "" \/ ins.workload # ins.provider) THEN Sanitize(ins.workload)
    ELSE IF ins.cluster # "" THEN Sanitize(ins.cluster)
    ELSE IF ins.provider # "" THEN ins.provider
    ELSE DefaultCluster

firstPort(ins) == IF ins.ports # <<>> THEN ins.ports[1] ELSE 0

\* compositeIDWithGroup, hostCompositeID: the identity of a host in Nacos.
compositeID(ins, group) == <<ins.ip, firstPort(ins), clusterOf(ins), group, ins.app>>
hostCompositeID(service, group, host) == <<host.ip, host.port, host.cluster, group, service>>

\* CompressedCanonicalPayload: the whole instance under the payload's version.
CanonicalPayload(ins) == [version |-> Schema, instance |-> ins]

\* metadataOf: scalar copies for older readers, the schema, and the payload.
\* A status is metadata in decimal: <<n>> stands for text that reads as n, and
\* <<>> for none, or text that does not parse.
metadataOf(ins) ==
    [schema |-> Schema, key |-> ins.key, cluster |-> ins.cluster, id |-> ins.id,
     rev |-> ins.rev, status |-> <<ins.status>>, rest |-> ins.rest,
     payload |-> CanonicalPayload(ins)]

\* The host that a registration writes.
Registered(ins, sdk) ==
    [ip |-> ins.ip, port |-> firstPort(ins), cluster |-> clusterOf(ins),
     enabled |-> persistentWireFlags(ins, sdk).enabled,
     healthy |-> persistentWireFlags(ins, sdk).healthy,
     meta |-> metadataOf(ins)]

-----------------------------------------------------------------------------
\* parseStatus: the status of the metadata, whatever number it is, else the
\* enabled bit.
parseStatus(raw, enabled) ==
    IF raw # <<>> THEN raw[1] ELSE IF enabled THEN Online ELSE Unhealthy

\* The payload decodes under the schema this binary writes.
Decodes(meta) == meta.schema = Schema /\ meta.payload.version = Schema

\* reconstruct, from the payload: Nacos owns the address, the first port and,
\* unless the instance is unhealthy, the enabled bit.
FromPayload(service, host) ==
    LET was == host.meta.payload.instance IN
    [was EXCEPT !.app = service, !.ip = host.ip,
                !.ports = IF was.ports = <<>> THEN <<host.port>> ELSE [was.ports EXCEPT ![1] = host.port],
                !.provider = IF was.provider = "" THEN host.cluster ELSE was.provider,
                !.enabled = IF was.status # Unhealthy THEN host.enabled ELSE was.enabled,
                !.id = IF was.id = "" THEN host.meta.id ELSE was.id]

\* reconstruct, from the scalars: the wire cluster stands in for the provider,
\* and a revision written under another schema is not trusted.
FromScalars(service, host) ==
    [key |-> host.meta.key, cluster |-> host.meta.cluster, id |-> host.meta.id, workload |-> "",
     provider |-> host.cluster, app |-> service, ip |-> host.ip, ports |-> <<host.port>>,
     enabled |-> host.enabled, status |-> parseStatus(host.meta.status, host.enabled),
     rev |-> IF host.meta.schema = Schema THEN host.meta.rev ELSE 0, rest |-> host.meta.rest]

reconstruct(service, host) ==
    IF Decodes(host.meta) THEN FromPayload(service, host) ELSE FromScalars(service, host)

\* reconstructForTransport: an unhealthy host that the SDK wire shows disabled
\* is marked by a revision no provider assigns.
reconstructForTransport(service, host, sdk) ==
    LET ins == reconstruct(service, host) IN
    IF sdk /\ ins.status = Unhealthy /\ ~host.enabled THEN [ins EXCEPT !.rev = 0] ELSE ins

\* sourceIdentityFromHost; NoSource for a record that names no source at all.
NoSource == <<>>
sourceIdentityFromHost(service, host) ==
    LET ins == reconstruct(service, host) IN
    IF ins.key = <<>> /\ ins.cluster = "" /\ ins.id = "" THEN NoSource ELSE Key(ins)

\* wireOwnerScope: the source cluster owns a record, else its own identity does.
wireOwnerScope(ins) ==
    IF ins.cluster # "" THEN <<"source-cluster", ins.cluster>> ELSE <<"source-identity", Key(ins)>>
sourceOwnerScopeFromHost(service, host) == wireOwnerScope(reconstruct(service, host))

\* GetAll: the hosts whose status is asked for; no list asks for every one.
statusAllowed(statuses, status) == statuses = {} \/ status \in statuses
=============================================================================
