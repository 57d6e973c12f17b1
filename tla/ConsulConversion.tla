-------------------------- MODULE ConsulConversion --------------------------
(***************************************************************************)
(* What the Consul provider makes of a health endpoint                     *)
(* (pkg/providers/consul/convertion.go), and which Consul sources and      *)
(* agents it uses (pkg/providers/consul/source.go and client_factory.go,   *)
(* internal/domain/instance/identity.go).                                  *)
(*                                                                         *)
(* An endpoint is a record                                                 *)
(*   [meta, ports, checks, service, node, index]                           *)
(* where meta is the Meta map, ports the parsed ports of the meta or       *)
(* NoPorts, checks a set of [check, passing], service and index the ID and *)
(* ModifyIndex of the service, and node a sequence of the node's ID, name  *)
(* and address.  Names are trimmed: strings.TrimSpace has been applied.    *)
(***************************************************************************)
EXTENDS Naturals, FiniteSets, SequencesExt, InstanceStatus, WireScope

CONSTANTS
    Joined(_),     \* several names joined with a separator, as one name
    Safe(_),       \* the name has only letters, digits, hyphen, underscore, dot
    Digest(_)      \* the ID derived from a set of addresses

NoPorts == [missing |-> TRUE]      \* no ports in the meta, or not JSON
NoInstance == [error |-> TRUE]     \* the conversion fails

\* The value m has at key, or "" as a Go map answers.
MetaValue(m, key) == IF key \in DOMAIN m THEN m[key] ELSE ""

\* convertPort: the scheme stands in for a missing protocol, protocol and
\* index name a port without a name, and the port is its own service port.
convertPort(ports) ==
    [n \in DOMAIN ports |->
        LET protocol == IF ports[n].protocol = "" THEN ports[n].scheme ELSE ports[n].protocol
        IN [name |-> IF ports[n].name = "" THEN Joined(<<protocol, n - 1>>) ELSE ports[n].name,
            protocol |-> protocol, port |-> ports[n].port, servicePort |-> ports[n].port]]

\* The checks that speak for the service: the one of its ID, and the one named
\* after its application that older registrations use.
OwnChecks(endpoint) ==
    {c \in endpoint.checks :
        \/ c.check = endpoint.service /\ endpoint.service # ""
        \/ c.check = MetaValue(endpoint.meta, "appCode")}

Passes(endpoint) == \E c \in OwnChecks(endpoint) : c.passing

\* convertState and convertSatus: the two look at the same checks.
convertState(endpoint) ==
    IF endpoint.checks # {} /\ MetaValue(endpoint.meta, "appCode") = "" THEN "unknown"
    ELSE IF Passes(endpoint) THEN "running" ELSE "probing"

convertSatus(endpoint) ==
    IF MetaValue(endpoint.meta, "appCode") # "" /\ Passes(endpoint) THEN Online ELSE Unhealthy

\* convertLabels writes the compatibility labels into the endpoint's own Meta
\* map and returns that map.
Compatibility == {"compatibility:aos_namespace", "compatibility:aos_app", "compatibility:aos_dr_host"}
convertLabels(meta) ==
    LET san == IF "spring.application.name" \in DOMAIN meta THEN {"env:san"} ELSE {}
    IN [l \in DOMAIN meta \cup Compatibility \cup san |->
          CASE l \in san -> meta["spring.application.name"]
            [] l = "compatibility:aos_namespace" -> MetaValue(meta, "namespace")
            [] l = "compatibility:aos_app" -> MetaValue(meta, "appCode")
            [] l = "compatibility:aos_dr_host" ->
                 Joined(<<MetaValue(meta, "appCode"), MetaValue(meta, "namespace")>>)
            [] OTHER -> meta[l]]

\* consulSourceKey: source, node and service.  A service ID is unique on its
\* node only; the node is known by its ID, else its name, else its address.
NodeName(node) ==
    IF node[1] # "" THEN node[1] ELSE IF node[2] # "" THEN node[2] ELSE node[3]
consulSourceKey(source, endpoint, instanceId) ==
    LET service == IF endpoint.service # "" THEN endpoint.service ELSE instanceId
        node == NodeName(endpoint.node)
    IN IF node = "" THEN <<source, service>> ELSE <<source, node, service>>

\* convertInstanceForSource; a source without a name keeps the legacy identity.
Convertible(endpoint) ==
    /\ endpoint.ports # NoPorts
    /\ MetaValue(endpoint.meta, "appCode") # ""
    /\ MetaValue(endpoint.meta, "version") # ""
convertInstanceForSource(endpoint, source) ==
    LET id == MetaValue(endpoint.meta, "instanceId") IN
    IF ~Convertible(endpoint) THEN NoInstance
    ELSE [cluster |-> source, id |-> id, ports |-> convertPort(endpoint.ports),
          ip |-> endpoint.node[3], provider |-> "ecs",
          envType |-> MetaValue(endpoint.meta, "envType"),
          envGroup |-> MetaValue(endpoint.meta, "envGroup"),
          app |-> MetaValue(endpoint.meta, "appCode"),
          version |-> MetaValue(endpoint.meta, "version"),
          idc |-> IF MetaValue(endpoint.meta, "envType") = "dev" THEN "office" ELSE "mix",
          enabled |-> TRUE, state |-> convertState(endpoint), status |-> convertSatus(endpoint),
          label |-> convertLabels(endpoint.meta), rev |-> endpoint.index,
          key |-> IF source = "" THEN <<>> ELSE consulSourceKey(source, endpoint, id)]

-----------------------------------------------------------------------------
(***************************************************************************)
(* Sources: a source is a record [id, addresses].                          *)
(***************************************************************************)
BadSource == [error |-> TRUE]

\* The usable addresses, each once and in the configured order
\* (ConsulSource.Normalized, NewClientFactoryWithOptions).
Usable(addresses) ==
    FoldLeft(LAMBDA acc, a : IF a = "" \/ a \in ToSet(acc) THEN acc ELSE Append(acc, a),
             <<>>, addresses)

\* ConsulSourceID: a configured ID must be its own wire scope; without one the
\* addresses, in any order, give the ID.
AcceptableID(id) == id = "" \/ (Safe(id) /\ Sanitize(id) = id)
ConsulSourceID(id, addresses) == IF id # "" THEN id ELSE Digest(ToSet(addresses))

Normalized(source) ==
    LET addresses == Usable(source.addresses) IN
    IF addresses = <<>> \/ ~AcceptableID(source.id) THEN BadSource
    ELSE [id |-> ConsulSourceID(source.id, addresses), addresses |-> addresses]

\* NormalizeSources: all of them, or none.
AllNormalized(sources) == [n \in DOMAIN sources |-> Normalized(sources[n])]
Acceptable(sources) ==
    LET all == AllNormalized(sources) IN
    /\ sources # <<>>
    /\ \A n \in DOMAIN sources : all[n] # BadSource /\ Sanitize(all[n].id) # ""
    /\ \A m, n \in DOMAIN sources :
          m # n => all[m].id # all[n].id /\ Sanitize(all[m].id) # Sanitize(all[n].id)
NormalizeSources(sources) == IF Acceptable(sources) THEN AllNormalized(sources) ELSE <<>>

\* newConsulProvidersWithConstructor, for the sources whose constructor fails:
\* the first failure shuts down the providers built before it.
Built(sources, fails) ==
    IF \E n \in DOMAIN sources : sources[n] \in fails THEN <<>> ELSE sources
ShutDown(sources, fails) ==
    {n \in DOMAIN sources : /\ \E m \in DOMAIN sources : m > n /\ sources[m] \in fails
                            /\ \A m \in 1..n : sources[m] \notin fails}
acceptLegacyRemote(sources) == Len(sources) = 1

-----------------------------------------------------------------------------
(***************************************************************************)
(* ConsulClientFactory: the cached clients in the order of the addresses,  *)
(* then the other addresses.  A probe has a leader, an empty leader or an  *)
(* error; creating a client may fail as well.                              *)
(***************************************************************************)
Attempts(addrs, cached) ==
    SelectSeq(addrs, LAMBDA a : a \in cached) \o SelectSeq(addrs, LAMBDA a : a \notin cached)

\* The place of the attempt that succeeds, 0 when none does.
Healthy(attempts, probe) == {n \in DOMAIN attempts : probe[attempts[n]] = "leader"}
FirstHealthy(attempts, probe) ==
    IF Healthy(attempts, probe) = {} THEN 0
    ELSE CHOOSE n \in Healthy(attempts, probe) : \A m \in Healthy(attempts, probe) : n <= m

\* The addresses that were probed in vain leave the cache, the one that was
\* taken is in it.
CacheAfter(addrs, cached, probe) ==
    LET attempts == Attempts(addrs, cached)
        n == FirstHealthy(attempts, probe)
        vain == {attempts[m] : m \in IF n = 0 THEN DOMAIN attempts ELSE 1..(n - 1)}
    IN (cached \ vain) \cup (IF n = 0 THEN {} ELSE {attempts[n]})
=============================================================================
