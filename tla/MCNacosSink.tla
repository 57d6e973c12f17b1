----------------------------- MODULE MCNacosSink -----------------------------
(***************************************************************************)
(* Two sources, A and B, in one cluster with two services.  x and y share  *)
(* a wire identity (the same address from two sources), and so does v, of  *)
(* the source of x; z is another instance of their service, u is one of    *)
(* the other service.  The client around the sink is checked beside it, on *)
(* small snapshots, listings and configurations.                           *)
(***************************************************************************)
EXTENDS NacosSink

CONSTANTS x, y, z, u, v, wx, wz, wu, A, B, api, web, east

MCWireOf == [i \in {x, y, z, u, v} |-> IF i = z THEN wz ELSE IF i = u THEN wu ELSE wx]
MCSourceOf == [i \in {x, y, z, u, v} |-> IF i = y THEN B ELSE A]
MCPairOf == [w \in {wx, wz, wu} |-> IF w = wu THEN web ELSE api]
MCClusterOf == [p \in {api, web} |-> east]
MCSnapshots == {{x}, {x, z}, {y, u}}

\* Nothing, or what earlier processes left: z and u, or a foreign record.
MCInitialCatalogs ==
    {[w \in {wx, wz, wu} |-> NoInstance],
     [w \in {wx, wz, wu} |-> IF w = wz THEN z ELSE IF w = wu THEN u ELSE Foreign]}

-----------------------------------------------------------------------------
(***************************************************************************)
(* The three invariants about the client speak of no variable.  They are   *)
(* evaluated before the first push.                                        *)
(***************************************************************************)
Client == INSTANCE NacosClient

\* Snapshots of up to four items: two services, items to register, to
\* deregister and to leave alone.
Item(n, status, app) == [status |-> status, app |-> app, cluster |-> east, n |-> n]
Lists == UNION {{[n \in 1..k |-> Item(n, what[n][1], what[n][2])] :
                    what \in [1..k -> {1, 3, 4} \X {api, web}]} : k \in 0..4}
MostItems == 2

\* Cutting a snapshot into batches loses, repeats and reorders nothing within
\* a service and an operation, no batch is larger than allowed, for a size out
\* of range too, and only the last batch of a key has room left
\* (splitPersistentBatchesForScope).
BatchesPartition ==
    pushes = 0 => \A list \in Lists, maxItems \in 0..3 : Client!CutsExactly(list, maxItems, MostItems)

\* Servers that list up to four names, in pages they may clamp.
Servers == [names : {[n \in 1..k |-> n] : k \in 0..4}, clamp : 1..3, declares : BOOLEAN,
            fails : SUBSET {1, 2}]

\* A listing that is answered is the whole listing (listServicesSDK,
\* ListCatalogInstances and listServicesHTTP), under the conditions that
\* ListsAll names.
ListingIsComplete ==
    pushes = 0 => \A server \in Servers, size \in 1..3 : Client!ListsAll(server, size, 6)

Configs == [sdk : BOOLEAN, policy : {"", "admin-managed", "verified", "other"}, verifier : BOOLEAN,
            admin : BOOLEAN, factory : {"none", "ok", "error"}, address : BOOLEAN, facade : BOOLEAN]
Writes == {[answer |-> "ok", applies |-> TRUE], [answer |-> "refused", applies |-> FALSE],
           [answer |-> "other", applies |-> FALSE],
           [answer |-> "down", applies |-> FALSE], [answer |-> "down", applies |-> TRUE]}
Environments == [disabled : BOOLEAN, reads : [1..2 -> Writes], healthy : BOOLEAN,
                 register : Writes, deregister : Writes, closes : BOOLEAN]

\* A readiness check closes the client it built and leaves no canary behind,
\* except where LeavesNothing says so (CheckReadinessWithConfig).
ReadinessLeavesNothing ==
    pushes = 0 => \A cfg \in Configs, env \in Environments : Client!LeavesNothing(cfg, env)
=============================================================================
