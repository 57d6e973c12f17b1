--------------------------- MODULE MCK8sProvider ---------------------------
(***************************************************************************)
(* Instances of K8sProvider for TLC: one pod name, and pods that wait,     *)
(* serve, fail a probe, or die without an address.  The rules by which the *)
(* comparison pairs instances with records are checked beside it, on lists *)
(* of pods of one name in two clusters.                                    *)
(***************************************************************************)
EXTENDS K8sProvider

Rules == INSTANCE InstanceRules

Shape(phase, statuses, ip) ==
    [phase |-> phase, reason |-> "", deleting |-> FALSE, containers |-> 1, statuses |-> statuses,
     ip |-> ip, labels |-> [l \in {"app-code"} |-> "app"],
     env |-> [l \in {"K8S_CLUSTER_TYPE"} |-> "test"], nsName |-> "ns-name", version |-> 0]

Container(ready, state) == [ready |-> ready, state |-> state, lastError |-> FALSE]

Waiting == Shape("Pending", <<>>, "")
Serving == Shape("Running", <<Container(TRUE, "running")>>, "10.0.0.1")
Probing == Shape("Running", <<Container(FALSE, "running")>>, "10.0.0.1")
Died == Shape("Failed", <<>>, "")

PodShapes == {Waiting, Serving, Probing, Died}

-----------------------------------------------------------------------------
\* Pods of one name: two incarnations in one cluster and one in another; the
\* records an older key format left of them, and records without a source.
Named(key, cluster, ip, status) ==
    [key |-> key, label |-> key, cluster |-> cluster, labelCluster |-> cluster, provider |-> "k8s",
     id |-> "web", app |-> "app", ip |-> ip, status |-> status, rev |-> 1]

PodUids == {<<"east", "u1">>, <<"east", "u2">>, <<"west", "u3">>}
Addresses == {"10.0.0.1", "10.0.0.2"}
Provided == {Named(k, k[1], ip, status) : k \in PodUids, ip \in Addresses, status \in {Online, Offline}}
Older == {Named(<<"old", c>>, c, ip, Online) : c \in {"east", "west"}, ip \in Addresses}
Sourceless == {Named(<<>>, "", ip, Online) : ip \in Addresses}
Recorded == {r \in Provided : r.status = Online} \cup Older \cup Sourceless

ListsUpTo2(S) == {<<a>> : a \in S} \cup {l \in S \X S : l[1] # l[2]}

\* CompareAndFlush deletes the records it resolves from the index while it
\* iterates over a map, in an order Go leaves open.  What it pushes and what
\* it leaves as remote-only do not depend on that order (OrderFree).  This
\* speaks of no variable; it is evaluated before the informers have synced
\* and the first pod appears.
ComparisonIsOrderFree ==
    version = 0 /\ monitor = "syncing" =>
        \A order \in ListsUpTo2(Provided), remote \in ListsUpTo2(Recorded) : Rules!OrderFree(order, remote)
=============================================================================
