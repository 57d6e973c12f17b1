--------------------------- MODULE MCOrderedSink ---------------------------
(***************************************************************************)
(* Two goroutines and two identities.  Two revisions are enough for an     *)
(* event to be older than, equal to or newer than the ledger; Trigger is a *)
(* third one.                                                              *)
(***************************************************************************)
EXTENDS OrderedSink, TLC

CONSTANTS g1, g2, k1, k2, ecs1, ecs2, k8s

MCCallers == {g1, g2}
MCKeys == {k1, k2}

\* Two Consul sources.
ConsulScopes == {ecs1, ecs2}

\* The goroutines are interchangeable.
Symmetry == Permutations(MCCallers)

\* Two instances of one Consul source, whose scope is its cluster.
OneSource == [k \in MCKeys |-> ecs1]

\* One instance of each Consul source.
TwoSources == k1 :> ecs1 @@ k2 :> ecs2

\* Two Kubernetes instances, in the cluster named after their source.
Kubernetes == [k \in MCKeys |-> k8s]
SourceCluster == [k \in MCKeys |-> "cluster-a"]
=============================================================================
