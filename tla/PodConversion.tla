--------------------------- MODULE PodConversion ---------------------------
(***************************************************************************)
(* What the Kubernetes provider makes of a pod                             *)
(* (pkg/providers/k8s/conversion.go, with the instance filter of           *)
(* pkg/providers/common.go and the provider-independent policy of          *)
(* internal/domain/instance/observation.go).                               *)
(*                                                                         *)
(* A pod is a record of the fields the conversion looks at.  Labels and    *)
(* environments are functions from the names that are present; values that *)
(* are only copied (ports, images, cpu, memory) are left out.              *)
(***************************************************************************)
EXTENDS Naturals, Sequences, RegistryGate

Phases == {"Pending", "Running", "Succeeded", "Failed", "Unknown"}

\* A container's status as the kubelet reports it.
ContainerStatus ==
    [ready : BOOLEAN,
     state : {"running", "waiting", "crashloop", "terminated"}, \* crashloop: waiting in CrashLoopBackOff
     lastError : BOOLEAN]                          \* the last termination was an "Error"

\* The value m has at key, or "" as a Go map answers.
Value(m, key) == IF key \in DOMAIN m THEN m[key] ELSE ""

-----------------------------------------------------------------------------
\* containersReady: every container of the pod has reported, is ready and runs.
containersReady(pod) ==
    /\ pod.containers # 0
    /\ Len(pod.statuses) = pod.containers
    /\ \A i \in DOMAIN pod.statuses : pod.statuses[i].ready /\ pod.statuses[i].state = "running"

\* formatStatus.  The pod of a delete event is offline whatever it says.
formatStatus(event, pod) ==
    IF event = "delete" \/ pod.deleting THEN Offline
    ELSE CASE pod.phase = "Running" -> IF containersReady(pod) THEN Online ELSE Unhealthy
           [] pod.phase = "Failed" -> IF pod.reason = "Evicted" THEN Unhealthy ELSE Offline
           [] pod.phase = "Pending" -> Unhealthy
           [] OTHER -> Offline

\* The containers that are not ready and wait in a crash loop.
Looping(pod) ==
    {i \in DOMAIN pod.statuses : ~pod.statuses[i].ready /\ pod.statuses[i].state = "crashloop"}

\* formatState.  An error outranks a crash, a crash outranks probing.
formatState(pod) ==
    IF pod.deleting THEN "terminated"
    ELSE CASE pod.phase = "Pending" -> "pending"
           [] pod.phase = "Failed" -> IF pod.reason = "Evicted" THEN "evicted" ELSE "failed"
           [] pod.phase = "Succeeded" -> "terminated"
           [] pod.phase = "Running" ->
                IF containersReady(pod) THEN "running"
                ELSE IF \E i \in Looping(pod) : pod.statuses[i].lastError THEN "error"
                ELSE IF Looping(pod) # {} THEN "crash" ELSE "probing"
           [] OTHER -> "unknown"

\* formatContainerEnabled
formatContainerEnabled(pod) ==
    pod.phase = "Running" /\ containersReady(pod) /\ ~pod.deleting

\* strings.ToLower on the environment names in use, and "online" renamed.
EnvName(env) ==
    CASE env \in {"online", "ONLINE", "product", "PRODUCT"} -> "product"
      [] env \in {"test", "TEST"} -> "test"
      [] OTHER -> env

\* formatEnvType: the env-type label overrides an environment that was found
\* in the containers, the K8S_CLUSTER_TYPE label stands in for a missing one.
formatEnvType(pod, discovered) ==
    EnvName(IF "env-type" \in DOMAIN pod.labels /\ discovered # "" THEN pod.labels["env-type"]
            ELSE IF "K8S_CLUSTER_TYPE" \in DOMAIN pod.labels /\ discovered = ""
                 THEN pod.labels["K8S_CLUSTER_TYPE"]
            ELSE discovered)

\* formatAppCode; nsName stands for the namespace joined with the name label.
formatAppCode(pod) ==
    IF "app-code" \in DOMAIN pod.labels THEN pod.labels["app-code"]
    ELSE IF "cadvisor-app" \in DOMAIN pod.labels THEN pod.labels["cadvisor-app"]
    ELSE pod.nsName

\* formatIDC: the idc label, else the environment of the application container.
formatIDC(pod) ==
    IF "idc" \in DOMAIN pod.labels THEN pod.labels["idc"] ELSE Value(pod.env, "APP_IDC")

\* formatCluster: a cluster-name that is not empty, else the cluster label,
\* else the environment of the application container.
formatCluster(pod) ==
    IF Value(pod.labels, "cluster-name") # "" THEN pod.labels["cluster-name"]
    ELSE IF "cluster" \in DOMAIN pod.labels THEN pod.labels["cluster"]
    ELSE Value(pod.env, "K8S_CLUSTER_NAME")

-----------------------------------------------------------------------------
\* The pod is not converted at all: it has no application code, or one that
\* this deployment does not push (no list of codes pushes everything).
Unconvertible(pod, pushAppCodes) ==
    \/ formatAppCode(pod) = ""
    \/ pushAppCodes # {} /\ formatAppCode(pod) \notin pushAppCodes

\* formatInstanceWithDeps, for the pod and the event it was read for.
formatInstance(event, pod) ==
    [ip |-> pod.ip, appCode |-> formatAppCode(pod),
     envType |-> formatEnvType(pod, Value(pod.env, "K8S_CLUSTER_TYPE")),
     envGroup |-> Value(pod.labels, "env-group"), idc |-> formatIDC(pod),
     cluster |-> formatCluster(pod), enabled |-> formatContainerEnabled(pod),
     state |-> formatState(pod), status |-> formatStatus(event, pod),
     reversion |-> pod.version]

\* InitInstanceFilters: the one filter every instance must pass.
Valid(ins) ==
    /\ ins.appCode # "" /\ ins.envType # ""
    /\ ~(ins.status = Online /\ ins.ip = "")
    /\ ins.state # "pending"
    /\ ins.reversion # 0
    /\ ins.status # 0

-----------------------------------------------------------------------------
(***************************************************************************)
(* The provider-independent policy.  It sees one container.                *)
(***************************************************************************)
Observation(event, pod) ==
    [phase |-> pod.phase, podReason |-> pod.reason,
     crashLoop |-> Looping(pod) # {},
     lastError |-> \E i \in Looping(pod) : pod.statuses[i].lastError,
     ready |-> \E i \in DOMAIN pod.statuses : pod.statuses[i].ready,
     running |-> \E i \in DOMAIN pod.statuses : pod.statuses[i].state = "running",
     deleting |-> pod.deleting, labels |-> pod.labels, event |-> event]

StateOf(obs) ==
    IF obs.deleting THEN "terminated"
    ELSE CASE obs.phase = "Pending" -> "pending"
           [] obs.phase = "Failed" -> IF obs.podReason = "Evicted" THEN "evicted" ELSE "failed"
           [] obs.phase = "Succeeded" -> "terminated"
           [] obs.phase = "Running" ->
                IF obs.ready THEN "running"
                ELSE IF obs.crashLoop THEN (IF obs.lastError THEN "error" ELSE "crash")
                ELSE "probing"
           [] OTHER -> "unknown"

StatusOf(obs) ==
    IF obs.deleting \/ obs.event = "delete" THEN Offline
    ELSE CASE obs.phase = "Pending" -> Unhealthy
           [] obs.phase = "Failed" -> IF obs.podReason = "Evicted" THEN Unhealthy ELSE Offline
           [] obs.phase = "Running" -> IF obs.ready /\ obs.running THEN Online ELSE Unhealthy
           [] OTHER -> Offline

EnvTypeOf(obs, discovered) ==
    EnvName(IF Value(obs.labels, "env-type") # "" /\ discovered # "" THEN obs.labels["env-type"]
            ELSE IF discovered = "" THEN Value(obs.labels, "K8S_CLUSTER_TYPE")
            ELSE discovered)
=============================================================================
