------------------------- MODULE MCServerLifecycle -------------------------
(***************************************************************************)
(* A kubernetes and a consul provider. Three configurations: both sinks    *)
(* with an admin-managed health policy, under election; Nacos alone and no *)
(* sink at all, with election off.                                         *)
(***************************************************************************)
EXTENDS ServerLifecycle

Configured == {"k8s", "ecs"}

Deployments ==
    { [nacos |-> TRUE, atlas |-> TRUE, adminManaged |-> TRUE, electing |-> TRUE],
      [nacos |-> TRUE, atlas |-> FALSE, adminManaged |-> FALSE, electing |-> FALSE],
      [nacos |-> FALSE, atlas |-> FALSE, adminManaged |-> FALSE, electing |-> FALSE] }

=============================================================================
