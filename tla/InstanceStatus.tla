--------------------------- MODULE InstanceStatus ---------------------------
(***************************************************************************)
(* The statuses of an instance (internal/domain/instance/rules.go).        *)
(***************************************************************************)
Online == 1
Unhealthy == 2
Offline == 3
=============================================================================
