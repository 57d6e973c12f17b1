-------------------------- MODULE MCConsulMonitor --------------------------
(***************************************************************************)
(* An instance of ConsulMonitor for TLC.                                   *)
(***************************************************************************)
EXTENDS ConsulMonitor
=============================================================================
