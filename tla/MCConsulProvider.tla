------------------------- MODULE MCConsulProvider -------------------------
(***************************************************************************)
(* An instance of ConsulProvider for TLC.                                  *)
(***************************************************************************)
EXTENDS ConsulProvider

CONSTANTS a, b, c

InstanceIds == {a, b, c}
MovingIds == {a}
UncheckedIds == {a}
InvalidIds == {c}
=============================================================================
