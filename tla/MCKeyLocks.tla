----------------------------- MODULE MCKeyLocks -----------------------------
(***************************************************************************)
(* Three goroutines and two identities: two callers can wait on one entry  *)
(* while a third creates, shares or drops it, and the two identities can   *)
(* be locked in conflicting orders.  Three addresses leave one spare, so   *)
(* that a dropped entry and its successor are told apart.                  *)
(***************************************************************************)
EXTENDS KeyLocks, TLC

CONSTANTS g1, g2, g3, a1, a2, a3

MCCallers == {g1, g2, g3}
MCAddresses == {a1, a2, a3}
MCKeys == {1, 2}
=============================================================================
