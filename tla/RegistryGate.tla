---------------------------- MODULE RegistryGate ----------------------------
(***************************************************************************)
(* What the worker and the ordered sink do with an event, as the providers *)
(* see it: the rules of the write gate (pkg/worker/fanout.go, runLocked)   *)
(* without its locks and its calls, which are in OrderedSink.tla.          *)
(*                                                                         *)
(* An instance is a record with at least a status and, unless the status   *)
(* is 0 (no instance), a reversion.                                        *)
(***************************************************************************)
EXTENDS Naturals, InstanceStatus

IsLive(ins) == ins.status \notin {0, Offline}

\* The ledger's entry of an identity it has never accepted.
NoEntry == [rev |-> 0, tomb |-> FALSE, scoped |-> FALSE]

\* An incremental event is dropped: the ledger has moved past it, or has a
\* tombstone at its revision.
Stale(entry, ins) ==
    \/ entry.rev > ins.reversion
    \/ entry.tomb /\ entry.rev = ins.reversion

\* The entry after an incremental push.  It does not record the scope.
Accepted(entry, ins) == [entry EXCEPT !.rev = ins.reversion, !.tomb = (ins.status = Offline)]

Present(list) == {id \in DOMAIN list : list[id].status # 0}

\* Mutant: a full push heals no tombstone.
FullRejectedByTombs(ledger, fresh) == \E id \in Present(fresh) : Stale(ledger[id], fresh[id])

\* A full push with the snapshot fresh is rejected as a whole.  Being trusted
\* and revalidated it may bring back a tombstone of the same revision.
FullRejected(ledger, fresh) == \E id \in Present(fresh) : ledger[id].rev > fresh[id].reversion

\* The ledger after a full push: what it omits is entombed, if an earlier
\* full push of the scope had confirmed it.
FullLedger(ledger, fresh) ==
    [id \in DOMAIN ledger |->
        IF id \in Present(fresh) THEN [rev |-> fresh[id].reversion, tomb |-> FALSE, scoped |-> TRUE]
        ELSE [ledger[id] EXCEPT !.tomb = ledger[id].tomb \/ ledger[id].scoped]]
=============================================================================
