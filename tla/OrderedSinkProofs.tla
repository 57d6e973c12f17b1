------------------------- MODULE OrderedSinkProofs -------------------------
(***************************************************************************)
(* The safety of the write gate for any number of goroutines, identities,  *)
(* providers and revisions.                                                *)
(*                                                                         *)
(* The decision to accept a push and the recording of it are two steps     *)
(* with a network call between them.  What makes this safe is that nobody  *)
(* else can record the same identity in between: GateInv says who excludes *)
(* whom, and AcceptedInv that what a goroutine has accepted is therefore   *)
(* still acceptable when it is forwarded and when it is recorded.          *)
(*                                                                         *)
(* The gate uses one mutex per identity.  The last part shows that the     *)
(* lock table of lockKeys (KeyLocks) provides them to the same goroutines  *)
(* for the same identities.                                                *)
(***************************************************************************)
EXTENDS OrderedSink, TLAPS

Inside == {"ready", "push", "commit"}

\* Who holds what at each place of a call.
GateInv ==
    /\ writer # NoCaller => readers = {}
    /\ \A c \in Callers :
        /\ pc[c] \in {"idle", "gate"} => c \notin readers /\ writer # c
        /\ pc[c] = "gate" => Full(op[c])
        /\ pc[c] = "keys" => c \in readers /\ ~Full(op[c])
        /\ pc[c] \in Inside =>
            IF Full(op[c]) THEN writer = c
            ELSE c \in readers /\ \A i \in op[c].items : holder[i.key] = c

\* A batch names an identity once.
BatchInv ==
    \A c \in Callers : \A i, j \in op[c].items : i.key = j.key => i = j

\* What was accepted has not been overtaken, and the sink is still open.
AcceptedInv ==
    \A c \in Callers : pc[c] \in {"push", "commit"} => ~closed /\ StaleItems(op[c]) = {}

IInv == TypeOK /\ GateInv /\ BatchInv /\ AcceptedInv

-----------------------------------------------------------------------------
\* A revision of the model, whether the provider's or the trigger's.
LEMMA RevType ==
    ASSUME NEW i \in Item
    PROVE  Rev(i) \in Revision
BY MaxRevAssumption DEF Item, Rev, Revision, Trigger

\* The snapshot of a provider consists of items, one per identity.
LEMMA SnapshotType ==
    ASSUME TypeOK, NEW s
    PROVE  /\ Snapshot(s) \subseteq Item
           /\ \A i, j \in Snapshot(s) : i.key = j.key => i = j
<1>1. ASSUME NEW k \in Keys PROVE source[k].rev \in 0 .. MaxRev
  BY Zenon DEF TypeOK
<1>2. \A k \in Keys : Event(k, source[k].rev, FALSE) \in Item
  BY Zenon, <1>1 DEF Event, Item
<1>3. \A i \in Snapshot(s) : i.key \in Keys /\ i = Event(i.key, source[i.key].rev, FALSE)
  BY DEF Snapshot, Event
<1> QED
  BY Zenon, <1>2, <1>3

\* The empty call.
LEMMA NoCallType == NoCall \in Call
BY MaxRevAssumption DEF NoCall, Call

\* Nothing is locked and no call is in progress at the start.
LEMMA InitIInv == Init => IInv
<1> SUFFICES ASSUME Init
             PROVE  IInv
  BY Zenon
<1> USE DEF Init
<1>1. TypeOK
  <2>1. [rev |-> 0, live |-> FALSE] \in [rev : 0 .. MaxRev, live : BOOLEAN]
    BY MaxRevAssumption
  <2>2. holder \in [Keys -> Callers \cup {NoCaller}]
    BY Zenon DEF Locks!MutexInit
  <2> QED
    BY Zenon, <2>1, <2>2, NoCallType DEF TypeOK
<1>2. GateInv /\ BatchInv /\ AcceptedInv
  BY Zenon, NoCallerAssumption DEF GateInv, BatchInv, AcceptedInv, NoCall, Inside
<1> QED
  BY Zenon, <1>1, <1>2 DEF IInv

-----------------------------------------------------------------------------
\* Steps that leave the gate, the ledger and the calls alone.
LEMMA QuietIInv ==
    ASSUME IInv, TypeOK', UNCHANGED <<ledgerVars, gateVars, pc, op>>
    PROVE  IInv'
BY DEF IInv, GateInv, BatchInv, AcceptedInv, ledgerVars, gateVars, Full, StaleItems,
       StaleRevision, Heals, Trusted, Rev

\* The providers' steps.
LEMMA SourceIInv ==
    ASSUME IInv, NEW k \in Keys, SourceUpdate(k) \/ SourceDelete(k) \/ DriftDelete(k)
    PROVE  IInv'
<1>0. source[k] \in [rev : 0 .. MaxRev, live : BOOLEAN]
  BY Zenon DEF IInv, TypeOK
<1>1. source' \in [Keys -> [rev : 0 .. MaxRev, live : BOOLEAN]]
  <2>1. ASSUME NEW r \in 0 .. MaxRev, NEW b \in BOOLEAN,
               source' = [source EXCEPT ![k] = [rev |-> r, live |-> b]]
        PROVE  source' \in [Keys -> [rev : 0 .. MaxRev, live : BOOLEAN]]
    BY Zenon, <2>1 DEF IInv, TypeOK
  <2>2. \A r \in 1 .. MaxRev : r \in 0 .. MaxRev
    BY MaxRevAssumption
  <2> QED
    BY Zenon, <1>0, <2>1, <2>2 DEF SourceUpdate, SourceDelete, DriftDelete, IInv, TypeOK
<1>2. emitted' \subseteq Item
  <2>1. \A r \in 0 .. MaxRev : Event(k, r, FALSE) \in Item /\ Event(k, r, TRUE) \in Item
    BY Zenon DEF Event, Item
  <2>2. 0 \in 0 .. MaxRev /\ \A r \in 1 .. MaxRev : r \in 0 .. MaxRev
    BY MaxRevAssumption
  <2>3. emitted \subseteq Item
    BY Zenon DEF IInv, TypeOK
  <2>4. CASE SourceUpdate(k)
    BY Zenon, <2>1, <2>2, <2>3, <2>4 DEF SourceUpdate
  <2>5. CASE SourceDelete(k)
    BY Zenon, <1>0, <2>1, <2>3, <2>5 DEF SourceDelete
  <2>6. CASE DriftDelete(k)
    BY Zenon, <2>1, <2>2, <2>3, <2>6 DEF DriftDelete
  <2> QED
    BY Zenon, <2>4, <2>5, <2>6
<1>3. UNCHANGED <<ledgerVars, gateVars, pc, op, innerVars>>
  BY Zenon DEF SourceUpdate, SourceDelete, DriftDelete
<1>4. TypeOK'
  BY Zenon, <1>1, <1>2, <1>3 DEF IInv, TypeOK, ledgerVars, gateVars, innerVars
<1> QED
  BY Zenon, <1>3, <1>4, QuietIInv

-----------------------------------------------------------------------------
\* A call that is replaced by a call stays one.
LEMMA OpType ==
    ASSUME TypeOK, NEW c \in Callers, NEW call \in Call, op' = [op EXCEPT ![c] = call]
    PROVE  op' \in [Callers -> Call]
BY Zenon DEF TypeOK

\* An event is pushed.
LEMMA PushIInv ==
    ASSUME IInv, NEW c \in Callers, Push(c)
    PROVE  IInv'
<1> USE DEF Push, IInv
<1>1. PICK e \in emitted : op' = [op EXCEPT ![c] = [NoCall EXCEPT !.items = {e}]]
  BY Zenon
<1> DEFINE call == [NoCall EXCEPT !.items = {e}]
<1>2. call \in Call /\ ~Full(call) /\ call.items = {e}
  BY ZenonT(60), NoCallType DEF NoCall, Call, Full, TypeOK
<1>3. op'[c] = call /\ \A d \in Callers \ {c} : op'[d] = op[d]
  BY Zenon, <1>1 DEF TypeOK
<1> HIDE DEF call
<1>4. TypeOK'
  BY Zenon, <1>1, <1>2, OpType DEF TypeOK, ledgerVars, innerVars, call
<1>5. GateInv'
  BY ZenonT(60), <1>2, <1>3 DEF GateInv, TypeOK, Full, Inside
<1>6. BatchInv'
  BY <1>2, <1>3 DEF BatchInv
<1>7. AcceptedInv'
  BY <1>3 DEF AcceptedInv, ledgerVars, TypeOK, StaleItems, StaleRevision, Heals, Trusted, Rev
<1> QED
  BY Zenon, <1>4, <1>5, <1>6, <1>7

\* A full push is called.
LEMMA CallFullIInv ==
    ASSUME IInv, NEW c \in Callers, CallFull(c)
    PROVE  IInv'
<1> USE DEF CallFull, IInv
<1>1. PICK s \in Scopes, kind \in FullKinds \ {"revalidate"}, confirmed \in BOOLEAN :
        op' = [op EXCEPT ![c] = [kind |-> kind, scope |-> s, items |-> Snapshot(s),
                                 confirmed |-> confirmed, asof |-> Asof, acked |-> FALSE]]
  BY Zenon
<1> DEFINE call == [kind |-> kind, scope |-> s, items |-> Snapshot(s),
                    confirmed |-> confirmed, asof |-> Asof, acked |-> FALSE]
<1>2. Asof \in [Keys -> 0 .. MaxRev]
  BY Zenon DEF Asof, TypeOK
<1>3. call \in Call /\ Full(call) /\ call.items = Snapshot(s)
  BY Zenon, <1>2, SnapshotType, KindsAssumption DEF Call, Full
<1>4. op'[c] = call /\ \A d \in Callers \ {c} : op'[d] = op[d]
  BY ZenonT(60), <1>1 DEF TypeOK
<1>5. op' \in [Callers -> Call]
  BY Zenon, <1>1, <1>3, OpType
<1> HIDE DEF call
<1>6. TypeOK'
  BY Zenon, <1>5 DEF TypeOK, ledgerVars, gateVars, innerVars
<1>7. GateInv'
  BY ZenonT(60), <1>3, <1>4 DEF GateInv, TypeOK, gateVars, Full, Inside
<1>8. BatchInv'
  BY <1>3, <1>4, SnapshotType DEF BatchInv
<1>9. AcceptedInv'
  BY <1>4 DEF AcceptedInv, ledgerVars, TypeOK, StaleItems, StaleRevision, Heals, Trusted, Rev
<1> QED
  BY Zenon, <1>6, <1>7, <1>8, <1>9

\* The identities of an event are locked.
LEMMA LockKeysIInv ==
    ASSUME IInv, NEW c \in Callers, LockKeys(c)
    PROVE  IInv'
<1> USE DEF LockKeys, IInv
<1>1. TypeOK'
  BY Zenon DEF TypeOK, Locks!Acquire, ledgerVars, innerVars
<1>2. GateInv'
  <2> SUFFICES ASSUME NEW d \in Callers, pc'[d] \in Inside, ~Full(op[d]), NEW i \in op[d].items
               PROVE  d \in readers /\ holder'[i.key] = d
    BY DEF GateInv, TypeOK, Full, Inside
  <2>1. op[d].items \subseteq Item /\ i.key \in Keys
    BY DEF TypeOK, Call, Item
  <2>2. CASE d = c
    BY Zenon, <2>1, <2>2 DEF GateInv, Locks!Acquire, KeysOf
  <2>3. CASE d # c
    <3>1. pc[d] \in Inside /\ holder[i.key] = d /\ d \in readers
      BY Zenon, <2>3 DEF TypeOK, GateInv
    <3>2. i.key \notin KeysOf(op[c].items)
      BY Zenon, <3>1, NoCallerAssumption DEF Locks!Acquire
    <3> QED
      BY Zenon, <2>1, <3>1, <3>2 DEF Locks!Acquire
  <2> QED
    BY Zenon, <2>2, <2>3
<1>3. BatchInv'
  BY Zenon DEF BatchInv
<1>4. AcceptedInv'
  BY DEF AcceptedInv, ledgerVars, TypeOK, StaleItems, StaleRevision, Heals, Trusted, Rev
<1> QED
  BY Zenon, <1>1, <1>2, <1>3, <1>4

-----------------------------------------------------------------------------
\* Returning releases what the caller held, and nothing of anybody else's.
LEMMA ReturnGate ==
    ASSUME TypeOK, GateInv, BatchInv, NEW c \in Callers, Return(c)
    PROVE  /\ readers' \subseteq Callers
           /\ writer' \in Callers \cup {NoCaller}
           /\ holder' \in [Keys -> Callers \cup {NoCaller}]
           /\ pc' \in [Callers -> {"idle", "gate", "keys", "ready", "push", "commit"}]
           /\ op' \in [Callers -> Call]
           /\ GateInv'
           /\ BatchInv'
<1> USE DEF Return
<1>1. readers' \subseteq Callers /\ writer' \in Callers \cup {NoCaller}
  BY Zenon DEF TypeOK
<1>2. holder' \in [Keys -> Callers \cup {NoCaller}]
  BY Zenon DEF TypeOK, Locks!Release
<1>3. /\ pc' \in [Callers -> {"idle", "gate", "keys", "ready", "push", "commit"}]
      /\ pc'[c] = "idle" /\ \A d \in Callers \ {c} : pc'[d] = pc[d]
  BY Zenon DEF TypeOK
<1>4. op' \in [Callers -> Call]
  BY Zenon, NoCallType, OpType
<1>5. op'[c] = NoCall /\ \A d \in Callers \ {c} : op'[d] = op[d]
  BY Zenon DEF TypeOK
<1>6. GateInv'
  <2>1. writer' # NoCaller => readers' = {}
    BY Zenon DEF GateInv
  <2> SUFFICES ASSUME NEW d \in Callers
               PROVE  /\ pc'[d] \in {"idle", "gate"} => d \notin readers' /\ writer' # d
                      /\ pc'[d] = "gate" => Full(op'[d])
                      /\ pc'[d] = "keys" => d \in readers' /\ ~Full(op'[d])
                      /\ pc'[d] \in Inside =>
                          IF Full(op'[d]) THEN writer' = d
                          ELSE d \in readers' /\ \A i \in op'[d].items : holder'[i.key] = d
    BY Zenon, <2>1 DEF GateInv, Full, Inside
  <2>2. CASE d = c
    BY Zenon, <1>3, <2>2, NoCallerAssumption DEF Inside
  <2>3. CASE d # c
    <3>1. \A i \in op[d].items : i.key \in Keys
      BY DEF TypeOK, Call, Item
    <3>2. \A i \in op[d].items : holder[i.key] = d => holder'[i.key] = d
      BY Zenon, <2>3, <3>1 DEF Locks!Release
    <3>3. writer = d => writer' = d
      BY Zenon, <2>3
    <3>4. writer # d => writer' # d
      BY Zenon, NoCallerAssumption
    <3>5. d \in readers <=> d \in readers'
      BY Zenon, <2>3
    <3> QED
      BY Zenon, <1>3, <1>5, <2>3, <3>2, <3>3, <3>4, <3>5 DEF GateInv
  <2> QED
    BY Zenon, <2>2, <2>3
<1>7. BatchInv'
  BY <1>5 DEF BatchInv, NoCall
<1> QED
  BY Zenon, <1>1, <1>2, <1>3, <1>4, <1>6, <1>7

\* A call that returns and leaves the ledger as it is.
LEMMA ReturnIInv ==
    ASSUME IInv, NEW c \in Callers, Return(c),
           UNCHANGED <<source, emitted, ledgerVars, innerVars>>
    PROVE  IInv'
<1> USE DEF IInv
<1>1. TypeOK' /\ GateInv' /\ BatchInv'
  BY ZenonT(60), ReturnGate DEF TypeOK, ledgerVars, innerVars
<1>2. AcceptedInv'
  BY SMTT(60) DEF Return, AcceptedInv, ledgerVars, TypeOK, StaleItems, StaleRevision, Heals, Trusted, Rev
<1> QED
  BY Zenon, <1>1, <1>2

\* The exclusive gate is taken, or the call returns without it.
LEMMA EnterExclusiveIInv ==
    ASSUME IInv, NEW c \in Callers, EnterExclusive(c)
    PROVE  IInv'
<1> DEFINE call == Revalidated(op[c])
<1>1. CASE Return(c)
  BY Zenon, <1>1, ReturnIInv DEF EnterExclusive
<1>2. CASE /\ writer' = c
           /\ op' = [op EXCEPT ![c] = call]
           /\ pc' = [pc EXCEPT ![c] = "ready"]
           /\ UNCHANGED <<readers, holder>>
  <2>0. pc[c] = "gate" /\ readers = {} /\ writer = NoCaller
        /\ UNCHANGED <<source, emitted, ledgerVars, innerVars>>
    BY Zenon DEF EnterExclusive
  <2>1. op[c] \in Call /\ Full(op[c])
    BY Zenon, <2>0 DEF IInv, TypeOK, GateInv
  <2>2. call \in Call /\ Full(call) /\ \A i, j \in call.items : i.key = j.key => i = j
    <3>1. Asof \in [Keys -> 0 .. MaxRev]
      BY Zenon DEF Asof, IInv, TypeOK
    <3>2. CASE ~Trusted(op[c])
      BY Zenon, <2>1, <3>2 DEF Revalidated, IInv, BatchInv
    <3>3. CASE Trusted(op[c])
      BY ZenonT(60), <2>1, <3>1, <3>3, SnapshotType DEF Revalidated, Call, Full, IInv
    <3> QED
      BY Zenon, <3>2, <3>3
  <2>3. op'[c] = call /\ \A d \in Callers \ {c} : op'[d] = op[d]
    BY Zenon, <1>2 DEF IInv, TypeOK
  <2>4. op' \in [Callers -> Call]
    BY Zenon, <1>2, <2>2, OpType DEF IInv
  <2> HIDE DEF call
  <2>5. TypeOK'
    BY Zenon, <1>2, <2>0, <2>4 DEF IInv, TypeOK, ledgerVars, innerVars
  <2>6. GateInv'
    BY ZenonT(60), <1>2, <2>0, <2>2, <2>3, NoCallerAssumption DEF IInv, TypeOK, GateInv, Full, Inside
  <2>7. BatchInv'
    BY Zenon, <2>2, <2>3 DEF IInv, BatchInv
  <2>8. AcceptedInv'
    BY SMTT(60), <1>2, <2>0, <2>3
       DEF IInv, AcceptedInv, ledgerVars, TypeOK, StaleItems, StaleRevision, Heals, Trusted, Rev
  <2> QED
    BY Zenon, <2>5, <2>6, <2>7, <2>8 DEF IInv
<1> QED
  BY Zenon, <1>1, <1>2 DEF EnterExclusive

\* The batch is filtered against the ledger, or dropped.
LEMMA FilterIInv ==
    ASSUME IInv, NEW c \in Callers, Filter(c)
    PROVE  IInv'
<1> DEFINE filtered == op[c].items \ StaleItems(op[c])
           call == [op[c] EXCEPT !.items = filtered]
<1>1. CASE Return(c)
  BY Zenon, <1>1, ReturnIInv DEF Filter
<1>2. CASE /\ ~closed
           /\ op' = [op EXCEPT ![c].items = filtered]
           /\ pc' = [pc EXCEPT ![c] = "push"]
           /\ UNCHANGED gateVars
  <2>0. pc[c] = "ready" /\ UNCHANGED <<source, emitted, ledgerVars, innerVars>>
    BY Zenon DEF Filter
  <2>1. op[c] \in Call
    BY Zenon DEF IInv, TypeOK
  <2>2. /\ call \in Call
        /\ call.kind = op[c].kind
        /\ call.items = filtered
        /\ op' = [op EXCEPT ![c] = call]
    BY Zenon, <1>2, <2>1 DEF Call
  <2>3. op'[c] = call /\ \A d \in Callers \ {c} : op'[d] = op[d]
    BY Zenon, <2>2 DEF IInv, TypeOK
  <2>4. op' \in [Callers -> Call]
    BY Zenon, <2>2, OpType DEF IInv
  <2>5. filtered \subseteq op[c].items /\ StaleItems(call) = {}
    BY Zenon, <2>2 DEF StaleItems, Heals, Trusted
  <2> HIDE DEF call, filtered
  <2>6. TypeOK'
    BY Zenon, <1>2, <2>0, <2>4 DEF IInv, TypeOK, ledgerVars, gateVars, innerVars
  <2>7. GateInv'
    BY <1>2, <2>0, <2>2, <2>3, <2>5 DEF IInv, TypeOK, GateInv, gateVars, Full, Inside
  <2>8. BatchInv'
    BY <2>2, <2>3, <2>5 DEF IInv, BatchInv
  <2>9. AcceptedInv'
    <3> SUFFICES ASSUME NEW d \in Callers, pc'[d] \in {"push", "commit"}
                 PROVE  (~closed /\ StaleItems(op[d]) = {})'
      BY Zenon DEF AcceptedInv
    <3>1. CASE d = c
      BY ZenonT(60), <1>2, <2>0, <2>3, <2>5, <3>1 DEF ledgerVars, StaleItems, StaleRevision, Heals, Trusted, Rev
    <3>2. CASE d # c
      BY <1>2, <2>0, <2>3, <3>2
         DEF IInv, TypeOK, AcceptedInv, ledgerVars, StaleItems, StaleRevision, Heals, Trusted, Rev
    <3> QED
      BY Zenon, <3>1, <3>2
  <2> QED
    BY Zenon, <2>6, <2>7, <2>8, <2>9 DEF IInv
<1> QED
  BY Zenon, <1>1, <1>2 DEF Filter

\* An operation found stale leaves the gate and comes back as another call.
LEMMA FallBackIInv ==
    ASSUME IInv, NEW c \in Callers, FallBack(c)
    PROVE  IInv'
<1> DEFINE call == [op[c] EXCEPT !.kind = "revalidate"]
<1> USE DEF FallBack
<1>1. op[c] \in Call /\ writer = c /\ readers = {}
  BY ZenonT(60), NoCallerAssumption DEF IInv, TypeOK, GateInv, Inside, Full
<1>2. /\ call \in Call /\ Full(call) /\ call.items = op[c].items
      /\ op' = [op EXCEPT ![c] = call]
  BY Zenon, <1>1 DEF Call, Full, IInv, TypeOK
<1>3. op'[c] = call /\ \A d \in Callers \ {c} : op'[d] = op[d]
  BY Zenon, <1>2 DEF IInv, TypeOK
<1>4. op' \in [Callers -> Call]
  BY Zenon, <1>2, OpType DEF IInv
<1> HIDE DEF call
<1>5. TypeOK'
  BY Zenon, <1>4 DEF IInv, TypeOK, ledgerVars, innerVars
<1>6. GateInv'
  BY ZenonT(60), <1>1, <1>2, <1>3, NoCallerAssumption DEF IInv, TypeOK, GateInv, Full, Inside
<1>7. BatchInv'
  BY ZenonT(60), <1>2, <1>3 DEF IInv, BatchInv
<1>8. AcceptedInv'
  BY <1>3 DEF IInv, AcceptedInv, ledgerVars, TypeOK, StaleItems, StaleRevision, Heals, Trusted, Rev
<1> QED
  BY Zenon, <1>5, <1>6, <1>7, <1>8 DEF IInv

\* What the inner sink serves is a revision.
LEMMA ServedType ==
    ASSUME TypeOK, NEW c \in Callers, NEW k
    PROVE  Served(op[c], k) \in Revision \cup {None}
<1>1. op[c].items \subseteq Item
  BY Zenon DEF TypeOK, Call
<1>2. CASE \E i \in op[c].items : i.key = k /\ ~i.offline
  <2>1. (CHOOSE i \in op[c].items : i.key = k) \in Item
    BY Zenon, <1>1, <1>2
  <2> QED
    BY Zenon, <1>2, <2>1, RevType DEF Served
<1> QED
  BY Zenon, <1>2 DEF Served

\* The inner sink is called.
LEMMA InnerPushIInv ==
    ASSUME IInv, NEW c \in Callers, InnerPush(c)
    PROVE  IInv'
<1> USE DEF InnerPush
<1>1. PICK done \in SUBSET Affected(op[c]), acked \in BOOLEAN :
        /\ failures' = IF acked THEN failures ELSE failures + 1
        /\ remote' = [k \in Keys |-> IF k \in done THEN Served(op[c], k) ELSE remote[k]]
        /\ dirty' = IF acked THEN dirty \ Affected(op[c]) ELSE dirty \cup Affected(op[c])
        /\ op' = [op EXCEPT ![c].acked = acked]
  BY Zenon
<1> DEFINE call == [op[c] EXCEPT !.acked = acked]
<1>2. op[c] \in Call
  BY Zenon DEF IInv, TypeOK
<1>3. /\ call \in Call
      /\ call.kind = op[c].kind
      /\ call.items = op[c].items
      /\ op' = [op EXCEPT ![c] = call]
  BY Zenon, <1>1, <1>2 DEF Call
<1>4. op'[c] = call /\ \A d \in Callers \ {c} : op'[d] = op[d]
  BY Zenon, <1>3 DEF IInv, TypeOK
<1>5. op' \in [Callers -> Call]
  BY Zenon, <1>3, OpType DEF IInv
<1>6. Affected(op[c]) \subseteq Keys
  BY <1>2 DEF Affected, KeysOf, Call, Item
<1> HIDE DEF call
<1>7. TypeOK'
  <2>1. remote' \in [Keys -> Revision \cup {None}]
    BY Zenon, <1>1, ServedType DEF IInv, TypeOK
  <2>2. dirty' \subseteq Keys /\ failures' \in Nat
    BY <1>1, <1>6 DEF IInv, TypeOK
  <2>3. pc' \in [Callers -> {"idle", "gate", "keys", "ready", "push", "commit"}]
    BY Zenon DEF IInv, TypeOK
  <2> QED
    BY Zenon, <1>5, <2>1, <2>2, <2>3 DEF IInv, TypeOK, ledgerVars, gateVars
<1>8. GateInv'
  BY <1>3, <1>4 DEF IInv, TypeOK, GateInv, gateVars, Full, Inside
<1>9. BatchInv'
  BY <1>3, <1>4 DEF IInv, BatchInv
<1>10. AcceptedInv'
  BY <1>3, <1>4
     DEF IInv, AcceptedInv, ledgerVars, TypeOK, StaleItems, StaleRevision, Heals, Trusted, Rev
<1> QED
  BY Zenon, <1>7, <1>8, <1>9, <1>10 DEF IInv

-----------------------------------------------------------------------------
\* What Commit writes: an accepted revision for the identities of the batch,
\* a tombstone for some that a trusted batch omits, nothing else.
LEMMA CommitLedger ==
    ASSUME IInv, NEW c \in Callers, Commit(c), NEW k \in Keys
    PROVE  /\ latest'[k] \in LedgerEntry \cup {None}
           /\ latest[k] # None => latest'[k] # None /\ latest'[k].rev >= latest[k].rev
           /\ ~Trusted(op[c]) /\ k \notin KeysOf(op[c].items) => latest'[k] = latest[k]
<1>1. /\ op[c].items \subseteq Item /\ pc[c] = "commit"
      /\ latest[k] \in LedgerEntry \cup {None}
  BY ZenonT(60) DEF IInv, TypeOK, Call, Commit
<1>2. CASE UNCHANGED latest
  BY <1>1, <1>2, MaxRevAssumption DEF LedgerEntry, Revision, Trigger
<1>3. CASE latest' = [j \in Keys |->
                IF j \in KeysOf(op[c].items)
                THEN EntryOf(CHOOSE i \in op[c].items : i.key = j)
                ELSE IF j \in Entombed(op[c]) THEN [latest[j] EXCEPT !.tomb = TRUE]
                ELSE latest[j]]
  <2>1. CASE k \in KeysOf(op[c].items)
    <3>1. PICK i \in op[c].items : i = (CHOOSE j \in op[c].items : j.key = k) /\ i.key = k
      BY Zenon, <2>1 DEF KeysOf
    <3>2. latest'[k] = EntryOf(i) /\ i \in Item
      BY Zenon, <1>1, <1>3, <2>1, <3>1
    <3>3. EntryOf(i) \in LedgerEntry
      BY Zenon, <3>2, RevType DEF EntryOf, LedgerEntry, Item
    <3>4. ~StaleRevision(i) \/ Heals(op[c], i)
      BY Zenon, <1>1 DEF IInv, AcceptedInv, StaleItems
    <3>5. latest[k] # None => Rev(i) >= latest[k].rev
      <4> SUFFICES ASSUME latest[k] # None
                   PROVE  Rev(i) >= latest[k].rev
        BY Zenon
      <4>1. Rev(i) \in Int /\ latest[k].rev \in Int
        BY <1>1, <3>2, RevType, MaxRevAssumption DEF LedgerEntry, Revision, Trigger
      <4>2. CASE Heals(op[c], i)
        <5>1. Rev(i) = latest[k].rev
          BY Zenon, <3>1, <4>2 DEF Heals
        <5> QED
          BY <4>1, <5>1
      <4>3. CASE ~StaleRevision(i)
        <5>1. ~IF latest[k].tomb THEN Rev(i) <= latest[k].rev ELSE Rev(i) < latest[k].rev
          BY <3>1, <4>3, Zenon DEF StaleRevision
        <5> QED
          BY <4>1, <5>1
      <4> QED
        BY Zenon, <3>4, <4>2, <4>3
    <3> QED
      BY <2>1, <3>2, <3>3, <3>5, NoneAssumption DEF EntryOf
  <2>2. CASE k \notin KeysOf(op[c].items)
    <3>1. CASE k \in Entombed(op[c])
      <4>1. latest'[k] = [latest[k] EXCEPT !.tomb = TRUE]
        BY Zenon, <1>3, <2>2, <3>1
      <4>2. latest[k] \in LedgerEntry /\ Trusted(op[c])
        BY Zenon, <1>1, <3>1 DEF Entombed, Live
      <4>3. latest'[k] \in LedgerEntry /\ latest'[k].rev = latest[k].rev
        BY Zenon, <4>1, <4>2 DEF LedgerEntry
      <4>4. latest[k].rev \in Int
        BY <4>2, MaxRevAssumption DEF LedgerEntry, Revision, Trigger
      <4> QED
        BY <2>2, <4>2, <4>3, <4>4, NoneAssumption
    <3>2. CASE k \notin Entombed(op[c])
      <4>1. latest'[k] = latest[k]
        BY Zenon, <1>3, <2>2, <3>2
      <4> QED
        BY <1>1, <4>1, MaxRevAssumption DEF LedgerEntry, Revision, Trigger
    <3> QED
      BY Zenon, <3>1, <3>2
  <2> QED
    BY Zenon, <2>1, <2>2
<1> QED
  BY Zenon, <1>2, <1>3 DEF Commit

\* Two callers that are inside at the same time are incremental and have no
\* identity in common.
LEMMA InsideDisjoint ==
    ASSUME IInv, NEW c \in Callers, NEW d \in Callers, c # d,
           pc[c] \in Inside, pc[d] \in Inside
    PROVE  ~Full(op[c]) /\ ~Full(op[d]) /\ \A i \in op[d].items : i.key \notin KeysOf(op[c].items)
BY SMTT(60), NoCallerAssumption DEF IInv, GateInv, TypeOK, KeysOf

\* An acknowledged batch enters the ledger.
LEMMA CommitIInv ==
    ASSUME IInv, NEW c \in Callers, Commit(c)
    PROVE  IInv'
<1>1. /\ Return(c) /\ pc[c] = "commit"
      /\ UNCHANGED <<source, emitted, closed, innerVars>>
  BY Zenon DEF Commit
<1>2. latest' \in [Keys -> LedgerEntry \cup {None}]
  <2>1. latest' = [k \in Keys |-> latest'[k]]
    BY Zenon DEF Commit, IInv, TypeOK
  <2> QED
    BY Zenon, <2>1, CommitLedger
<1>3. identityScope' \in [Keys -> Scopes \cup {None}]
  BY Zenon DEF Commit, IInv, TypeOK, Call
<1>4. TypeOK' /\ GateInv' /\ BatchInv'
  BY Zenon, <1>1, <1>2, <1>3, ReturnGate DEF IInv, TypeOK, innerVars
<1>5. AcceptedInv'
  <2> SUFFICES ASSUME NEW d \in Callers, pc'[d] \in {"push", "commit"}
               PROVE  (~closed /\ StaleItems(op[d]) = {})'
    BY Zenon DEF AcceptedInv
  <2>1. d # c /\ pc[d] = pc'[d] /\ op'[d] = op[d]
    BY Zenon, <1>1 DEF Return, IInv, TypeOK
  <2>2. ~Full(op[c]) /\ \A i \in op[d].items : i.key \notin KeysOf(op[c].items)
    BY Zenon, <1>1, <2>1, InsideDisjoint DEF Inside
  <2>3. \A i \in op[d].items : latest'[i.key] = latest[i.key]
    <3>1. ~Trusted(op[c]) /\ \A i \in op[d].items : i.key \in Keys
      BY <2>2 DEF IInv, TypeOK, Call, Item, Full, Trusted
    <3> QED
      BY Zenon, <2>2, <3>1, CommitLedger
  <2>4. ~closed /\ StaleItems(op[d]) = {}
    BY Zenon, <2>1 DEF IInv, AcceptedInv
  <2> QED
    BY <1>1, <2>1, <2>3, <2>4 DEF StaleItems, StaleRevision, Heals, Trusted, Rev
<1> QED
  BY Zenon, <1>4, <1>5 DEF IInv

\* Nobody is inside when the sink is closed.
LEMMA CloseIInv ==
    ASSUME IInv, Close
    PROVE  IInv'
<1> USE DEF Close
<1>1. TypeOK'
  BY Zenon DEF IInv, TypeOK, gateVars, innerVars
<1>2. GateInv' /\ BatchInv'
  BY Zenon DEF IInv, GateInv, BatchInv, gateVars, Full, Inside
<1>3. AcceptedInv'
  BY Zenon, NoCallerAssumption DEF IInv, TypeOK, GateInv, AcceptedInv, Inside
<1> QED
  BY Zenon, <1>1, <1>2, <1>3 DEF IInv

-----------------------------------------------------------------------------
\* Every step of the gate and of the providers preserves the invariant.
LEMMA NextIInv == IInv /\ [Next]_vars => IInv'
<1> SUFFICES ASSUME IInv, [Next]_vars
             PROVE  IInv'
  BY Zenon
<1>1. CASE UNCHANGED vars
  <2>1. TypeOK'
    BY Zenon, <1>1 DEF IInv, TypeOK, vars
  <2> QED
    BY Zenon, <1>1, <2>1, QuietIInv DEF vars, ledgerVars, gateVars
<1>2. ASSUME NEW k \in Keys, SourceUpdate(k) \/ SourceDelete(k) \/ DriftDelete(k)
      PROVE  IInv'
  BY Zenon, <1>2, SourceIInv
<1>3. ASSUME NEW c \in Callers,
             \/ Push(c) \/ LockKeys(c)
             \/ CallFull(c) \/ EnterExclusive(c)
             \/ Filter(c) \/ FallBack(c) \/ InnerPush(c) \/ Commit(c)
      PROVE  IInv'
  BY Zenon, <1>3, PushIInv, LockKeysIInv, CallFullIInv, EnterExclusiveIInv, FilterIInv,
     FallBackIInv, InnerPushIInv, CommitIInv
<1> QED
  BY Zenon, <1>1, <1>2, <1>3, CloseIInv DEF Next

\* The gate keeps its discipline, and what it has accepted stays acceptable,
\* in every reachable state of orderedSink.
THEOREM GateInvariant == Spec => []IInv
BY InitIInv, NextIInv, PTL DEF Spec

\* orderedSink's state keeps its type for any number of goroutines,
\* identities, providers and revisions.
THEOREM SinkTypeCorrect == Spec => []TypeOK
<1>1. IInv => TypeOK
  BY Zenon DEF IInv
<1> QED
  BY <1>1, GateInvariant, PTL

\* Only Commit and Close write the ledger.
LEMMA LedgerSteps ==
    ASSUME [Next]_vars
    PROVE  UNCHANGED latest \/ Close \/ \E c \in Callers : Commit(c)
BY ZenonT(60) DEF Next, vars, ledgerVars, SourceUpdate, SourceDelete, DriftDelete, Push, CallFull,
       LockKeys, EnterExclusive, Filter, FallBack, InnerPush

\* The revision that orderedSink's ledger holds for an identity never
\* decreases, for any interleaving of any number of pushes: the decision in
\* runLocked to accept a revision is still right when it is recorded.
THEOREM LedgerMonotone == Spec => RevisionsNeverRegress
<1> DEFINE Grows == \A k \in Keys :
            latest[k] # None /\ latest'[k] # None => latest'[k].rev >= latest[k].rev
<1>1. IInv /\ [Next]_vars => [Grows]_vars
  <2> SUFFICES ASSUME IInv, [Next]_vars, NEW k \in Keys, latest[k] # None, latest'[k] # None
               PROVE  latest'[k].rev >= latest[k].rev
    BY Zenon
  <2>1. CASE UNCHANGED latest
    <3>1. latest[k].rev \in Int
      BY MaxRevAssumption DEF IInv, TypeOK, LedgerEntry, Revision, Trigger
    <3> QED
      BY <2>1, <3>1
  <2>2. CASE Close
    BY Zenon, <2>2 DEF Close
  <2>3. CASE \E c \in Callers : Commit(c)
    BY Zenon, <2>3, CommitLedger
  <2> QED
    BY Zenon, <2>1, <2>2, <2>3, LedgerSteps
<1> QED
  BY <1>1, GateInvariant, PTL DEF Spec, RevisionsNeverRegress

\* Only c's own inner push takes c from "push" to "commit".
LEMMA PushesIsInnerPush ==
    ASSUME IInv, [Next]_vars, NEW c \in Callers, Pushes(c)
    PROVE  InnerPush(c)
<1>1. pc[c] = "push" /\ pc'[c] = "commit" /\ pc \in [Callers -> {"idle", "gate", "keys", "ready", "push", "commit"}]
  BY Zenon DEF Pushes, IInv, TypeOK
<1>2. ASSUME NEW d \in Callers,
             \/ Push(d) \/ LockKeys(d)
             \/ CallFull(d) \/ EnterExclusive(d)
             \/ Filter(d) \/ FallBack(d) \/ Commit(d)
      PROVE  FALSE
  BY Zenon, <1>1, <1>2 DEF Push, LockKeys, CallFull, EnterExclusive, Filter, FallBack, Commit, Return
<1>3. ASSUME NEW d \in Callers, InnerPush(d)
      PROVE  d = c
  BY Zenon, <1>1, <1>3 DEF InnerPush
<1>4. ~(UNCHANGED pc)
  BY Zenon, <1>1
<1> QED
  BY Zenon, <1>2, <1>3, <1>4 DEF Next, vars, SourceUpdate, SourceDelete, DriftDelete, Close

\* A late event cannot resurrect an identity whose deletion the ledger of
\* orderedSink holds: the registry serves it again only from a newer revision
\* or from a snapshot read under the gate.
THEOREM TombstonesHold == Spec => NoResurrection
<1> DEFINE StaysDead == \A c \in Callers : Pushes(c) =>
        \A k \in Keys :
            /\ remote[k] = None /\ remote'[k] # None
            /\ latest[k] # None /\ latest[k].tomb
            => remote'[k] > latest[k].rev \/ Trusted(op[c])
<1>1. IInv /\ [Next]_vars => [StaysDead]_vars
  <2> SUFFICES ASSUME IInv, [Next]_vars, NEW c \in Callers, Pushes(c), NEW k \in Keys,
                      remote[k] = None, remote'[k] # None,
                      latest[k] # None, latest[k].tomb, ~Trusted(op[c])
               PROVE  remote'[k] > latest[k].rev
    BY Zenon
  <2>1. InnerPush(c) /\ pc[c] = "push"
    BY Zenon, PushesIsInnerPush DEF Pushes
  <2>2. remote'[k] = Served(op[c], k)
    BY Zenon, <2>1 DEF InnerPush
  <2>3. PICK i \in op[c].items : remote'[k] = Rev(i) /\ i.key = k
    BY Zenon, <2>2 DEF Served
  <2>4. i \in Item
    BY Zenon DEF IInv, TypeOK, Call
  <2>5. ~StaleRevision(i)
    BY Zenon, <2>1 DEF IInv, AcceptedInv, StaleItems, Heals
  <2>6. Rev(i) \in Int /\ latest[k].rev \in Int
    BY <2>4, RevType, MaxRevAssumption DEF IInv, TypeOK, LedgerEntry, Revision, Trigger
  <2>7. ~(Rev(i) <= latest[k].rev)
    BY ZenonT(60), <2>3, <2>5 DEF StaleRevision
  <2> QED
    BY <2>3, <2>6, <2>7
<1> QED
  BY <1>1, GateInvariant, PTL DEF Spec, NoResurrection

-----------------------------------------------------------------------------
(***************************************************************************)
(* What the gate lets through, the registry and the providers.             *)
(*                                                                         *)
(* SourceInv: nothing runs ahead of the provider that produced it.  Only a *)
(* deletion made from a drifted record has no revision, and it alone can   *)
(* bring a trigger into the ledger.                                        *)
(***************************************************************************)
Known(i) == i.rev <= source[i.key].rev /\ (i.rev = 0 => i.offline)

SourceInv ==
    /\ \A k \in Keys : source[k].live => source[k].rev # 0
    /\ \A e \in emitted : Known(e)
    /\ \A c \in Callers : \A i \in op[c].items : Known(i) /\ (NoDrift => i.rev # 0)
    /\ \A k \in Keys : remote[k] # None => remote[k] <= source[k].rev
    /\ \A k \in Keys : NoDrift /\ latest[k] # None => latest[k].rev <= source[k].rev

CallerStep(c) ==
    \/ Push(c) \/ LockKeys(c)
    \/ CallFull(c) \/ EnterExclusive(c)
    \/ Filter(c) \/ FallBack(c) \/ InnerPush(c) \/ Commit(c)

ProviderStep(k) == SourceUpdate(k) \/ SourceDelete(k) \/ DriftDelete(k)

\* A goroutine's step leaves the calls of the others alone.
LEMMA OthersStay ==
    ASSUME TypeOK, NEW c \in Callers, CallerStep(c), NEW d \in Callers, d # c
    PROVE  pc'[d] = pc[d] /\ op'[d] = op[d]
BY ZenonT(60) DEF TypeOK, CallerStep, Push, LockKeys, CallFull, EnterExclusive, Filter, FallBack, InnerPush,
       Commit, Return

\* An item of a snapshot is a live instance of the provider, as it is now.
LEMMA SnapshotItems ==
    ASSUME NEW s, NEW i \in Snapshot(s)
    PROVE  /\ i.key \in Keys /\ i.rev = source[i.key].rev /\ ~i.offline
           /\ source[i.key].live /\ ScopeOf[i.key] = s
BY DEF Snapshot, Event

\* What a goroutine's step does to the batch of its call.
LEMMA BatchSteps ==
    ASSUME IInv, NEW c \in Callers, CallerStep(c)
    PROVE  \/ op'[c].items \subseteq op[c].items
           \/ op'[c].items \subseteq emitted
           \/ \E s \in Scopes \cup {None} : op'[c].items = Snapshot(s)
<1>1. op[c] \in Call /\ op \in [Callers -> Call]
  BY Zenon DEF IInv, TypeOK
<1>2. CASE Push(c)
  BY <1>1, <1>2 DEF Push, NoCall
<1>3. CASE LockKeys(c)
  BY Zenon, <1>1, <1>3 DEF LockKeys
<1>4. CASE CallFull(c)
  BY <1>1, <1>4 DEF CallFull
<1>5. ASSUME Return(c)
      PROVE  op'[c].items \subseteq op[c].items
  BY Zenon, <1>1, <1>5 DEF Return, NoCall
<1>6. CASE EnterExclusive(c)
  <2>1. CASE op' = [op EXCEPT ![c] = Revalidated(op[c])]
    BY Zenon, <1>1, <2>1 DEF Revalidated, Call
  <2> QED BY Zenon, <1>5, <1>6, <2>1 DEF EnterExclusive
<1>7. CASE Filter(c)
  <2>1. CASE op' = [op EXCEPT ![c].items = op[c].items \ StaleItems(op[c])]
    BY Zenon, <1>1, <2>1 DEF Call
  <2> QED BY Zenon, <1>5, <1>7, <2>1 DEF Filter
<1>8. CASE FallBack(c)
  BY Zenon, <1>1, <1>8 DEF FallBack, Call
<1>9. CASE InnerPush(c)
  BY <1>1, <1>9 DEF InnerPush, Call
<1>10. CASE Commit(c)
  BY Zenon, <1>5, <1>10 DEF Commit
<1> QED
  BY Zenon, <1>2, <1>3, <1>4, <1>6, <1>7, <1>8, <1>9, <1>10 DEF CallerStep

\* Only the inner sink writes the registry.
LEMMA RemoteSteps ==
    ASSUME NEW c \in Callers, CallerStep(c), ~InnerPush(c)
    PROVE  remote' = remote /\ dirty' = dirty
BY Zenon DEF CallerStep, Push, LockKeys, CallFull, EnterExclusive, Filter, FallBack, Commit, innerVars

\* The providers' state is theirs.
LEMMA CallersLeaveSource ==
    ASSUME NEW c \in Callers, CallerStep(c)
    PROVE  source' = source /\ emitted' = emitted
BY Zenon DEF CallerStep, Push, LockKeys, CallFull, EnterExclusive, Filter, FallBack, InnerPush, Commit

\* What the ledger holds after a step of a goroutine comes from its batch, or
\* was there before.
LEMMA LedgerWrites ==
    ASSUME IInv, NEW c \in Callers, CallerStep(c), NEW k \in Keys, latest'[k] # None
    PROVE  \/ \E i \in op[c].items : i.key = k /\ latest'[k] = EntryOf(i)
           \/ latest[k] # None /\ latest'[k].rev = latest[k].rev
<1>1. CASE UNCHANGED latest
  BY Zenon, <1>1
<1>2. CASE Commit(c)
  <2>1. CASE k \in KeysOf(op[c].items) /\ op[c].acked
    <3>1. PICK i \in op[c].items : i = (CHOOSE j \in op[c].items : j.key = k) /\ i.key = k
      BY Zenon, <2>1 DEF KeysOf
    <3> QED BY Zenon, <1>2, <2>1, <3>1 DEF Commit
  <2>2. CASE k \in Entombed(op[c]) \ KeysOf(op[c].items) /\ op[c].acked
    <3>0. latest[k] # None
      BY Zenon, <2>2 DEF Entombed, Live
    <3>1. latest'[k] = [latest[k] EXCEPT !.tomb = TRUE]
      BY Zenon, <1>2, <2>2 DEF Commit
    <3>2. latest[k] \in LedgerEntry
      BY Zenon, <3>0 DEF IInv, TypeOK
    <3> QED BY Zenon, <3>0, <3>1, <3>2 DEF LedgerEntry
  <2>3. CASE ~(k \in KeysOf(op[c].items) /\ op[c].acked)
             /\ ~(k \in Entombed(op[c]) \ KeysOf(op[c].items) /\ op[c].acked)
    BY Zenon, <1>2, <2>3 DEF Commit
  <2> QED BY Zenon, <2>1, <2>2, <2>3
<1> QED
  BY Zenon, <1>1, <1>2 DEF CallerStep, Push, LockKeys, CallFull, EnterExclusive, Filter, FallBack, InnerPush,
                    ledgerVars

\* Nothing overtakes its provider by a step of a goroutine,
LEMMA CallerSource ==
    ASSUME IInv, SourceInv, NEW c \in Callers, CallerStep(c)
    PROVE  SourceInv'
<1>1. source' = source /\ emitted' = emitted /\ NoDrift' = NoDrift
  BY Zenon, CallersLeaveSource DEF NoDrift
<1>2. \A i : Known(i)' = Known(i)
  BY ZenonT(60), <1>1 DEF Known
<1>3. ASSUME NEW d \in Callers, NEW i \in op'[d].items
      PROVE  Known(i) /\ (NoDrift => i.rev # 0)
  <2>1. CASE i \in op[d].items
    BY Zenon, <2>1 DEF SourceInv
  <2>2. CASE i \in emitted
    BY Zenon, <2>2 DEF SourceInv, NoDrift
  <2>3. ASSUME NEW s, i \in Snapshot(s)
        PROVE  Known(i) /\ (NoDrift => i.rev # 0)
    <3>1. i.key \in Keys /\ i.rev = source[i.key].rev /\ i.rev # 0
      BY <2>3, SnapshotItems DEF SourceInv
    <3>2. source[i.key].rev \in Int
      BY <3>1 DEF IInv, TypeOK
    <3> QED BY <3>1, <3>2 DEF Known
  <2> QED BY ZenonT(60), <2>1, <2>2, <2>3, BatchSteps, OthersStay DEF IInv
<1>4. ASSUME NEW k \in Keys, remote'[k] # None
      PROVE  remote'[k] <= source[k].rev
  <2>1. CASE remote'[k] = remote[k]
    BY Zenon, <1>4, <2>1 DEF SourceInv
  <2>2. CASE remote'[k] # remote[k]
    <3>1. InnerPush(c)
      BY Zenon, <2>2, RemoteSteps
    <3>2. remote'[k] = Served(op[c], k)
      BY Zenon, <2>2, <3>1 DEF InnerPush
    <3>3. PICK i \in op[c].items : i.key = k /\ ~i.offline
      BY Zenon, <1>4, <3>2 DEF Served
    <3>4. i = (CHOOSE j \in op[c].items : j.key = k)
      BY Zenon, <3>3 DEF IInv, BatchInv
    <3>5. Known(i) /\ remote'[k] = Rev(i)
      BY Zenon, <3>2, <3>3, <3>4 DEF Served, SourceInv
    <3> QED BY Zenon, <3>3, <3>5 DEF Known, Rev
  <2> QED BY Zenon, <2>1, <2>2
<1>5. ASSUME NEW k \in Keys, NoDrift, latest'[k] # None
      PROVE  latest'[k].rev <= source[k].rev
  <2>1. ASSUME NEW i \in op[c].items, i.key = k, latest'[k] = EntryOf(i)
        PROVE  latest'[k].rev <= source[k].rev
    BY <1>5, <2>1 DEF SourceInv, Known, EntryOf, Rev
  <2>2. CASE latest[k] # None /\ latest'[k].rev = latest[k].rev
    BY Zenon, <1>5, <2>2 DEF SourceInv
  <2> QED BY Zenon, <1>5, <2>1, <2>2, LedgerWrites
<1> QED
  BY Zenon, <1>1, <1>2, <1>3, <1>4, <1>5 DEF SourceInv

\* nor by a step of the provider.
LEMMA ProviderSource ==
    ASSUME IInv, SourceInv, NEW k \in Keys, ProviderStep(k)
    PROVE  SourceInv' /\ (NoDrift' => NoDrift)
<1>1. UNCHANGED <<latest, op, remote>>
  BY Zenon DEF ProviderStep, SourceUpdate, SourceDelete, DriftDelete, ledgerVars, innerVars
<1>2. \A j \in Keys : source[j].rev \in Int /\ source[j].live \in BOOLEAN
  BY DEF IInv, TypeOK
<1>3. /\ \A j \in Keys : source'[j].rev \in Int /\ source'[j].rev >= source[j].rev
      /\ \A j \in Keys : source'[j].live => source'[j].rev # 0
  <2>1. ASSUME NEW r \in Int, NEW b \in BOOLEAN, source' = [source EXCEPT ![k] = [rev |-> r, live |-> b]],
               r >= source[k].rev, b => r # 0
        PROVE  /\ \A j \in Keys : source'[j].rev \in Int /\ source'[j].rev >= source[j].rev
               /\ \A j \in Keys : source'[j].live => source'[j].rev # 0
    <3>1. \A j \in Keys : source'[j] = IF j = k THEN [rev |-> r, live |-> b] ELSE source[j]
      BY Zenon, <2>1 DEF IInv, TypeOK
    <3> QED BY <1>2, <2>1, <3>1 DEF SourceInv
  <2>2. CASE SourceUpdate(k)
    <3>1. PICK r \in 1 .. MaxRev : /\ r \in {source[k].rev, source[k].rev + 1}
                                   /\ source' = [source EXCEPT ![k] = [rev |-> r, live |-> TRUE]]
      BY Zenon, <2>2 DEF SourceUpdate
    <3>2. r \in Int /\ r # 0 /\ r >= source[k].rev
      BY <1>2, <3>1, MaxRevAssumption
    <3> QED BY Zenon, <2>1, <3>1, <3>2
  <2>3. CASE SourceDelete(k)
    <3>1. source[k].rev \in Int /\ source[k].rev >= source[k].rev
      BY <1>2
    <3> QED BY Zenon, <2>1, <2>3, <3>1 DEF SourceDelete
  <2>4. CASE source' = source
    BY <1>2, <2>4 DEF SourceInv
  <2> QED BY Zenon, <2>2, <2>3, <2>4 DEF ProviderStep, DriftDelete
<1>4. PICK e \in Item : emitted' = emitted \cup {e} /\ Known(e)'
  <2>1. CASE SourceUpdate(k)
    <3>1. PICK r \in 1 .. MaxRev : /\ emitted' = emitted \cup {Event(k, r, FALSE)}
                                   /\ source' = [source EXCEPT ![k] = [rev |-> r, live |-> TRUE]]
      BY Zenon, <2>1 DEF SourceUpdate
    <3>2. source'[k].rev = r
      BY Zenon, <3>1 DEF IInv, TypeOK
    <3>3. Event(k, r, FALSE) \in Item /\ Known(Event(k, r, FALSE))'
      BY <3>2, MaxRevAssumption DEF Known, Event, Item
    <3> QED BY Zenon, <3>1, <3>3
  <2>2. CASE SourceDelete(k)
    <3>1. PICK r \in 0 .. MaxRev : r = source[k].rev /\ source'[k].rev = r
      BY Zenon, <2>2 DEF SourceDelete, IInv, TypeOK
    <3>2. Event(k, r, TRUE) \in Item /\ Known(Event(k, r, TRUE))'
      BY <3>1, MaxRevAssumption DEF Known, Event, Item
    <3> QED BY Zenon, <2>2, <3>1, <3>2 DEF SourceDelete
  <2>3. CASE DriftDelete(k)
    <3>1. source'[k].rev \in 0 .. MaxRev
      BY Zenon, <2>3 DEF DriftDelete, IInv, TypeOK
    <3>2. Event(k, 0, TRUE) \in Item /\ Known(Event(k, 0, TRUE))'
      BY <3>1, MaxRevAssumption DEF Known, Event, Item
    <3> QED BY Zenon, <2>3, <3>2 DEF DriftDelete
  <2> QED BY Zenon, <2>1, <2>2, <2>3 DEF ProviderStep
<1>5. NoDrift' => NoDrift
  BY Zenon, <1>4 DEF NoDrift
<1>6. ASSUME NEW i \in Item, Known(i) PROVE Known(i)'
  BY <1>2, <1>3, <1>6, MaxRevAssumption DEF Known, Item
<1>7. \A f \in emitted' : Known(f)'
  BY Zenon, <1>4, <1>6 DEF SourceInv, IInv, TypeOK
<1>8. \A c \in Callers : \A i \in op'[c].items : Known(i)' /\ (NoDrift' => i.rev # 0)
  <2>1. \A c \in Callers : op[c].items \subseteq Item
    BY Zenon DEF IInv, TypeOK, Call
  <2> QED BY Zenon, <1>1, <1>5, <1>6, <2>1 DEF SourceInv
<1>9. ASSUME NEW j \in Keys, remote'[j] # None PROVE remote'[j] <= source'[j].rev
  <2>1. remote[j] \in Int
    BY <1>1, <1>9, MaxRevAssumption DEF IInv, TypeOK, Revision, Trigger
  <2> QED BY <1>1, <1>2, <1>3, <1>9, <2>1 DEF SourceInv
<1>10. ASSUME NEW j \in Keys, NoDrift', latest'[j] # None PROVE latest'[j].rev <= source'[j].rev
  <2>1. latest[j].rev \in Int
    BY <1>1, <1>10, MaxRevAssumption DEF IInv, TypeOK, LedgerEntry, Revision, Trigger
  <2> QED BY <1>1, <1>2, <1>3, <1>5, <1>10, <2>1 DEF SourceInv
<1> QED
  BY Zenon, <1>3, <1>5, <1>7, <1>8, <1>9, <1>10 DEF SourceInv

-----------------------------------------------------------------------------
(***************************************************************************)
(* FullInv: the snapshot of a full push is its provider's, and what was    *)
(* true of it when the gate was taken is true until it is pushed, because  *)
(* the gate is held exclusively.                                           *)
(***************************************************************************)
FullOK(c) ==
    /\ op[c].scope \in Scopes
    /\ \A i \in op[c].items : ~i.offline /\ ScopeOf[i.key] = op[c].scope
    /\ pc[c] \in Inside /\ op[c].kind = "operation" /\ op[c].items = {} => op[c].confirmed
    /\ pc[c] \in {"push", "commit"} /\ ~Trusted(op[c]) => Live \subseteq KeysOf(op[c].items)
    /\ pc[c] \in {"ready", "push"} /\ Trusted(op[c]) =>
        \A k \in Keys : remote[k] # None => remote[k] <= op[c].asof[k]
    /\ pc[c] = "ready" /\ Trusted(op[c]) /\ NoDrift =>
        \A i \in op[c].items : latest[i.key] # None => latest[i.key].rev <= i.rev

FullInv == \A c \in Callers : Full(op[c]) => FullOK(c)

\* A full push that is inside is alone: what others do does not concern it.
LEMMA FullAlone ==
    ASSUME IInv, NEW d \in Callers, Full(op[d]), pc[d] \in Inside,
           NEW c \in Callers, c # d, CallerStep(c)
    PROVE  UNCHANGED <<latest, identityScope, remote, dirty>>
<1>1. writer = d /\ d # NoCaller /\ readers = {}
  BY Zenon, NoCallerAssumption DEF IInv, GateInv
<1>2. pc[c] \notin Inside
  BY Zenon, InsideDisjoint
<1>3. ~(Push(c) \/ LockKeys(c) \/ EnterExclusive(c))
  BY Zenon, <1>1 DEF Push, LockKeys, EnterExclusive, IInv, GateInv
<1>4. ~(Filter(c) \/ FallBack(c) \/ InnerPush(c) \/ Commit(c))
  BY Zenon, <1>2 DEF Filter, FallBack, InnerPush, Commit, Inside
<1> QED
  BY Zenon, <1>3, <1>4 DEF CallerStep, CallFull, ledgerVars, innerVars

\* The full push of another goroutine,
LEMMA OtherFull ==
    ASSUME IInv, FullInv, NEW c \in Callers, CallerStep(c), NEW d \in Callers, d # c, Full(op'[d])
    PROVE  FullOK(d)'
<1>1. pc'[d] = pc[d] /\ op'[d] = op[d] /\ FullOK(d)
  BY Zenon, OthersStay DEF IInv, FullInv, Full
<1>2. emitted' = emitted
  BY Zenon, CallersLeaveSource
<1>3. CASE pc[d] \in Inside
  <2>1. UNCHANGED <<latest, remote>>
    BY Zenon, <1>1, <1>3, FullAlone DEF Full
  <2> QED BY Zenon, <1>1, <1>2, <2>1 DEF FullOK, Trusted, Live, NoDrift
<1>4. CASE pc[d] \notin Inside
  BY Zenon, <1>1, <1>4 DEF FullOK, Inside
<1> QED BY Zenon, <1>3, <1>4

\* and its own: from the call to the gate,
LEMMA EnterFull ==
    ASSUME IInv, SourceInv, FullInv, NEW c \in Callers, CallFull(c) \/ EnterExclusive(c), Full(op'[c])
    PROVE  FullOK(c)'
<1>1. op[c] \in Call /\ op \in [Callers -> Call] /\ pc \in [Callers -> {"idle", "gate", "keys", "ready", "push", "commit"}]
  BY Zenon DEF IInv, TypeOK
<1>2. CASE CallFull(c)
  <2>1. PICK s \in Scopes : op'[c].scope = s /\ op'[c].items = Snapshot(s)
    BY <1>1, <1>2 DEF CallFull
  <2>2. pc'[c] = "gate"
    BY Zenon, <1>1, <1>2 DEF CallFull
  <2>3. \A i \in op'[c].items : ~i.offline /\ ScopeOf[i.key] = op'[c].scope
    BY Zenon, <2>1, SnapshotItems
  <2> QED BY Zenon, <2>1, <2>2, <2>3 DEF FullOK, Inside
<1>3. CASE EnterExclusive(c) /\ ~Return(c)
  <2> DEFINE call == Revalidated(op[c])
  <2>1. op'[c] = call /\ pc'[c] = "ready" /\ pc[c] = "gate" /\ ~Unconfirmed(call)
    BY Zenon, <1>1, <1>3 DEF EnterExclusive
  <2>2. UNCHANGED <<source, emitted, latest, remote>>
    BY Zenon, <1>3 DEF EnterExclusive, ledgerVars, innerVars
  <2>3. FullOK(c)
    BY Zenon, <2>1 DEF IInv, GateInv, FullInv
  <2>4. CASE ~Trusted(op[c])
    <3>1. op'[c] = op[c]
      BY Zenon, <2>1, <2>4 DEF Revalidated
    <3> QED BY Zenon, <2>1, <2>3, <2>4, <3>1 DEF FullOK, Trusted
  <2>5. CASE Trusted(op[c])
    <3>1. /\ op'[c].items = Snapshot(op[c].scope) /\ op'[c].asof = Asof
          /\ op'[c].scope = op[c].scope /\ op'[c].kind = op[c].kind
          /\ op'[c].confirmed = op[c].confirmed
      BY ZenonT(60), <1>1, <2>1, <2>5 DEF Revalidated, Call
    <3>2. \A i \in op'[c].items : /\ i.key \in Keys /\ i.rev = source[i.key].rev
                                  /\ ~i.offline /\ ScopeOf[i.key] = op'[c].scope
      BY <3>1, SnapshotItems
    <3>3. op'[c].kind = "operation" /\ op'[c].items = {} => op'[c].confirmed
      BY Zenon, <2>1 DEF Unconfirmed
    <3>4. \A k \in Keys : remote'[k] # None => remote'[k] <= op'[c].asof[k]
      BY Zenon, <2>2, <3>1 DEF SourceInv, Asof
    <3>5. NoDrift' => \A i \in op'[c].items : latest'[i.key] # None => latest'[i.key].rev <= i.rev
      BY Zenon, <2>2, <3>2 DEF SourceInv, NoDrift
    <3> QED BY Zenon, <2>1, <2>3, <3>1, <3>2, <3>3, <3>4, <3>5 DEF FullOK
  <2> QED BY Zenon, <2>4, <2>5
<1>4. CASE Return(c)
  BY Zenon, <1>1, <1>4 DEF Return, NoCall, Full
<1> QED BY Zenon, <1>2, <1>3, <1>4

\* and from the gate to the ledger.
LEMMA InsideFull ==
    ASSUME IInv, FullInv, NEW c \in Callers, CallerStep(c), ~CallFull(c), ~EnterExclusive(c), Full(op'[c])
    PROVE  FullOK(c)'
<1>1. op[c] \in Call /\ op \in [Callers -> Call] /\ pc \in [Callers -> {"idle", "gate", "keys", "ready", "push", "commit"}]
  BY Zenon DEF IInv, TypeOK
<1>2. CASE Return(c)
  BY Zenon, <1>1, <1>2 DEF Return, NoCall, Full
<1>3. CASE Push(c) \/ LockKeys(c)
  BY <1>1, <1>3 DEF Push, LockKeys, NoCall, Full, IInv, GateInv
<1>4. CASE Filter(c) /\ ~Return(c)
  <2>1. /\ pc[c] = "ready" /\ pc'[c] = "push" /\ ~Rejected(op[c])
        /\ op' = [op EXCEPT ![c].items = op[c].items \ StaleItems(op[c])]
        /\ UNCHANGED <<emitted, latest, remote>>
    BY Zenon, <1>1, <1>4 DEF Filter, ledgerVars, innerVars
  <2>2. Full(op[c])
    BY Zenon, <1>1, <2>1 DEF Full, Call
  <2>3. StaleItems(op[c]) = {} /\ (~Trusted(op[c]) => Live \subseteq KeysOf(op[c].items))
    BY Zenon, <2>1, <2>2 DEF Rejected
  <2>4. op'[c] = op[c]
    BY ZenonT(60), <1>1, <2>1, <2>3 DEF Call
  <2>5. FullOK(c)
    BY Zenon, <2>2 DEF FullInv
  <2> QED BY Zenon, <2>1, <2>3, <2>4, <2>5 DEF FullOK, Inside, Live, Trusted
<1>5. CASE FallBack(c)
  <2>1. /\ op'[c].items = op[c].items /\ op'[c].scope = op[c].scope /\ pc'[c] = "gate" /\ Full(op[c])
    BY Zenon, <1>1, <1>5 DEF FallBack, Call, Full
  <2> QED BY Zenon, <2>1 DEF FullInv, FullOK, Inside
<1>6. CASE InnerPush(c)
  <2>1. /\ op'[c].items = op[c].items /\ op'[c].scope = op[c].scope /\ op'[c].kind = op[c].kind
        /\ op'[c].confirmed = op[c].confirmed
        /\ pc[c] = "push" /\ pc'[c] = "commit" /\ UNCHANGED latest
    BY <1>1, <1>6 DEF InnerPush, Call, ledgerVars
  <2>2. FullOK(c)
    BY Zenon, <2>1 DEF FullInv, Full
  <2> QED BY Zenon, <2>1, <2>2 DEF FullOK, Inside, Trusted, Live
<1> QED BY Zenon, <1>2, <1>3, <1>4, <1>5, <1>6 DEF CallerStep, Commit

\* A provider that goes on does not make a snapshot stale.
LEMMA ProviderFull ==
    ASSUME IInv, SourceInv, FullInv, NEW k \in Keys, ProviderStep(k)
    PROVE  FullInv'
<1>1. UNCHANGED <<latest, op, remote, pc>>
  BY Zenon DEF ProviderStep, SourceUpdate, SourceDelete, DriftDelete, ledgerVars, innerVars
<1>2. NoDrift' => NoDrift
  BY Zenon, ProviderSource
<1> QED
  BY ZenonT(60), <1>1, <1>2 DEF FullInv, FullOK, Full, Trusted, Live

\* Nobody is inside when the sink is closed.
LEMMA CloseOutside ==
    ASSUME IInv, Close
    PROVE  \A c \in Callers : pc[c] \notin Inside
BY Zenon, NoCallerAssumption DEF IInv, GateInv, Close

-----------------------------------------------------------------------------
(***************************************************************************)
(* RegistryInv: between the inner push and the commit the registry holds   *)
(* what was pushed, or the identities are in doubt; once nobody is at work *)
(* on an identity that is not in doubt, what the registry serves is what   *)
(* the ledger holds last.                                                  *)
(***************************************************************************)
Carried(c) ==
    IF op[c].acked
    THEN \A k \in Affected(op[c]) : k \notin dirty /\ remote[k] = Served(op[c], k)
    ELSE Affected(op[c]) \subseteq dirty

Recorded(k) ==
    Quiet(k) /\ remote[k] # None => latest[k] # None /\ latest[k].rev = remote[k]

RegistryInv ==
    /\ \A c \in Callers : pc[c] = "commit" => Carried(c)
    /\ ~closed => \A k \in Keys \ dirty : Recorded(k)
    /\ \A k \in Keys : identityScope[k] \in {None, ScopeOf[k]}

\* The call as the inner sink looks at it.
SameBatch(a, b) ==
    a.kind = b.kind /\ a.scope = b.scope /\ a.items = b.items /\ a.confirmed = b.confirmed

\* The effect of a push depends on its batch only.
LEMMA SameBatchSameEffect ==
    ASSUME NEW a, NEW b, SameBatch(a, b)
    PROVE  Affected(a) = Affected(b) /\ \A k : Served(a, k) = Served(b, k)
BY DEF SameBatch, Affected, PrunedClusters, Full, Served

\* Two goroutines inside are at work on different identities.
LEMMA AffectedDisjoint ==
    ASSUME IInv, NEW c \in Callers, NEW d \in Callers, c # d,
           pc[c] \in Inside, pc[d] \in Inside
    PROVE  Affected(op[c]) \cap Affected(op[d]) = {}
<1>1. /\ ~Full(op[c]) /\ ~Full(op[d])
      /\ \A i \in op[d].items : i.key \notin KeysOf(op[c].items)
  BY Zenon, InsideDisjoint
<1>2. Affected(op[c]) = KeysOf(op[c].items) /\ Affected(op[d]) = KeysOf(op[d].items)
  BY Zenon, <1>1 DEF Affected
<1> QED BY Zenon, <1>1, <1>2 DEF KeysOf

\* What the inner push does.
LEMMA InnerPushEffect ==
    ASSUME IInv, NEW c \in Callers, InnerPush(c)
    PROVE  /\ pc[c] = "push" /\ pc'[c] = "commit" /\ SameBatch(op'[c], op[c])
           /\ Affected(op'[c]) = Affected(op[c])
           /\ Carried(c)'
           /\ \A k \in Keys \ Affected(op[c]) : remote'[k] = remote[k] /\ (k \in dirty' <=> k \in dirty)
           /\ UNCHANGED <<latest, identityScope, closed>>
<1>1. PICK done \in SUBSET Affected(op[c]), acked \in BOOLEAN :
        /\ acked => done = Affected(op[c])
        /\ remote' = [k \in Keys |-> IF k \in done THEN Served(op[c], k) ELSE remote[k]]
        /\ dirty' = IF acked THEN dirty \ Affected(op[c]) ELSE dirty \cup Affected(op[c])
        /\ op' = [op EXCEPT ![c].acked = acked]
  BY Zenon DEF InnerPush
<1>2. op[c] \in Call /\ op \in [Callers -> Call] /\ pc \in [Callers -> {"idle", "gate", "keys", "ready", "push", "commit"}]
  BY Zenon DEF IInv, TypeOK
<1>3. SameBatch(op'[c], op[c]) /\ op'[c].acked = acked
  BY Zenon, <1>1, <1>2 DEF SameBatch, Call
<1>4. Affected(op'[c]) = Affected(op[c]) /\ \A k : Served(op'[c], k) = Served(op[c], k)
  BY Zenon, <1>3, SameBatchSameEffect
<1>5. Affected(op[c]) \subseteq Keys
  BY <1>2 DEF Affected, KeysOf, Call, Item
<1>6. Carried(c)'
  <2>1. CASE acked
    <3>1. \A k \in Affected(op[c]) : k \notin dirty' /\ remote'[k] = Served(op[c], k)
      BY Zenon, <1>1, <1>5, <2>1
    <3> QED BY Zenon, <1>3, <1>4, <2>1, <3>1 DEF Carried
  <2>2. CASE ~acked
    BY Zenon, <1>1, <1>3, <1>4, <2>2 DEF Carried
  <2> QED BY Zenon, <2>1, <2>2
<1>7. \A k \in Keys \ Affected(op[c]) : remote'[k] = remote[k] /\ (k \in dirty' <=> k \in dirty)
  BY Zenon, <1>1
<1>8. pc[c] = "push" /\ pc'[c] = "commit" /\ UNCHANGED <<latest, identityScope, closed>>
  BY Zenon, <1>2 DEF InnerPush, ledgerVars
<1> QED BY Zenon, <1>3, <1>4, <1>6, <1>7, <1>8

\* What the commit does to an identity of the batch, and to another.
LEMMA CommitEffect ==
    ASSUME IInv, NEW c \in Callers, Commit(c)
    PROVE  /\ pc[c] = "commit" /\ pc'[c] = "idle" /\ UNCHANGED <<remote, dirty, closed>>
           /\ \A i \in op[c].items : op[c].acked => latest'[i.key] = EntryOf(i)
           /\ \A k \in Keys \ KeysOf(op[c].items) :
                /\ identityScope'[k] = identityScope[k]
                /\ latest'[k] = IF op[c].acked /\ k \in Entombed(op[c])
                                THEN [latest[k] EXCEPT !.tomb = TRUE] ELSE latest[k]
           /\ ~op[c].acked => UNCHANGED <<latest, identityScope>>
           /\ \A k \in Keys : \/ identityScope'[k] = identityScope[k]
                              \/ /\ op[c].kind = "operation" /\ k \in KeysOf(op[c].items)
                                 /\ identityScope'[k] = op[c].scope
<1>1. /\ op[c] \in Call /\ pc \in [Callers -> {"idle", "gate", "keys", "ready", "push", "commit"}]
      /\ identityScope = [k \in Keys |-> identityScope[k]]
      /\ latest = [k \in Keys |-> latest[k]]
  BY Zenon DEF IInv, TypeOK
<1>2. pc[c] = "commit" /\ pc'[c] = "idle" /\ UNCHANGED <<remote, dirty, closed>>
  BY Zenon, <1>1 DEF Commit, Return, innerVars
<1>3. CASE ~op[c].acked
  BY Zenon, <1>1, <1>2, <1>3 DEF Commit
<1>4. CASE op[c].acked
  <2>1. /\ latest' = [k \in Keys |->
                IF k \in KeysOf(op[c].items)
                THEN EntryOf(CHOOSE i \in op[c].items : i.key = k)
                ELSE IF k \in Entombed(op[c]) THEN [latest[k] EXCEPT !.tomb = TRUE]
                ELSE latest[k]]
        /\ identityScope' = [k \in Keys |->
                IF op[c].kind = "operation" /\ k \in KeysOf(op[c].items)
                THEN op[c].scope ELSE identityScope[k]]
    BY Zenon, <1>4 DEF Commit
  <2>2. ASSUME NEW i \in op[c].items
        PROVE  latest'[i.key] = EntryOf(i)
    <3>1. i.key \in Keys /\ i.key \in KeysOf(op[c].items)
      BY Zenon, <1>1 DEF Call, Item, KeysOf
    <3>2. i = (CHOOSE j \in op[c].items : j.key = i.key)
      BY Zenon DEF IInv, BatchInv
    <3>3. latest'[i.key] = EntryOf(CHOOSE j \in op[c].items : j.key = i.key)
      BY Zenon, <2>1, <3>1
    <3> QED BY Zenon, <3>2, <3>3
  <2>3. ASSUME NEW k \in Keys \ KeysOf(op[c].items)
        PROVE  /\ identityScope'[k] = identityScope[k]
               /\ latest'[k] = IF k \in Entombed(op[c]) THEN [latest[k] EXCEPT !.tomb = TRUE] ELSE latest[k]
    BY Zenon, <2>1
  <2>4. ASSUME NEW k \in Keys
        PROVE  \/ identityScope'[k] = identityScope[k]
               \/ /\ op[c].kind = "operation" /\ k \in KeysOf(op[c].items)
                  /\ identityScope'[k] = op[c].scope
    BY Zenon, <2>1
  <2> QED BY Zenon, <1>2, <1>4, <2>2, <2>3, <2>4
<1> QED BY Zenon, <1>3, <1>4

\* A step of c that is neither leaves the registry, the ledger and the calls
\* in "commit" alone.
LEMMA OtherSteps ==
    ASSUME IInv, NEW c \in Callers, CallerStep(c), ~InnerPush(c), ~Commit(c)
    PROVE  /\ UNCHANGED <<latest, identityScope, closed, remote, dirty>>
           /\ \A d \in Callers : \/ pc'[d] # "commit" /\ pc[d] # "commit"
                                 \/ pc'[d] = pc[d] /\ op'[d] = op[d]
<1>1. UNCHANGED <<latest, identityScope, closed, remote, dirty>>
  BY Zenon DEF CallerStep, Push, LockKeys, CallFull, EnterExclusive, Filter, FallBack, ledgerVars, innerVars
<1>2. pc'[c] # "commit" /\ pc[c] # "commit"
  BY Zenon DEF IInv, TypeOK, CallerStep, Push, LockKeys, CallFull, EnterExclusive, Filter, FallBack, Return
<1> QED BY Zenon, <1>1, <1>2, OthersStay DEF IInv

\* The same for an identity: nobody was, or is now, at work on it.
LEMMA QuietStays ==
    ASSUME NEW k \in Keys,
           \A d \in Callers : \/ pc'[d] # "commit" /\ pc[d] # "commit"
                              \/ pc'[d] = pc[d] /\ op'[d] = op[d]
    PROVE  Quiet(k)' = Quiet(k)
<1> DEFINE Q == \A d \in Callers : pc[d] = "commit" => k \notin Affected(op[d])
           R == \A d \in Callers : pc'[d] = "commit" => k \notin Affected(op'[d])
<1>1. Q <=> R
  BY Zenon
<1>2. Quiet(k) = Q /\ Quiet(k)' = R
  BY Zenon DEF Quiet, Affected, PrunedClusters, Full, KeysOf
<1> QED BY Zenon, <1>1, <1>2

\* The other steps keep what the registry holds recorded,
LEMMA OtherRegistry ==
    ASSUME RegistryInv, UNCHANGED <<latest, identityScope, closed, remote, dirty>>,
           \A d \in Callers : \/ pc'[d] # "commit" /\ pc[d] # "commit"
                              \/ pc'[d] = pc[d] /\ op'[d] = op[d]
    PROVE  RegistryInv'
<1>1. \A k \in Keys : Quiet(k)' = Quiet(k)
  BY Zenon, QuietStays
<1>2. ~closed' => \A k \in Keys \ dirty' : Recorded(k)'
  BY ZenonT(60), <1>1 DEF RegistryInv, Recorded
<1>3. ASSUME NEW d \in Callers, pc'[d] = "commit"
      PROVE  Carried(d)'
  <2>1. pc[d] = "commit" /\ op'[d] = op[d] /\ Carried(d)
    BY Zenon, <1>3 DEF RegistryInv
  <2> QED BY <2>1 DEF Carried, SameBatch, Affected, PrunedClusters, Full, Served, KeysOf
<1> QED BY Zenon, <1>2, <1>3 DEF RegistryInv

\* the inner push,
LEMMA InnerPushRegistry ==
    ASSUME IInv, RegistryInv, NEW c \in Callers, InnerPush(c)
    PROVE  RegistryInv'
<1>1. /\ pc[c] = "push" /\ pc'[c] = "commit"
      /\ Affected(op'[c]) = Affected(op[c]) /\ Carried(c)'
      /\ \A k \in Keys \ Affected(op[c]) : remote'[k] = remote[k] /\ (k \in dirty' <=> k \in dirty)
      /\ UNCHANGED <<latest, identityScope, closed>>
  BY Zenon, InnerPushEffect
<1>2. \A d \in Callers \ {c} : pc'[d] = pc[d] /\ op'[d] = op[d]
  BY Zenon, OthersStay DEF IInv, CallerStep
<1>3. ASSUME NEW d \in Callers, pc'[d] = "commit", d # c
      PROVE  Carried(d)'
  <2>1. pc[d] = "commit" /\ op'[d] = op[d] /\ Carried(d)
    BY Zenon, <1>2, <1>3 DEF RegistryInv
  <2>2. Affected(op[d]) \subseteq Keys \ Affected(op[c])
    <3>1. Affected(op[d]) \cap Affected(op[c]) = {}
      BY Zenon, <1>1, <1>3, <2>1, AffectedDisjoint DEF Inside
    <3>2. Affected(op[d]) \subseteq Keys
      BY DEF Affected, KeysOf, IInv, TypeOK, Call, Item
    <3> QED BY Zenon, <3>1, <3>2
  <2>3. CASE op[d].acked
    <3>1. \A k \in Affected(op[d]) : k \notin dirty' /\ remote'[k] = Served(op[d], k)
      BY Zenon, <1>1, <2>1, <2>2, <2>3 DEF Carried
    <3> QED BY Zenon, <2>1, <2>3, <3>1 DEF Carried
  <2>4. CASE ~op[d].acked
    <3>1. Affected(op[d]) \subseteq dirty'
      BY Zenon, <1>1, <2>1, <2>2, <2>4 DEF Carried
    <3> QED BY Zenon, <2>1, <2>4, <3>1 DEF Carried
  <2> QED BY Zenon, <2>3, <2>4
<1>4. ASSUME ~closed', NEW k \in Keys \ dirty', Quiet(k)', remote'[k] # None
      PROVE  latest'[k] # None /\ latest'[k].rev = remote'[k]
  <2>1. k \notin Affected(op[c])
    BY Zenon, <1>1, <1>4 DEF Quiet
  <2>2. Quiet(k)
    <3>1. ASSUME NEW d \in Callers, pc[d] = "commit" PROVE k \notin Affected(op[d])
      <4>1. d # c /\ pc'[d] = "commit" /\ op'[d] = op[d]
        BY Zenon, <1>1, <1>2, <3>1
      <4> QED BY Zenon, <1>4, <4>1 DEF Quiet
    <3> QED BY Zenon, <3>1 DEF Quiet
  <2> QED BY Zenon, <1>1, <1>4, <2>1, <2>2 DEF RegistryInv, Recorded
<1>5. \A d \in Callers : pc'[d] = "commit" => Carried(d)'
  BY Zenon, <1>1, <1>3
<1>6. ~closed' => \A k \in Keys \ dirty' : Recorded(k)'
  BY Zenon, <1>4 DEF Recorded
<1> QED BY Zenon, <1>1, <1>5, <1>6 DEF RegistryInv

\* An identity that c's commit leaves quiet was quiet before, unless it is
\* c's.
LEMMA QuietBefore ==
    ASSUME IInv, NEW c \in Callers, Commit(c), NEW k \in Keys, Quiet(k)', k \notin Affected(op[c])
    PROVE  Quiet(k)
<1>1. ASSUME NEW d \in Callers, pc[d] = "commit" PROVE k \notin Affected(op[d])
  <2>1. CASE d = c
    BY Zenon, <2>1
  <2>2. CASE d # c
    <3>1. pc'[d] = "commit" /\ op'[d] = op[d]
      BY Zenon, <1>1, <2>2, OthersStay DEF IInv, CallerStep
    <3> QED BY Zenon, <3>1 DEF Quiet
  <2> QED BY Zenon, <2>1, <2>2
<1> QED BY Zenon, <1>1 DEF Quiet

\* What the registry serves of c's identities when c commits.
LEMMA CommitServes ==
    ASSUME IInv, RegistryInv, NEW c \in Callers, Commit(c), NEW k \in Keys \ dirty, k \in Affected(op[c])
    PROVE  /\ op[c].acked
           /\ k \notin KeysOf(op[c].items) => remote[k] = None
           /\ \A i \in op[c].items : i.key = k => remote[k] = IF i.offline THEN None ELSE Rev(i)
<1>1. pc[c] = "commit" /\ Carried(c)
  BY Zenon, CommitEffect DEF RegistryInv
<1>2. op[c].acked /\ remote[k] = Served(op[c], k)
  BY Zenon, <1>1 DEF Carried
<1>3. k \notin KeysOf(op[c].items) => remote[k] = None
  BY Zenon, <1>2 DEF Served, KeysOf
<1>4. ASSUME NEW i \in op[c].items, i.key = k
      PROVE  remote[k] = IF i.offline THEN None ELSE Rev(i)
  <2>1. \A j \in op[c].items : j.key = k => j = i
    BY Zenon, <1>4 DEF IInv, BatchInv
  <2>2. i = (CHOOSE j \in op[c].items : j.key = k)
    BY Zenon, <1>4, <2>1
  <2> QED BY Zenon, <1>2, <1>4, <2>1, <2>2 DEF Served
<1> QED BY Zenon, <1>2, <1>3, <1>4

\* and the commit.
LEMMA CommitRegistry ==
    ASSUME IInv, FullInv, RegistryInv, NEW c \in Callers, Commit(c)
    PROVE  RegistryInv'
<1>1. pc[c] = "commit" /\ pc'[c] = "idle" /\ UNCHANGED <<remote, dirty, closed>>
  BY Zenon, CommitEffect
<1>2. ASSUME NEW d \in Callers, pc'[d] = "commit"
      PROVE  Carried(d)'
  <2>1. d # c
    BY Zenon, <1>1, <1>2
  <2>2. pc[d] = "commit" /\ op'[d] = op[d]
    BY Zenon, <1>2, <2>1, OthersStay DEF IInv, CallerStep
  <2>3. Carried(d)
    BY Zenon, <2>2 DEF RegistryInv
  <2> QED BY Zenon, <1>1, <2>2, <2>3 DEF Carried
<1>3. ASSUME ~closed', NEW k \in Keys \ dirty', Quiet(k)', remote'[k] # None
      PROVE  latest'[k] # None /\ latest'[k].rev = remote'[k]
  <2>1. CASE k \in KeysOf(op[c].items)
    <3>1. PICK i \in op[c].items : i.key = k
      BY Zenon, <2>1 DEF KeysOf
    <3>2. k \in Affected(op[c])
      BY Zenon, <2>1 DEF Affected
    <3>3. op[c].acked /\ remote[k] = Rev(i)
      BY ZenonT(60), <1>1, <1>3, <3>1, <3>2, CommitServes
    <3>4. latest'[k] = EntryOf(i) /\ i \in Item
      BY <3>1, <3>3, CommitEffect DEF IInv, TypeOK, Call
    <3>5. latest'[k] \in LedgerEntry
      BY <3>4, RevType DEF EntryOf, LedgerEntry, Item
    <3> QED BY <1>1, <3>3, <3>4, <3>5, NoneAssumption DEF EntryOf
  <2>2. CASE k \notin KeysOf(op[c].items)
    <3>1. k \notin Affected(op[c])
      BY Zenon, <1>1, <1>3, <2>2, CommitServes
    <3>2. latest[k] # None /\ latest[k].rev = remote[k]
      BY Zenon, <1>1, <1>3, <3>1, QuietBefore DEF RegistryInv, Recorded
    <3>3. latest'[k] # None
      BY Zenon, <3>2, CommitLedger
    <3>4. latest'[k].rev = latest[k].rev
      BY Zenon, <2>2, <3>3, LedgerWrites DEF CallerStep, KeysOf
    <3> QED BY Zenon, <1>1, <3>2, <3>3, <3>4
  <2> QED BY ZenonT(60), <2>1, <2>2
<1>4. ASSUME NEW k \in Keys PROVE identityScope'[k] \in {None, ScopeOf[k]}
  <2>1. CASE identityScope'[k] = identityScope[k]
    BY Zenon, <2>1 DEF RegistryInv
  <2>2. CASE /\ op[c].kind = "operation" /\ k \in KeysOf(op[c].items)
             /\ identityScope'[k] = op[c].scope
    BY ZenonT(60), <2>2 DEF FullInv, FullOK, Full, KeysOf
  <2> QED BY Zenon, <2>1, <2>2, CommitEffect
<1>5. ~closed' => \A k \in Keys \ dirty' : Recorded(k)'
  BY Zenon, <1>3 DEF Recorded
<1> QED BY Zenon, <1>2, <1>4, <1>5 DEF RegistryInv

\* The invariant of the gate, the providers and the registry together.
SinkInv == IInv /\ SourceInv /\ FullInv /\ RegistryInv

\* The empty gate.
LEMMA InitSinkInv == Init => SinkInv
<1> SUFFICES ASSUME Init
             PROVE  SinkInv
  BY Zenon
<1>1. IInv
  BY Zenon, InitIInv
<1>2. SourceInv /\ FullInv
  BY Zenon DEF Init, SourceInv, FullInv, Full, NoCall
<1>3. RegistryInv
  BY Zenon DEF Init, RegistryInv, Recorded
<1> QED BY Zenon, <1>1, <1>2, <1>3 DEF SinkInv

\* Every step preserves the invariant.
LEMMA NextSinkInv == SinkInv /\ [Next]_vars => SinkInv'
<1> SUFFICES ASSUME SinkInv, [Next]_vars
             PROVE  SinkInv'
  BY Zenon
<1>1. IInv /\ SourceInv /\ FullInv /\ RegistryInv /\ IInv'
  BY Zenon, NextIInv DEF SinkInv
<1>2. CASE UNCHANGED vars
  <2>1. SourceInv'
    BY Zenon, <1>1, <1>2 DEF vars, SourceInv, Known, NoDrift
  <2>2. FullInv'
    BY ZenonT(60), <1>1, <1>2 DEF vars, FullInv, FullOK, Full, Trusted, Live, NoDrift
  <2>3. RegistryInv'
    BY Zenon, <1>1, <1>2, OtherRegistry DEF vars
  <2> QED BY Zenon, <1>1, <2>1, <2>2, <2>3 DEF SinkInv
<1>3. ASSUME NEW k \in Keys, ProviderStep(k) PROVE SinkInv'
  <2>1. SourceInv' /\ FullInv'
    BY Zenon, <1>1, <1>3, ProviderSource, ProviderFull
  <2>2. UNCHANGED <<latest, identityScope, closed, remote, dirty, pc, op>>
    BY Zenon, <1>3 DEF ProviderStep, SourceUpdate, SourceDelete, DriftDelete, ledgerVars, innerVars
  <2>3. RegistryInv'
    BY Zenon, <1>1, <2>2, OtherRegistry
  <2> QED BY Zenon, <1>1, <2>1, <2>3 DEF SinkInv
<1>4. ASSUME NEW c \in Callers, CallerStep(c) PROVE SinkInv'
  <2>1. SourceInv'
    BY Zenon, <1>1, <1>4, CallerSource
  <2>2. FullInv'
    BY Zenon, <1>1, <1>4, OtherFull, EnterFull, InsideFull DEF FullInv
  <2>3. CASE InnerPush(c)
    BY Zenon, <1>1, <2>1, <2>2, <2>3, InnerPushRegistry DEF SinkInv
  <2>4. CASE Commit(c)
    BY Zenon, <1>1, <2>1, <2>2, <2>4, CommitRegistry DEF SinkInv
  <2>5. CASE ~InnerPush(c) /\ ~Commit(c)
    BY Zenon, <1>1, <1>4, <2>1, <2>2, <2>5, OtherSteps, OtherRegistry DEF SinkInv
  <2> QED BY Zenon, <2>3, <2>4, <2>5
<1>5. CASE Close
  <2>1. UNCHANGED <<source, emitted, op, pc, remote, dirty>> /\ closed'
    BY Zenon, <1>5 DEF Close, innerVars
  <2>2. \A k \in Keys : latest'[k] = None /\ identityScope'[k] = None
    BY Zenon, <1>5 DEF Close
  <2>3. \A c \in Callers : pc[c] \notin Inside
    BY Zenon, <1>1, <1>5, CloseOutside
  <2>4. SourceInv'
    BY Zenon, <1>1, <2>1, <2>2 DEF SourceInv, Known, NoDrift
  <2>5. FullInv'
    BY Zenon, <1>1, <2>1, <2>3 DEF FullInv, FullOK, Full, Inside
  <2>6. RegistryInv'
    BY Zenon, <1>1, <2>1, <2>2, <2>3 DEF RegistryInv, Inside
  <2> QED BY Zenon, <1>1, <2>4, <2>5, <2>6 DEF SinkInv
<1> QED
  BY Zenon, <1>2, <1>3, <1>4, <1>5 DEF Next, ProviderStep, CallerStep

\* Gate, ledger, providers and registry keep their relation in every reachable
\* state of orderedSink.
THEOREM SinkInvariant == Spec => []SinkInv
BY InitSinkInv, NextSinkInv, PTL DEF Spec

\* A late event neither overwrites nor removes a newer revision in the
\* registry: what runLocked compares with, the ledger, is what the registry
\* serves, and nobody else writes the identity until the push is done.
THEOREM PushesNeverRegress == Spec => RegistryNeverRegresses
<1> DEFINE Newer == \A c \in Callers : Pushes(c) =>
        \A i \in op[c].items :
            i.key \notin dirty /\ remote[i.key] # None => Rev(i) >= remote[i.key]
<1>1. SinkInv /\ [Next]_vars => [Newer]_vars
  <2> SUFFICES ASSUME SinkInv, [Next]_vars, NEW c \in Callers, Pushes(c), NEW i \in op[c].items,
                      i.key \notin dirty, remote[i.key] # None
               PROVE  Rev(i) >= remote[i.key]
    BY Zenon
  <2>1. pc[c] = "push" /\ IInv /\ RegistryInv
    BY Zenon DEF Pushes, SinkInv
  <2>2. i \in Item /\ i.key \in Keys /\ i.key \in Affected(op[c])
    BY <2>1 DEF IInv, TypeOK, Call, Item, Affected, KeysOf
  <2>3. Quiet(i.key)
    <3>1. ASSUME NEW d \in Callers, pc[d] = "commit" PROVE i.key \notin Affected(op[d])
      <4>1. d # c
        BY Zenon, <2>1, <3>1
      <4> QED BY Zenon, <2>1, <2>2, <3>1, <4>1, AffectedDisjoint DEF Inside
    <3> QED BY Zenon, <3>1 DEF Quiet
  <2>4. ~closed /\ (~StaleRevision(i) \/ Heals(op[c], i))
    BY Zenon, <2>1 DEF IInv, AcceptedInv, StaleItems
  <2>5. latest[i.key] # None /\ latest[i.key].rev = remote[i.key]
    BY ZenonT(60), <2>1, <2>2, <2>3, <2>4 DEF RegistryInv, Recorded
  <2>6. Rev(i) \in Int /\ latest[i.key].rev \in Int
    BY SMTT(60), <2>1, <2>2, <2>5, RevType, MaxRevAssumption DEF IInv, TypeOK, LedgerEntry, Revision, Trigger
  <2>7. CASE Heals(op[c], i)
    BY <2>5, <2>6, <2>7 DEF Heals
  <2>8. CASE ~StaleRevision(i)
    <3>1. ~IF latest[i.key].tomb THEN Rev(i) <= latest[i.key].rev ELSE Rev(i) < latest[i.key].rev
      BY <2>5, <2>8, Zenon DEF StaleRevision
    <3> QED BY <2>5, <2>6, <3>1
  <2> QED BY Zenon, <2>4, <2>7, <2>8
<1> QED
  BY <1>1, SinkInvariant, PTL DEF Spec, RegistryNeverRegresses

\* What a snapshot read under the gate is compared with is not ahead of its
\* provider.
LEMMA FreshAccepted == SinkInv => FreshSnapshotAccepted
<1> SUFFICES ASSUME SinkInv, NEW c \in Callers, pc[c] = "ready", Trusted(op[c]), NoDrift, Rejected(op[c])
             PROVE  FALSE
  BY Zenon DEF FreshSnapshotAccepted
<1>1. PICK i \in op[c].items : StaleRevision(i) /\ ~Heals(op[c], i)
  BY Zenon DEF Rejected, StaleItems
<1>2. Full(op[c]) /\ FullOK(c)
  BY Zenon DEF SinkInv, FullInv, Full, Trusted
<1>3. i.rev # 0 /\ ~i.offline /\ i \in Item
  BY Zenon, <1>2 DEF SinkInv, SourceInv, FullOK, IInv, TypeOK, Call
<1>4. latest[i.key] # None
  BY Zenon, <1>1 DEF StaleRevision
<1>5. latest[i.key].rev <= i.rev /\ Rev(i) = i.rev
  BY ZenonT(60), <1>2, <1>3, <1>4 DEF FullOK, Rev
<1>6. latest[i.key].rev \in Int /\ i.rev \in Int
  BY <1>3, <1>4, MaxRevAssumption DEF SinkInv, IInv, TypeOK, Item, LedgerEntry, Revision, Trigger
<1>7. CASE latest[i.key].tomb
  BY <1>1, <1>3, <1>5, <1>6, <1>7 DEF StaleRevision, Heals
<1>8. CASE ~latest[i.key].tomb
  BY <1>1, <1>5, <1>6, <1>8 DEF StaleRevision
<1> QED BY Zenon, <1>7, <1>8

\* The snapshot that Revalidate returns under the gate is never dropped for
\* being stale, as long as every event carries its provider's revision.
THEOREM RevalidatedIsAccepted == Spec => []FreshSnapshotAccepted
BY FreshAccepted, SinkInvariant, PTL

-----------------------------------------------------------------------------
(***************************************************************************)
(* Several providers.  Two facts about how the registry's clusters are     *)
(* named decide what a full push of one provider can do to another's       *)
(* instances, and whether it removes its own.                              *)
(***************************************************************************)
\* No cluster has instances of two providers, and none is named after the
\* scope of a provider whose instances are elsewhere.
ClustersApart ==
    /\ \A j, k \in Keys : ClusterOf[j] = ClusterOf[k] => ScopeOf[j] = ScopeOf[k]
    /\ \A k \in Keys : ClusterOf[k] \in Scopes => ScopeOf[k] = ClusterOf[k]

\* A provider's instances are in the cluster named after its scope, as those
\* of a Consul source are.
ScopeIsCluster == \A k \in Keys : ClusterOf[k] = ScopeOf[k]

\* An operation reaches the instances of its own provider only.
LEMMA OperationReach ==
    ASSUME ClustersApart, IInv, FullInv, RegistryInv, NEW c \in Callers, op[c].kind = "operation",
           NEW k \in Keys, k \in Affected(op[c]) \cup Entombed(op[c])
    PROVE  ScopeOf[k] = op[c].scope
<1>1. FullOK(c)
  BY Zenon DEF FullInv, Full
<1>2. CASE k \in KeysOf(op[c].items)
  BY Zenon, <1>1, <1>2 DEF FullOK, KeysOf
<1>3. CASE k \in Entombed(op[c])
  <2>1. identityScope[k] = op[c].scope /\ op[c].scope # None
    BY Zenon, <1>1, <1>3, NoneAssumption DEF Entombed, FullOK
  <2> QED BY Zenon, <2>1 DEF RegistryInv
<1>4. CASE ClusterOf[k] \in PrunedClusters(op[c])
  <2>1. CASE ClusterOf[k] = op[c].scope
    BY Zenon, <1>1, <2>1 DEF ClustersApart, FullOK
  <2>2. ASSUME NEW i \in op[c].items, ClusterOf[k] = ClusterOf[i.key]
        PROVE  ScopeOf[k] = op[c].scope
    <3>1. i.key \in Keys
      BY DEF IInv, TypeOK, Call, Item
    <3> QED BY <1>1, <2>2, <3>1 DEF ClustersApart, FullOK
  <2> QED BY Zenon, <1>4, <2>1, <2>2 DEF PrunedClusters, KeysOf
<1> QED BY Zenon, <1>2, <1>3, <1>4 DEF Affected

\* Who leaves "push" pushes, and who leaves "commit" commits.
LEMMA OwnSteps ==
    ASSUME IInv, [Next]_vars, NEW c \in Callers, pc'[c] # pc[c], pc[c] \in {"push", "commit"}
    PROVE  InnerPush(c) \/ Commit(c)
<1>1. ASSUME NEW d \in Callers, CallerStep(d) PROVE d = c
  BY Zenon, <1>1, OthersStay DEF IInv
<1>2. PICK d \in Callers : CallerStep(d)
  BY Zenon DEF Next, vars, CallerStep, SourceUpdate, SourceDelete, DriftDelete, Close
<1>3. CallerStep(c)
  BY Zenon, <1>1, <1>2
<1> QED
  BY Zenon, <1>3 DEF CallerStep, Push, LockKeys, CallFull, EnterExclusive, Filter, FallBack

\* A full operation of one provider leaves ledger and registry of another's
\* instances as they are, whatever its snapshot omits.
THEOREM ProvidersKeepApart == ClustersApart /\ Spec => OthersUntouched
<1> DEFINE Apart == \A c \in Callers :
        op[c].kind = "operation" /\ pc[c] \in {"push", "commit"} /\ pc'[c] # pc[c] =>
            \A k \in Keys : ScopeOf[k] # op[c].scope =>
                latest'[k] = latest[k] /\ remote'[k] = remote[k]
<1>1. ClustersApart /\ SinkInv /\ [Next]_vars => [Apart]_vars
  <2> SUFFICES ASSUME ClustersApart, SinkInv, [Next]_vars, NEW c \in Callers, op[c].kind = "operation",
                      pc[c] \in {"push", "commit"}, pc'[c] # pc[c], NEW k \in Keys, ScopeOf[k] # op[c].scope
               PROVE  latest'[k] = latest[k] /\ remote'[k] = remote[k]
    BY Zenon
  <2>1. IInv /\ FullInv /\ RegistryInv
    BY Zenon DEF SinkInv
  <2>2. k \notin Affected(op[c]) /\ k \notin Entombed(op[c])
    BY Zenon, <2>1, OperationReach
  <2>3. CASE InnerPush(c)
    BY Zenon, <2>1, <2>2, <2>3, InnerPushEffect
  <2>4. CASE Commit(c)
    <3>1. k \notin KeysOf(op[c].items)
      BY Zenon, <2>2 DEF Affected
    <3> QED BY ZenonT(60), <2>1, <2>2, <2>4, <3>1, CommitEffect
  <2> QED BY Zenon, <2>1, <2>3, <2>4, OwnSteps
<1>2. SinkInv /\ ClustersApart /\ [Next]_vars => SinkInv' /\ ClustersApart'
  BY Zenon, NextSinkInv
<1> QED
  BY <1>1, <1>2, InitSinkInv, PTL DEF Spec, OthersUntouched

-----------------------------------------------------------------------------
\* What a registry-side fact about an identity needs to survive a step: the
\* step leaves it alone, or it is c's commit.
LEMMA OnlyCommits ==
    ASSUME SinkInv, [Next]_vars, NEW k \in Keys \ dirty', Quiet(k)',
           ~Close, \A c \in Callers : ~Commit(c)
    PROVE  /\ k \notin dirty /\ Quiet(k) /\ remote'[k] = remote[k]
           /\ latest'[k] = latest[k] /\ identityScope'[k] = identityScope[k]
<1>1. IInv
  BY Zenon DEF SinkInv
<1>2. CASE UNCHANGED <<latest, identityScope, closed, remote, dirty>> /\
           \A d \in Callers : \/ pc'[d] # "commit" /\ pc[d] # "commit"
                              \/ pc'[d] = pc[d] /\ op'[d] = op[d]
  BY Zenon, <1>2, QuietStays
<1>3. ASSUME NEW c \in Callers, InnerPush(c)
      PROVE  /\ k \notin dirty /\ Quiet(k) /\ remote'[k] = remote[k]
             /\ latest'[k] = latest[k] /\ identityScope'[k] = identityScope[k]
  <2>1. /\ pc[c] = "push" /\ pc'[c] = "commit" /\ Affected(op'[c]) = Affected(op[c])
        /\ \A j \in Keys \ Affected(op[c]) : remote'[j] = remote[j] /\ (j \in dirty' <=> j \in dirty)
        /\ UNCHANGED <<latest, identityScope>>
    BY Zenon, <1>1, <1>3, InnerPushEffect
  <2>2. k \notin Affected(op[c])
    BY Zenon, <2>1 DEF Quiet
  <2>3. ASSUME NEW d \in Callers, pc[d] = "commit" PROVE k \notin Affected(op[d])
    <3>1. d # c
      BY Zenon, <2>1, <2>3
    <3>2. pc'[d] = "commit" /\ op'[d] = op[d]
      BY Zenon, <1>1, <1>3, <2>3, <3>1, OthersStay DEF IInv, CallerStep
    <3> QED BY Zenon, <3>2 DEF Quiet
  <2> QED BY Zenon, <2>1, <2>2, <2>3 DEF Quiet
<1>4. ASSUME NEW c \in Callers, CallerStep(c), ~InnerPush(c), ~Commit(c)
      PROVE  UNCHANGED <<latest, identityScope, closed, remote, dirty>> /\
             \A d \in Callers : \/ pc'[d] # "commit" /\ pc[d] # "commit"
                                \/ pc'[d] = pc[d] /\ op'[d] = op[d]
  BY Zenon, <1>1, <1>4, OtherSteps
<1>5. ASSUME NEW j \in Keys, ProviderStep(j)
      PROVE  UNCHANGED <<latest, identityScope, closed, remote, dirty, pc, op>>
  BY Zenon, <1>5 DEF ProviderStep, SourceUpdate, SourceDelete, DriftDelete, ledgerVars, innerVars
<1>6. CASE UNCHANGED vars
  BY Zenon, <1>2, <1>6 DEF vars
<1> QED
  BY Zenon, <1>2, <1>3, <1>4, <1>5, <1>6 DEF Next, ProviderStep, CallerStep

\* What the ledger holds for live after a commit was pushed with it, or was
\* live before and not omitted.
LEMMA CommitConfirms ==
    ASSUME ClustersApart, SinkInv, ConfirmedAreServed, NEW c \in Callers, Commit(c)
    PROVE  ConfirmedAreServed'
<1>1. IInv /\ FullInv /\ RegistryInv
  BY Zenon DEF SinkInv
<1>2. pc[c] = "commit" /\ UNCHANGED <<remote, dirty>>
  BY Zenon, <1>1, CommitEffect
<1> SUFFICES ASSUME NEW k \in Keys \ dirty', latest'[k] # None, ~latest'[k].tomb,
                    Quiet(k)', identityScope'[k] # None
             PROVE  remote'[k] = latest'[k].rev
  BY Zenon DEF ConfirmedAreServed, Live
<1>3. CASE k \in KeysOf(op[c].items)
  <2>1. PICK i \in op[c].items : i.key = k
    BY Zenon, <1>3 DEF KeysOf
  <2>2. k \in Affected(op[c])
    BY Zenon, <1>3 DEF Affected
  <2>3. op[c].acked /\ remote[k] = IF i.offline THEN None ELSE Rev(i)
    BY Zenon, <1>1, <1>2, <2>1, <2>2, CommitServes
  <2>4. latest'[k] = EntryOf(i)
    BY <1>1, <2>1, <2>3, CommitEffect
  <2> QED BY <1>2, <2>3, <2>4 DEF EntryOf
<1>4. CASE k \notin KeysOf(op[c].items)
  <2>1. identityScope'[k] = identityScope[k]
    BY Zenon, <1>1, <1>4, CommitEffect
  <2>2. latest[k] \in LedgerEntry /\ latest'[k] = latest[k] /\ ~(op[c].acked /\ k \in Entombed(op[c]))
    <3>1. latest'[k] = IF op[c].acked /\ k \in Entombed(op[c])
                       THEN [latest[k] EXCEPT !.tomb = TRUE] ELSE latest[k]
      BY Zenon, <1>1, <1>4, CommitEffect
    <3>2. latest[k] # None
      BY Zenon, <3>1 DEF Entombed, Live
    <3>3. latest[k] \in LedgerEntry
      BY Zenon, <1>1, <3>2 DEF IInv, TypeOK
    <3> QED BY Zenon, <3>1, <3>3 DEF LedgerEntry
  <2>3. k \in Live
    BY Zenon, <2>2 DEF Live
  <2>4. CASE k \notin Affected(op[c])
    BY Zenon, <1>1, <1>2, <2>1, <2>2, <2>3, <2>4, QuietBefore DEF ConfirmedAreServed
  <2>5. CASE k \in Affected(op[c])
    <3>1. op[c].acked /\ Full(op[c]) /\ FullOK(c)
      BY Zenon, <1>1, <1>2, <1>4, <2>5, CommitServes DEF Affected, FullInv
    <3>2. Trusted(op[c])
      BY Zenon, <1>2, <1>4, <2>3, <3>1 DEF FullOK
    <3>3. op[c].kind = "operation" /\ identityScope[k] # op[c].scope
      BY Zenon, <1>4, <2>2, <2>3, <3>1, <3>2 DEF Entombed
    <3>4. ScopeOf[k] = op[c].scope
      BY Zenon, <1>1, <2>5, <3>3, OperationReach
    <3> QED BY Zenon, <1>1, <2>1, <3>3, <3>4 DEF RegistryInv
  <2> QED BY Zenon, <2>4, <2>5
<1> QED BY Zenon, <1>3, <1>4

\* An identity that an operation has confirmed and the ledger holds for live
\* is served with the ledger's revision, unless a failed push left it in
\* doubt: no full push of runLocked prunes it unnoticed.
THEOREM LiveIsServed == ClustersApart /\ Spec => []ConfirmedAreServed
<1>1. Init => ConfirmedAreServed
  BY Zenon DEF Init, ConfirmedAreServed, Live
<1>2. ClustersApart /\ SinkInv /\ ConfirmedAreServed /\ [Next]_vars
        => ClustersApart' /\ SinkInv' /\ ConfirmedAreServed'
  <2> SUFFICES ASSUME ClustersApart, SinkInv, ConfirmedAreServed, [Next]_vars
               PROVE  SinkInv' /\ ConfirmedAreServed'
    BY Zenon
  <2>1. SinkInv'
    BY Zenon, NextSinkInv
  <2>2. CASE Close
    BY Zenon, <2>1, <2>2 DEF Close, ConfirmedAreServed, Live
  <2>3. CASE \E c \in Callers : Commit(c)
    BY Zenon, <2>1, <2>3, CommitConfirms
  <2>4. CASE ~Close /\ \A c \in Callers : ~Commit(c)
    <3> SUFFICES ASSUME NEW k \in Keys \ dirty', latest'[k] # None, ~latest'[k].tomb,
                        Quiet(k)', identityScope'[k] # None
                 PROVE  remote'[k] = latest'[k].rev
      BY Zenon, <2>1 DEF ConfirmedAreServed, Live
    <3>1. /\ k \notin dirty /\ Quiet(k) /\ remote'[k] = remote[k]
          /\ latest'[k] = latest[k] /\ identityScope'[k] = identityScope[k]
      BY Zenon, <2>4, OnlyCommits
    <3> QED BY Zenon, <3>1 DEF ConfirmedAreServed, Live
  <2> QED BY Zenon, <2>2, <2>3, <2>4
<1> QED
  BY <1>1, <1>2, InitSinkInv, PTL DEF Spec

-----------------------------------------------------------------------------
(***************************************************************************)
(* Tombstones.  A commit entombs what its snapshot omits; the inner push   *)
(* before it has pruned clusters.  The two agree on the clusters the push  *)
(* looked at, whoever pushed.  They agree on all of a provider's instances *)
(* if its scope names its cluster, as with Consul, and if no second        *)
(* attempt has given up the scope.                                         *)
(***************************************************************************)
\* What a commit entombs in a cluster that its push pruned is gone from it.
LEMMA PrunedIsGone ==
    ASSUME SinkInv, NEW c \in Callers, Commit(c), NEW k \in Live \ dirty,
           latest'[k].tomb, ClusterOf[k] \in PrunedClusters(op[c])
    PROVE  remote[k] = None
<1>1. IInv /\ RegistryInv /\ k \in Keys \ dirty /\ ~latest[k].tomb
  BY Zenon DEF SinkInv, Live
<1>2. CASE k \in KeysOf(op[c].items)
  <2>1. PICK i \in op[c].items : i.key = k
    BY Zenon, <1>2 DEF KeysOf
  <2>2. k \in Affected(op[c])
    BY Zenon, <1>2 DEF Affected
  <2>3. op[c].acked /\ remote[k] = IF i.offline THEN None ELSE Rev(i)
    BY ZenonT(60), <1>1, <2>1, <2>2, CommitServes
  <2>4. latest'[k] = EntryOf(i)
    BY <1>1, <2>1, <2>3, CommitEffect
  <2> QED BY <2>3, <2>4 DEF EntryOf
<1>3. CASE k \notin KeysOf(op[c].items)
  <2>1. op[c].acked /\ k \in Entombed(op[c])
    BY Zenon, <1>1, <1>3, CommitEffect
  <2>2. k \in Affected(op[c])
    BY Zenon, <1>1, <2>1 DEF Entombed, Trusted, Full, Affected
  <2> QED BY Zenon, <1>1, <1>3, <2>2, CommitServes
<1> QED BY Zenon, <1>2, <1>3

\* Ledger and registry agree on a deletion: when the end of runLocked turns a
\* live identity into a tombstone, the registry has dropped it, unless a failed
\* push left it in doubt or the push did not look at its cluster.
TombstonesFollowRemoval ==
    [][\A c \in Callers : pc[c] = "commit" /\ pc'[c] # "commit" =>
        \A k \in Live \ dirty :
            latest'[k].tomb /\ ClusterOf[k] \in PrunedClusters(op[c]) => remote[k] = None]_vars

\* It holds of every full push: of Kubernetes, whose scope is not its cluster,
\* and of the worker's second attempt, which speaks for all scopes.
THEOREM DeletionsAgree == Spec => TombstonesFollowRemoval
<1> DEFINE Agree == \A c \in Callers : pc[c] = "commit" /\ pc'[c] # "commit" =>
        \A k \in Live \ dirty :
            latest'[k].tomb /\ ClusterOf[k] \in PrunedClusters(op[c]) => remote[k] = None
<1>1. SinkInv /\ [Next]_vars => [Agree]_vars
  <2> SUFFICES ASSUME SinkInv, [Next]_vars, NEW c \in Callers, pc[c] = "commit", pc'[c] # "commit"
               PROVE  \A k \in Live \ dirty :
                        latest'[k].tomb /\ ClusterOf[k] \in PrunedClusters(op[c]) => remote[k] = None
    BY Zenon
  <2>1. Commit(c)
    BY Zenon, OwnSteps DEF SinkInv, InnerPush
  <2> QED BY Zenon, <2>1, PrunedIsGone
<1> QED
  BY <1>1, SinkInvariant, PTL DEF Spec, TombstonesFollowRemoval

\* The worker never makes its second attempt: no record of the registry loses
\* its revision, or the sink knows PushAllOperation only.
NoSecondAttempt == Drifting = {} \/ "revalidate" \notin FullKinds

FirstAttempts == (Drifting = {} => NoDrift) /\ \A c \in Callers : op[c].kind # "revalidate"

\* Without drift no operation is found stale, and none is tried again.
LEMMA InitFirstAttempts == Init => FirstAttempts
<1>1. NoCall.kind = "push"
  BY Zenon DEF NoCall
<1>2. Init => emitted = {} /\ \A c \in Callers : op[c] = NoCall
  BY Zenon DEF Init
<1> QED BY <1>1, <1>2 DEF FirstAttempts, NoDrift

LEMMA NextFirstAttempts ==
    ASSUME NoSecondAttempt, SinkInv, FirstAttempts, [Next]_vars
    PROVE  FirstAttempts'
<1>0. \A r \in 1 .. MaxRev : r # 0
  BY MaxRevAssumption
<1>1. IInv /\ SourceInv /\ \A d \in Callers : op[d].kind # "revalidate"
  BY Zenon DEF SinkInv, FirstAttempts
<1>2. ASSUME NEW k \in Keys, ProviderStep(k) PROVE FirstAttempts'
  <2>1. op' = op
    BY Zenon, <1>2 DEF ProviderStep, SourceUpdate, SourceDelete, DriftDelete
  <2>2. ASSUME Drifting = {}, NEW e \in emitted' PROVE e.rev # 0
    <3>1. CASE e \in emitted
      BY Zenon, <2>2, <3>1 DEF FirstAttempts, NoDrift
    <3>2. CASE SourceUpdate(k) /\ e \notin emitted
      <4>1. PICK r \in 1 .. MaxRev : e = Event(k, r, FALSE)
        BY Zenon, <2>2, <3>2 DEF SourceUpdate
      <4>2. e.rev = r
        BY Zenon, <4>1 DEF Event
      <4> QED BY Zenon, <1>0, <4>2
    <3>3. CASE SourceDelete(k) /\ e \notin emitted
      <4>1. e = Event(k, source[k].rev, TRUE) /\ source[k].live
        BY Zenon, <2>2, <3>3 DEF SourceDelete
      <4> QED BY Zenon, <1>1, <4>1 DEF Event, SourceInv
    <3>4. ~DriftDelete(k)
      BY Zenon, <2>2 DEF DriftDelete
    <3> QED BY Zenon, <1>2, <3>1, <3>2, <3>3, <3>4 DEF ProviderStep
  <2> QED BY Zenon, <1>1, <2>1, <2>2 DEF FirstAttempts, NoDrift
<1>3. ASSUME NEW c \in Callers, CallerStep(c) PROVE FirstAttempts'
  <2>1. emitted' = emitted
    BY Zenon, <1>3, CallersLeaveSource
  <2>2. op[c] \in Call /\ op \in [Callers -> Call]
    BY Zenon, <1>1 DEF IInv, TypeOK
  <2>3. ~FallBack(c)
    <3>1. CASE Drifting = {}
      BY Zenon, <3>1, FreshAccepted DEF FirstAttempts, FallBack, FreshSnapshotAccepted, Trusted
    <3>2. CASE "revalidate" \notin FullKinds
      BY Zenon, <3>2 DEF FallBack
    <3> QED BY Zenon, <3>1, <3>2 DEF NoSecondAttempt
  <2>4. op'[c].kind # "revalidate"
    <3>1. CASE CallFull(c)
      <4>1. PICK kind \in FullKinds \ {"revalidate"} : op'[c].kind = kind
        BY <2>2, <3>1 DEF CallFull
      <4> QED BY Zenon, <4>1
    <3>2. CASE Return(c) \/ Push(c)
      BY <2>2, <3>2 DEF Return, Push, NoCall
    <3>3. CASE LockKeys(c)
      BY Zenon, <1>1, <3>3 DEF LockKeys
    <3>4. CASE EnterExclusive(c) /\ ~Return(c)
      <4>1. op'[c] = Revalidated(op[c])
        BY Zenon, <2>2, <3>4 DEF EnterExclusive
      <4>2. op'[c].kind = op[c].kind
        BY ZenonT(60), <2>2, <4>1 DEF Revalidated, Call
      <4> QED BY Zenon, <1>1, <4>2
    <3>5. CASE (Filter(c) \/ InnerPush(c)) /\ ~Return(c)
      <4>1. op'[c].kind = op[c].kind
        BY <2>2, <3>5 DEF Filter, InnerPush, Call
      <4> QED BY Zenon, <1>1, <4>1
    <3> QED BY Zenon, <1>3, <2>3, <3>1, <3>2, <3>3, <3>4, <3>5 DEF CallerStep, Commit
  <2>5. \A d \in Callers : op'[d].kind # "revalidate"
    BY Zenon, <1>1, <1>3, <2>4, OthersStay DEF IInv
  <2> QED BY Zenon, <2>1, <2>5 DEF FirstAttempts, NoDrift
<1>4. CASE UNCHANGED <<emitted, op>>
  BY Zenon, <1>4 DEF FirstAttempts, NoDrift
<1> QED
  BY Zenon, <1>2, <1>3, <1>4 DEF Next, ProviderStep, CallerStep, Close, vars

\* The provider of k keeps all its instances in the cluster named after its
\* scope, whatever the others do.
OwnCluster(k) == \A j \in Keys : ScopeOf[j] = ScopeOf[k] => ClusterOf[j] = ScopeOf[k]

\* Then what a commit entombs the inner push has looked at.
LEMMA EntombedIsPruned ==
    ASSUME FirstAttempts, SinkInv, NEW c \in Callers, pc[c] = "commit", NEW k \in Entombed(op[c]), OwnCluster(k)
    PROVE  k \in Affected(op[c])
<1>1. IInv /\ FullInv /\ RegistryInv /\ op[c] \in Call
  BY Zenon DEF SinkInv, IInv, TypeOK
<1>2. k \in Keys /\ op[c].kind = "operation" /\ identityScope[k] = op[c].scope
  BY Zenon, <1>1 DEF Entombed, Live, Trusted, FirstAttempts
<1>3. Full(op[c]) /\ FullOK(c)
  BY Zenon, <1>1, <1>2 DEF Full, FullInv
<1>4. op[c].scope # None
  BY Zenon, <1>3, NoneAssumption DEF FullOK
<1>5. ScopeOf[k] = op[c].scope /\ ClusterOf[k] = op[c].scope
  BY Zenon, <1>1, <1>2, <1>4 DEF RegistryInv, OwnCluster
<1>6. CASE op[c].items = {}
  BY Zenon, <1>2, <1>3, <1>5, <1>6 DEF FullOK, Inside, Affected, PrunedClusters
<1>7. CASE op[c].items # {}
  <2>1. PICK i \in op[c].items : TRUE
    BY Zenon, <1>7
  <2>2. i.key \in Keys /\ i.key \in KeysOf(op[c].items)
    BY ZenonT(60), <1>1 DEF Call, Item, KeysOf
  <2>3. ClusterOf[i.key] = op[c].scope
    BY Zenon, <1>3, <1>5, <2>2 DEF FullOK, OwnCluster
  <2> QED BY ZenonT(60), <1>2, <1>3, <1>5, <2>2, <2>3 DEF Affected, PrunedClusters
<1> QED BY Zenon, <1>6, <1>7

\* What the ledger holds for dead of such a provider is not served.
OwnDeadGone ==
    \A k \in Keys \ dirty :
        OwnCluster(k) /\ Quiet(k) /\ latest[k] # None /\ latest[k].tomb => remote[k] = None

\* A tombstone is recorded once the registry has dropped the instance.
LEMMA CommitEntombs ==
    ASSUME FirstAttempts, SinkInv, OwnDeadGone, NEW c \in Callers, Commit(c)
    PROVE  OwnDeadGone'
<1>1. IInv /\ FullInv /\ RegistryInv
  BY Zenon DEF SinkInv
<1>2. pc[c] = "commit" /\ UNCHANGED <<remote, dirty>>
  BY Zenon, <1>1, CommitEffect
<1> SUFFICES ASSUME NEW k \in Keys \ dirty', OwnCluster(k), Quiet(k)', latest'[k] # None, latest'[k].tomb
             PROVE  remote'[k] = None
  BY Zenon DEF OwnDeadGone, OwnCluster
<1>3. CASE k \in KeysOf(op[c].items)
  <2>1. PICK i \in op[c].items : i.key = k
    BY Zenon, <1>3 DEF KeysOf
  <2>2. k \in Affected(op[c])
    BY Zenon, <1>3 DEF Affected
  <2>3. op[c].acked /\ remote[k] = IF i.offline THEN None ELSE Rev(i)
    BY ZenonT(60), <1>1, <1>2, <2>1, <2>2, CommitServes
  <2>4. latest'[k] = EntryOf(i)
    BY <1>1, <2>1, <2>3, CommitEffect
  <2> QED BY <1>2, <2>3, <2>4 DEF EntryOf
<1>4. CASE k \in Affected(op[c]) \ KeysOf(op[c].items)
  BY Zenon, <1>1, <1>2, <1>4, CommitServes
<1>5. CASE k \notin Affected(op[c])
  <2>1. k \notin KeysOf(op[c].items) /\ k \notin Entombed(op[c])
    BY Zenon, <1>2, <1>5, EntombedIsPruned DEF Affected
  <2>2. latest'[k] = latest[k]
    BY ZenonT(60), <1>1, <2>1, CommitEffect
  <2> QED BY ZenonT(60), <1>1, <1>2, <1>5, <2>2, QuietBefore DEF OwnDeadGone
<1> QED BY Zenon, <1>3, <1>4, <1>5

\* Of a provider whose scope names its cluster, whichever others share the
\* sink, what the ledger holds for dead the registry does not serve, unless a
\* failed push left it in doubt: runLocked suppresses events of an instance
\* only after it was removed.
THEOREM OwnDeadAreRemoved == NoSecondAttempt /\ Spec => []OwnDeadGone
<1>1. Init => OwnDeadGone
  BY Zenon DEF Init, OwnDeadGone
<1>2. NoSecondAttempt /\ SinkInv /\ FirstAttempts /\ OwnDeadGone /\ [Next]_vars
        => NoSecondAttempt' /\ SinkInv' /\ FirstAttempts' /\ OwnDeadGone'
  <2> SUFFICES ASSUME NoSecondAttempt, SinkInv, FirstAttempts, OwnDeadGone, [Next]_vars
               PROVE  SinkInv' /\ FirstAttempts' /\ OwnDeadGone'
    BY Zenon DEF NoSecondAttempt
  <2>1. SinkInv' /\ FirstAttempts'
    BY Zenon, NextSinkInv, NextFirstAttempts
  <2>2. CASE Close
    BY Zenon, <2>1, <2>2 DEF Close, OwnDeadGone
  <2>3. CASE \E c \in Callers : Commit(c)
    BY Zenon, <2>1, <2>3, CommitEntombs
  <2>4. CASE ~Close /\ \A c \in Callers : ~Commit(c)
    BY Zenon, <2>1, <2>4, OnlyCommits DEF OwnDeadGone, OwnCluster
  <2> QED BY Zenon, <2>2, <2>3, <2>4
<1> QED
  BY <1>1, <1>2, InitSinkInv, InitFirstAttempts, PTL DEF Spec

\* With Consul sources alone this is the invariant of the ledger.
THEOREM DeadIsRemoved == ScopeIsCluster /\ NoSecondAttempt /\ Spec => []TombstonesAreGone
<1>1. ScopeIsCluster /\ OwnDeadGone => TombstonesAreGone
  BY Zenon DEF ScopeIsCluster, OwnDeadGone, OwnCluster, TombstonesAreGone
<1>2. ScopeIsCluster => ScopeIsCluster'
  BY Zenon DEF ScopeIsCluster
<1> QED
  BY <1>1, <1>2, OwnDeadAreRemoved, PTL DEF Spec

\* A full push never removes an instance that was registered from a revision
\* newer than its snapshot.  Of a trusted one, be it of Kubernetes or a second
\* attempt, this needs no assumption: it is read under the gate.  The legacy
\* PushAll, whose snapshot may be old, is dropped by runLocked if the ledger
\* holds a live identity it omits; so the ledger has to be right about the dead.
THEOREM PrunesAreNotStale ==
    ("pushAll" \notin FullKinds \/ (ScopeIsCluster /\ NoSecondAttempt)) /\ Spec => PruneIsNeverStale
<1> DEFINE Legacy == "pushAll" \in FullKinds
           Fresh == \A c \in Callers : Pushes(c) /\ Full(op[c]) =>
        \A k \in Keys \ dirty :
            remote[k] # None /\ remote'[k] = None => remote[k] <= op[c].asof[k]
<1>1. SinkInv /\ (Legacy => TombstonesAreGone) /\ [Next]_vars => [Fresh]_vars
  <2> SUFFICES ASSUME SinkInv, Legacy => TombstonesAreGone, [Next]_vars, NEW c \in Callers, Pushes(c), Full(op[c]),
                      NEW k \in Keys \ dirty, remote[k] # None, remote'[k] = None
               PROVE  remote[k] <= op[c].asof[k]
    BY Zenon
  <2>1. IInv /\ RegistryInv /\ FullOK(c) /\ pc[c] = "push" /\ InnerPush(c)
    BY Zenon, PushesIsInnerPush DEF SinkInv, FullInv, Pushes
  <2>2. CASE Trusted(op[c])
    BY Zenon, <2>1, <2>2 DEF FullOK
  <2>3. CASE ~Trusted(op[c])
    <3>1. Quiet(k)
      <4>1. ASSUME NEW d \in Callers, pc[d] = "commit" PROVE FALSE
        <5>1. d # c
          BY Zenon, <2>1, <4>1
        <5> QED BY Zenon, <2>1, <4>1, <5>1, InsideDisjoint DEF Inside
      <4> QED BY Zenon, <4>1 DEF Quiet
    <3>2. latest[k] # None
      BY Zenon, <2>1, <3>1 DEF RegistryInv, Recorded, IInv, AcceptedInv
    <3>0. Legacy
      <4>1. op[c].kind \in {"push"} \cup FullKinds
        BY Zenon, <2>1 DEF IInv, TypeOK, Call
      <4>2. op[c].kind \in FullKinds /\ op[c].kind \notin {"operation", "revalidate"}
        BY Zenon, <2>3, <4>1 DEF Full, Trusted
      <4> QED BY Zenon, <4>2, KindsAssumption
    <3>3. ~latest[k].tomb
      BY Zenon, <3>0, <3>1, <3>2 DEF TombstonesAreGone
    <3>4. PICK i \in op[c].items : i.key = k
      BY Zenon, <2>1, <2>3, <3>2, <3>3 DEF FullOK, Live, KeysOf
    <3>5. ~i.offline /\ i \in Item /\ i = (CHOOSE j \in op[c].items : j.key = k)
      BY Zenon, <2>1, <3>4 DEF FullOK, IInv, TypeOK, Call, BatchInv
    <3>6. Served(op[c], k) = Rev(i)
      BY Zenon, <3>4, <3>5 DEF Served
    <3>7. remote'[k] = Served(op[c], k)
      BY Zenon, <2>1 DEF InnerPush
    <3> QED BY Zenon, <3>5, <3>6, <3>7, RevType, NoneAssumption
  <2> QED BY Zenon, <2>2, <2>3
<1>2. CASE ~Legacy
  <2>1. SinkInv /\ [Next]_vars => [Fresh]_vars
    BY Zenon, <1>1, <1>2
  <2> QED BY <2>1, SinkInvariant, PTL DEF Spec, PruneIsNeverStale
<1>3. CASE ScopeIsCluster /\ NoSecondAttempt
  <2>1. Spec => []TombstonesAreGone
    BY <1>3, DeadIsRemoved, PTL
  <2>2. SinkInv /\ TombstonesAreGone /\ [Next]_vars => [Fresh]_vars
    BY Zenon, <1>1
  <2> QED BY <2>1, <2>2, SinkInvariant, PTL DEF Spec, PruneIsNeverStale
<1> QED BY Zenon, <1>2, <1>3

-----------------------------------------------------------------------------
(***************************************************************************)
(* The lock table. Its invariant relates the three views of an entry: the  *)
(* table, the calls that registered with it and its reference count, which *)
(* is exactly the number of those calls. From it follows that an entry is  *)
(* dropped by its last user only, so that all users of an identity contend *)
(* for one mutex.                                                          *)
(***************************************************************************)
CONSTANT Addresses

\* The addresses of keyLockEntry values: anything but nil.
Pointers == Addresses \ {None}

VARIABLES keyLocks, refs, owner, at, keys, entries

Table == INSTANCE KeyLocks WITH Nil <- None, Addresses <- Pointers, pc <- at

\* An entry is not nil.
LEMMA NilIsNoPointer == None \notin Pointers
BY Zenon DEF Pointers

\* The goroutines registered for identity k.
Users(k) == {c \in Callers : k \in keys[c]}

\* A caller has an entry for each of its keys and for nothing else.
CallsOK ==
    \A c \in Callers :
        /\ \A k \in Keys : k \in keys[c] <=> entries[c][k] # None
        /\ at[c] = "idle" => keys[c] = {}
        /\ at[c] = "held" => \A k \in keys[c] : owner[entries[c][k]] = c

\* Each identity has its own entry, counted once per user.
CountsOK ==
    /\ \A k, l \in Keys : keyLocks[k] # None /\ keyLocks[k] = keyLocks[l] => k = l
    /\ \A k \in Keys : keyLocks[k] # None => refs[keyLocks[k]] = Cardinality(Users(k))

TableInv == Table!TypeOK /\ CallsOK /\ Table!TableTracksUsers /\ CountsOK

-----------------------------------------------------------------------------
\* Counting sets of goroutines; proved at the end of the module.
Counting ==
    \A S \in SUBSET Callers :
        /\ Cardinality(S) \in Nat /\ (Cardinality(S) = 0 <=> S = {})
        /\ \A c \in Callers \ S : Cardinality(S \cup {c}) = Cardinality(S) + 1
        /\ \A c \in S : Cardinality(S \ {c}) = Cardinality(S) - 1

\* The users of an identity, being goroutines, can be counted.
LEMMA UsersCounted ==
    ASSUME Counting, NEW k \in Keys
    PROVE  /\ Users(k) \subseteq Callers /\ Cardinality(Users(k)) \in Nat
           /\ Cardinality(Users(k)) = 0 <=> Users(k) = {}
BY Zenon DEF Users, Counting

\* A goroutine that joins others.
LEMMA OneMore ==
    ASSUME Counting, NEW S \in SUBSET Callers, NEW c \in Callers \ S
    PROVE  Cardinality(S \cup {c}) = Cardinality(S) + 1
BY Zenon DEF Counting

\* No goroutine is registered for an identity that has no entry.
LEMMA NoEntryNoUsers ==
    ASSUME TableInv, NEW k \in Keys, keyLocks[k] = None
    PROVE  Users(k) = {}
BY DEF TableInv, CallsOK, Table!TableTracksUsers, Users

\* The initial table is empty and nobody has called lockKeys.
LEMMA InitTableInv == Table!Init => TableInv
BY NilIsNoPointer DEF Table!Init, TableInv, Table!TypeOK, CallsOK, Table!TableTracksUsers, CountsOK, Table!NoEntries

\* Registering adds c to the users of its keys, with the entry the others use
\* or with a new one.
LEMMA RegisterTableInv ==
    ASSUME Counting, TableInv, NEW c \in Callers, Table!Register(c)
    PROVE  TableInv'
<1>1. PICK K \in (SUBSET Keys) \ {{}}, entry \in [Keys -> Pointers \cup {None}] :
        /\ \A k \in Keys \ K : entry[k] = None
        /\ \A k \in K : IF keyLocks[k] # None
                        THEN entry[k] = keyLocks[k]
                        ELSE entry[k] # None /\ Table!Unreferenced(entry[k])
        /\ \A k, l \in K : entry[k] = entry[l] => k = l
        /\ keyLocks' = [k \in Keys |-> IF k \in K THEN entry[k] ELSE keyLocks[k]]
        /\ refs' = [a \in Pointers |->
                        IF \E k \in K : entry[k] = a THEN Table!Counted(a) ELSE refs[a]]
        /\ owner' = [a \in Pointers |->
                        IF \E k \in K : entry[k] = a /\ Table!Unreferenced(a)
                        THEN NoCaller ELSE owner[a]]
        /\ keys' = [keys EXCEPT ![c] = K]
        /\ entries' = [entries EXCEPT ![c] = entry]
  BY Zenon DEF Table!Register
<1>2. /\ at[c] = "idle"
      /\ at' = [at EXCEPT ![c] = "locking"]
  BY Zenon DEF Table!Register
<1>3. \A k \in K : entry[k] \in Pointers
  BY Zenon, <1>1
<1>4. keys[c] = {}
  BY ZenonT(60), <1>2 DEF TableInv, CallsOK
<1>5. Table!TypeOK'
  BY <1>1, <1>2 DEF TableInv, Table!TypeOK, Table!Counted
<1>6. \A d \in Callers : d # c => keys'[d] = keys[d] /\ entries'[d] = entries[d]
  BY Zenon, <1>1 DEF TableInv, Table!TypeOK
<1>7. keys'[c] = K /\ entries'[c] = entry
  BY Zenon, <1>1 DEF TableInv, Table!TypeOK
<1>8. CallsOK'
  <2> SUFFICES ASSUME NEW d \in Callers
               PROVE  /\ \A k \in Keys : k \in keys'[d] <=> entries'[d][k] # None
                      /\ at'[d] = "idle" => keys'[d] = {}
                      /\ at'[d] = "held" => \A k \in keys'[d] : owner'[entries'[d][k]] = d
    BY Zenon DEF CallsOK
  <2>1. CASE d = c
    BY ZenonT(60), <2>1, <1>1, <1>2, <1>3, <1>7, NilIsNoPointer DEF TableInv, Table!TypeOK
  <2>2. CASE d # c
    <3>1. \A k \in keys[d] : entries[d][k] \in Pointers
      BY DEF TableInv, Table!TypeOK, CallsOK
    <3>2. \A k \in keys[d] : ~Table!Unreferenced(entries[d][k])
      BY Zenon DEF Table!Unreferenced, TableInv, Table!TypeOK
    <3>3. \A k \in keys[d] : owner'[entries[d][k]] = owner[entries[d][k]]
      BY Zenon, <1>1, <3>1, <3>2
    <3>4. at'[d] = at[d]
      BY Zenon, <2>2, <1>2 DEF TableInv, Table!TypeOK
    <3> QED
      BY <2>2, <1>6, <3>3, <3>4 DEF TableInv, CallsOK
  <2> QED
    BY ZenonT(60), <2>1, <2>2
<1>9. Table!TableTracksUsers'
  <2>1. ASSUME NEW d \in Callers, NEW k \in keys'[d]
        PROVE  keyLocks'[k] = entries'[d][k]
    <3>1. k \in Keys
      BY Zenon, <1>5 DEF Table!TypeOK
    <3>2. CASE d = c
      BY Zenon, <3>1, <3>2, <1>1, <1>7
    <3>3. CASE d # c
      <4>1. keyLocks[k] = entries[d][k] /\ keyLocks[k] # None
        BY <3>1, <3>3, <1>6 DEF TableInv, Table!TableTracksUsers, CallsOK
      <4> QED
        BY ZenonT(60), <3>1, <3>3, <4>1, <1>1, <1>6
    <3> QED
      BY Zenon, <3>2, <3>3
  <2>2. ASSUME NEW k \in Keys, keyLocks'[k] # None
        PROVE  \E d \in Callers : k \in keys'[d]
    <3>1. CASE k \in K
      BY Zenon, <3>1, <1>7
    <3>2. CASE k \notin K
      <4>1. PICK d \in Callers : k \in keys[d]
        BY Zenon, <2>2, <3>2, <1>1 DEF TableInv, Table!TableTracksUsers
      <4> QED
        BY Zenon, <4>1, <1>4, <1>6
    <3> QED
      BY Zenon, <3>1, <3>2
  <2> QED
    BY Zenon, <2>1, <2>2 DEF Table!TableTracksUsers
<1>10. CountsOK'
  <2>1. ASSUME NEW k \in K, NEW l \in Keys \ K, keyLocks[l] # None
        PROVE  entry[k] # keyLocks[l]
    BY ZenonT(60), <1>1, <2>1 DEF Table!Unreferenced, TableInv, CountsOK
  <2>2. ASSUME NEW k \in Keys, NEW l \in Keys, keyLocks'[k] # None, keyLocks'[k] = keyLocks'[l]
        PROVE  k = l
    BY ZenonT(60), <1>1, <2>1, <2>2 DEF TableInv, CountsOK
  <2>3. ASSUME NEW k \in Keys, keyLocks'[k] # None
        PROVE  refs'[keyLocks'[k]] = Cardinality(Users(k)')
    <3>1. CASE k \notin K
      <4>1. Users(k)' = Users(k)
        BY ZenonT(60), <3>1, <1>4, <1>6, <1>7 DEF Users
      <4>2. keyLocks'[k] = keyLocks[k] /\ keyLocks[k] \in Pointers
        BY ZenonT(60), <2>3, <3>1, <1>1 DEF TableInv, Table!TypeOK
      <4>3. refs'[keyLocks[k]] = refs[keyLocks[k]]
        BY ZenonT(60), <2>1, <2>3, <3>1, <4>2, <1>1
      <4> QED
        BY ZenonT(60), <2>3, <4>1, <4>2, <4>3 DEF TableInv, CountsOK
    <3>2. CASE k \in K
      <4>1. Users(k)' = Users(k) \cup {c} /\ c \notin Users(k)
        BY ZenonT(60), <3>2, <1>4, <1>6, <1>7 DEF Users
      <4>2. Cardinality(Users(k)') = Cardinality(Users(k)) + 1
        <5>1. c \in Callers \ Users(k) /\ Users(k) \in SUBSET Callers
          BY ZenonT(60), <4>1, UsersCounted
        <5>2. Cardinality(Users(k) \cup {c}) = Cardinality(Users(k)) + 1
          BY ZenonT(60), <5>1, OneMore
        <5> QED BY ZenonT(60), <4>1, <5>2
      <4>3. keyLocks'[k] = entry[k] /\ refs'[entry[k]] = Table!Counted(entry[k])
        BY ZenonT(60), <3>2, <1>1, <1>3
      <4>4. CASE keyLocks[k] = None
        <5>1. Cardinality(Users(k)) = 0
          BY ZenonT(60), <4>4, NoEntryNoUsers, UsersCounted
        <5>2. Table!Counted(entry[k]) = 1
          BY ZenonT(60), <3>2, <4>4, <1>1 DEF Table!Counted
        <5> QED
          BY <4>2, <4>3, <5>1, <5>2
      <4>5. CASE keyLocks[k] # None
        <5>1. entry[k] = keyLocks[k] /\ ~Table!Unreferenced(entry[k])
          BY ZenonT(60), <3>2, <4>5, <1>1 DEF Table!Unreferenced
        <5> QED
          BY ZenonT(60), <4>2, <4>3, <4>5, <5>1 DEF Table!Counted, TableInv, CountsOK
      <4> QED
        BY ZenonT(60), <4>4, <4>5
    <3> QED
      BY Zenon, <3>1, <3>2
  <2> QED
    BY Zenon, <2>2, <2>3 DEF CountsOK
<1> QED
  BY Zenon, <1>5, <1>8, <1>9, <1>10 DEF TableInv

\* A granted mutex had no owner, so no other holder loses it.
LEMMA LockNextTableInv ==
    ASSUME TableInv, NEW c \in Callers, Table!LockNext(c)
    PROVE  TableInv'
<1>1. PICK k \in keys[c] \ Table!Held(c) :
        /\ owner[entries[c][k]] = NoCaller
        /\ owner' = [owner EXCEPT ![entries[c][k]] = c]
        /\ at' = [at EXCEPT ![c] = IF keys[c] \ Table!Held(c) = {k} THEN "held" ELSE "locking"]
  BY Zenon DEF Table!LockNext
<1>2. at[c] = "locking" /\ UNCHANGED <<keyLocks, refs, keys, entries>>
  BY Zenon DEF Table!LockNext
<1>3. k \in Keys /\ entries[c][k] \in Pointers
  BY DEF TableInv, Table!TypeOK, CallsOK
<1>4. Table!TypeOK'
  BY Zenon, <1>1, <1>2, <1>3 DEF TableInv, Table!TypeOK
<1>5. CallsOK'
  <2> SUFFICES ASSUME NEW d \in Callers, at'[d] = "held", NEW l \in keys[d]
               PROVE  owner'[entries[d][l]] = d
    BY SMTT(60), <1>1, <1>2 DEF CallsOK, TableInv, Table!TypeOK
  <2>1. entries[d][l] \in Pointers
    BY DEF TableInv, Table!TypeOK, CallsOK
  <2>2. CASE d = c
    <3>1. keys[c] \ Table!Held(c) = {k}
      BY ZenonT(60), <2>2, <1>1 DEF TableInv, Table!TypeOK
    <3>2. l = k \/ owner[entries[c][l]] = c
      BY ZenonT(60), <2>2, <3>1 DEF Table!Held
    <3> QED
      BY Zenon, <2>1, <2>2, <3>2, <1>1, <1>3 DEF TableInv, Table!TypeOK
  <2>3. CASE d # c
    <3>1. owner[entries[d][l]] = d
      BY ZenonT(60), <2>3, <1>1 DEF TableInv, Table!TypeOK, CallsOK
    <3> QED
      BY ZenonT(60), <2>1, <3>1, <1>1, <1>3, NoCallerAssumption DEF TableInv, Table!TypeOK
  <2> QED
    BY ZenonT(60), <2>2, <2>3
<1>6. Table!TableTracksUsers' /\ CountsOK'
  BY <1>2 DEF TableInv, Table!TableTracksUsers, CountsOK, Users
<1> QED
  BY Zenon, <1>4, <1>5, <1>6 DEF TableInv

\* The first unlock takes c out of the section; only its own mutex changes.
LEMMA UnlockNextTableInv ==
    ASSUME TableInv, NEW c \in Callers, Table!UnlockNext(c)
    PROVE  TableInv'
<1>1. PICK k \in Table!Held(c) :
        /\ owner' = [owner EXCEPT ![entries[c][k]] = NoCaller]
        /\ at' = [at EXCEPT ![c] = IF Table!Held(c) = {k} THEN "leaving" ELSE "unlocking"]
  BY Zenon DEF Table!UnlockNext
<1>2. UNCHANGED <<keyLocks, refs, keys, entries>>
  BY Zenon DEF Table!UnlockNext
<1>3. k \in keys[c] /\ entries[c][k] \in Pointers /\ owner[entries[c][k]] = c
  BY DEF TableInv, Table!TypeOK, Table!Held
<1>4. Table!TypeOK'
  BY Zenon, <1>1, <1>2, <1>3 DEF TableInv, Table!TypeOK
<1>5. CallsOK'
  <2> SUFFICES ASSUME NEW d \in Callers, at'[d] = "held", NEW l \in keys[d]
               PROVE  owner'[entries[d][l]] = d
    BY <1>1, <1>2, <1>3 DEF CallsOK, TableInv, Table!TypeOK
  <2>1. d # c /\ at[d] = "held"
    BY ZenonT(60), <1>1 DEF TableInv, Table!TypeOK
  <2>2. entries[d][l] \in Pointers /\ owner[entries[d][l]] = d
    BY <2>1 DEF TableInv, Table!TypeOK, CallsOK
  <2> QED
    BY ZenonT(60), <2>1, <2>2, <1>1, <1>3 DEF TableInv, Table!TypeOK
<1>6. Table!TableTracksUsers' /\ CountsOK'
  BY Zenon, <1>2 DEF TableInv, Table!TableTracksUsers, CountsOK, Users
<1> QED
  BY Zenon, <1>4, <1>5, <1>6 DEF TableInv

\* The count tells the last user apart, so only that one drops the entry.
LEMMA UnregisterTableInv ==
    ASSUME Counting, TableInv, NEW c \in Callers, Table!Unregister(c)
    PROVE  TableInv'
<1>1. /\ refs' = [a \in Pointers |->
                    IF \E k \in keys[c] : entries[c][k] = a THEN refs[a] - 1 ELSE refs[a]]
      /\ keyLocks' = [k \in Keys |-> IF Table!Dropped(c, k) THEN None ELSE keyLocks[k]]
      /\ at' = [at EXCEPT ![c] = "idle"]
      /\ keys' = [keys EXCEPT ![c] = {}]
      /\ entries' = [entries EXCEPT ![c] = Table!NoEntries]
      /\ owner' = owner
  BY Zenon DEF Table!Unregister
<1>2. \A k \in keys[c] : /\ k \in Keys
                         /\ entries[c][k] = keyLocks[k]
                         /\ keyLocks[k] \in Pointers
                         /\ keyLocks[k] # None
                         /\ refs[keyLocks[k]] = Cardinality(Users(k))
  BY NilIsNoPointer DEF TableInv, Table!TypeOK, CallsOK, Table!TableTracksUsers, CountsOK
<1>3. \A d \in Callers : d # c => keys'[d] = keys[d] /\ entries'[d] = entries[d] /\ at'[d] = at[d]
  BY Zenon, <1>1 DEF TableInv, Table!TypeOK
<1>4. keys'[c] = {} /\ entries'[c] = Table!NoEntries /\ at'[c] = "idle"
  BY Zenon, <1>1 DEF TableInv, Table!TypeOK
<1>5. \A k \in Keys : Users(k)' = Users(k) \ {c}
  BY Zenon, <1>3, <1>4 DEF Users
<1>6. ASSUME NEW k \in keys[c]
      PROVE  /\ c \in Users(k)
             /\ Cardinality(Users(k)') = Cardinality(Users(k)) - 1
             /\ Cardinality(Users(k)) \in Nat \ {0}
  <2>1. k \in Keys /\ c \in Users(k)
    BY Zenon, <1>2 DEF Users
  <2>2. Users(k) \subseteq Callers /\ Cardinality(Users(k)) \in Nat
    BY Zenon, <2>1, UsersCounted
  <2>3. Cardinality(Users(k) \ {c}) = Cardinality(Users(k)) - 1
    BY Zenon, <2>1, <2>2 DEF Counting
  <2>4. Cardinality(Users(k)) # 0
    BY Zenon, <2>1, UsersCounted
  <2> QED
    BY ZenonT(60), <2>1, <2>2, <2>3, <2>4, <1>5
<1>7. ASSUME NEW k \in Keys
      PROVE  Table!Dropped(c, k) <=> k \in keys[c] /\ Users(k)' = {}
  <2>1. Table!Dropped(c, k) <=> k \in keys[c] /\ refs[keyLocks[k]] = 1
    BY Zenon, <1>2 DEF Table!Dropped
  <2>2. ASSUME k \in keys[c]
        PROVE  refs[keyLocks[k]] = 1 <=> Users(k)' = {}
    <3>1. Users(k) \ {c} \in SUBSET Callers
      BY ZenonT(60), UsersCounted
    <3>2. refs[keyLocks[k]] = 1 <=> Cardinality(Users(k)') = 0
      BY <2>2, <1>2, <1>6
    <3>3. Cardinality(Users(k)') = 0 <=> Users(k)' = {}
      BY ZenonT(60), <3>1, <1>5 DEF Counting
    <3> QED
      BY ZenonT(60), <3>2, <3>3
  <2> QED
    BY ZenonT(60), <2>1, <2>2
<1>8. Table!TypeOK'
  <2>1. ASSUME NEW a \in Pointers, NEW k \in keys[c], entries[c][k] = a
        PROVE  refs[a] - 1 \in Nat
    BY <2>1, <1>2, <1>6
  <2>2. refs' \in [Pointers -> Nat]
    BY ZenonT(60), <2>1, <1>1 DEF TableInv, Table!TypeOK
  <2> QED
    BY ZenonT(60), <2>2, <1>1 DEF TableInv, Table!TypeOK, Table!NoEntries
<1>9. CallsOK'
  BY <1>1, <1>3, <1>4 DEF TableInv, CallsOK, Table!NoEntries
<1>10. Table!TableTracksUsers'
  <2>1. ASSUME NEW d \in Callers, NEW k \in keys'[d]
        PROVE  keyLocks'[k] = entries'[d][k]
    <3>1. d # c /\ k \in keys[d] /\ k \in Keys
      BY ZenonT(60), <1>3, <1>4 DEF TableInv, Table!TypeOK
    <3>2. ~Table!Dropped(c, k)
      BY ZenonT(60), <3>1, <1>5, <1>7 DEF Users
    <3> QED
      BY SMTT(60), <3>1, <3>2, <1>1, <1>3 DEF TableInv, Table!TableTracksUsers
  <2>2. ASSUME NEW k \in Keys, keyLocks'[k] # None
        PROVE  \E d \in Callers : k \in keys'[d]
    <3>1. keyLocks[k] # None /\ ~Table!Dropped(c, k)
      BY ZenonT(60), <2>2, <1>1
    <3>2. Users(k) # {}
      BY ZenonT(60), <3>1 DEF TableInv, Table!TableTracksUsers, Users
    <3>3. Users(k)' # {}
      BY ZenonT(60), <3>1, <3>2, <1>5, <1>7 DEF Users
    <3> QED
      BY Zenon, <3>3 DEF Users
  <2> QED
    BY ZenonT(60), <2>1, <2>2 DEF Table!TableTracksUsers
<1>11. CountsOK'
  <2>1. ASSUME NEW k \in Keys, keyLocks'[k] # None
        PROVE  keyLocks'[k] = keyLocks[k]
    BY Zenon, <2>1, <1>1
  <2>2. ASSUME NEW k \in Keys, keyLocks'[k] # None
        PROVE  refs'[keyLocks'[k]] = Cardinality(Users(k)')
    <3>1. keyLocks'[k] = keyLocks[k] /\ keyLocks[k] \in Pointers /\ keyLocks[k] # None
      BY Zenon, <2>1, <2>2 DEF TableInv, Table!TypeOK
    <3>2. (\E l \in keys[c] : entries[c][l] = keyLocks[k]) <=> k \in keys[c]
      BY Zenon, <3>1, <1>2 DEF TableInv, CountsOK
    <3>3. CASE k \in keys[c]
      BY ZenonT(60), <3>1, <3>2, <3>3, <1>1, <1>2, <1>6
    <3>4. CASE k \notin keys[c]
      <4>1. Users(k)' = Users(k)
        BY Zenon, <3>4, <1>5 DEF Users
      <4> QED
        BY ZenonT(60), <3>1, <3>2, <3>4, <4>1, <1>1 DEF TableInv, CountsOK
    <3> QED
      BY Zenon, <3>3, <3>4
  <2> QED
    BY Zenon, <2>1, <2>2 DEF CountsOK, TableInv
<1> QED
  BY ZenonT(60), <1>8, <1>9, <1>10, <1>11 DEF TableInv

-----------------------------------------------------------------------------
\* Every step of a goroutine in lockKeys or in its unlock function preserves
\* the invariant.
LEMMA NextTableInv == Counting /\ TableInv /\ [Table!Next]_(Table!vars) => TableInv'
<1> SUFFICES ASSUME Counting, TableInv, [Table!Next]_(Table!vars)
             PROVE  TableInv'
  BY ZenonT(60)
<1>1. CASE UNCHANGED Table!vars
  BY <1>1 DEF Table!vars, TableInv, Table!TypeOK, CallsOK, Table!TableTracksUsers, CountsOK, Users
<1>2. ASSUME NEW c \in Callers, Table!Register(c) \/ Table!LockNext(c) \/ Table!UnlockNext(c) \/ Table!Unregister(c)
      PROVE  TableInv'
  BY ZenonT(60), <1>2, RegisterTableInv, LockNextTableInv, UnlockNextTableInv, UnregisterTableInv
<1> QED
  BY Zenon, <1>1, <1>2 DEF Table!Next

-----------------------------------------------------------------------------
\* Who is inside the section of k is its holder.
LEMMA HolderIsInside ==
    ASSUME TableInv, NEW k \in Keys
    PROVE  /\ \A c \in Callers : Table!Holder(k) = c <=> c \in Table!Inside(k)
           /\ Table!Holder(k) = NoCaller <=> Table!Inside(k) = {}
           /\ \A c, d \in Table!Inside(k) : c = d
<1>1. ASSUME NEW c \in Table!Inside(k), NEW d \in Table!Inside(k) PROVE c = d
  <2>1. /\ c \in Callers /\ at[c] = "held" /\ k \in keys[c]
        /\ d \in Callers /\ at[d] = "held" /\ k \in keys[d]
    BY Zenon DEF Table!Inside
  <2>2. owner[entries[c][k]] = c /\ owner[entries[d][k]] = d
    BY Zenon, <2>1 DEF TableInv, CallsOK
  <2>3. entries[c][k] = entries[d][k]
    BY ZenonT(60), <2>1 DEF TableInv, Table!TableTracksUsers
  <2> QED BY Zenon, <2>2, <2>3
<1>2. Table!Inside(k) \subseteq Callers
  BY Zenon DEF Table!Inside
<1>3. CASE Table!Inside(k) = {}
  BY ZenonT(60), <1>1, <1>3, NoCallerAssumption DEF Table!Holder
<1>4. CASE Table!Inside(k) # {}
  <2>1. Table!Holder(k) \in Table!Inside(k)
    BY Zenon, <1>4 DEF Table!Holder
  <2> QED BY ZenonT(60), <1>1, <1>2, <1>4, <2>1, NoCallerAssumption
<1> QED BY Zenon, <1>3, <1>4

\* Where nobody enters or leaves, the holders stay.
LEMMA SameInsideSameHolders ==
    ASSUME \A k \in Keys : Table!Inside(k)' = Table!Inside(k)
    PROVE  [k \in Keys |-> Table!Holder(k)]' = [k \in Keys |-> Table!Holder(k)]
<1>1. ASSUME NEW k \in Keys PROVE Table!Holder(k)' = Table!Holder(k)
  <2>1. Table!Inside(k)' = Table!Inside(k)
    BY Zenon
  <2> QED BY <2>1 DEF Table!Holder
<1> QED BY Zenon, <1>1

\* The last lock of lockKeys takes all the identities of the call.
LEMMA LastLockAcquires ==
    ASSUME TableInv, TableInv', NEW c \in Callers, Table!LockNext(c), at'[c] = "held"
    PROVE  Table!Mutex!Acquire(c, keys[c])
<1>1. /\ at[c] = "locking" /\ keys' = keys /\ keys[c] \subseteq Keys
      /\ \A d \in Callers \ {c} : at'[d] = at[d]
  BY Zenon DEF Table!LockNext, TableInv, Table!TypeOK
<1>2. ASSUME NEW k \in Keys, k \in keys[c]
      PROVE  Table!Holder(k) = NoCaller /\ Table!Holder(k)' = c
  <2>1. c \in Table!Inside(k)'
    BY Zenon, <1>1, <1>2 DEF Table!Inside
  <2>2. ASSUME NEW d \in Table!Inside(k)' PROVE d = c
    <3>1. /\ at'[c] = "held" /\ k \in keys'[c]
          /\ d \in Callers /\ at'[d] = "held" /\ k \in keys'[d]
      BY ZenonT(60), <2>1, <2>2 DEF Table!Inside
    <3>2. owner'[entries'[c][k]] = c /\ owner'[entries'[d][k]] = d
      BY Zenon, <3>1 DEF TableInv, CallsOK
    <3>3. entries'[c][k] = entries'[d][k]
      BY ZenonT(30), <3>1 DEF TableInv, Table!TableTracksUsers
    <3> QED BY Zenon, <3>2, <3>3
  <2>3. Table!Holder(k)' = c
    BY Zenon, <2>1, <2>2 DEF Table!Holder
  <2>4. Table!Inside(k) = {}
    <3>1. \A d \in Table!Inside(k) : d # c /\ d \in Table!Inside(k)'
      BY Zenon, <1>1 DEF Table!Inside
    <3> QED BY Zenon, <2>2, <3>1
  <2> QED BY ZenonT(60), <2>3, <2>4, HolderIsInside
<1>3. ASSUME NEW k \in Keys, k \notin keys[c]
      PROVE  Table!Holder(k)' = Table!Holder(k)
  <2>1. Table!Inside(k)' = Table!Inside(k)
    BY Zenon, <1>1, <1>3 DEF Table!Inside
  <2> QED BY <2>1 DEF Table!Holder
<1>4. \A k \in keys[c] : [j \in Keys |-> Table!Holder(j)][k] = NoCaller
  BY Zenon, <1>1, <1>2
<1>5. [k \in Keys |-> Table!Holder(k)]' =
        [k \in Keys |-> IF k \in keys[c] THEN c ELSE [j \in Keys |-> Table!Holder(j)][k]]
  BY Zenon, <1>2, <1>3
<1> QED BY Zenon, <1>4, <1>5 DEF Table!Mutex!Acquire

\* The first unlock returns them all.
LEMMA FirstUnlockReleases ==
    ASSUME TableInv, TableInv', NEW c \in Callers, Table!UnlockNext(c), at[c] = "held"
    PROVE  Table!Mutex!Release(c)
<1>1. /\ at'[c] # "held" /\ keys' = keys
      /\ \A d \in Callers \ {c} : at'[d] = at[d]
  BY ZenonT(60) DEF Table!UnlockNext, TableInv, Table!TypeOK
<1>2. ASSUME NEW k \in Keys, Table!Holder(k) = c
      PROVE  Table!Holder(k)' = NoCaller
  <2>1. \A d \in Table!Inside(k) : d = c
    BY Zenon, <1>2, HolderIsInside
  <2>2. Table!Inside(k)' = {}
    BY Zenon, <1>1, <2>1 DEF Table!Inside
  <2> QED BY Zenon, <2>2 DEF Table!Holder
<1>3. ASSUME NEW k \in Keys, Table!Holder(k) # c
      PROVE  Table!Holder(k)' = Table!Holder(k)
  <2>1. c \notin Table!Inside(k)
    BY Zenon, <1>3, HolderIsInside
  <2>2. Table!Inside(k)' = Table!Inside(k)
    BY Zenon, <1>1, <2>1 DEF Table!Inside
  <2> QED BY <2>2 DEF Table!Holder
<1>4. [k \in Keys |-> Table!Holder(k)]' =
        [k \in Keys |-> IF [j \in Keys |-> Table!Holder(j)][k] = c THEN NoCaller ELSE [j \in Keys |-> Table!Holder(j)][k]]
  BY Zenon, <1>2, <1>3
<1> QED BY Zenon, <1>4 DEF Table!Mutex!Release

-----------------------------------------------------------------------------
INSTANCE FiniteSetTheorems

\* There are finitely many goroutines.
LEMMA CountingFacts == Counting
<1> SUFFICES ASSUME NEW S \in SUBSET Callers
             PROVE  /\ Cardinality(S) \in Nat /\ (Cardinality(S) = 0 <=> S = {})
                    /\ \A c \in Callers \ S : Cardinality(S \cup {c}) = Cardinality(S) + 1
                    /\ \A c \in S : Cardinality(S \ {c}) = Cardinality(S) - 1
  BY Zenon DEF Counting
<1>1. IsFiniteSet(S)
  BY ZenonT(60), NoCallerAssumption, FS_Subset
<1>2. Cardinality(S) \in Nat /\ (Cardinality(S) = 0 <=> S = {})
  BY ZenonT(60), <1>1, FS_CardinalityType, FS_EmptySet
<1>3. \A c \in Callers \ S : Cardinality(S \cup {c}) = Cardinality(S) + 1
  BY ZenonT(60), <1>1, FS_AddElement
<1>4. \A c \in S : Cardinality(S \ {c}) = Cardinality(S) - 1
  BY ZenonT(60), <1>1, FS_RemoveElement
<1> QED
  BY ZenonT(60), <1>2, <1>3, <1>4

\* The invariant holds of every reachable state of the lock table.
THEOREM LockTableInvariant == Table!Spec => []TableInv
BY InitTableInv, NextTableInv, CountingFacts, PTL DEF Table!Spec

\* Type correctness of the lock table.
THEOREM LockTableTypes == Table!Spec => []Table!TypeOK
<1>1. TableInv => Table!TypeOK
  BY ZenonT(60) DEF TableInv
<1> QED
  BY <1>1, LockTableInvariant, PTL

\* Entries are in the table exactly while they are used: the reference counts
\* of lockKeys neither leak an entry nor drop one under a waiter.
THEOREM EntriesTracked == Table!Spec => []Table!TableTracksUsers
<1>1. TableInv => Table!TableTracksUsers
  BY ZenonT(30) DEF TableInv
<1> QED
  BY <1>1, LockTableInvariant, PTL

\* Two goroutines are never inside lockKeys sections of one identity.
THEOREM LockKeysExclusive == Table!Spec => []Table!MutualExclusion
<1>1. TableInv => Table!MutualExclusion
  <2>1. SUFFICES ASSUME TableInv, NEW c \in Callers, NEW d \in Callers, NEW k,
                        c # d, at[c] = "held", at[d] = "held", k \in keys[c], k \in keys[d]
                 PROVE  FALSE
    BY Zenon DEF Table!MutualExclusion
  <2>2. owner[entries[c][k]] = c /\ owner[entries[d][k]] = d
    BY Zenon, <2>1 DEF TableInv, CallsOK
  <2>3. entries[c][k] = entries[d][k]
    BY ZenonT(30), <2>1 DEF TableInv, Table!TableTracksUsers
  <2> QED BY Zenon, <2>1, <2>2, <2>3
<1> QED
  BY <1>1, LockTableInvariant, PTL

\* lockKeys and its unlock function implement one mutex per identity, for any
\* number of goroutines, identities and entries: every step of the table is a
\* step of the mutexes or is not seen by them.
THEOREM TableImplementsMutex == Table!Spec => Table!ImplementsMutex
<1>1. Table!Init => Table!Mutex!MutexInit
  <2>1. Table!Init => \A k \in Keys : Table!Inside(k) = {}
    BY Zenon DEF Table!Init, Table!Inside
  <2> QED BY Zenon, <2>1 DEF Table!Mutex!MutexInit, Table!Holder
<1>2. TableInv /\ TableInv' /\ [Table!Next]_(Table!vars) => [Table!Mutex!MutexNext]_([k \in Keys |-> Table!Holder(k)])
  <2> SUFFICES ASSUME TableInv, TableInv', [Table!Next]_(Table!vars)
               PROVE  Table!Mutex!MutexNext \/ [k \in Keys |-> Table!Holder(k)]' = [k \in Keys |-> Table!Holder(k)]
    BY Zenon
  <2>1. CASE UNCHANGED Table!vars
    BY ZenonT(60), <2>1, SameInsideSameHolders DEF Table!vars, Table!Inside
  <2>2. ASSUME NEW c \in Callers, Table!Register(c) \/ Table!Unregister(c)
        PROVE  \A k \in Keys : Table!Inside(k)' = Table!Inside(k)
    <3>1. at[c] # "held" /\ at'[c] # "held" /\ \A d \in Callers \ {c} : at'[d] = at[d] /\ keys'[d] = keys[d]
      BY <2>2 DEF Table!Register, Table!Unregister, TableInv, Table!TypeOK
    <3> QED BY ZenonT(60), <3>1 DEF Table!Inside
  <2>3. ASSUME NEW c \in Callers, Table!LockNext(c) \/ Table!UnlockNext(c), at[c] # "held", at'[c] # "held"
        PROVE  \A k \in Keys : Table!Inside(k)' = Table!Inside(k)
    <3>1. keys' = keys /\ \A d \in Callers \ {c} : at'[d] = at[d]
      BY ZenonT(60), <2>3 DEF Table!LockNext, Table!UnlockNext, TableInv, Table!TypeOK
    <3> QED BY ZenonT(60), <2>3, <3>1 DEF Table!Inside
  <2>4. ASSUME NEW c \in Callers, Table!LockNext(c), at'[c] = "held"
        PROVE  Table!Mutex!MutexNext
    <3>1. Table!Mutex!Acquire(c, keys[c]) /\ keys[c] \in SUBSET Keys
      BY ZenonT(60), <2>4, LastLockAcquires DEF TableInv, Table!TypeOK
    <3> QED BY ZenonT(60), <3>1 DEF Table!Mutex!MutexNext
  <2>5. ASSUME NEW c \in Callers, Table!UnlockNext(c), at[c] = "held"
        PROVE  Table!Mutex!MutexNext
    BY ZenonT(60), <2>5, FirstUnlockReleases DEF Table!Mutex!MutexNext
  <2>6. \A c \in Callers : (Table!LockNext(c) => at[c] # "held") /\ (Table!UnlockNext(c) => at'[c] # "held")
    BY ZenonT(60) DEF Table!LockNext, Table!UnlockNext, TableInv, Table!TypeOK
  <2> QED BY ZenonT(60), <2>1, <2>2, <2>3, <2>4, <2>5, <2>6, SameInsideSameHolders DEF Table!Next
<1> QED
  BY <1>1, <1>2, LockTableInvariant, PTL DEF Table!Spec, Table!ImplementsMutex, Table!Mutex!MutexSpec
=============================================================================
