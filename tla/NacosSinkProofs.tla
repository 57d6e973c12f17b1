--------------------------- MODULE NacosSinkProofs ---------------------------
(***************************************************************************)
(* For every set of instances, identities, sources and pairs, every list a *)
(* full push may carry and every number of pushes, failures and restarts:  *)
(* no claim is left behind, no instance is written before the health check *)
(* of its pair is off, a full push never empties a pair it has instances   *)
(* for, one that succeeds leaves exactly its list, and no undisturbed      *)
(* identity changes its source.                                            *)
(*                                                                         *)
(* ClaimInv names the holder of every claim.  FullInv follows a full push: *)
(* what has returned without failing is in Nacos.  OwnerInv ties the three *)
(* places an owner shows: the claim or the owner recorded protects every   *)
(* write under way, and Nacos has what one of the two says.                *)
(***************************************************************************)
EXTENDS NacosSink, FiniteSetTheorems, TLAPS

Types ==
    /\ catalog \in [Wires -> Instances \cup {NoInstance, Foreign}]
    /\ wireOwners \in [Wires -> Sources \cup {NoSource}]
    /\ wireClaims \in [Wires -> Sources \cup {NoSource}]
    /\ pc \in [Instances -> Labels]
    /\ op \in [Instances -> {"register", "deregister"}]
    /\ full \in [phase : {"idle", "applying", "ok", "error"}, list : SUBSET Instances,
                 todo : SUBSET Instances, scope : SUBSET Scopes, failed : SUBSET Pairs]
    /\ claimed \subseteq Instances
    /\ faults \in Nat

\* A push that has claimed its identity and not returned.
PastClaim(i) ==
    /\ op[i] = "register"
    /\ \/ pc[i] \in Writing \ {"permit"}
       \/ pc[i] = "permit" /\ full.phase = "applying"

\* Only registrations claim and write.
RegisterInv ==
    \A i \in Instances : pc[i] \in {"claim"} \cup (Writing \ {"permit"}) => op[i] = "register"

\* The push that made a claim is still under way.
ClaimInv ==
    \A w \in Wires : wireClaims[w] # NoSource =>
        \E i \in claimed : WireOf[i] = w /\ SourceOf[i] = wireClaims[w] /\ PastClaim(i)

\* A push is about to write only if the health check of its pair is off.
HealthInv ==
    /\ healthCheckDone \subseteq unchecked
    /\ \A i \in Instances : pc[i] = "register" => Pair(i) \in unchecked

\* During a full push only instances of its list are under way, and those
\* that have returned without failing are in Nacos.
FullInv ==
    /\ full.phase = "applying" =>
        /\ full.todo \subseteq full.list
        /\ \A i \in full.list : op[i] = "register"
        /\ \A i \in Instances : pc[i] # "idle" =>
            i \in full.list \ full.todo /\ pc[i] \notin {"check", "deregister", "deregistered"}
        /\ \A i \in full.list \ full.todo :
            pc[i] = "registered" \/ (pc[i] = "idle" /\ Pair(i) \notin full.failed)
            => catalog[WireOf[i]] \in full.list
    /\ full.phase = "ok" => \A i \in Instances : pc[i] = "idle"

\* What deregisters, or has failed to register, has disturbed its identity.
DisturbedInv ==
    \A i \in Instances :
        (\/ op[i] = "deregister" /\ pc[i] # "idle"
         \/ pc[i] \in {"failed", "check", "deregister", "deregistered"})
        => WireOf[i] \in disturbed

\* An undisturbed identity is protected by its claim or its owner while it is
\* written, and its owner, or a write about to be recorded, is what Nacos has.
OwnerInv ==
    /\ \A i \in Instances : pc[i] = "claim" => Pair(i) \in wireScanned
    /\ DisturbedInv
    /\ \A i \in Instances : PastClaim(i) /\ WireOf[i] \notin disturbed =>
        /\ Pair(i) \in wireScanned
        /\ wireOwners[WireOf[i]] \in {NoSource, SourceOf[i]}
        /\ wireClaims[WireOf[i]] \in {NoSource, SourceOf[i]}
        /\ SourceOf[i] \in {wireOwners[WireOf[i]], wireClaims[WireOf[i]]}
    /\ \A w \in Wires : w \notin disturbed /\ PairOf[w] \in wireScanned /\ catalog[w] \in Instances =>
        \/ wireOwners[w] = SourceOf[catalog[w]]
        \/ \E i \in Instances : /\ WireOf[i] = w /\ pc[i] = "registered"
                                /\ SourceOf[i] = SourceOf[catalog[w]]

\* The attempt recorded for a pair is the one push that is updating it, and who
\* waits finds one recorded.
WaitInv ==
    /\ healthCheckWait \in [Pairs -> Instances \cup {NoInstance}]
    /\ \A p \in Pairs : healthCheckWait[p] # NoInstance =>
        Pair(healthCheckWait[p]) = p /\ pc[healthCheckWait[p]] = "update"
    /\ \A i \in Instances : pc[i] = "update" => healthCheckWait[Pair(i)] = i
    /\ \A i \in Instances : pc[i] = "wait" => healthCheckWait[Pair(i)] # NoInstance

\* Every permit in use is held by a push that is under way.
PermitInv == active = Cardinality(Permitted)

IInv == Types /\ RegisterInv /\ ClaimInv /\ HealthInv /\ FullInv /\ FullPushIsExact /\ OwnerInv

-----------------------------------------------------------------------------
\* What the assumption says of the constants, in the forms the steps use.
LEMMA Wiring ==
    /\ \A i \in Instances : WireOf[i] \in Wires /\ SourceOf[i] \in Sources
    /\ \A i \in Instances : SourceOf[i] # NoSource
    /\ NoInstance \notin Instances /\ Foreign \notin Instances
    /\ \A s \in Snapshots : s \subseteq Instances
  BY Zenon, WiringAssumption DEF Sources

\* The initial states satisfy the invariant.
LEMMA InitIInv == Init => IInv
  <1> SUFFICES ASSUME Init PROVE IInv
    BY Zenon
  <1> USE DEF Init
  <1>1. Types
    <2>1. full \in [phase : {"idle", "applying", "ok", "error"}, list : SUBSET Instances,
                 todo : SUBSET Instances, scope : SUBSET Scopes, failed : SUBSET Pairs]
      BY Zenon DEF NoFull
    <2>2. catalog \in [Wires -> Instances \cup {NoInstance, Foreign}]
      BY Zenon, WiringAssumption
    <2> QED BY Zenon, <2>1, <2>2 DEF Types, NoOwners, AllIdle, AllRegister, Labels
  <1>2. ClaimInv
    BY Zenon DEF ClaimInv, NoOwners
  <1>3. HealthInv
    BY Zenon DEF HealthInv, AllIdle
  <1>4. FullInv /\ FullPushIsExact
    BY Zenon DEF FullInv, FullPushIsExact, NoFull
  <1>5. OwnerInv
    BY Zenon DEF OwnerInv, DisturbedInv, PastClaim, AllIdle, AllRegister, NoFull, Writing
  <1>6. RegisterInv
    BY Zenon DEF RegisterInv, AllRegister
  <1> QED BY Zenon, <1>1, <1>2, <1>3, <1>4, <1>5, <1>6 DEF IInv

-----------------------------------------------------------------------------
FullType == [phase : {"idle", "applying", "ok", "error"}, list : SUBSET Instances,
             todo : SUBSET Instances, scope : SUBSET Scopes, failed : SUBSET Pairs]

\* What a push that returns does to the types.
LEMMA FinishTypes ==
    ASSUME Types, NEW i \in Instances, NEW ok, NEW held, Finish(i, ok, held)
    PROVE  /\ pc' \in [Instances -> Labels]
           /\ full' \in FullType
           /\ pc' = [pc EXCEPT ![i] = "idle"]
           /\ full' = full \/ full' = [full EXCEPT !.failed = full.failed \cup {Pair(i)}]
           /\ full'.phase = full.phase
           /\ \A j \in Instances \ {i} : pc'[j] = pc[j]
  <1>1. Pair(i) \in Pairs
    BY Zenon, WiringAssumption DEF Pair
  <1>2. [full EXCEPT !.failed = full.failed \cup {Pair(i)}] \in FullType
    BY <1>1 DEF Types, FullType
  <1> QED BY Zenon, <1>2 DEF Types, FullType, Finish, Goto, Labels

\* No step leaves the types.
LEMMA TypesStep == Types /\ [Next]_vars => Types'
  <1> SUFFICES ASSUME Types, [Next]_vars
               PROVE  Types'
    BY Zenon
  <1>1. ASSUME NEW i \in Instances, NEW what \in {"register", "deregister"}, Push(i, what) PROVE Types'
    BY Zenon, <1>1, Wiring DEF Types, Labels, Push, nacosVars, ownerVars, healthVars, boundVars,
       NoFull, Goto
  <1>2. ASSUME NEW list \in Snapshots, PushAll(list) PROVE Types'
    BY Zenon, <1>2, Wiring DEF Types, Labels, PushAll, nacosVars, ownerVars, healthVars, boundVars,
       NoFull, AllRegister
  <1>3. ASSUME NEW scope \in Scopes, PushEmpty(scope) PROVE Types'
    <2>1. [NoFull EXCEPT !.phase = "applying", !.scope = {scope}] \in FullType
      BY Zenon DEF NoFull, FullType
    <2> QED BY Zenon, <1>3, <2>1 DEF Types, FullType, PushEmpty, nacosVars, ownerVars
  <1>4. ASSUME NEW i \in Instances, Acquire(i) PROVE Types'
    BY Zenon, <1>4, Wiring DEF Types, Labels, Acquire, nacosVars, ownerVars, healthVars, boundVars,
       Goto
  <1>5. ASSUME NEW i \in Instances, RecoverWireOwnership(i) PROVE Types'
    <2>1. pc' \in [Instances -> Labels] /\ full' \in FullType
      BY ZenonT(60), <1>5, FinishTypes DEF Types, FullType, Labels, RecoverWireOwnership, Goto
    <2>2. wireOwners' \in [Wires -> Sources \cup {NoSource}]
      <3>1. CASE UNCHANGED wireOwners
        BY Zenon, <3>1 DEF Types
      <3>2. CASE Scan(Pair(i))
        <4>1. \A w \in Owned : SourceOf[catalog[w]] \in Sources
          BY Zenon, Wiring DEF Owned
        <4> QED BY Zenon, <3>2, <4>1 DEF Types, Scan
      <3> QED BY Zenon, <1>5, <3>1, <3>2 DEF RecoverWireOwnership
    <2>3. Answers \/ Fails
      BY Zenon, <1>5 DEF RecoverWireOwnership
    <2>4. faults' \in Nat
      BY <2>3 DEF Types, Fails, Answers
    <2> QED BY Zenon, <1>5, <2>1, <2>2, <2>4 DEF Types, FullType, RecoverWireOwnership, nacosVars, ownerVars
  <1>6. ASSUME NEW i \in Instances, ClaimWireIdentity(i) PROVE Types'
    <2>1. pc' \in [Instances -> Labels] /\ full' \in FullType
      BY Zenon, <1>6, FinishTypes DEF Types, FullType, Labels, ClaimWireIdentity, Goto
    <2>2. wireClaims' \in [Wires -> Sources \cup {NoSource}] /\ claimed' \subseteq Instances
      BY ZenonT(60), <1>6, Wiring DEF Types, ClaimWireIdentity
    <2> QED BY Zenon, <1>6, <2>1, <2>2 DEF Types, FullType, ClaimWireIdentity, nacosVars
  <1>7. ASSUME NEW i \in Instances, EnsureHealthCheckDisabled(i) PROVE Types'
    BY <1>7, Wiring DEF Types, Labels, EnsureHealthCheckDisabled, nacosVars, ownerVars,
       healthVars, boundVars, Goto
  <1>8. ASSUME NEW i \in Instances, UpdateCluster(i) PROVE Types'
    BY <1>8, Wiring DEF Types, Labels, UpdateCluster, Fails, Answers, nacosVars, ownerVars, healthVars,
       boundVars
  <1>9. ASSUME NEW i \in Instances, Blocked(i) PROVE Types'
    BY Zenon, <1>9, Wiring, FinishTypes DEF Types, Labels, Blocked, FullType, nacosVars, ownerVars,
       healthVars, boundVars, Released
  <1>10. ASSUME NEW i \in Instances, Registers(i) PROVE Types'
    BY <1>10, Wiring DEF Types, Labels, Registers, Fails, Answers, nacosVars, ownerVars, healthVars, boundVars,
       Goto
  <1>11. ASSUME NEW i \in Instances, Release(i) PROVE Types'
    BY ZenonT(60), <1>11, Wiring, FinishTypes DEF Types, Labels, Release, FullType, nacosVars, ownerVars,
       healthVars, boundVars, Released
  <1>12. ASSUME NEW i \in Instances, CheckOwner(i) PROVE Types'
    <2>1. pc' \in [Instances -> Labels] /\ full' \in FullType
      BY Zenon, <1>12, FinishTypes DEF Types, FullType, Labels, CheckOwner, Goto
    <2> QED BY Zenon, <1>12, <2>1, Wiring DEF Types, FullType, CheckOwner, nacosVars, ownerVars, healthVars, boundVars
  <1>13. ASSUME NEW i \in Instances, Deregisters(i) PROVE Types'
    <2>1. pc' \in [Instances -> Labels] /\ full' \in FullType
      BY Zenon, <1>13, FinishTypes DEF Types, FullType, Labels, Deregisters, Goto
    <2>2. catalog' \in [Wires -> Instances \cup {NoInstance, Foreign}]
      BY ZenonT(60), <1>13, Wiring DEF Types, Deregisters
    <2>3. Answers \/ Fails
      BY Zenon, <1>13 DEF Deregisters
    <2>4. faults' \in Nat
      BY <2>3 DEF Types, Fails, Answers
    <2> QED BY ZenonT(60), <1>13, <2>1, <2>2, <2>4 DEF Types, FullType, Deregisters, nacosVars, ownerVars
  <1>14. ASSUME NEW i \in Instances, Forget(i) PROVE Types'
    BY ZenonT(60), <1>14, Wiring, FinishTypes DEF Types, Labels, Forget, FullType, nacosVars, ownerVars,
       healthVars, boundVars
  <1>15. ASSUME NEW p \in Pairs, StartBatch(p) PROVE Types'
    BY <1>15, Wiring DEF Types, Labels, StartBatch, nacosVars, ownerVars, healthVars, boundVars
  <1>16. CASE Prune
    BY <1>16, Wiring DEF Types, Labels, Prune, Fails, Answers, nacosVars, ownerVars, healthVars, boundVars,
       Swept, Owned
  <1>17. CASE Restart
    BY Zenon, <1>17, Wiring DEF Types, Labels, Restart, nacosVars, ownerVars, healthVars, boundVars,
       NoFull, NoOwners, AllIdle, AllRegister
  <1>18. CASE UNCHANGED vars
    BY Zenon, <1>18 DEF Types, Labels, vars, nacosVars, ownerVars, healthVars, boundVars
  <1> QED BY ZenonT(60), <1>1, <1>2, <1>3, <1>4, <1>5, <1>6, <1>7, <1>8, <1>9,
             <1>10, <1>11, <1>12, <1>13, <1>14, <1>15, <1>16, <1>17, <1>18 DEF Next, Step

\* A push that moves on keeps the invariant unless a deregistration would claim.
LEMMA RegisterKept ==
    ASSUME Types, RegisterInv, NEW i \in Instances, NEW label, Goto(i, label), UNCHANGED op,
           label \in {"claim"} \cup (Writing \ {"permit"}) => op[i] = "register"
    PROVE  RegisterInv'
  BY Zenon DEF Types, RegisterInv, Goto

\* No step makes a deregistration claim or write.
LEMMA RegisterStep == Types /\ RegisterInv /\ [Next]_vars => RegisterInv'
  <1> SUFFICES ASSUME Types, RegisterInv, [Next]_vars
               PROVE  RegisterInv'
    BY Zenon
  <1>1. ASSUME NEW i \in Instances, NEW what \in {"register", "deregister"}, Push(i, what) PROVE RegisterInv'
    BY Zenon, <1>1 DEF Types, RegisterInv, Writing, Push, Goto
  <1>2. ASSUME NEW list \in Snapshots, PushAll(list) PROVE RegisterInv'
    BY Zenon, <1>2 DEF Types, RegisterInv, Writing, PushAll, AllRegister
  <1>3. ASSUME NEW scope \in Scopes, PushEmpty(scope) PROVE RegisterInv'
    BY Zenon, <1>3 DEF Types, RegisterInv, Writing, PushEmpty
  <1>4. ASSUME NEW i \in Instances, Acquire(i) PROVE RegisterInv'
    BY <1>4 DEF Types, RegisterInv, Writing, Acquire, Goto, Batched
  <1>5. ASSUME NEW i \in Instances, RecoverWireOwnership(i) PROVE RegisterInv'
    <2>1. CASE Goto(i, "idle")
      BY Zenon, <1>5, <2>1, RegisterKept DEF RecoverWireOwnership, Writing
    <2>2. CASE Goto(i, IF op[i] = "register" THEN "claim" ELSE "check")
      BY Zenon, <1>5, <2>2, RegisterKept DEF RecoverWireOwnership, Writing
    <2> QED BY Zenon, <1>5, <2>1, <2>2 DEF RecoverWireOwnership, Finish
  <1>6. ASSUME NEW i \in Instances, ClaimWireIdentity(i) PROVE RegisterInv'
    <2>1. op[i] = "register" /\ UNCHANGED op
      BY Zenon, <1>6 DEF ClaimWireIdentity, RegisterInv
    <2> QED BY Zenon, <1>6, <2>1, RegisterKept DEF ClaimWireIdentity, Finish
  <1>7. ASSUME NEW i \in Instances, EnsureHealthCheckDisabled(i) PROVE RegisterInv'
    <2>1. op[i] = "register" /\ UNCHANGED op
      BY Zenon, <1>7 DEF EnsureHealthCheckDisabled, RegisterInv, Writing
    <2> QED BY Zenon, <1>7, <2>1, RegisterKept DEF EnsureHealthCheckDisabled
  <1>8. ASSUME NEW i \in Instances, UpdateCluster(i) PROVE RegisterInv'
    <2>1. \A j \in Attending(Pair(i)) : op[j] = "register"
      BY Zenon DEF Attending, RegisterInv, Writing
    <2>2. \A j \in Instances : pc'[j] = pc[j] \/ op[j] = "register"
      BY ZenonT(60), <1>8, <2>1 DEF UpdateCluster, Types
    <2> QED BY Zenon, <1>8, <2>2 DEF UpdateCluster, RegisterInv
  <1>9. ASSUME NEW i \in Instances, Blocked(i) PROVE RegisterInv'
    BY Zenon, <1>9, RegisterKept DEF Blocked, Finish, Writing
  <1>10. ASSUME NEW i \in Instances, Registers(i) PROVE RegisterInv'
    <2>1. op[i] = "register" /\ UNCHANGED op
      BY Zenon, <1>10 DEF Registers, RegisterInv, Writing
    <2> QED BY Zenon, <1>10, <2>1, RegisterKept DEF Registers
  <1>11. ASSUME NEW i \in Instances, Release(i) PROVE RegisterInv'
    BY Zenon, <1>11, RegisterKept DEF Release, Finish, Writing
  <1>12. ASSUME NEW i \in Instances, CheckOwner(i) PROVE RegisterInv'
    BY Zenon, <1>12, RegisterKept DEF CheckOwner, Finish, Writing
  <1>13. ASSUME NEW i \in Instances, Deregisters(i) PROVE RegisterInv'
    BY Zenon, <1>13, RegisterKept DEF Deregisters, Finish, Writing
  <1>14. ASSUME NEW i \in Instances, Forget(i) PROVE RegisterInv'
    BY Zenon, <1>14, RegisterKept DEF Forget, Finish, Writing
  <1>15. ASSUME NEW p \in Pairs, StartBatch(p) PROVE RegisterInv'
    BY <1>15 DEF Types, RegisterInv, Writing, StartBatch
  <1>16. CASE Prune
    BY Zenon, <1>16 DEF Types, RegisterInv, Writing, Prune
  <1>17. CASE Restart
    BY Zenon, <1>17 DEF Types, RegisterInv, Writing, Restart, AllIdle
  <1>18. CASE UNCHANGED vars
    BY Zenon, <1>18 DEF Types, RegisterInv, Writing, vars, nacosVars, ownerVars, healthVars, boundVars
  <1> QED BY ZenonT(60), <1>1, <1>2, <1>3, <1>4, <1>5, <1>6, <1>7, <1>8, <1>9,
             <1>10, <1>11, <1>12, <1>13, <1>14, <1>15, <1>16, <1>17, <1>18 DEF Next, Step

\* A push that moves leaves the others where they are.
LEMMA GotoMoves ==
    ASSUME Types, NEW i \in Instances, NEW label, Goto(i, label)
    PROVE  \A j \in Instances \ {i} : pc'[j] = pc[j]
  BY Zenon DEF Types, Goto

\* Claims are kept where no push that holds one returns.
LEMMA ClaimsKept ==
    ASSUME Types, ClaimInv, wireClaims' = wireClaims, claimed' = claimed,
           \A j \in Instances : PastClaim(j) => PastClaim(j)'
    PROVE  ClaimInv'
  BY Zenon DEF ClaimInv, Types

\* No step leaves a claim without the push that made it.
LEMMA ClaimStep == Types /\ ClaimInv /\ RegisterInv /\ [Next]_vars => ClaimInv'
  <1> SUFFICES ASSUME Types, ClaimInv, RegisterInv, [Next]_vars
               PROVE  ClaimInv'
    BY Zenon
  <1>1. ASSUME NEW i \in Instances, NEW what \in {"register", "deregister"}, Push(i, what) PROVE ClaimInv'
    <2>1. \A j \in Instances : PastClaim(j) => PastClaim(j)'
      BY <1>1 DEF Types, PastClaim, Writing, Push, NoFull, Goto
    <2> QED BY ZenonT(60), <1>1, <2>1, ClaimsKept DEF Push, ownerVars
  <1>2. ASSUME NEW list \in Snapshots, PushAll(list) PROVE ClaimInv'
    <2>1. \A j \in Instances : PastClaim(j) => PastClaim(j)'
      BY Zenon, <1>2 DEF Types, PastClaim, Writing, PushAll, NoFull, AllRegister
    <2> QED BY Zenon, <1>2, <2>1, ClaimsKept DEF PushAll, ownerVars
  <1>3. ASSUME NEW scope \in Scopes, PushEmpty(scope) PROVE ClaimInv'
    <2>1. \A j \in Instances : PastClaim(j) => PastClaim(j)'
      BY Zenon, <1>3 DEF Types, PastClaim, Writing, PushEmpty, NoFull
    <2> QED BY Zenon, <1>3, <2>1, ClaimsKept DEF PushEmpty, ownerVars
  <1>4. ASSUME NEW i \in Instances, Acquire(i) PROVE ClaimInv'
    <2>1. \A j \in Instances : PastClaim(j) => PastClaim(j)'
      BY Zenon, <1>4 DEF Types, PastClaim, Writing, Acquire, Goto, Batched
    <2> QED BY Zenon, <1>4, <2>1, ClaimsKept DEF Acquire, ownerVars
  <1>5. ASSUME NEW i \in Instances, RecoverWireOwnership(i) PROVE ClaimInv'
    <2>1. full'.phase = full.phase
      BY Zenon, <1>5, FinishTypes DEF RecoverWireOwnership
    <2>2. pc[i] \notin Writing /\ op' = op
      BY Zenon, <1>5 DEF Writing, RecoverWireOwnership
    <2>3. \A j \in Instances \ {i} : pc'[j] = pc[j]
      BY Zenon, <1>5, FinishTypes, GotoMoves DEF RecoverWireOwnership
    <2>4. \A j \in Instances : PastClaim(j) => PastClaim(j)'
      BY Zenon, <2>1, <2>2, <2>3 DEF PastClaim, Writing
    <2> QED BY Zenon, <1>5, <2>4, ClaimsKept DEF RecoverWireOwnership, ownerVars
  <1>6. ASSUME NEW i \in Instances, ClaimWireIdentity(i) PROVE ClaimInv'
    <2>1. full'.phase = full.phase /\ op' = op /\ \A j \in Instances \ {i} : pc'[j] = pc[j]
      BY Zenon, <1>6, FinishTypes DEF Types, ClaimWireIdentity, Goto
    <2>2. \A j \in Instances : PastClaim(j) => PastClaim(j)'
      BY Zenon, <1>6, <2>1 DEF PastClaim, Writing, ClaimWireIdentity
    <2>3. CASE OwnedByOther(i)
      BY ZenonT(60), <1>6, <2>2, <2>3, ClaimsKept DEF ClaimWireIdentity
    <2>4. CASE ~OwnedByOther(i)
      <3> SUFFICES ASSUME NEW w \in Wires, wireClaims'[w] # NoSource
                   PROVE  \E j \in claimed' : WireOf[j] = w /\ SourceOf[j] = wireClaims'[w] /\ PastClaim(j)'
        BY Zenon DEF ClaimInv
      <3>1. CASE wireClaims[w] # NoSource
        <4>1. wireClaims'[w] = wireClaims[w] /\ claimed \subseteq claimed'
          BY Zenon, <1>6, <2>4, <3>1 DEF Types, ClaimWireIdentity, OwnedByOther
        <4> QED BY Zenon, <2>2, <3>1, <4>1 DEF ClaimInv, Types
      <3>2. CASE wireClaims[w] = NoSource
        <4>1. w = WireOf[i] /\ wireClaims'[w] = SourceOf[i] /\ i \in claimed'
          BY Zenon, <1>6, <2>4, <3>2 DEF Types, ClaimWireIdentity
        <4>2. PastClaim(i)'
          BY ZenonT(60), <1>6, <2>1, <2>4 DEF RegisterInv, Types, ClaimWireIdentity, PastClaim, Writing, Goto, Batched
        <4> QED BY Zenon, <4>1, <4>2
      <3> QED BY Zenon, <3>1, <3>2
    <2> QED BY Zenon, <2>3, <2>4
  <1>7. ASSUME NEW i \in Instances, EnsureHealthCheckDisabled(i) PROVE ClaimInv'
    <2>1. \A j \in Instances : PastClaim(j) => PastClaim(j)'
      BY <1>7 DEF Types, PastClaim, Writing, EnsureHealthCheckDisabled, Goto
    <2> QED BY Zenon, <1>7, <2>1, ClaimsKept DEF EnsureHealthCheckDisabled, ownerVars
  <1>8. ASSUME NEW i \in Instances, UpdateCluster(i) PROVE ClaimInv'
    <2>1. \A j \in Instances : PastClaim(j) => PastClaim(j)'
      BY <1>8 DEF Types, PastClaim, Writing, UpdateCluster
    <2> QED BY Zenon, <1>8, <2>1, ClaimsKept DEF UpdateCluster, ownerVars
  <1>9. ASSUME NEW i \in Instances, Blocked(i) PROVE ClaimInv'
    <2>1. full'.phase = full.phase /\ op' = op /\ \A j \in Instances \ {i} : pc'[j] = pc[j]
      BY Zenon, <1>9, FinishTypes DEF Types, Blocked
    <2>2. \A j \in Instances \ {i} : PastClaim(j) => PastClaim(j)'
      BY Zenon, <2>1 DEF PastClaim
    <2> SUFFICES ASSUME NEW w \in Wires, wireClaims'[w] # NoSource
                 PROVE  \E j \in claimed' : WireOf[j] = w /\ SourceOf[j] = wireClaims'[w] /\ PastClaim(j)'
      BY Zenon DEF ClaimInv
    <2>3. wireClaims'[w] = wireClaims[w] /\ claimed' = claimed \ {i}
      BY Zenon, <1>9 DEF Types, Blocked, Released
    <2>4. PICK j \in claimed : WireOf[j] = w /\ SourceOf[j] = wireClaims[w] /\ PastClaim(j)
      BY Zenon, <2>3 DEF ClaimInv
    <2>5. j # i
      BY Zenon, <1>9, <2>3, <2>4 DEF Types, Blocked, Released
    <2> QED BY Zenon, <2>2, <2>3, <2>4, <2>5 DEF Types
  <1>10. ASSUME NEW i \in Instances, Registers(i) PROVE ClaimInv'
    <2>1. \A j \in Instances : PastClaim(j) => PastClaim(j)'
      BY <1>10 DEF Types, PastClaim, Writing, Registers, Goto
    <2> QED BY ZenonT(60), <1>10, <2>1, ClaimsKept DEF Registers, ownerVars
  <1>11. ASSUME NEW i \in Instances, Release(i) PROVE ClaimInv'
    <2>1. full'.phase = full.phase /\ op' = op /\ \A j \in Instances \ {i} : pc'[j] = pc[j]
      BY Zenon, <1>11, FinishTypes DEF Types, Release
    <2>2. \A j \in Instances \ {i} : PastClaim(j) => PastClaim(j)'
      BY Zenon, <2>1 DEF PastClaim
    <2> SUFFICES ASSUME NEW w \in Wires, wireClaims'[w] # NoSource
                 PROVE  \E j \in claimed' : WireOf[j] = w /\ SourceOf[j] = wireClaims'[w] /\ PastClaim(j)'
      BY Zenon DEF ClaimInv
    <2>3. wireClaims'[w] = wireClaims[w] /\ claimed' = claimed \ {i}
      BY Zenon, <1>11 DEF Types, Release, Released
    <2>4. PICK j \in claimed : WireOf[j] = w /\ SourceOf[j] = wireClaims[w] /\ PastClaim(j)
      BY Zenon, <2>3 DEF ClaimInv
    <2>5. j # i
      BY Zenon, <1>11, <2>3, <2>4 DEF Types, Release, Released
    <2> QED BY Zenon, <2>2, <2>3, <2>4, <2>5 DEF Types
  <1>12. ASSUME NEW i \in Instances, CheckOwner(i) PROVE ClaimInv'
    <2>1. full'.phase = full.phase
      BY Zenon, <1>12, FinishTypes DEF CheckOwner
    <2>2. pc[i] \notin Writing /\ op' = op
      BY Zenon, <1>12 DEF Writing, CheckOwner
    <2>3. \A j \in Instances \ {i} : pc'[j] = pc[j]
      BY ZenonT(60), <1>12, FinishTypes, GotoMoves DEF CheckOwner
    <2>4. \A j \in Instances : PastClaim(j) => PastClaim(j)'
      BY Zenon, <2>1, <2>2, <2>3 DEF PastClaim, Writing
    <2> QED BY Zenon, <1>12, <2>4, ClaimsKept DEF CheckOwner, ownerVars
  <1>13. ASSUME NEW i \in Instances, Deregisters(i) PROVE ClaimInv'
    <2>1. full'.phase = full.phase
      BY Zenon, <1>13, FinishTypes DEF Deregisters
    <2>2. pc[i] \notin Writing /\ op' = op
      BY Zenon, <1>13 DEF Writing, Deregisters
    <2>3. \A j \in Instances \ {i} : pc'[j] = pc[j]
      BY ZenonT(60), <1>13, FinishTypes, GotoMoves DEF Deregisters
    <2>4. \A j \in Instances : PastClaim(j) => PastClaim(j)'
      BY Zenon, <2>1, <2>2, <2>3 DEF PastClaim, Writing
    <2> QED BY Zenon, <1>13, <2>4, ClaimsKept DEF Deregisters, ownerVars
  <1>14. ASSUME NEW i \in Instances, Forget(i) PROVE ClaimInv'
    <2>1. full'.phase = full.phase /\ op' = op /\ \A j \in Instances \ {i} : pc'[j] = pc[j]
      BY Zenon, <1>14, FinishTypes DEF Types, Forget
    <2>2. \A j \in Instances : PastClaim(j) => PastClaim(j)'
      BY Zenon, <1>14, <2>1 DEF PastClaim, Writing, Forget
    <2>3. \A w \in Wires : wireClaims'[w] \in {wireClaims[w], NoSource}
      BY Zenon, <1>14 DEF Types, Forget
    <2> QED BY Zenon, <1>14, <2>2, <2>3 DEF ClaimInv, Types, Forget
  <1>15. ASSUME NEW p \in Pairs, StartBatch(p) PROVE ClaimInv'
    <2>1. \A j \in Instances : PastClaim(j) => PastClaim(j)'
      BY <1>15 DEF Types, PastClaim, Writing, StartBatch
    <2> QED BY ZenonT(60), <1>15, <2>1, ClaimsKept DEF StartBatch, ownerVars
  <1>16. CASE Prune
    <2>1. \A w \in Wires : wireClaims[w] = NoSource
      BY ZenonT(60), <1>16 DEF ClaimInv, PastClaim, Prune, Types, Writing
    <2> QED BY <1>16, <2>1 DEF ClaimInv, Prune
  <1>17. CASE Restart
    BY ZenonT(60), <1>17 DEF ClaimInv, PastClaim, NoOwners, Restart
  <1>18. CASE UNCHANGED vars
    BY SMTT(60), <1>18 DEF ClaimInv, PastClaim, vars, nacosVars, ownerVars, healthVars, boundVars
  <1> QED BY <1>1, <1>2, <1>3, <1>4, <1>5, <1>6, <1>7, <1>8, <1>9,
             <1>10, <1>11, <1>12, <1>13, <1>14, <1>15, <1>16, <1>17, <1>18 DEF Next, Step

\* No step lets a push write while Nacos checks the health of its pair.
LEMMA HealthStep == Types /\ HealthInv /\ [Next]_vars => HealthInv'
  <1> SUFFICES ASSUME Types, HealthInv, [Next]_vars
               PROVE  HealthInv'
    BY Zenon
  <1>1. ASSUME NEW i \in Instances, NEW what \in {"register", "deregister"}, Push(i, what) PROVE HealthInv'
    BY Zenon, <1>1 DEF Types, HealthInv, Push, Goto, nacosVars, healthVars
  <1>2. ASSUME NEW list \in Snapshots, PushAll(list) PROVE HealthInv'
    BY Zenon, <1>2 DEF Types, HealthInv, PushAll, nacosVars, healthVars
  <1>3. ASSUME NEW scope \in Scopes, PushEmpty(scope) PROVE HealthInv'
    BY Zenon, <1>3 DEF Types, HealthInv, PushEmpty, nacosVars, healthVars
  <1>4. ASSUME NEW i \in Instances, Acquire(i) PROVE HealthInv'
    BY ZenonT(60), <1>4 DEF Types, HealthInv, Acquire, Goto, nacosVars, healthVars
  <1>5. ASSUME NEW i \in Instances, RecoverWireOwnership(i) PROVE HealthInv'
    BY <1>5 DEF Types, HealthInv, RecoverWireOwnership, Goto, Finish, nacosVars, healthVars
  <1>6. ASSUME NEW i \in Instances, ClaimWireIdentity(i) PROVE HealthInv'
    BY <1>6 DEF Types, HealthInv, ClaimWireIdentity, Goto, Finish, nacosVars, healthVars
  <1>7. ASSUME NEW i \in Instances, EnsureHealthCheckDisabled(i) PROVE HealthInv'
    BY <1>7 DEF Types, HealthInv, EnsureHealthCheckDisabled, Goto, nacosVars, healthVars
  <1>8. ASSUME NEW i \in Instances, UpdateCluster(i) PROVE HealthInv'
    BY <1>8 DEF Types, HealthInv, UpdateCluster, Attending, nacosVars, healthVars
  <1>9. ASSUME NEW i \in Instances, Blocked(i) PROVE HealthInv'
    BY Zenon, <1>9 DEF Types, HealthInv, Blocked, Finish, Goto, nacosVars, healthVars
  <1>10. ASSUME NEW i \in Instances, Registers(i) PROVE HealthInv'
    BY Zenon, <1>10 DEF Types, HealthInv, Registers, Goto, nacosVars, healthVars
  <1>11. ASSUME NEW i \in Instances, Release(i) PROVE HealthInv'
    BY ZenonT(60), <1>11 DEF Types, HealthInv, Release, Finish, Goto, nacosVars, healthVars
  <1>12. ASSUME NEW i \in Instances, CheckOwner(i) PROVE HealthInv'
    BY <1>12 DEF Types, HealthInv, CheckOwner, Goto, Finish, nacosVars, healthVars
  <1>13. ASSUME NEW i \in Instances, Deregisters(i) PROVE HealthInv'
    BY <1>13 DEF Types, HealthInv, Deregisters, Goto, Finish, nacosVars, healthVars
  <1>14. ASSUME NEW i \in Instances, Forget(i) PROVE HealthInv'
    BY ZenonT(60), <1>14 DEF Types, HealthInv, Forget, Finish, Goto, nacosVars, healthVars
  <1>15. ASSUME NEW p \in Pairs, StartBatch(p) PROVE HealthInv'
    BY <1>15 DEF Types, HealthInv, StartBatch, nacosVars, healthVars
  <1>16. CASE Prune
    BY Zenon, <1>16 DEF Types, HealthInv, Prune, nacosVars, healthVars
  <1>17. CASE Restart
    BY Zenon, <1>17 DEF Types, HealthInv, Restart, AllIdle, nacosVars, healthVars
  <1>18. CASE UNCHANGED vars
    BY Zenon, <1>18 DEF Types, HealthInv, vars, nacosVars, ownerVars, healthVars, boundVars
  <1> QED BY Zenon, <1>1, <1>2, <1>3, <1>4, <1>5, <1>6, <1>7, <1>8, <1>9,
             <1>10, <1>11, <1>12, <1>13, <1>14, <1>15, <1>16, <1>17, <1>18 DEF Next, Step

\* A push that moves on keeps what is known of the full push.
LEMMA GotoFull ==
    ASSUME Types, FullInv, NEW i \in Instances, pc[i] # "idle",
           NEW label \in Labels \ {"idle"}, Goto(i, label),
           full.phase = "applying" => label \notin {"check", "deregister", "deregistered"},
           op' = op, full' = full, catalog' \in {catalog, [catalog EXCEPT ![WireOf[i]] = i]},
           label = "registered" => catalog' = [catalog EXCEPT ![WireOf[i]] = i]
    PROVE  FullInv'
  <1>1. full.phase # "ok"
    BY Zenon DEF FullInv
  <1>2. pc'[i] = label /\ \A j \in Instances \ {i} : pc'[j] = pc[j]
    BY ZenonT(60) DEF Types, Goto
  <1>3. CASE full.phase = "applying"
    <2>1. i \in full.list \ full.todo
      BY Zenon, <1>3 DEF FullInv
    <2>2. full.list \subseteq Instances
      BY ZenonT(60) DEF Types
    <2>3. \A j \in full.list :
            (catalog[WireOf[j]] \in full.list \/ (j = i /\ label = "registered"))
            => catalog'[WireOf[j]] \in full.list
      BY <2>1, <2>2, Wiring DEF Types
    <2>4. \A j \in Instances : pc'[j] # "idle" =>
            j \in full.list \ full.todo /\ pc'[j] \notin {"check", "deregister", "deregistered"}
      BY ZenonT(60), <1>2, <1>3, <2>1 DEF FullInv
    <2>5. \A j \in full.list \ full.todo :
            pc'[j] = "registered" \/ (pc'[j] = "idle" /\ Pair(j) \notin full.failed)
            => catalog'[WireOf[j]] \in full.list
      <3> TAKE j \in full.list \ full.todo
      <3>1. CASE j = i
        BY ZenonT(60), <1>2, <2>3, <3>1
      <3>2. CASE j # i
        BY ZenonT(60), <1>2, <1>3, <2>2, <2>3, <3>2 DEF FullInv
      <3> QED BY ZenonT(60), <3>1, <3>2
    <2> QED BY Zenon, <1>3, <2>4, <2>5 DEF FullInv
  <1>4. CASE full.phase # "applying"
    BY Zenon, <1>1, <1>4 DEF FullInv
  <1> QED BY Zenon, <1>3, <1>4

\* So does a push that returns.
LEMMA FinishFull ==
    ASSUME Types, FullInv, NEW i \in Instances, pc[i] # "idle", NEW ok, NEW held,
           Finish(i, ok, held), ok => pc[i] = "registered", op' = op, catalog' = catalog
    PROVE  FullInv'
  <1>1. full.phase # "ok"
    BY Zenon DEF FullInv
  <1>2. pc'[i] = "idle" /\ \A j \in Instances \ {i} : pc'[j] = pc[j]
    BY FinishTypes DEF Types
  <1>3. CASE full.phase = "applying"
    <2>1. i \in full.list \ full.todo /\ full.list \subseteq Instances
      BY Zenon, <1>3 DEF FullInv, Types
    <2>2. /\ full'.phase = full.phase /\ full'.list = full.list /\ full'.todo = full.todo
          /\ full.failed \subseteq full'.failed
      BY FinishTypes DEF Types
    <2>3. ok \/ Pair(i) \in full'.failed
      BY Zenon, <1>3 DEF Finish, Types
    <2> QED BY <1>2, <1>3, <2>1, <2>2, <2>3 DEF FullInv
  <1>4. CASE full.phase # "applying"
    <2>1. full'.phase = full.phase
      BY Zenon, FinishTypes
    <2> QED BY Zenon, <1>1, <1>4, <2>1 DEF FullInv
  <1> QED BY Zenon, <1>3, <1>4

\* No step loses track of the full push, and one that ends well is exact.
LEMMA FullStep == Types /\ FullInv /\ FullPushIsExact /\ [Next]_vars => (FullInv /\ FullPushIsExact)'
  <1> SUFFICES ASSUME Types, FullInv, FullPushIsExact, [Next]_vars
               PROVE  (FullInv /\ FullPushIsExact)'
    BY Zenon
  <1>1. ASSUME NEW i \in Instances, NEW what \in {"register", "deregister"}, Push(i, what) PROVE (FullInv /\ FullPushIsExact)'
    <2>1. full'.phase = "idle"
      BY Zenon, <1>1 DEF Push, NoFull
    <2> QED BY Zenon, <2>1 DEF FullInv, FullPushIsExact
  <1>2. ASSUME NEW list \in Snapshots, PushAll(list) PROVE (FullInv /\ FullPushIsExact)'
    <2>1. full'.phase = "applying" /\ full'.list = list /\ full'.todo = list
      BY Zenon, <1>2 DEF PushAll, NoFull
    <2>2. \A i \in Instances : pc'[i] = "idle" /\ op'[i] = "register"
      BY Zenon, <1>2 DEF PushAll, AllRegister
    <2> QED BY ZenonT(60), <2>1, <2>2, Wiring DEF FullInv, FullPushIsExact
  <1>3. ASSUME NEW scope \in Scopes, PushEmpty(scope) PROVE (FullInv /\ FullPushIsExact)'
    <2>1. full'.phase = "applying" /\ full'.list = {} /\ full'.todo = {}
      BY Zenon, <1>3 DEF PushEmpty, NoFull
    <2>2. \A i \in Instances : pc'[i] = "idle"
      BY Zenon, <1>3 DEF PushEmpty
    <2> QED BY Zenon, <2>1, <2>2 DEF FullInv, FullPushIsExact
  <1>4. ASSUME NEW i \in Instances, Acquire(i) PROVE (FullInv /\ FullPushIsExact)'
    <2>1. pc[i] # "idle" /\ full.phase # "ok" /\ full'.phase = full.phase
      BY Zenon, <1>4 DEF FullInv, Acquire
    <2>2. FullPushIsExact'
      BY ZenonT(60), <2>1 DEF FullPushIsExact
    <2>3. \E label \in Labels \ {"idle", "check", "deregister", "deregistered"} : Goto(i, label)
                 /\ (label = "registered" => catalog' = [catalog EXCEPT ![WireOf[i]] = i])
      BY <1>4 DEF Acquire, Labels
    <2>4. op' = op /\ full' = full /\ catalog' \in {catalog, [catalog EXCEPT ![WireOf[i]] = i]}
      BY Zenon, <1>4 DEF Acquire, nacosVars
    <2> QED BY ZenonT(60), <2>1, <2>2, <2>3, <2>4, GotoFull
  <1>5. ASSUME NEW i \in Instances, RecoverWireOwnership(i) PROVE (FullInv /\ FullPushIsExact)'
    <2>1. pc[i] # "idle" /\ full.phase # "ok" /\ full'.phase = full.phase
      BY ZenonT(60), <1>5, FinishTypes DEF FullInv, RecoverWireOwnership
    <2>2. FullPushIsExact'
      BY Zenon, <2>1 DEF FullPushIsExact
    <2>3. op' = op /\ catalog' = catalog
      BY Zenon, <1>5 DEF RecoverWireOwnership, nacosVars
    <2>4. CASE Finish(i, FALSE, ~Batched(i))
      BY Zenon, <2>1, <2>2, <2>3, <2>4, FinishFull
    <2>5. CASE full' = full /\ Goto(i, IF op[i] = "register" THEN "claim" ELSE "check")
      <3>1. full.phase = "applying" => op[i] = "register"
        BY Zenon, <2>1 DEF FullInv
      <3>2. CASE op[i] = "register"
        <4>1. Goto(i, "claim")
          BY Zenon, <2>5, <3>2
        <4> QED BY ZenonT(60), <2>1, <2>2, <2>3, <2>5, <4>1, GotoFull DEF Labels
      <3>3. CASE op[i] # "register"
        BY ZenonT(60), <2>1, <2>2, <2>3, <2>5, <3>1, <3>3, GotoFull DEF Labels
      <3> QED BY Zenon, <3>2, <3>3
    <2> QED BY Zenon, <1>5, <2>4, <2>5 DEF RecoverWireOwnership
  <1>6. ASSUME NEW i \in Instances, ClaimWireIdentity(i) PROVE (FullInv /\ FullPushIsExact)'
    <2>1. pc[i] # "idle" /\ full.phase # "ok" /\ full'.phase = full.phase
      BY ZenonT(60), <1>6, FinishTypes DEF FullInv, ClaimWireIdentity
    <2>2. FullPushIsExact'
      BY Zenon, <2>1 DEF FullPushIsExact
    <2>3. op' = op /\ catalog' = catalog
      BY ZenonT(60), <1>6 DEF ClaimWireIdentity, nacosVars
    <2>4. CASE Finish(i, FALSE, ~Batched(i))
      BY Zenon, <2>1, <2>2, <2>3, <2>4, FinishFull
    <2>5. CASE full' = full /\ (Goto(i, "permit") \/ Goto(i, "health"))
      BY ZenonT(60), <2>1, <2>2, <2>3, <2>5, GotoFull DEF Labels
    <2> QED BY ZenonT(60), <1>6, <2>4, <2>5 DEF ClaimWireIdentity
  <1>7. ASSUME NEW i \in Instances, EnsureHealthCheckDisabled(i) PROVE (FullInv /\ FullPushIsExact)'
    <2>1. pc[i] # "idle" /\ full.phase # "ok" /\ full'.phase = full.phase
      BY ZenonT(60), <1>7 DEF FullInv, EnsureHealthCheckDisabled
    <2>2. FullPushIsExact'
      BY Zenon, <2>1 DEF FullPushIsExact
    <2>3. \E label \in Labels \ {"idle", "check", "deregister", "deregistered"} : Goto(i, label)
                 /\ (label = "registered" => catalog' = [catalog EXCEPT ![WireOf[i]] = i])
      BY SMTT(60), <1>7 DEF EnsureHealthCheckDisabled, Labels
    <2>4. op' = op /\ full' = full /\ catalog' \in {catalog, [catalog EXCEPT ![WireOf[i]] = i]}
      BY ZenonT(60), <1>7 DEF EnsureHealthCheckDisabled, nacosVars
    <2> QED BY Zenon, <2>1, <2>2, <2>3, <2>4, GotoFull
  <1>8. ASSUME NEW i \in Instances, UpdateCluster(i) PROVE (FullInv /\ FullPushIsExact)'
    <2>1. pc[i] # "idle" /\ full.phase # "ok" /\ full'.phase = full.phase
      BY Zenon, <1>8 DEF FullInv, UpdateCluster
    <2>2. FullPushIsExact'
      BY Zenon, <2>1 DEF FullPushIsExact
    <2>3. op' = op /\ full' = full /\ catalog' = catalog
      BY Zenon, <1>8 DEF UpdateCluster
    <2>4. \A j \in Instances : \/ pc'[j] = pc[j]
                               \/ pc[j] # "idle" /\ pc'[j] \in {"register", "blocked"}
      BY Zenon, <1>8 DEF UpdateCluster, Attending
    <2> QED BY <2>1, <2>2, <2>3, <2>4 DEF FullInv, Types
  <1>9. ASSUME NEW i \in Instances, Blocked(i) PROVE (FullInv /\ FullPushIsExact)'
    <2>1. pc[i] # "idle" /\ full.phase # "ok" /\ full'.phase = full.phase
      BY ZenonT(60), <1>9, FinishTypes DEF FullInv, Blocked
    <2>2. FullPushIsExact'
      BY Zenon, <2>1 DEF FullPushIsExact
    <2> QED BY ZenonT(60), <1>9, <2>1, <2>2, FinishFull DEF Blocked, nacosVars
  <1>10. ASSUME NEW i \in Instances, Registers(i) PROVE (FullInv /\ FullPushIsExact)'
    <2>1. pc[i] # "idle" /\ full.phase # "ok" /\ full'.phase = full.phase
      BY ZenonT(60), <1>10 DEF FullInv, Registers
    <2>2. FullPushIsExact'
      BY Zenon, <2>1 DEF FullPushIsExact
    <2>3. \E label \in Labels \ {"idle", "check", "deregister", "deregistered"} : Goto(i, label)
                 /\ (label = "registered" => catalog' = [catalog EXCEPT ![WireOf[i]] = i])
      BY Zenon, <1>10 DEF Registers, Labels
    <2>4. op' = op /\ full' = full /\ catalog' \in {catalog, [catalog EXCEPT ![WireOf[i]] = i]}
      BY Zenon, <1>10 DEF Registers, nacosVars
    <2> QED BY Zenon, <2>1, <2>2, <2>3, <2>4, GotoFull
  <1>11. ASSUME NEW i \in Instances, Release(i) PROVE (FullInv /\ FullPushIsExact)'
    <2>1. pc[i] # "idle" /\ full.phase # "ok" /\ full'.phase = full.phase
      BY ZenonT(60), <1>11, FinishTypes DEF FullInv, Release
    <2>2. FullPushIsExact'
      BY Zenon, <2>1 DEF FullPushIsExact
    <2> QED BY Zenon, <1>11, <2>1, <2>2, FinishFull DEF Release, nacosVars
  <1>12. ASSUME NEW i \in Instances, CheckOwner(i) PROVE (FullInv /\ FullPushIsExact)'
    <2>1. pc[i] # "idle" /\ full.phase # "ok" /\ full'.phase = full.phase
      BY Zenon, <1>12, FinishTypes DEF FullInv, CheckOwner
    <2>2. FullPushIsExact'
      BY Zenon, <2>1 DEF FullPushIsExact
    <2>3. full.phase # "applying"
      BY ZenonT(60), <1>12, <2>1 DEF FullInv, CheckOwner
    <2> QED BY Zenon, <2>1, <2>2, <2>3 DEF FullInv
  <1>13. ASSUME NEW i \in Instances, Deregisters(i) PROVE (FullInv /\ FullPushIsExact)'
    <2>1. pc[i] # "idle" /\ full.phase # "ok" /\ full'.phase = full.phase
      BY ZenonT(60), <1>13, FinishTypes DEF FullInv, Deregisters
    <2>2. FullPushIsExact'
      BY Zenon, <2>1 DEF FullPushIsExact
    <2>3. full.phase # "applying"
      BY ZenonT(60), <1>13, <2>1 DEF FullInv, Deregisters
    <2> QED BY Zenon, <2>1, <2>2, <2>3 DEF FullInv
  <1>14. ASSUME NEW i \in Instances, Forget(i) PROVE (FullInv /\ FullPushIsExact)'
    <2>1. pc[i] # "idle" /\ full.phase # "ok" /\ full'.phase = full.phase
      BY ZenonT(60), <1>14, FinishTypes DEF FullInv, Forget
    <2>2. FullPushIsExact'
      BY Zenon, <2>1 DEF FullPushIsExact
    <2>3. full.phase # "applying"
      BY ZenonT(60), <1>14, <2>1 DEF FullInv, Forget
    <2> QED BY Zenon, <2>1, <2>2, <2>3 DEF FullInv
  <1>15. ASSUME NEW p \in Pairs, StartBatch(p) PROVE (FullInv /\ FullPushIsExact)'
    <2>1. PICK batch \in SUBSET full.todo :
             /\ pc' = [i \in Instances |-> IF i \in batch THEN "recover" ELSE pc[i]]
             /\ full' = [full EXCEPT !.todo = full.todo \ batch]
      BY Zenon, <1>15 DEF StartBatch
    <2>2. /\ full'.phase = "applying" /\ full.phase = "applying"
          /\ full'.list = full.list /\ full'.todo = full.todo \ batch /\ full'.failed = full.failed
          /\ op' = op /\ catalog' = catalog
      BY Zenon, <1>15, <2>1 DEF StartBatch, nacosVars, Types
    <2>3. full.list \subseteq Instances
      BY Zenon DEF Types
    <2>4. \A i \in batch : i \in full.list /\ i \notin full'.todo /\ pc'[i] = "recover"
      BY Zenon, <2>1, <2>2, <2>3 DEF FullInv
    <2>5. \A i \in Instances \ batch : pc'[i] = pc[i] /\ (i \in full'.todo <=> i \in full.todo)
      BY Zenon, <2>1, <2>2
    <2> QED BY SMTT(60), <2>2, <2>3, <2>4, <2>5 DEF FullInv, FullPushIsExact
  <1>16. CASE Prune
    <2>1. PICK answered \in SUBSET Swept : \E unanswered \in SUBSET (Swept \ answered) :
             /\ \/ answered = Swept /\ unanswered = {} /\ Answers
                \/ Fails
             /\ catalog' = [w \in Wires |-> IF w \in answered \cup unanswered THEN NoInstance
                                            ELSE catalog[w]]
             /\ full' = [full EXCEPT !.phase = IF faults' = faults /\ full.failed = {} THEN "ok"
                                               ELSE "error"]
      BY <1>16 DEF Prune
    <2>2. /\ full'.phase \in {"ok", "error"} /\ full'.list = full.list /\ full'.scope = full.scope
          /\ full'.failed = full.failed
      BY ZenonT(60), <2>1 DEF Types
    <2>3. /\ full.phase = "applying" /\ full.todo = {} /\ pc' = pc
          /\ \A i \in Instances : pc[i] = "idle"
      BY Zenon, <1>16 DEF Prune
    <2>4. FullInv'
      BY Zenon, <2>2, <2>3 DEF FullInv
    <2>5. ASSUME full'.phase = "ok" PROVE FullPushIsExact'
      <3>1. full.failed = {} /\ faults' = faults
        BY Zenon, <2>1, <2>5 DEF Types
      <3>2. ~Fails
        BY <3>1 DEF Fails, Types
      <3>3. catalog' = [w \in Wires |-> IF w \in Swept THEN NoInstance ELSE catalog[w]]
        BY Zenon, <2>1, <3>2
      <3>4. \A i \in full.list : catalog[WireOf[i]] \in full.list
        BY ZenonT(60), <2>3, <3>1 DEF FullInv, Types
      <3>5. \A w \in Desired : w \in Wires /\ catalog[w] \in full.list /\ w \notin Swept
        BY SMTT(60), <3>4, Wiring DEF Desired, Swept, Types
      <3>6. \A w \in Desired : ClusterOf[PairOf[w]] \in PushedClusters
        BY Zenon, <3>1 DEF Desired, PushedClusters, Asserted, Pair
      <3>7. Desired' = Desired /\ PushedClusters' = PushedClusters
        BY Zenon, <2>2 DEF Desired, PushedClusters, Asserted
      <3>8. \A w \in Desired' : catalog'[w] \in full'.list
        BY ZenonT(60), <2>2, <3>3, <3>5, <3>7
      <3>9. Desired' \subseteq {w \in Owned' : ClusterOf[PairOf[w]] \in PushedClusters'}
        BY ZenonT(60), <2>2, <3>5, <3>6, <3>7, <3>8 DEF Owned, Types
      <3>10. ASSUME NEW w \in Owned', ClusterOf[PairOf[w]] \in PushedClusters' PROVE w \in Desired'
        <4>1. w \in Wires /\ catalog'[w] \in Instances
          BY Zenon DEF Owned
        <4>2. w \notin Swept /\ w \in Owned
          BY ZenonT(60), <3>3, <4>1, Wiring DEF Owned
        <4> QED BY ZenonT(60), <3>1, <3>7, <3>10, <4>2 DEF Swept
      <3> QED BY Zenon, <3>8, <3>9, <3>10 DEF FullPushIsExact
    <2>6. CASE ~(full'.phase = "ok")
      BY ZenonT(60), <2>4, <2>6 DEF FullPushIsExact
    <2> QED BY ZenonT(60), <2>4, <2>5, <2>6
  <1>17. CASE Restart
    <2>1. full'.phase = "idle"
      BY Zenon, <1>17 DEF Restart, NoFull
    <2> QED BY Zenon, <2>1 DEF FullInv, FullPushIsExact
  <1>18. CASE UNCHANGED vars
    BY ZenonT(60), <1>18 DEF Types, FullInv, FullPushIsExact, Owned, Desired, PushedClusters, Asserted,
       vars, nacosVars, ownerVars, healthVars, boundVars
  <1> QED BY ZenonT(60), <1>1, <1>2, <1>3, <1>4, <1>5, <1>6, <1>7, <1>8, <1>9,
             <1>10, <1>11, <1>12, <1>13, <1>14, <1>15, <1>16, <1>17, <1>18 DEF Next, Step

\* Owners are kept where no owner, claim or record changes.
LEMMA OwnersKept ==
    ASSUME Types, OwnerInv, DisturbedInv',
           wireOwners' = wireOwners, wireClaims' = wireClaims, wireScanned' = wireScanned,
           catalog' = catalog, disturbed \subseteq disturbed',
           \A j \in Instances : /\ PastClaim(j)' => PastClaim(j)
                                /\ pc'[j] = "claim" => pc[j] = "claim"
                                /\ pc[j] = "registered" => pc'[j] = "registered"
    PROVE  OwnerInv'
  BY DEF OwnerInv

\* What happens to a disturbed identity concerns nobody.
LEMMA GivenUp ==
    ASSUME Types, OwnerInv, NEW i \in Instances,
           full'.phase = full.phase, op' = op, \A j \in Instances \ {i} : pc'[j] = pc[j],
           pc'[i] \in {"idle", "deregistered"}, WireOf[i] \in disturbed',
           disturbed \subseteq disturbed', wireScanned' = wireScanned,
           \A w \in Wires \ {WireOf[i]} : /\ wireOwners'[w] = wireOwners[w]
                                         /\ wireClaims'[w] = wireClaims[w]
                                         /\ catalog'[w] = catalog[w]
    PROVE  OwnerInv'
  <1>1. \A j \in Instances : WireOf[j] \notin disturbed' =>
           pc'[j] = pc[j] /\ (PastClaim(j)' <=> PastClaim(j))
    BY ZenonT(60) DEF PastClaim
  <1>2. DisturbedInv'
    BY DEF OwnerInv, DisturbedInv
  <1>3. \A j \in Instances : pc'[j] = "claim" => pc[j] = "claim"
    BY Zenon
  <1>4. \A j \in Instances : PastClaim(j)' /\ WireOf[j] \notin disturbed' =>
            /\ Pair(j) \in wireScanned'
            /\ wireOwners'[WireOf[j]] \in {NoSource, SourceOf[j]}
            /\ wireClaims'[WireOf[j]] \in {NoSource, SourceOf[j]}
            /\ SourceOf[j] \in {wireOwners'[WireOf[j]], wireClaims'[WireOf[j]]}
    BY ZenonT(60), <1>1, Wiring DEF OwnerInv
  <1>5. \A w \in Wires : w \notin disturbed' /\ PairOf[w] \in wireScanned' /\ catalog'[w] \in Instances =>
            \/ wireOwners'[w] = SourceOf[catalog'[w]]
            \/ \E j \in Instances : /\ WireOf[j] = w /\ pc'[j] = "registered"
                                    /\ SourceOf[j] = SourceOf[catalog'[w]]
    BY SMTT(60), <1>1 DEF OwnerInv
  <1> QED BY Zenon, <1>2, <1>3, <1>4, <1>5 DEF OwnerInv

\* No step loses the owner of an undisturbed identity.
LEMMA OwnerStep == Types /\ RegisterInv /\ FullInv /\ OwnerInv /\ [Next]_vars => OwnerInv'
  <1> SUFFICES ASSUME Types, RegisterInv, FullInv, OwnerInv, [Next]_vars
               PROVE  OwnerInv'
    BY Zenon
  <1>1. ASSUME NEW i \in Instances, NEW what \in {"register", "deregister"}, Push(i, what) PROVE OwnerInv'
    <2>1. \A j \in Instances :
            /\ PastClaim(j)' => PastClaim(j)
            /\ pc'[j] = "claim" => pc[j] = "claim"
            /\ pc[j] = "registered" => pc'[j] = "registered"
      BY ZenonT(60), <1>1 DEF Types, PastClaim, Writing, Push, NoFull, Goto
    <2>2. DisturbedInv'
      BY SMTT(60), <1>1 DEF Types, OwnerInv, DisturbedInv, Push, NoFull, Goto
    <2>3. disturbed \subseteq disturbed' /\ catalog' = catalog
      BY Zenon, <1>1 DEF Push, nacosVars
    <2> QED BY ZenonT(60), <1>1, <2>1, <2>2, <2>3, OwnersKept DEF Push, ownerVars
  <1>2. ASSUME NEW list \in Snapshots, PushAll(list) PROVE OwnerInv'
    <2>1. \A j \in Instances :
            /\ PastClaim(j)' => PastClaim(j)
            /\ pc'[j] = "claim" => pc[j] = "claim"
            /\ pc[j] = "registered" => pc'[j] = "registered"
      BY Zenon, <1>2 DEF Types, PastClaim, Writing, PushAll, NoFull, AllRegister
    <2>2. DisturbedInv'
      BY Zenon, <1>2 DEF Types, OwnerInv, DisturbedInv, PushAll, NoFull, AllRegister
    <2>3. disturbed \subseteq disturbed' /\ catalog' = catalog
      BY Zenon, <1>2 DEF PushAll, nacosVars
    <2> QED BY ZenonT(60), <1>2, <2>1, <2>2, <2>3, OwnersKept DEF PushAll, ownerVars
  <1>3. ASSUME NEW scope \in Scopes, PushEmpty(scope) PROVE OwnerInv'
    <2>1. \A j \in Instances :
            /\ PastClaim(j)' => PastClaim(j)
            /\ pc'[j] = "claim" => pc[j] = "claim"
            /\ pc[j] = "registered" => pc'[j] = "registered"
      BY Zenon, <1>3 DEF Types, PastClaim, Writing, PushEmpty, NoFull
    <2>2. DisturbedInv'
      BY Zenon, <1>3 DEF Types, OwnerInv, DisturbedInv, PushEmpty, NoFull
    <2>3. disturbed \subseteq disturbed' /\ catalog' = catalog
      BY Zenon, <1>3 DEF PushEmpty, nacosVars
    <2> QED BY ZenonT(60), <1>3, <2>1, <2>2, <2>3, OwnersKept DEF PushEmpty, ownerVars
  <1>4. ASSUME NEW i \in Instances, Acquire(i) PROVE OwnerInv'
    <2>1. \A j \in Instances :
            /\ PastClaim(j)' => PastClaim(j)
            /\ pc'[j] = "claim" => pc[j] = "claim"
            /\ pc[j] = "registered" => pc'[j] = "registered"
      BY ZenonT(60), <1>4 DEF Types, PastClaim, Writing, Acquire, Goto, Batched
    <2>2. DisturbedInv'
      BY SMTT(60), <1>4 DEF Types, OwnerInv, DisturbedInv, Acquire, Goto, Batched
    <2>3. disturbed \subseteq disturbed' /\ catalog' = catalog
      BY Zenon, <1>4 DEF Acquire, nacosVars
    <2> QED BY ZenonT(60), <1>4, <2>1, <2>2, <2>3, OwnersKept DEF Acquire, ownerVars
  <1>5. ASSUME NEW i \in Instances, RecoverWireOwnership(i) PROVE OwnerInv'
    <2>1. full'.phase = full.phase /\ op' = op /\ \A j \in Instances \ {i} : pc'[j] = pc[j]
      BY ZenonT(60), <1>5, FinishTypes, GotoMoves DEF RecoverWireOwnership
    <2>2. pc[i] = "recover" /\ pc'[i] \in {"idle", "claim", "check"}
      BY ZenonT(60), <1>5, FinishTypes DEF Types, RecoverWireOwnership, Goto
    <2>3. \A j \in Instances :
            /\ PastClaim(j)' => PastClaim(j)
            /\ pc[j] = "registered" => pc'[j] = "registered"
      BY <2>1, <2>2 DEF PastClaim, Writing
    <2>4. disturbed' = disturbed /\ catalog' = catalog /\ wireClaims' = wireClaims
      BY Zenon, <1>5 DEF RecoverWireOwnership, nacosVars
    <2>5. pc'[i] = "check" => op[i] = "deregister"
      BY Zenon, <1>5, FinishTypes DEF Types, RecoverWireOwnership, Goto
    <2>6. DisturbedInv'
      BY SMTT(60), <2>1, <2>2, <2>4, <2>5 DEF OwnerInv, DisturbedInv
    <2>7. CASE UNCHANGED <<wireScanned, wireOwners>>
      <3>1. pc'[i] = "claim" => Pair(i) \in wireScanned
        BY Zenon, <1>5, <2>7, FinishTypes DEF Types, RecoverWireOwnership, Scan
      <3> QED BY <2>1, <2>3, <2>4, <2>6, <2>7, <3>1 DEF OwnerInv
    <2>8. CASE Pair(i) \notin wireScanned /\ Scan(Pair(i))
      <3>1. wireScanned' = wireScanned \cup {Pair(i)}
        BY Zenon, <2>8 DEF Scan
      <3>2. \A w \in Wires : PairOf[w] # Pair(i) => wireOwners'[w] = wireOwners[w]
        BY Zenon, <2>8 DEF Scan
      <3>3. \A w \in Wires : PairOf[w] = Pair(i) /\ catalog[w] \in Instances
                            => wireOwners'[w] = SourceOf[catalog[w]]
        BY Zenon, <2>8 DEF Scan, Owned
      <3>4. \A j \in Instances : PastClaim(j) /\ WireOf[j] \notin disturbed => Pair(j) # Pair(i)
        BY Zenon, <2>8 DEF OwnerInv
      <3>5. \A j \in Instances : pc'[j] = "claim" => Pair(j) \in wireScanned'
        BY ZenonT(60), <2>1, <3>1 DEF OwnerInv
      <3>6. \A j \in Instances : PastClaim(j)' /\ WireOf[j] \notin disturbed' =>
                /\ Pair(j) \in wireScanned'
                /\ wireOwners'[WireOf[j]] \in {NoSource, SourceOf[j]}
                /\ wireClaims'[WireOf[j]] \in {NoSource, SourceOf[j]}
                /\ SourceOf[j] \in {wireOwners'[WireOf[j]], wireClaims'[WireOf[j]]}
        BY <2>3, <2>4, <3>1, <3>2, <3>4, Wiring DEF OwnerInv, Pair
      <3>7. ASSUME NEW w \in Wires, w \notin disturbed', PairOf[w] \in wireScanned', catalog'[w] \in Instances
            PROVE  \/ wireOwners'[w] = SourceOf[catalog'[w]]
                   \/ \E j \in Instances : /\ WireOf[j] = w /\ pc'[j] = "registered"
                                           /\ SourceOf[j] = SourceOf[catalog'[w]]
        <4>1. CASE PairOf[w] = Pair(i)
          BY ZenonT(60), <2>4, <3>3, <3>7, <4>1
        <4>2. CASE PairOf[w] # Pair(i)
          BY SMTT(60), <2>3, <2>4, <3>1, <3>2, <3>7, <4>2 DEF OwnerInv
        <4> QED BY Zenon, <4>1, <4>2
      <3> QED BY Zenon, <2>6, <3>5, <3>6, <3>7 DEF OwnerInv
    <2> QED BY ZenonT(60), <1>5, <2>7, <2>8 DEF RecoverWireOwnership
  <1>6. ASSUME NEW i \in Instances, ClaimWireIdentity(i) PROVE OwnerInv'
    <2>1. full'.phase = full.phase /\ op' = op /\ \A j \in Instances \ {i} : pc'[j] = pc[j]
      BY Zenon, <1>6, FinishTypes, GotoMoves DEF ClaimWireIdentity
    <2>2. pc[i] = "claim" /\ pc'[i] \in {"idle", "permit", "health"}
      BY ZenonT(60), <1>6, FinishTypes DEF Types, ClaimWireIdentity, Goto
    <2>3. \A j \in Instances :
            /\ j # i => (PastClaim(j)' => PastClaim(j))
            /\ pc'[j] = "claim" => pc[j] = "claim"
            /\ pc[j] = "registered" => pc'[j] = "registered"
      BY Zenon, <2>1, <2>2 DEF PastClaim
    <2>4. disturbed' = disturbed /\ catalog' = catalog /\ wireOwners' = wireOwners /\ wireScanned' = wireScanned
      BY Zenon, <1>6 DEF ClaimWireIdentity, nacosVars
    <2>5. DisturbedInv'
      BY SMTT(60), <2>1, <2>2, <2>4 DEF RegisterInv, OwnerInv, DisturbedInv
    <2>6. CASE OwnedByOther(i)
      <3>1. pc'[i] = "idle" /\ wireClaims' = wireClaims
        BY ZenonT(60), <1>6, <2>6, FinishTypes DEF Types, ClaimWireIdentity
      <3>2. ~PastClaim(i)'
        BY Zenon, <3>1 DEF PastClaim, Writing
      <3> QED BY Zenon, <2>3, <2>4, <2>5, <3>1, <3>2, OwnersKept
    <2>7. CASE ~OwnedByOther(i)
      <3>1. /\ wireClaims'[WireOf[i]] = SourceOf[i]
            /\ \A w \in Wires \ {WireOf[i]} : wireClaims'[w] = wireClaims[w]
        BY ZenonT(60), <1>6, <2>7, Wiring DEF Types, ClaimWireIdentity
      <3>2. /\ wireOwners[WireOf[i]] \in {NoSource, SourceOf[i]}
            /\ wireClaims[WireOf[i]] \in {NoSource, SourceOf[i]}
        BY Zenon, <2>7 DEF OwnedByOther
      <3>3. Pair(i) \in wireScanned
        BY ZenonT(60), <2>2 DEF OwnerInv
      <3>4. \A j \in Instances : PastClaim(j) /\ WireOf[j] \notin disturbed /\ WireOf[j] = WireOf[i]
                                => SourceOf[j] = SourceOf[i]
        BY SMTT(60), <3>2, Wiring DEF OwnerInv
      <3>5. \A j \in Instances : PastClaim(j)' /\ WireOf[j] \notin disturbed' =>
                /\ Pair(j) \in wireScanned'
                /\ wireOwners'[WireOf[j]] \in {NoSource, SourceOf[j]}
                /\ wireClaims'[WireOf[j]] \in {NoSource, SourceOf[j]}
                /\ SourceOf[j] \in {wireOwners'[WireOf[j]], wireClaims'[WireOf[j]]}
        <4> TAKE j \in Instances
        <4>1. CASE j = i
          BY Zenon, <2>4, <3>1, <3>2, <3>3, <4>1
        <4>2. CASE j # i /\ WireOf[j] = WireOf[i]
          BY ZenonT(60), <2>3, <2>4, <3>1, <3>4, <4>2 DEF OwnerInv
        <4>3. CASE WireOf[j] # WireOf[i]
          BY Zenon, <2>3, <2>4, <3>1, <4>3, Wiring DEF OwnerInv
        <4> QED BY ZenonT(60), <4>1, <4>2, <4>3
      <3> QED BY SMTT(60), <2>3, <2>4, <2>5, <3>5 DEF OwnerInv
    <2> QED BY Zenon, <2>6, <2>7
  <1>7. ASSUME NEW i \in Instances, EnsureHealthCheckDisabled(i) PROVE OwnerInv'
    <2>1. \A j \in Instances :
            /\ PastClaim(j)' => PastClaim(j)
            /\ pc'[j] = "claim" => pc[j] = "claim"
            /\ pc[j] = "registered" => pc'[j] = "registered"
      BY <1>7 DEF Types, PastClaim, Writing, EnsureHealthCheckDisabled, Goto
    <2>2. DisturbedInv'
      <3>1. /\ \A j \in Instances \ {i} : pc'[j] = pc[j]
            /\ pc[i] = "health" /\ pc'[i] \in {"register", "wait", "update"}
            /\ op' = op /\ disturbed' = disturbed
        BY <1>7 DEF Types, EnsureHealthCheckDisabled, Goto
      <3>2. op[i] = "register"
        BY ZenonT(60), <3>1 DEF RegisterInv, Writing
      <3>3. ASSUME NEW j \in Instances,
                   \/ op'[j] = "deregister" /\ pc'[j] # "idle"
                   \/ pc'[j] \in {"failed", "check", "deregister", "deregistered"}
            PROVE  WireOf[j] \in disturbed'
        <4>1. j # i
          BY Zenon, <3>1, <3>2, <3>3
        <4> QED BY <3>1, <3>3, <4>1 DEF OwnerInv, DisturbedInv
      <3> QED BY Zenon, <3>3 DEF DisturbedInv
    <2>3. disturbed \subseteq disturbed' /\ catalog' = catalog
      BY Zenon, <1>7 DEF EnsureHealthCheckDisabled, nacosVars
    <2> QED BY ZenonT(60), <1>7, <2>1, <2>2, <2>3, OwnersKept DEF EnsureHealthCheckDisabled, ownerVars
  <1>8. ASSUME NEW i \in Instances, UpdateCluster(i) PROVE OwnerInv'
    <2>1. \A j \in Instances :
            /\ PastClaim(j)' => PastClaim(j)
            /\ pc'[j] = "claim" => pc[j] = "claim"
            /\ pc[j] = "registered" => pc'[j] = "registered"
      BY SMTT(60), <1>8 DEF Types, PastClaim, Writing, UpdateCluster, Attending
    <2>2. DisturbedInv'
      <3>1. op' = op /\ disturbed' = disturbed
        BY Zenon, <1>8 DEF UpdateCluster
      <3>2. ASSUME NEW j \in Instances,
                   \/ op'[j] = "deregister" /\ pc'[j] # "idle"
                   \/ pc'[j] \in {"failed", "check", "deregister", "deregistered"}
            PROVE  WireOf[j] \in disturbed'
        <4>1. CASE pc'[j] = pc[j]
          BY Zenon, <3>1, <3>2, <4>1 DEF OwnerInv, DisturbedInv
        <4>2. CASE pc'[j] # pc[j]
          <5>1. pc[j] \in {"update", "wait"} /\ pc'[j] \in {"register", "blocked"}
            BY Zenon, <1>8, <4>2 DEF UpdateCluster, Attending
          <5>2. op[j] = "register"
            BY Zenon, <5>1 DEF RegisterInv, Writing
          <5> QED BY ZenonT(60), <3>1, <3>2, <5>1, <5>2
        <4> QED BY Zenon, <4>1, <4>2
      <3> QED BY Zenon, <3>2 DEF DisturbedInv
    <2>3. disturbed \subseteq disturbed' /\ catalog' = catalog
      BY Zenon, <1>8 DEF UpdateCluster, nacosVars
    <2> QED BY ZenonT(60), <1>8, <2>1, <2>2, <2>3, OwnersKept DEF UpdateCluster, ownerVars
  <1>9. ASSUME NEW i \in Instances, Blocked(i) PROVE OwnerInv'
    <2>1. full'.phase = full.phase /\ op' = op /\ \A j \in Instances \ {i} : pc'[j] = pc[j]
      BY Zenon, <1>9, FinishTypes DEF Blocked
    <2>2. pc'[i] = "idle"
      BY ZenonT(60), <1>9, FinishTypes DEF Types, Blocked
    <2>3. WireOf[i] \in disturbed' /\ disturbed \subseteq disturbed' /\ wireScanned' = wireScanned
      BY Zenon, <1>9 DEF Blocked, OwnerInv, DisturbedInv, ownerVars
    <2>4. \A w \in Wires \ {WireOf[i]} :
            /\ wireOwners'[w] = wireOwners[w]
            /\ wireClaims'[w] = wireClaims[w]
            /\ catalog'[w] = catalog[w]
      BY Zenon, <1>9 DEF Types, Blocked, Released, ownerVars, nacosVars
    <2> QED BY Zenon, <2>1, <2>2, <2>3, <2>4, GivenUp
  <1>10. ASSUME NEW i \in Instances, Registers(i) PROVE OwnerInv'
    <2>1. full' = full /\ op' = op /\ \A j \in Instances \ {i} : pc'[j] = pc[j]
      BY Zenon, <1>10, GotoMoves DEF Registers
    <2>2. pc[i] = "register" /\ pc'[i] \in {"registered", "failed"}
      BY Zenon, <1>10 DEF Types, Registers, Goto
    <2>3. \A w \in Wires \ {WireOf[i]} : catalog'[w] = catalog[w]
      BY ZenonT(60), <1>10 DEF Types, Registers
    <2>4. /\ disturbed \subseteq disturbed'
          /\ UNCHANGED ownerVars
          /\ pc'[i] = "failed" => WireOf[i] \in disturbed'
          /\ pc'[i] = "registered" => catalog'[WireOf[i]] = i
      BY <1>10, Wiring DEF Types, Registers, Goto
    <2>5. \A j \in Instances : PastClaim(j)' => PastClaim(j)
      BY ZenonT(60), <2>1, <2>2 DEF PastClaim, Writing
    <2>6. DisturbedInv'
      BY SMTT(60), <2>1, <2>2, <2>4 DEF RegisterInv, Writing, OwnerInv, DisturbedInv
    <2>7. \A j \in Instances : pc'[j] = "claim" => pc[j] = "claim"
      BY Zenon, <2>1, <2>2
    <2>8. ASSUME NEW w \in Wires, w \notin disturbed', PairOf[w] \in wireScanned', catalog'[w] \in Instances
          PROVE  \/ wireOwners'[w] = SourceOf[catalog'[w]]
                 \/ \E j \in Instances : /\ WireOf[j] = w /\ pc'[j] = "registered"
                                         /\ SourceOf[j] = SourceOf[catalog'[w]]
      <3>1. CASE w = WireOf[i]
        BY ZenonT(60), <2>2, <2>4, <2>8, <3>1
      <3>2. CASE w # WireOf[i]
        <4>1. \A j \in Instances : WireOf[j] = w => pc'[j] = pc[j]
          BY Zenon, <2>1, <3>2
        <4> QED BY SMTT(60), <2>3, <2>4, <2>8, <3>2, <4>1 DEF OwnerInv, ownerVars
      <3> QED BY Zenon, <3>1, <3>2
    <2> QED BY Zenon, <2>4, <2>5, <2>6, <2>7, <2>8 DEF OwnerInv, ownerVars
  <1>11. ASSUME NEW i \in Instances, Release(i) PROVE OwnerInv'
    <2>1. full'.phase = full.phase /\ op' = op /\ \A j \in Instances \ {i} : pc'[j] = pc[j]
      BY Zenon, <1>11, FinishTypes DEF Release
    <2>2. pc[i] \in {"registered", "failed"} /\ pc'[i] = "idle"
      BY ZenonT(60), <1>11, FinishTypes DEF Types, Release
    <2>3. disturbed' = disturbed /\ catalog' = catalog /\ wireScanned' = wireScanned
      BY Zenon, <1>11 DEF Release, nacosVars
    <2>4. \A w \in Wires \ {WireOf[i]} :
            /\ wireOwners'[w] = wireOwners[w]
            /\ wireClaims'[w] = wireClaims[w]
      BY Zenon, <1>11 DEF Types, Release, Released
    <2>5. CASE WireOf[i] \in disturbed
      BY Zenon, <2>1, <2>2, <2>3, <2>4, <2>5, GivenUp
    <2>6. CASE WireOf[i] \notin disturbed
      <3>1. pc[i] = "registered" /\ PastClaim(i)
        BY Zenon, <2>2, <2>6 DEF OwnerInv, DisturbedInv, RegisterInv, PastClaim, Writing
      <3>2. /\ wireOwners[WireOf[i]] \in {NoSource, SourceOf[i]}
            /\ wireClaims[WireOf[i]] \in {NoSource, SourceOf[i]}
        BY Zenon, <2>6, <3>1 DEF OwnerInv
      <3>3. /\ wireOwners'[WireOf[i]] = SourceOf[i]
            /\ wireClaims'[WireOf[i]] \in {NoSource, SourceOf[i]}
        BY Zenon, <1>11, <3>1, <3>2, Wiring DEF Types, Release, Released
      <3>4. \A j \in Instances : PastClaim(j) /\ WireOf[j] = WireOf[i] => SourceOf[j] = SourceOf[i]
        <4> SUFFICES ASSUME NEW j \in Instances, PastClaim(j), WireOf[j] = WireOf[i]
                     PROVE  SourceOf[j] = SourceOf[i]
          BY Zenon
        <4>1. WireOf[j] \notin disturbed
          BY Zenon, <2>6
        <4>2. SourceOf[j] \in {wireOwners[WireOf[i]], wireClaims[WireOf[i]]}
          BY Zenon, <4>1 DEF OwnerInv
        <4> QED BY Zenon, <3>2, <4>2, Wiring
      <3>5. \A j \in Instances : PastClaim(j)' => PastClaim(j)
        BY ZenonT(60), <2>1, <2>2 DEF PastClaim, Writing
      <3>6. DisturbedInv'
        BY <2>1, <2>2, <2>3 DEF OwnerInv, DisturbedInv
      <3>7. \A j \in Instances : PastClaim(j)' /\ WireOf[j] \notin disturbed' =>
                /\ Pair(j) \in wireScanned'
                /\ wireOwners'[WireOf[j]] \in {NoSource, SourceOf[j]}
                /\ wireClaims'[WireOf[j]] \in {NoSource, SourceOf[j]}
                /\ SourceOf[j] \in {wireOwners'[WireOf[j]], wireClaims'[WireOf[j]]}
        <4> TAKE j \in Instances
        <4>1. CASE WireOf[j] = WireOf[i]
          BY Zenon, <2>3, <3>3, <3>4, <3>5, <4>1 DEF OwnerInv
        <4>2. CASE WireOf[j] # WireOf[i]
          BY Zenon, <2>3, <2>4, <3>5, <4>2, Wiring DEF OwnerInv
        <4> QED BY Zenon, <4>1, <4>2
      <3>8. ASSUME NEW w \in Wires, w \notin disturbed', PairOf[w] \in wireScanned', catalog'[w] \in Instances
            PROVE  \/ wireOwners'[w] = SourceOf[catalog'[w]]
                   \/ \E j \in Instances : /\ WireOf[j] = w /\ pc'[j] = "registered"
                                           /\ SourceOf[j] = SourceOf[catalog'[w]]
        <4>1. \/ wireOwners[w] = SourceOf[catalog[w]]
              \/ \E j \in Instances : /\ WireOf[j] = w /\ pc[j] = "registered"
                                      /\ SourceOf[j] = SourceOf[catalog[w]]
          BY Zenon, <2>3, <3>8 DEF OwnerInv
        <4>2. CASE w = WireOf[i]
          <5>1. \A j \in Instances : pc[j] = "registered" => PastClaim(j)
            BY Zenon DEF PastClaim, RegisterInv, Writing
          <5> QED BY ZenonT(60), <2>3, <3>2, <3>3, <3>4, <3>8, <4>1, <4>2, <5>1, Wiring
        <4>3. CASE w # WireOf[i]
          <5>1. \A j \in Instances : WireOf[j] = w => pc'[j] = pc[j]
            BY Zenon, <2>1, <4>3
          <5> QED BY Zenon, <2>3, <2>4, <4>1, <4>3, <5>1
        <4> QED BY Zenon, <4>2, <4>3
      <3>9. \A j \in Instances : pc'[j] = "claim" => pc[j] = "claim"
        BY Zenon, <2>1, <2>2
      <3> QED BY Zenon, <2>3, <3>6, <3>7, <3>8, <3>9 DEF OwnerInv
    <2> QED BY Zenon, <2>5, <2>6
  <1>12. ASSUME NEW i \in Instances, CheckOwner(i) PROVE OwnerInv'
    <2>1. full'.phase = full.phase /\ op' = op /\ \A j \in Instances \ {i} : pc'[j] = pc[j]
      BY Zenon, <1>12, FinishTypes, GotoMoves DEF CheckOwner
    <2>2. pc[i] = "check" /\ pc'[i] \in {"idle", "deregister"}
      BY ZenonT(60), <1>12, FinishTypes DEF Types, CheckOwner, Goto
    <2>3. \A j \in Instances :
            /\ PastClaim(j)' => PastClaim(j)
            /\ pc'[j] = "claim" => pc[j] = "claim"
            /\ pc[j] = "registered" => pc'[j] = "registered"
      BY Zenon, <2>1, <2>2 DEF PastClaim, Writing
    <2>4. disturbed' = disturbed /\ catalog' = catalog
      BY Zenon, <1>12 DEF CheckOwner, nacosVars
    <2>5. DisturbedInv'
      BY <2>1, <2>2, <2>4 DEF OwnerInv, DisturbedInv
    <2> QED BY Zenon, <1>12, <2>3, <2>4, <2>5, OwnersKept DEF CheckOwner, ownerVars
  <1>13. ASSUME NEW i \in Instances, Deregisters(i) PROVE OwnerInv'
    <2>1. full'.phase = full.phase /\ op' = op /\ \A j \in Instances \ {i} : pc'[j] = pc[j]
      BY Zenon, <1>13, FinishTypes, GotoMoves DEF Deregisters
    <2>2. pc'[i] \in {"idle", "deregistered"}
      <3>1. CASE Goto(i, "deregistered")
        BY Zenon, <3>1 DEF Types, Goto
      <3>2. CASE Finish(i, FALSE, TRUE)
        BY Zenon, <3>2 DEF Types, Finish, Goto
      <3> QED BY Zenon, <1>13, <3>1, <3>2 DEF Deregisters
    <2>3. WireOf[i] \in disturbed' /\ disturbed \subseteq disturbed' /\ wireScanned' = wireScanned
      BY Zenon, <1>13 DEF Deregisters, OwnerInv, DisturbedInv, ownerVars
    <2>4. \A w \in Wires \ {WireOf[i]} :
            /\ wireOwners'[w] = wireOwners[w]
            /\ wireClaims'[w] = wireClaims[w]
            /\ catalog'[w] = catalog[w]
      BY Zenon, <1>13 DEF Types, Deregisters, Released, ownerVars, nacosVars
    <2> QED BY Zenon, <2>1, <2>2, <2>3, <2>4, GivenUp
  <1>14. ASSUME NEW i \in Instances, Forget(i) PROVE OwnerInv'
    <2>1. full'.phase = full.phase /\ op' = op /\ \A j \in Instances \ {i} : pc'[j] = pc[j]
      BY Zenon, <1>14, FinishTypes DEF Forget
    <2>2. pc'[i] = "idle"
      BY ZenonT(60), <1>14, FinishTypes DEF Types, Forget
    <2>3. WireOf[i] \in disturbed' /\ disturbed \subseteq disturbed' /\ wireScanned' = wireScanned
      BY Zenon, <1>14 DEF Forget, OwnerInv, DisturbedInv, ownerVars
    <2>4. \A w \in Wires \ {WireOf[i]} :
            /\ wireOwners'[w] = wireOwners[w]
            /\ wireClaims'[w] = wireClaims[w]
            /\ catalog'[w] = catalog[w]
      BY Zenon, <1>14 DEF Types, Forget, Released, ownerVars, nacosVars
    <2> QED BY Zenon, <2>1, <2>2, <2>3, <2>4, GivenUp
  <1>15. ASSUME NEW p \in Pairs, StartBatch(p) PROVE OwnerInv'
    <2>1. \A j \in Instances :
            /\ PastClaim(j)' => PastClaim(j)
            /\ pc'[j] = "claim" => pc[j] = "claim"
            /\ pc[j] = "registered" => pc'[j] = "registered"
      BY <1>15 DEF Types, PastClaim, Writing, StartBatch
    <2>2. DisturbedInv'
      <3>1. \A j \in Instances : pc'[j] = pc[j] \/ (pc'[j] = "recover" /\ j \in full.list)
        BY <1>15 DEF FullInv, StartBatch
      <3>2. op' = op /\ disturbed' = disturbed /\ \A j \in full.list : op[j] = "register"
        BY Zenon, <1>15 DEF FullInv, StartBatch
      <3> QED BY ZenonT(60), <3>1, <3>2 DEF Types, OwnerInv, DisturbedInv
    <2>3. disturbed \subseteq disturbed' /\ catalog' = catalog
      BY Zenon, <1>15 DEF StartBatch, nacosVars
    <2> QED BY Zenon, <1>15, <2>1, <2>2, <2>3, OwnersKept DEF StartBatch, ownerVars
  <1>16. CASE Prune
    <2>1. \A i \in Instances : pc[i] = "idle" /\ pc'[i] = "idle"
      BY Zenon, <1>16 DEF Prune
    <2>2. wireScanned' = wireScanned /\ disturbed' = disturbed
      BY Zenon, <1>16 DEF Prune
    <2>3. \A w \in Wires : catalog'[w] \in Instances =>
                            catalog'[w] = catalog[w] /\ wireOwners'[w] = wireOwners[w]
      BY <1>16, Wiring DEF Prune
    <2>4. \A i \in Instances : ~PastClaim(i)'
      BY Zenon, <2>1 DEF PastClaim, Writing
    <2> QED BY Zenon, <2>1, <2>2, <2>3, <2>4 DEF OwnerInv, DisturbedInv
  <1>17. CASE Restart
    <2>1. (\A i \in Instances : pc'[i] = "idle") /\ wireScanned' = {}
      BY Zenon, <1>17 DEF Restart, AllIdle
    <2>2. \A i \in Instances : ~PastClaim(i)'
      BY ZenonT(60), <2>1 DEF PastClaim, Writing
    <2> QED BY Zenon, <2>1, <2>2 DEF OwnerInv, DisturbedInv
  <1>18. CASE UNCHANGED vars
    BY <1>18 DEF Types, OwnerInv, DisturbedInv, PastClaim, vars, nacosVars, ownerVars,
       healthVars, boundVars
  <1> QED BY SMTT(60), <1>1, <1>2, <1>3, <1>4, <1>5, <1>6, <1>7, <1>8, <1>9,
             <1>10, <1>11, <1>12, <1>13, <1>14, <1>15, <1>16, <1>17, <1>18 DEF Next, Step

-----------------------------------------------------------------------------
\* Only a registration puts an instance into Nacos.
LEMMA Writers ==
    ASSUME IInv, [Next]_vars, NEW w \in Wires, catalog'[w] # catalog[w], catalog'[w] \in Instances
    PROVE  \E i \in Instances : Registers(i) /\ WireOf[i] = w
  <1>0. catalog \in [Wires -> Instances \cup {NoInstance, Foreign}]
    BY Zenon DEF IInv, Types
  <1>1. ASSUME NEW i \in Instances, NEW what \in {"register", "deregister"}, Push(i, what) PROVE FALSE
    BY Zenon, <1>1 DEF Push, nacosVars
  <1>2. ASSUME NEW list \in Snapshots, PushAll(list) PROVE FALSE
    BY Zenon, <1>2 DEF PushAll, nacosVars
  <1>3. ASSUME NEW scope \in Scopes, PushEmpty(scope) PROVE FALSE
    BY Zenon, <1>3 DEF PushEmpty, nacosVars
  <1>4. ASSUME NEW i \in Instances, Acquire(i) PROVE FALSE
    BY Zenon, <1>4 DEF Acquire, nacosVars
  <1>5. ASSUME NEW i \in Instances, RecoverWireOwnership(i) PROVE FALSE
    BY Zenon, <1>5 DEF RecoverWireOwnership, nacosVars
  <1>6. ASSUME NEW i \in Instances, ClaimWireIdentity(i) PROVE FALSE
    BY Zenon, <1>6 DEF ClaimWireIdentity, nacosVars
  <1>7. ASSUME NEW i \in Instances, EnsureHealthCheckDisabled(i) PROVE FALSE
    BY Zenon, <1>7 DEF EnsureHealthCheckDisabled, nacosVars
  <1>8. ASSUME NEW i \in Instances, UpdateCluster(i) PROVE FALSE
    BY Zenon, <1>8 DEF UpdateCluster, nacosVars
  <1>9. ASSUME NEW i \in Instances, Blocked(i) PROVE FALSE
    BY Zenon, <1>9 DEF Blocked, nacosVars
  <1>10. ASSUME NEW i \in Instances, Registers(i) PROVE WireOf[i] = w
    BY Zenon, <1>10, <1>0 DEF Registers
  <1>11. ASSUME NEW i \in Instances, Release(i) PROVE FALSE
    BY Zenon, <1>11 DEF Release, nacosVars
  <1>12. ASSUME NEW i \in Instances, CheckOwner(i) PROVE FALSE
    BY Zenon, <1>12 DEF CheckOwner, nacosVars
  <1>13. ASSUME NEW i \in Instances, Deregisters(i) PROVE FALSE
    BY Zenon, <1>13, <1>0, Wiring DEF Deregisters
  <1>14. ASSUME NEW i \in Instances, Forget(i) PROVE FALSE
    BY Zenon, <1>14 DEF Forget, nacosVars
  <1>15. ASSUME NEW p \in Pairs, StartBatch(p) PROVE FALSE
    BY Zenon, <1>15 DEF StartBatch, nacosVars
  <1>16. CASE Prune
    BY <1>16, <1>0, Wiring DEF Prune
  <1>17. CASE Restart
    BY Zenon, <1>17 DEF Restart, nacosVars
  <1>18. CASE UNCHANGED vars
    BY Zenon, <1>18 DEF vars, nacosVars
  <1> QED BY ZenonT(60), <1>1, <1>2, <1>3, <1>4, <1>5, <1>6, <1>7, <1>8, <1>9,
             <1>10, <1>11, <1>12, <1>13, <1>14, <1>15, <1>16, <1>17, <1>18 DEF Next, Step

\* Only a deregistration, which no full push makes, and the prune remove one.
LEMMA Removers ==
    ASSUME IInv, [Next]_vars, full.phase = "applying",
           NEW w \in Wires, catalog[w] \in Instances, catalog'[w] \notin Instances
    PROVE  Prune
  <1>0. catalog \in [Wires -> Instances \cup {NoInstance, Foreign}]
    BY Zenon DEF IInv, Types
  <1>1. ASSUME NEW i \in Instances, NEW what \in {"register", "deregister"}, Push(i, what) PROVE FALSE
    BY Zenon, <1>1 DEF Push, nacosVars
  <1>2. ASSUME NEW list \in Snapshots, PushAll(list) PROVE FALSE
    BY Zenon, <1>2 DEF PushAll, nacosVars
  <1>3. ASSUME NEW scope \in Scopes, PushEmpty(scope) PROVE FALSE
    BY Zenon, <1>3 DEF PushEmpty, nacosVars
  <1>4. ASSUME NEW i \in Instances, Acquire(i) PROVE FALSE
    BY Zenon, <1>4 DEF Acquire, nacosVars
  <1>5. ASSUME NEW i \in Instances, RecoverWireOwnership(i) PROVE FALSE
    BY Zenon, <1>5 DEF RecoverWireOwnership, nacosVars
  <1>6. ASSUME NEW i \in Instances, ClaimWireIdentity(i) PROVE FALSE
    BY Zenon, <1>6 DEF ClaimWireIdentity, nacosVars
  <1>7. ASSUME NEW i \in Instances, EnsureHealthCheckDisabled(i) PROVE FALSE
    BY Zenon, <1>7 DEF EnsureHealthCheckDisabled, nacosVars
  <1>8. ASSUME NEW i \in Instances, UpdateCluster(i) PROVE FALSE
    BY Zenon, <1>8 DEF UpdateCluster, nacosVars
  <1>9. ASSUME NEW i \in Instances, Blocked(i) PROVE FALSE
    BY Zenon, <1>9 DEF Blocked, nacosVars
  <1>10. ASSUME NEW i \in Instances, Registers(i) PROVE FALSE
    BY Zenon, <1>10, <1>0 DEF Registers
  <1>11. ASSUME NEW i \in Instances, Release(i) PROVE FALSE
    BY Zenon, <1>11 DEF Release, nacosVars
  <1>12. ASSUME NEW i \in Instances, CheckOwner(i) PROVE FALSE
    BY Zenon, <1>12 DEF CheckOwner, nacosVars
  <1>13. ASSUME NEW i \in Instances, Deregisters(i) PROVE FALSE
    BY Zenon, <1>13 DEF IInv, FullInv, Deregisters
  <1>14. ASSUME NEW i \in Instances, Forget(i) PROVE FALSE
    BY Zenon, <1>14 DEF Forget, nacosVars
  <1>15. ASSUME NEW p \in Pairs, StartBatch(p) PROVE FALSE
    BY Zenon, <1>15 DEF StartBatch, nacosVars
  <1>16. CASE Prune
    BY Zenon, <1>16
  <1>17. CASE Restart
    BY Zenon, <1>17 DEF Restart, nacosVars
  <1>18. CASE UNCHANGED vars
    BY Zenon, <1>18 DEF vars, nacosVars
  <1> QED BY ZenonT(60), <1>1, <1>2, <1>3, <1>4, <1>5, <1>6, <1>7, <1>8, <1>9,
             <1>10, <1>11, <1>12, <1>13, <1>14, <1>15, <1>16, <1>17, <1>18 DEF Next, Step

-----------------------------------------------------------------------------
\* A push that is neither updating nor waiting may move to any label that is
\* neither, and the attempts stay as they are.
LEMMA WaitKept ==
    ASSUME Types, WaitInv, NEW i \in Instances, NEW label, label \notin {"update", "wait"},
           pc[i] \notin {"update", "wait"}, Goto(i, label), UNCHANGED healthCheckWait
    PROVE  WaitInv'
  BY WiringAssumption DEF Types, WaitInv, Goto, Pair

\* No step leaves a push waiting for an attempt that is not under way.
LEMMA WaitStep == Types /\ WaitInv /\ [Next]_vars => WaitInv'
  <1> SUFFICES ASSUME Types, WaitInv, [Next]_vars
               PROVE  WaitInv'
    BY Zenon
  <1> USE WiringAssumption
  <1>1. ASSUME NEW i \in Instances, NEW what \in {"register", "deregister"}, Push(i, what) PROVE WaitInv'
    BY Zenon, <1>1, WaitKept DEF Push, healthVars
  <1>2. ASSUME NEW list \in Snapshots, PushAll(list) PROVE WaitInv'
    BY Zenon, <1>2 DEF WaitInv, PushAll, healthVars
  <1>3. ASSUME NEW scope \in Scopes, PushEmpty(scope) PROVE WaitInv'
    BY Zenon, <1>3 DEF WaitInv, PushEmpty, healthVars
  <1>4. ASSUME NEW i \in Instances, Acquire(i) PROVE WaitInv'
    BY Zenon, <1>4, WaitKept DEF Acquire, healthVars
  <1>5. ASSUME NEW i \in Instances, RecoverWireOwnership(i) PROVE WaitInv'
    BY Zenon, <1>5, WaitKept DEF RecoverWireOwnership, Finish, healthVars
  <1>6. ASSUME NEW i \in Instances, ClaimWireIdentity(i) PROVE WaitInv'
    BY Zenon, <1>6, WaitKept DEF ClaimWireIdentity, Finish, healthVars
  <1>7. ASSUME NEW i \in Instances, EnsureHealthCheckDisabled(i) PROVE WaitInv'
    BY <1>7 DEF Types, WaitInv, EnsureHealthCheckDisabled, Goto, Pair
  <1>8. ASSUME NEW i \in Instances, UpdateCluster(i) PROVE WaitInv'
    BY <1>8 DEF Types, WaitInv, UpdateCluster, Attending, Pair
  <1>9. ASSUME NEW i \in Instances, Blocked(i) PROVE WaitInv'
    BY Zenon, <1>9, WaitKept DEF Blocked, Finish, healthVars
  <1>10. ASSUME NEW i \in Instances, Registers(i) PROVE WaitInv'
    BY Zenon, <1>10, WaitKept DEF Registers, healthVars
  <1>11. ASSUME NEW i \in Instances, Release(i) PROVE WaitInv'
    BY Zenon, <1>11, WaitKept DEF Release, Finish, healthVars
  <1>12. ASSUME NEW i \in Instances, CheckOwner(i) PROVE WaitInv'
    BY Zenon, <1>12, WaitKept DEF CheckOwner, Finish, healthVars
  <1>13. ASSUME NEW i \in Instances, Deregisters(i) PROVE WaitInv'
    BY Zenon, <1>13, WaitKept DEF Deregisters, Finish, healthVars
  <1>14. ASSUME NEW i \in Instances, Forget(i) PROVE WaitInv'
    BY Zenon, <1>14, WaitKept DEF Forget, Finish, healthVars
  <1>15. ASSUME NEW p \in Pairs, StartBatch(p) PROVE WaitInv'
    BY <1>15 DEF Types, WaitInv, StartBatch, healthVars, Pair
  <1>16. CASE Prune
    BY Zenon, <1>16 DEF WaitInv, Prune, healthVars
  <1>17. CASE Restart
    BY Zenon, <1>17 DEF WaitInv, Restart, AllIdle, NoAttempts
  <1>18. CASE UNCHANGED vars
    BY Zenon, <1>18 DEF WaitInv, vars, healthVars
  <1> QED BY SMTT(60), <1>1, <1>2, <1>3, <1>4, <1>5, <1>6, <1>7, <1>8, <1>9,
             <1>10, <1>11, <1>12, <1>13, <1>14, <1>15, <1>16, <1>17, <1>18 DEF Next, Step

\* The pushes with a permit are finitely many.
LEMMA PermittedFinite == IsFiniteSet(Permitted) /\ Cardinality(Permitted) \in Nat
  <1>1. Permitted \subseteq Instances
    BY Zenon DEF Permitted
  <1> QED BY Zenon, <1>1, FiniteAssumption, FS_Subset, FS_CardinalityType

\* A step that leaves every push its permit leaves their number.
LEMMA PermitsKept ==
    ASSUME PermitInv, UNCHANGED active, \A j \in Instances : j \in Permitted <=> j \in Permitted'
    PROVE  PermitInv'
  <1>1. Permitted = Permitted'
    BY Zenon DEF Permitted
  <1> QED BY Zenon, <1>1 DEF PermitInv

\* Who takes a permit had none.
LEMMA PermitTaken ==
    ASSUME PermitInv, active' = active + 1, NEW i \in Instances, i \notin Permitted, i \in Permitted',
           \A j \in Instances \ {i} : j \in Permitted <=> j \in Permitted'
    PROVE  PermitInv'
  <1>1. Permitted' = Permitted \cup {i}
    BY Zenon DEF Permitted
  <1> QED BY Zenon, <1>1, PermittedFinite, FS_AddElement DEF PermitInv

\* Who gives a permit back had one.
LEMMA PermitReturned ==
    ASSUME PermitInv, active' = active - 1, NEW i \in Instances, i \in Permitted, i \notin Permitted',
           \A j \in Instances \ {i} : j \in Permitted <=> j \in Permitted'
    PROVE  PermitInv'
  <1>1. Permitted' = Permitted \ {i}
    BY Zenon DEF Permitted
  <1> QED BY Zenon, <1>1, PermittedFinite, FS_RemoveElement DEF PermitInv

\* A push that returns gives back the permit it has, if it has one.
LEMMA FinishPermit ==
    ASSUME Types, PermitInv, NEW i \in Instances, NEW ok, NEW held \in BOOLEAN, Finish(i, ok, held),
           held <=> i \in Permitted, UNCHANGED op
    PROVE  PermitInv'
  <1>1. \A j \in Instances : Batched(j)' <=> Batched(j)
    BY Zenon, FinishTypes DEF Batched
  <1>2. i \notin Permitted' /\ \A j \in Instances \ {i} : j \in Permitted <=> j \in Permitted'
    BY <1>1, FinishTypes DEF Permitted, Types
  <1>3. CASE held
    BY Zenon, <1>2, <1>3, PermitReturned DEF Finish
  <1>4. CASE ~held
    BY Zenon, <1>2, <1>4, PermitsKept DEF Finish
  <1> QED BY Zenon, <1>3, <1>4

\* A push that moves on keeps the permit it has.
LEMMA GotoPermit ==
    ASSUME Types, PermitInv, NEW i \in Instances, NEW label, Goto(i, label),
           i \in Permitted <=> /\ label \notin {"idle", "permit"}
                              /\ ~(Batched(i) /\ label \in {"recover", "claim"}),
           UNCHANGED <<active, op, full>>
    PROVE  PermitInv'
  <1>1. \A j \in Instances : j \in Permitted <=> j \in Permitted'
    BY DEF Types, Goto, Permitted, Batched
  <1> QED BY Zenon, <1>1, PermitsKept

\* No step loses a permit or gives one back twice.
LEMMA PermitStep == Types /\ RegisterInv /\ FullInv /\ PermitInv /\ [Next]_vars => PermitInv'
  <1> SUFFICES ASSUME Types, RegisterInv, FullInv, PermitInv, [Next]_vars
               PROVE  PermitInv'
    BY Zenon
  <1>1. ASSUME NEW i \in Instances, NEW what \in {"register", "deregister"}, Push(i, what) PROVE PermitInv'
    <2>1. \A j \in Instances : j \in Permitted <=> j \in Permitted'
      BY Zenon, <1>1 DEF Types, Push, Goto, Permitted, Batched, NoFull
    <2> QED BY Zenon, <1>1, <2>1, PermitsKept DEF Push
  <1>2. ASSUME NEW list \in Snapshots, PushAll(list) PROVE PermitInv'
    <2>1. \A j \in Instances : j \in Permitted <=> j \in Permitted'
      BY Zenon, <1>2 DEF PushAll, Permitted
    <2> QED BY Zenon, <1>2, <2>1, PermitsKept DEF PushAll
  <1>3. ASSUME NEW scope \in Scopes, PushEmpty(scope) PROVE PermitInv'
    <2>1. \A j \in Instances : j \in Permitted <=> j \in Permitted'
      BY Zenon, <1>3 DEF PushEmpty, Permitted
    <2> QED BY Zenon, <1>3, <2>1, PermitsKept DEF PushEmpty
  <1>4. ASSUME NEW i \in Instances, Acquire(i) PROVE PermitInv'
    <2>1. i \notin Permitted /\ i \in Permitted'
      BY Zenon, <1>4 DEF Acquire, Types, Goto, Permitted, Batched
    <2>2. \A j \in Instances \ {i} : j \in Permitted <=> j \in Permitted'
      BY <1>4 DEF Acquire, Types, Goto, Permitted, Batched
    <2> QED BY Zenon, <1>4, <2>1, <2>2, PermitTaken DEF Acquire
  <1>5. ASSUME NEW i \in Instances, RecoverWireOwnership(i) PROVE PermitInv'
    <2>1. pc[i] = "recover" /\ (i \in Permitted <=> ~Batched(i)) /\ UNCHANGED op
      BY Zenon, <1>5 DEF RecoverWireOwnership, Permitted
    <2>2. CASE Finish(i, FALSE, ~Batched(i))
      BY Zenon, <2>1, <2>2, FinishPermit
    <2>3. CASE Goto(i, IF op[i] = "register" THEN "claim" ELSE "check") /\ UNCHANGED <<active, full>>
      BY Zenon, <2>1, <2>3, GotoPermit DEF Batched
    <2> QED BY Zenon, <1>5, <2>2, <2>3 DEF RecoverWireOwnership
  <1>6. ASSUME NEW i \in Instances, ClaimWireIdentity(i) PROVE PermitInv'
    <2>1. pc[i] = "claim" /\ (i \in Permitted <=> ~Batched(i)) /\ UNCHANGED op
      BY Zenon, <1>6 DEF ClaimWireIdentity, Permitted
    <2>2. CASE Finish(i, FALSE, ~Batched(i))
      BY Zenon, <2>1, <2>2, FinishPermit
    <2>3. CASE Goto(i, IF Batched(i) THEN "permit" ELSE "health") /\ UNCHANGED <<active, full>>
      BY Zenon, <2>1, <2>3, GotoPermit
    <2> QED BY Zenon, <1>6, <2>2, <2>3 DEF ClaimWireIdentity
  <1>7. ASSUME NEW i \in Instances, EnsureHealthCheckDisabled(i) PROVE PermitInv'
    BY Zenon, <1>7, GotoPermit DEF EnsureHealthCheckDisabled, Permitted
  <1>8. ASSUME NEW i \in Instances, UpdateCluster(i) PROVE PermitInv'
    <2>1. \A j \in Instances : j \in Permitted <=> j \in Permitted'
      BY <1>8 DEF UpdateCluster, Attending, Permitted, Batched, Types
    <2> QED BY Zenon, <1>8, <2>1, PermitsKept DEF UpdateCluster
  <1>9. ASSUME NEW i \in Instances, Blocked(i) PROVE PermitInv'
    BY Zenon, <1>9, FinishPermit DEF Blocked, Permitted
  <1>10. ASSUME NEW i \in Instances, Registers(i) PROVE PermitInv'
    BY Zenon, <1>10, GotoPermit DEF Registers, Permitted
  <1>11. ASSUME NEW i \in Instances, Release(i) PROVE PermitInv'
    BY Zenon, <1>11, FinishPermit DEF Release, Permitted
  <1>12. ASSUME NEW i \in Instances, CheckOwner(i) PROVE PermitInv'
    BY Zenon, <1>12, FinishPermit, GotoPermit DEF CheckOwner, Permitted
  <1>13. ASSUME NEW i \in Instances, Deregisters(i) PROVE PermitInv'
    BY Zenon, <1>13, FinishPermit, GotoPermit DEF Deregisters, Permitted
  <1>14. ASSUME NEW i \in Instances, Forget(i) PROVE PermitInv'
    BY Zenon, <1>14, FinishPermit DEF Forget, Permitted
  <1>15. ASSUME NEW p \in Pairs, StartBatch(p) PROVE PermitInv'
    <2>1. \A j \in Instances : j \in Permitted <=> j \in Permitted'
      <3>1. PICK batch \in SUBSET {i \in full.todo : Pair(i) = p} :
                /\ pc' = [i \in Instances |-> IF i \in batch THEN "recover" ELSE pc[i]]
                /\ full' = [full EXCEPT !.todo = @ \ batch]
        BY Zenon, <1>15 DEF StartBatch
      <3>2. full'.phase = "applying" /\ full.phase = "applying" /\ UNCHANGED op
        BY Zenon, <1>15, <3>1 DEF StartBatch, Types
      <3>3. \A j \in Instances : Batched(j)' <=> Batched(j)
        BY Zenon, <3>2 DEF Batched
      <3>4. \A j \in batch : pc[j] = "idle" /\ op[j] = "register"
        BY Zenon, <1>15, <3>1, <3>2 DEF StartBatch, FullInv, Types
      <3>5. \A j \in batch : Batched(j)'
        BY Zenon, <3>2, <3>4 DEF Batched
      <3> QED BY <3>1, <3>3, <3>4, <3>5 DEF Permitted
    <2> QED BY Zenon, <1>15, <2>1, PermitsKept DEF StartBatch
  <1>16. CASE Prune
    <2>1. \A j \in Instances : j \in Permitted <=> j \in Permitted'
      BY Zenon, <1>16 DEF Prune, Permitted
    <2> QED BY Zenon, <1>16, <2>1, PermitsKept DEF Prune
  <1>17. CASE Restart
    <2>1. Permitted' = {} /\ active' = 0
      BY Zenon, <1>17 DEF Restart, AllIdle, Permitted
    <2> QED BY Zenon, <2>1, FS_EmptySet DEF PermitInv
  <1>18. CASE UNCHANGED vars
    BY Zenon, <1>18, PermitsKept DEF vars, Permitted, Batched
  <1> QED BY ZenonT(60), <1>1, <1>2, <1>3, <1>4, <1>5, <1>6, <1>7, <1>8, <1>9,
             <1>10, <1>11, <1>12, <1>13, <1>14, <1>15, <1>16, <1>17, <1>18 DEF Next, Step

-----------------------------------------------------------------------------
\* The invariant holds in every reachable state.
THEOREM InvariantHolds == Spec => []IInv
  <1>1. IInv /\ [Next]_vars => IInv'
    BY Zenon, TypesStep, RegisterStep, ClaimStep, HealthStep, FullStep, OwnerStep DEF IInv
  <1> QED BY InitIInv, <1>1, PTL DEF Spec

\* Nobody is stranded: who waits for a health check waits for an attempt under
\* way, and permits are neither lost nor given back twice
\* (ensureClusterHealthCheckDisabled and pushLimiter, also when calls fail).
THEOREM EveryoneGoesOn == Spec => []NobodyStranded
  <1>1. Init => WaitInv /\ PermitInv
    <2>1. ASSUME Init PROVE WaitInv
      BY Zenon, <2>1, WiringAssumption DEF Init, WaitInv, AllIdle, NoAttempts
    <2>2. ASSUME Init PROVE Permitted = {} /\ active = 0
      BY Zenon, <2>2 DEF Init, AllIdle, Permitted
    <2> QED BY Zenon, <2>1, <2>2, FS_EmptySet DEF PermitInv
  <1>2. IInv /\ WaitInv /\ PermitInv /\ [Next]_vars => (WaitInv /\ PermitInv)'
    BY Zenon, WaitStep, PermitStep DEF IInv
  <1>3. IInv /\ WaitInv /\ PermitInv => NobodyStranded
    BY WiringAssumption DEF IInv, Types, WaitInv, PermitInv, NobodyStranded, Pair
  <1> QED BY InvariantHolds, <1>1, <1>2, <1>3, PTL DEF Spec

\* No push leaves a claim behind, whatever fails (claimWireIdentity).
THEOREM ClaimsAreReturned == Spec => []NoClaimLeftBehind
  <1>1. IInv => NoClaimLeftBehind
    BY SMTT(60) DEF IInv, ClaimInv, PastClaim, NoClaimLeftBehind, Types, Writing
  <1> QED BY InvariantHolds, <1>1, PTL

\* A full push that reports success leaves exactly its list in its clusters
\* (PushAll and pruneScopedWithSkippedScopes).
THEOREM FullPushExact == Spec => []FullPushIsExact
  <1>1. IInv => FullPushIsExact
    BY Zenon DEF IInv
  <1> QED BY InvariantHolds, <1>1, PTL

\* No instance is written before the health check of its cluster is off
\* (ensureClusterHealthCheckDisabled before RegisterInstance).
THEOREM HealthCheckBeforeWrite == Spec => HealthCheckFirst
  <1>1. IInv /\ [Next]_vars => [\A w \in Wires : (catalog'[w] # catalog[w] /\ catalog'[w] \in Instances)
                                    => PairOf[w] \in unchecked]_vars
    <2> SUFFICES ASSUME IInv, [Next]_vars, NEW w \in Wires,
                        catalog'[w] # catalog[w], catalog'[w] \in Instances
                 PROVE  PairOf[w] \in unchecked
      BY Zenon
    <2>1. PICK i \in Instances : Registers(i) /\ WireOf[i] = w
      BY Zenon, Writers
    <2> QED BY Zenon, <2>1 DEF IInv, HealthInv, Registers, Pair
  <1> QED BY InvariantHolds, <1>1, PTL DEF Spec, HealthCheckFirst

\* An undisturbed identity never passes from one source to another
\* (claimWireIdentity and recoverWireOwnership).
THEOREM SourcesKeepTheirIdentities == Spec => NoTakeover
  <1>1. IInv /\ [Next]_vars =>
            [\A w \in Wires :
                (/\ catalog[w] \in Instances /\ catalog'[w] \in Instances
                 /\ SourceOf[catalog[w]] # SourceOf[catalog'[w]]) => w \in disturbed]_vars
    <2> SUFFICES ASSUME IInv, [Next]_vars, NEW w \in Wires, w \notin disturbed,
                        catalog[w] \in Instances, catalog'[w] \in Instances,
                        SourceOf[catalog[w]] # SourceOf[catalog'[w]]
                 PROVE  FALSE
      BY Zenon
    <2>1. PICK i \in Instances : Registers(i) /\ WireOf[i] = w
      BY Zenon, Writers
    <2>2. PastClaim(i) /\ catalog'[w] = i
      BY Zenon, <2>1 DEF IInv, Types, RegisterInv, Registers, PastClaim, Writing
    <2>3. /\ PairOf[w] \in wireScanned
          /\ wireOwners[w] \in {NoSource, SourceOf[i]}
          /\ wireClaims[w] \in {NoSource, SourceOf[i]}
      BY Zenon, <2>1, <2>2 DEF IInv, OwnerInv, Pair
    <2>4. SourceOf[catalog[w]] # NoSource
      BY Zenon, Wiring
    <2>5. PICK j \in Instances : /\ WireOf[j] = w /\ pc[j] = "registered"
                                 /\ SourceOf[j] = SourceOf[catalog[w]]
      BY Zenon, <2>2, <2>3, <2>4 DEF IInv, OwnerInv
    <2>6. PastClaim(j)
      BY Zenon, <2>5 DEF IInv, RegisterInv, PastClaim, Writing
    <2>7. SourceOf[j] \in {wireOwners[w], wireClaims[w]}
      BY Zenon, <2>5, <2>6 DEF IInv, OwnerInv
    <2> QED BY Zenon, <2>2, <2>3, <2>4, <2>5, <2>7
  <1> QED BY InvariantHolds, <1>1, PTL DEF Spec, NoTakeover

\* A full push never empties a pair it has instances for (the skipped scopes
\* of PushAll).
THEOREM FullPushNeverEmpties == Spec => FullPushKeepsService
  <1>1. IInv /\ [Next]_vars =>
            [full.phase = "applying" =>
                \A p \in {Pair(i) : i \in full.list} : HostsOf(p) # {} => HostsOf(p)' # {}]_vars
    <2> SUFFICES ASSUME IInv, [Next]_vars, full.phase = "applying", NEW k \in full.list,
                        HostsOf(Pair(k)) # {}
                 PROVE  HostsOf(Pair(k))' # {}
      BY Zenon
    <2>1. PICK w \in Wires : PairOf[w] = Pair(k) /\ catalog[w] \in Instances
      BY Zenon DEF HostsOf
    <2>2. CASE catalog'[w] \in Instances
      BY Zenon, <2>1, <2>2 DEF HostsOf
    <2>3. CASE catalog'[w] \notin Instances
      <3>1. Prune
        BY Zenon, <2>1, <2>3, Removers DEF IInv
      <3>2. w \in Swept /\ Pair(k) \notin full.failed
        BY <2>1, <2>3, <3>1 DEF Prune, Swept
      <3>3. catalog[WireOf[k]] \in full.list /\ WireOf[k] \in Wires /\ full.list \subseteq Instances
        BY Zenon, <3>1, <3>2, Wiring DEF IInv, Types, FullInv, Prune
      <3>4. WireOf[k] \notin Swept
        BY Zenon DEF Swept, Desired
      <3>5. catalog'[WireOf[k]] = catalog[WireOf[k]]
        BY <3>1, <3>3, <3>4 DEF Prune
      <3> QED BY Zenon, <3>3, <3>5 DEF HostsOf, Pair
    <2> QED BY Zenon, <2>2, <2>3
  <1> QED BY InvariantHolds, <1>1, PTL DEF Spec, FullPushKeepsService
=============================================================================
