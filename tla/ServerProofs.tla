---------------------------- MODULE ServerProofs ----------------------------
(***************************************************************************)
(* For every number of elections, failures, attempts and providers: two    *)
(* startups never overlap, a startup that ended left nothing open, and a   *)
(* node that is no longer leader has told all its providers to stop.       *)
(*                                                                         *)
(* Two chains of ownership make the properties inductive. LockInv: a       *)
(* startup holds lifecycleMu from Lock to Leave. Reachable: the cleanup of *)
(* a published startup is never lost: it is in stopProviderFunc, or the    *)
(* loop has taken it and is about to call it.                              *)
(*                                                                         *)
(* The second half is about the Nacos client the server is built with, for *)
(* every environment, listing and snapshot: the readiness check leaves     *)
(* nothing behind, a listing that is answered is whole, and the batches    *)
(* hold every item once and in order.                                      *)
(***************************************************************************)
EXTENDS ServerLifecycle, TLAPS

\* A startup between Lock and Leave holds lifecycleMu.
LockInv ==
    \A i \in Startups: pc[i] \notin {"idle", "lock", "done"} => lifecycleMu = i

\* What a startup may hold open at each stage; only the stage that builds the
\* Nacos sink holds an admin client no sink owns.
OpenInv ==
    \A i \in Startups:
        /\ pc[i] \in {"idle", "lock", "stop", "cancel", "begin", "dial", "clear", "done"}
           => open[i] = {}
        /\ pc[i] # "sink" /\ "admin" \in open[i] => "nacos" \in open[i]

\* Providers run only while their startup waits for them.
RunInv ==
    \A i \in Startups: running[i] # {} => pc[i] = "run"

Serving(i) == pc[i] \in {"launch", "run"}

\* Nothing is published while a new startup is about to begin.
PublishInv ==
    /\ PublishedIsStoppable
    /\ \A i \in Startups: pc[i] \in {"cancel", "begin"} => published = None

\* The loop has taken the stop function of startup i and is about to call it.
LoopWillCancel(i) == loop \in {"cancel", "quitCancel"} /\ loopCancel.startup = i

\* The stop function of a startup that serves is never lost.
Reachable ==
    \A i \in Startups:
        Serving(i) /\ i \notin cancelled => stopProviderFunc.startup = i \/ LoopWillCancel(i)

\* Without leadership, whoever took it away is still on its way to that function.
ToldToStop ==
    \A i \in Startups:
        /\ ~isLeader /\ Serving(i) /\ i \notin cancelled
        => \/ loop \in {"lost", "quit"}
           \/ LoopWillCancel(i)
           \/ stopper = "cancel" /\ stopCancel.startup = i

IInv ==
    /\ TypeOK /\ LockInv /\ OpenInv /\ RunInv /\ PublishInv /\ Reachable /\ ToldToStop

-----------------------------------------------------------------------------
\* No startup is the number that stands for none.
LEMMA StartupsExist == None \notin Startups
  BY BoundsAssumption DEF None, Startups

\* The stop function of a server that serves nothing is a stop function.
LEMMA NoFuncType == NoFunc \in StopFuncs /\ NoFunc.startup = None
  BY Zenon DEF NoFunc, StopFuncs

\* What the channel operations keep, whatever the channel carries.
LEMMA ChannelType ==
    ASSUME NEW S, NEW e \in S, NEW q \in Seq(S)
    PROVE  /\ <<>> \in Seq(S) /\ <<e>> \in Seq(S)
           /\ Append(q, e) \in Seq(S)
           /\ q # <<>> => Head(q) \in S /\ Tail(q) \in Seq(S)
  OBVIOUS

\* The initial state satisfies the invariant.
LEMMA InitIInv == Init => IInv
<1> SUFFICES ASSUME Init PROVE IInv
  BY Zenon
<1>1. ElectionTypeOK
  <2>1. TRUE \in BOOLEAN /\ <<>> \in Seq(BOOLEAN)
    OBVIOUS
  <2>2. <<TRUE>> \in Seq(BOOLEAN)
    BY <2>1, ChannelType, Zenon
  <2>3. leaderChCh \in Seq(BOOLEAN)
    BY <2>1, <2>2, Zenon DEF Init
  <2>4. wins \in 0..MaxWins
    BY BoundsAssumption DEF Init
  <2>5. candidate \in [pc: {"poll", "campaign"}, session: BOOLEAN, known: BOOLEAN,
                       value: BOOLEAN]
    BY Zenon DEF Init
  <2>6. notifying \in [BOOLEAN -> Nat]
    BY Zenon DEF Init
  <2> QED
    BY Zenon, <2>3, <2>4, <2>5, <2>6 DEF Init, ElectionTypeOK
<1>2. ServerTypeOK
  BY Zenon, NoFuncType DEF Init, ServerTypeOK
<1>3. StartupTypeOK
  BY NoFuncType, BoundsAssumption DEF Init, StartupTypeOK, StartPCs
<1>4. LockInv /\ OpenInv /\ RunInv
  BY Zenon DEF Init, LockInv, OpenInv, RunInv
<1>5. PublishInv
  BY Zenon DEF Init, PublishInv, PublishedIsStoppable
<1>6. Reachable /\ ToldToStop
  BY Zenon DEF Init, Reachable, ToldToStop, Serving
<1> QED
  BY Zenon, <1>1, <1>2, <1>3, <1>4, <1>5, <1>6 DEF IInv, TypeOK

-----------------------------------------------------------------------------
\* Every step keeps the types, group by group.
LEMMA ElectionTypeStep == ElectionTypeOK /\ [Next]_vars => ElectionTypeOK'
<1> SUFFICES ASSUME ElectionTypeOK, [Next]_vars PROVE ElectionTypeOK'
  BY Zenon
<1> USE DEF ElectionTypeOK, electionVars, callerVars, leaderVars
<1>1. CASE LeaseExpires
  BY Zenon, <1>1 DEF LeaseExpires, serverVars
<1>2. CASE Poll
  <2>1. notifying' \in [BOOLEAN -> Nat]
    <3>1. IsLeader \in BOOLEAN
      BY Zenon DEF IsLeader
    <3> QED
      BY <1>2, <3>1 DEF Poll
  <2>2. candidate' \in [pc: {"poll", "campaign"}, session: BOOLEAN, known: BOOLEAN,
                        value: BOOLEAN]
    <3>1. CASE candidate' = [candidate EXCEPT !.known = TRUE, !.value = TRUE]
      BY Zenon, <3>1
    <3>2. CASE Rebuild
      BY <3>2 DEF Rebuild
    <3> QED
      BY <1>2, <3>1, <3>2, Zenon DEF Poll
  <2>3. holdsKey' \in BOOLEAN
    BY Zenon, <1>2 DEF Poll, Rebuild
  <2> QED
    BY Zenon, <1>2, <2>1, <2>2, <2>3 DEF Poll, serverVars
<1>3. CASE Campaign
  <2>1. wins' = wins \/ (wins < MaxWins /\ wins' = wins + 1)
    BY <1>3, Zenon DEF Campaign
  <2>2. wins' \in 0..MaxWins
    BY <2>1, BoundsAssumption
  <2> QED
    BY Zenon, <1>3, <2>2 DEF Campaign, serverVars
<1>4. ASSUME NEW value \in BOOLEAN, Notify(value) PROVE ElectionTypeOK'
  <2>1. leaderChCh' \in Seq(BOOLEAN)
    <3>1. leaderChCh \in Seq(BOOLEAN)
      BY Zenon
    <3>2. Append(leaderChCh, value) \in Seq(BOOLEAN)
      BY <3>1, ChannelType, Zenon
    <3>3. leaderChCh' = Append(leaderChCh, value) \/ leaderChCh' = leaderChCh
      BY <1>4, Zenon DEF Notify
    <3> QED
      BY <3>1, <3>2, <3>3, Zenon
  <2> QED
    BY SMTT(60), <1>4, <2>1 DEF Notify
<1>5. CASE Receive
  <2>1. leaderChCh # <<>> /\ leaderChCh' = Tail(leaderChCh)
    BY Zenon, <1>5 DEF Receive
  <2>2. leaderChCh' \in Seq(BOOLEAN)
    BY <2>1, ChannelType, TRUE \in BOOLEAN, Zenon
  <2> QED
    BY Zenon, <1>5, <2>2 DEF Receive
<1>6. CASE Quit
  BY Zenon, <1>6 DEF Quit
<1>7. CASE LoopStops \/ LoopCancels \/ Stop \/ StopCancels
  BY Zenon, <1>7 DEF LoopStops, LoopCancels, Stop, StopCancels
<1>8. ASSUME NEW i \in Startups, StartStep(i) PROVE ElectionTypeOK'
  <2>1. UNCHANGED stageVars
    BY Zenon, <1>8 DEF StartStep, Lock, StopOld, CancelOld, Begin, Dial, Registry, Policy, Sink,
                       Assemble, Publish, Launch, Finish, ClearStartup
  <2> QED BY Zenon, <2>1 DEF stageVars
<1>9. ASSUME NEW i \in Startups, NEW p \in ProviderNames, ProviderReturns(i, p)
      PROVE  ElectionTypeOK'
  BY Zenon, <1>9 DEF ProviderReturns, stageVars
<1>10. CASE UNCHANGED vars
  BY Zenon, <1>10 DEF vars
<1> QED
  BY Zenon, <1>1, <1>2, <1>3, <1>4, <1>5, <1>6, <1>7, <1>8, <1>9, <1>10 DEF Next

\* Every step keeps the types of what the server, its loop and its stopper hold.
LEMMA ServerTypeStep == TypeOK /\ [Next]_vars => ServerTypeOK'
<1> SUFFICES ASSUME TypeOK, [Next]_vars PROVE ServerTypeOK'
  BY Zenon
<1> USE NoFuncType DEF TypeOK, ServerTypeOK, callerVars, leaderVars, serviceVars
<1>1. CASE LeaseExpires \/ Poll \/ Campaign
  BY <1>1 DEF LeaseExpires, Poll, Campaign, serverVars
<1>2. ASSUME NEW value \in BOOLEAN, Notify(value) PROVE ServerTypeOK'
  BY <1>2 DEF Notify
<1>3. CASE Receive \/ Quit \/ Stop
  BY Zenon, <1>3 DEF Receive, Quit, Stop
<1>4. CASE LoopStops
  BY <1>4 DEF LoopStops, StopProviders
<1>5. CASE LoopCancels \/ StopCancels
  BY <1>5 DEF LoopCancels, StopCancels
<1>6. ASSUME NEW i \in Startups, StartStep(i) PROVE ServerTypeOK'
  <2> USE DEF stageVars
  <2>1. CASE Lock(i) \/ StopOld(i) \/ CancelOld(i)
    BY <2>1 DEF Lock, StopOld, StopProviders, CancelOld
  <2>2. CASE Begin(i)
    BY <2>2 DEF Begin, Leave, StopFuncs
  <2>3. CASE Dial(i) \/ Registry(i) \/ Policy(i) \/ Sink(i) \/ Assemble(i)
    BY <2>3 DEF Dial, Registry, Policy, Sink, Assemble
  <2>4. CASE Publish(i)
    BY <2>4 DEF Publish, Leave, StopFuncs
  <2>5. CASE Launch(i) \/ Finish(i)
    BY <2>5 DEF Launch, Finish
  <2>6. CASE ClearStartup(i)
    BY Zenon, <2>6 DEF ClearStartup, Leave
  <2> QED
    BY Zenon, <1>6, <2>1, <2>2, <2>3, <2>4, <2>5, <2>6 DEF StartStep
<1>7. ASSUME NEW i \in Startups, NEW p \in ProviderNames, ProviderReturns(i, p)
      PROVE  ServerTypeOK'
  BY <1>7 DEF ProviderReturns, stageVars
<1>8. CASE UNCHANGED vars
  BY <1>8 DEF vars
<1> QED
  BY Zenon, <1>1, <1>2, <1>3, <1>4, <1>5, <1>6, <1>7, <1>8 DEF Next

\* What a call of a stop function, and a cleanup, do to the contexts.
LEMMA CallType ==
    ASSUME StartupTypeOK, NEW f \in StopFuncs, Call(f)
    PROVE  /\ cancelled' \subseteq Startups /\ cancelled \subseteq cancelled'
           /\ open' \in [Startups -> SUBSET Resources]
           /\ running' = running
           /\ \A i \in Startups: open'[i] = open[i] \/ open'[i] = {}
                                \/ ("nacos" \notin open[i] /\ open'[i] = open[i] \cap {"admin"})
           /\ f.startup # None => f.startup \in cancelled'
<1>1. CASE f = NoFunc
  BY Zenon, <1>1, NoFuncType DEF StartupTypeOK, Call, NoFunc
<1>2. CASE f # NoFunc
  <2>1. f.startup \in Startups
    BY Zenon, <1>2 DEF StopFuncs
  <2> QED
    BY Zenon, <1>2, <2>1 DEF StartupTypeOK, Call, AfterCleanup
<1> QED
  BY Zenon, <1>1, <1>2

\* What a cleanup leaves open is a set of resources again.
LEMMA CleanupType ==
    ASSUME StartupTypeOK, NEW i \in Startups, Cleanup(i)
    PROVE  /\ cancelled' = cancelled \cup {i}
           /\ open' \in [Startups -> SUBSET Resources]
           /\ \A j \in Startups: j # i => open'[j] = open[j]
           /\ open'[i] = {} \/ ("nacos" \notin open[i] /\ open'[i] = open[i] \cap {"admin"})
  BY Zenon DEF StartupTypeOK, Cleanup, AfterCleanup

\* Every step keeps the types of what the startups hold.
LEMMA StartupTypeStep == TypeOK /\ [Next]_vars => StartupTypeOK'
<1> SUFFICES ASSUME TypeOK, [Next]_vars PROVE StartupTypeOK'
  BY Zenon
<1> USE DEF TypeOK, StartupTypeOK, contextVars, localVars
<1>1. CASE LeaseExpires \/ Poll \/ Campaign
  BY Zenon, <1>1 DEF LeaseExpires, Poll, Campaign, serverVars
<1>2. ASSUME NEW value \in BOOLEAN, Notify(value) PROVE StartupTypeOK'
  BY Zenon, <1>2 DEF Notify
<1>3. CASE Receive
  BY Zenon, <1>3 DEF Receive, StartPCs
<1>4. CASE Quit \/ Stop \/ LoopStops
  BY Zenon, <1>4 DEF Quit, Stop, LoopStops
<1>5. CASE LoopCancels \/ StopCancels
  BY Zenon, <1>5, CallType DEF LoopCancels, StopCancels, ServerTypeOK
<1>6. ASSUME NEW i \in Startups, StartStep(i) PROVE StartupTypeOK'
  <2>1. CASE Lock(i) \/ Launch(i)
    BY <2>1 DEF Lock, Launch, Goto, StartPCs
  <2>2. CASE StopOld(i)
    BY Zenon, <2>2 DEF StopOld, Goto, StartPCs, ServerTypeOK
  <2>3. CASE CancelOld(i)
    <3>1. took[i] \in StopFuncs
      BY Zenon
    <3> QED
      BY Zenon, <2>3, <3>1, CallType, NoFuncType DEF CancelOld, Goto, StartPCs
  <2>4. CASE Begin(i)
    BY <2>4 DEF Begin, Leave, Goto, StartPCs, ServerTypeOK
  <2>5. CASE Dial(i)
    BY <2>5, BoundsAssumption DEF Dial, Goto, StartPCs, Resources
  <2>6. ASSUME FailStage(i) PROVE /\ pc' \in [Startups -> StartPCs]
                                  /\ cancelled' \subseteq Startups
                                  /\ open' \in [Startups -> SUBSET Resources]
                                  /\ failures' \in 0..MaxFailures
    BY <2>6, CleanupType, BoundsAssumption DEF FailStage, Goto, StartPCs
  <2>7. ASSUME NEW built \in SUBSET Resources, NEW next \in StartPCs, PassStage(i, built, next)
        PROVE  /\ pc' \in [Startups -> StartPCs]
               /\ open' \in [Startups -> SUBSET Resources]
               /\ UNCHANGED <<cancelled, failures>>
    BY Zenon, <2>7 DEF PassStage, Goto
  <2>8. CASE Registry(i)
    BY Zenon, <2>6, <2>7, <2>8 DEF Registry, StartPCs, Resources
  <2>9. CASE Policy(i)
    BY Zenon, <2>6, <2>7, <2>9 DEF Policy, StartPCs, Resources
  <2>10. CASE Sink(i)
    <3>1. CASE FailSink(i)
      BY <2>10, <3>1, BoundsAssumption DEF Sink, FailSink, Goto, StartPCs
    <3>2. CASE PassStage(i, {"nacos"}, "assemble")
      BY Zenon, <2>7, <2>10, <3>2 DEF Sink, StartPCs, Resources
    <3> QED
      BY Zenon, <2>10, <3>1, <3>2 DEF Sink
  <2>11. CASE Assemble(i)
    BY Zenon, <2>6, <2>7, <2>11 DEF Assemble, StartPCs, Resources
  <2>12. CASE Publish(i)
    BY <2>12, CleanupType DEF Publish, Leave, Goto, StartPCs
  <2>13. CASE Finish(i)
    BY <2>13, CleanupType DEF Finish, Goto, StartPCs
  <2>14. CASE ClearStartup(i)
    BY Zenon, <2>14 DEF ClearStartup, Leave, Goto, StartPCs
  <2> QED
    BY ZenonT(60), <1>6, <2>1, <2>2, <2>3, <2>4, <2>5, <2>8, <2>9, <2>10, <2>11, <2>12, <2>13, <2>14
    DEF StartStep
<1>7. ASSUME NEW i \in Startups, NEW p \in ProviderNames, ProviderReturns(i, p)
      PROVE  StartupTypeOK'
  BY <1>7, CleanupType, BoundsAssumption DEF ProviderReturns
<1>8. CASE UNCHANGED vars
  BY Zenon, <1>8 DEF vars
<1> QED
  BY Zenon, <1>1, <1>2, <1>3, <1>4, <1>5, <1>6, <1>7, <1>8 DEF Next

-----------------------------------------------------------------------------
\* lifecycleMu has one holder, so a step of one startup leaves the others alone.
LEMMA LockStep == TypeOK /\ LockInv /\ [Next]_vars => LockInv'
<1> SUFFICES ASSUME TypeOK, LockInv, [Next]_vars PROVE LockInv'
  BY Zenon
<1> USE StartupsExist DEF TypeOK, StartupTypeOK, LockInv
<1>1. CASE UNCHANGED <<pc, lifecycleMu>>
  BY Zenon, <1>1
<1>2. CASE Receive
  BY Zenon, <1>2 DEF Receive
<1>3. ASSUME NEW i \in Startups, StartStep(i) PROVE LockInv'
  <2>1. CASE Lock(i)
    BY Zenon, <2>1 DEF Lock, Goto
  <2>2. CASE StopOld(i) \/ CancelOld(i) \/ Launch(i) \/ Finish(i)
    BY Zenon, <2>2 DEF StopOld, CancelOld, Launch, Finish, Goto
  <2>3. CASE Begin(i)
    BY Zenon, <2>3 DEF Begin, Leave, Goto
  <2>4. CASE Dial(i)
    BY Zenon, <2>4 DEF Dial, Goto
  <2>5. CASE Registry(i) \/ Policy(i) \/ Sink(i) \/ Assemble(i)
    BY Zenon, <2>5 DEF Registry, Policy, Sink, Assemble, PassStage, FailStage, FailSink, Goto
  <2>6. CASE Publish(i)
    BY <2>6 DEF Publish, Leave, Goto
  <2>7. CASE ClearStartup(i)
    BY Zenon, <2>7 DEF ClearStartup, Leave, Goto
  <2> QED
    BY Zenon, <1>3, <2>1, <2>2, <2>3, <2>4, <2>5, <2>6, <2>7 DEF StartStep
<1>4. ASSUME NEW i \in Startups, NEW p \in ProviderNames, ProviderReturns(i, p) PROVE LockInv'
  BY Zenon, <1>1, <1>4 DEF ProviderReturns
<1>5. ASSUME NEW value \in BOOLEAN, Notify(value) PROVE LockInv'
  BY Zenon, <1>1, <1>5 DEF Notify
<1> QED
  BY Zenon, <1>1, <1>2, <1>3, <1>4, <1>5 DEF Next, LeaseExpires, Poll, Campaign, Quit, LoopStops,
     LoopCancels, Stop, StopCancels, serverVars, vars

\* What a startup holds open at each stage.
LEMMA OpenStep == TypeOK /\ OpenInv /\ [Next]_vars => OpenInv'
<1> SUFFICES ASSUME TypeOK, OpenInv, [Next]_vars PROVE OpenInv'
  BY Zenon
<1> USE DEF TypeOK, StartupTypeOK, OpenInv
<1>1. CASE UNCHANGED <<pc, open>>
  BY Zenon, <1>1
<1>2. CASE Receive
  BY Zenon, <1>2 DEF Receive, contextVars
<1>3. CASE LoopCancels \/ StopCancels
  <2>1. pc' = pc
    BY Zenon, <1>3 DEF LoopCancels, StopCancels
  <2>2. \A i \in Startups: \/ open'[i] = open[i] \/ open'[i] = {}
                           \/ "nacos" \notin open[i] /\ open'[i] = open[i] \cap {"admin"}
    BY Zenon, <1>3, CallType DEF LoopCancels, StopCancels, ServerTypeOK
  <2> QED
    BY Zenon, <2>1, <2>2
<1>4. ASSUME NEW i \in Startups, StartStep(i) PROVE OpenInv'
  <2>1. CASE Lock(i) \/ StopOld(i) \/ Launch(i)
    BY <2>1 DEF Lock, StopOld, Launch, Goto, contextVars
  <2>2. CASE CancelOld(i)
    <3>1. took[i] \in StopFuncs
      BY Zenon
    <3>2. \A j \in Startups: \/ open'[j] = open[j] \/ open'[j] = {}
                             \/ "nacos" \notin open[j] /\ open'[j] = open[j] \cap {"admin"}
      BY Zenon, <2>2, <3>1, CallType DEF CancelOld
    <3> QED
      BY <2>2, <3>2 DEF CancelOld, Goto
  <2>3. CASE Begin(i)
    BY <2>3 DEF Begin, Leave, Goto
  <2>4. CASE Dial(i)
    BY <2>4 DEF Dial, Goto
  <2>5. CASE Registry(i)
    BY <2>5, CleanupType DEF Registry, PassStage, FailStage, Goto
  <2>6. CASE Policy(i)
    BY <2>6, CleanupType DEF Policy, PassStage, FailStage, Goto
  <2>7. CASE Sink(i)
    BY <2>7 DEF Sink, PassStage, FailSink, Goto
  <2>8. CASE Assemble(i)
    BY <2>8, CleanupType DEF Assemble, PassStage, FailStage, Goto
  <2>9. CASE Publish(i)
    BY <2>9, CleanupType DEF Publish, Leave, Goto
  <2>10. CASE Finish(i)
    BY <2>10, CleanupType DEF Finish, Goto
  <2>11. CASE ClearStartup(i)
    BY Zenon, <2>11 DEF ClearStartup, Leave, Goto
  <2> QED
    BY ZenonT(60), <1>4, <2>1, <2>2, <2>3, <2>4, <2>5, <2>6, <2>7, <2>8, <2>9, <2>10, <2>11 DEF StartStep
<1>5. ASSUME NEW i \in Startups, NEW p \in ProviderNames, ProviderReturns(i, p) PROVE OpenInv'
  BY <1>5, CleanupType DEF ProviderReturns
<1>6. ASSUME NEW value \in BOOLEAN, Notify(value) PROVE OpenInv'
  BY Zenon, <1>1, <1>6 DEF Notify, contextVars
<1> QED
  BY Zenon, <1>1, <1>2, <1>3, <1>4, <1>5, <1>6 DEF Next, LeaseExpires, Poll, Campaign, Quit, LoopStops,
     Stop, serverVars, contextVars, vars

\* Providers run only in the startup that waits for them.
LEMMA RunStep == TypeOK /\ RunInv /\ [Next]_vars => RunInv'
<1> SUFFICES ASSUME TypeOK, RunInv, [Next]_vars PROVE RunInv'
  BY Zenon
<1> USE DEF TypeOK, StartupTypeOK, RunInv
<1>1. CASE UNCHANGED <<pc, running>>
  BY Zenon, <1>1
<1>2. CASE Receive
  BY Zenon, <1>2 DEF Receive, contextVars
<1>3. CASE LoopCancels \/ StopCancels
  BY Zenon, <1>1, <1>3 DEF LoopCancels, StopCancels, Call
<1>4. ASSUME NEW i \in Startups, StartStep(i) PROVE RunInv'
  <2>1. CASE Launch(i)
    BY Zenon, <2>1 DEF Launch, Goto
  <2>2. CASE Lock(i) \/ StopOld(i) \/ CancelOld(i) \/ Finish(i)
    BY Zenon, <2>2 DEF Lock, StopOld, CancelOld, Call, Finish, Goto, contextVars
  <2>3. CASE Begin(i) \/ Publish(i) \/ ClearStartup(i)
    BY Zenon, <2>3 DEF Begin, Publish, ClearStartup, Leave, Goto
  <2>4. CASE Dial(i)
    BY Zenon, <2>4 DEF Dial, Goto
  <2>5. CASE Registry(i) \/ Policy(i) \/ Sink(i) \/ Assemble(i)
    BY Zenon, <2>5 DEF Registry, Policy, Sink, Assemble, PassStage, FailStage, FailSink, Goto
  <2> QED
    BY Zenon, <1>4, <2>1, <2>2, <2>3, <2>4, <2>5 DEF StartStep
<1>5. ASSUME NEW i \in Startups, NEW p \in ProviderNames, ProviderReturns(i, p) PROVE RunInv'
  BY Zenon, <1>5 DEF ProviderReturns
<1>6. ASSUME NEW value \in BOOLEAN, Notify(value) PROVE RunInv'
  BY Zenon, <1>1, <1>6 DEF Notify, contextVars
<1> QED
  BY Zenon, <1>1, <1>2, <1>3, <1>4, <1>5, <1>6 DEF Next, LeaseExpires, Poll, Campaign, Quit, LoopStops,
     Stop, serverVars, contextVars, vars

\* Publishing and stopping change s.Providers and stopProviderFunc together.
LEMMA PublishStep == TypeOK /\ LockInv /\ PublishInv /\ [Next]_vars => PublishInv'
<1> SUFFICES ASSUME TypeOK, LockInv, PublishInv, [Next]_vars PROVE PublishInv'
  BY Zenon
<1> USE StartupsExist DEF TypeOK, StartupTypeOK, PublishInv, PublishedIsStoppable
<1>1. CASE UNCHANGED <<pc, published, stopProviderFunc>>
  BY Zenon, <1>1
<1>2. CASE Receive
  BY Zenon, <1>2 DEF Receive, serviceVars
<1>3. CASE LoopStops
  BY Zenon, <1>3 DEF LoopStops, StopProviders
<1>4. ASSUME NEW i \in Startups, StartStep(i) PROVE PublishInv'
  <2>1. CASE Lock(i) \/ CancelOld(i) \/ Launch(i) \/ Finish(i)
    BY Zenon, <2>1 DEF Lock, CancelOld, Launch, Finish, Goto, serviceVars
  <2>2. CASE StopOld(i)
    BY Zenon, <2>2 DEF StopOld, StopProviders, Goto
  <2>3. CASE Begin(i)
    BY Zenon, <2>3 DEF Begin, Leave, Goto, serviceVars
  <2>4. CASE Dial(i)
    BY ZenonT(60), <2>4 DEF Dial, Goto, serviceVars
  <2>5. CASE Registry(i) \/ Policy(i) \/ Sink(i) \/ Assemble(i)
    BY <2>5 DEF Registry, Policy, Sink, Assemble, PassStage, FailStage, FailSink, Goto,
                serviceVars
  <2>6. CASE Publish(i)
    BY Zenon, <2>6 DEF Publish, Leave, Goto, serviceVars, LockInv
  <2>7. CASE ClearStartup(i)
    BY Zenon, <2>7 DEF ClearStartup, Leave, Goto, serviceVars
  <2> QED
    BY Zenon, <1>4, <2>1, <2>2, <2>3, <2>4, <2>5, <2>6, <2>7 DEF StartStep
<1>5. ASSUME NEW i \in Startups, NEW p \in ProviderNames, ProviderReturns(i, p) PROVE PublishInv'
  BY Zenon, <1>1, <1>5 DEF ProviderReturns, serviceVars
<1>6. ASSUME NEW value \in BOOLEAN, Notify(value) PROVE PublishInv'
  BY Zenon, <1>1, <1>6 DEF Notify, serviceVars
<1> QED
  BY Zenon, <1>1, <1>2, <1>3, <1>4, <1>5, <1>6 DEF Next, LeaseExpires, Poll, Campaign, Quit, Stop,
     LoopCancels, StopCancels, serverVars, serviceVars, vars

\* The stop function of a serving startup is handed on, never dropped.
LEMMA ReachableStep == TypeOK /\ LockInv /\ Reachable /\ [Next]_vars => Reachable'
<1> SUFFICES ASSUME TypeOK, LockInv, Reachable, [Next]_vars PROVE Reachable'
  BY Zenon
<1> USE StartupsExist DEF TypeOK, StartupTypeOK, Reachable, Serving, LoopWillCancel
<1>1. CASE UNCHANGED <<pc, cancelled, stopProviderFunc, loop, loopCancel>>
  BY Zenon, <1>1
<1>2. CASE Receive
  BY Zenon, <1>2 DEF Receive, serviceVars, contextVars
<1>3. CASE Quit
  BY Zenon, <1>3 DEF Quit, serviceVars, contextVars
<1>4. CASE LoopStops
  BY Zenon, <1>4 DEF LoopStops, StopProviders, contextVars
<1>5. CASE LoopCancels
  <2>1. /\ cancelled \subseteq cancelled'
        /\ loopCancel.startup # None => loopCancel.startup \in cancelled'
    BY Zenon, <1>5, CallType DEF LoopCancels, ServerTypeOK
  <2> QED
    BY Zenon, <1>5, <2>1 DEF LoopCancels, serviceVars
<1>6. CASE StopCancels
  <2>1. cancelled \subseteq cancelled'
    BY Zenon, <1>6, CallType DEF StopCancels, ServerTypeOK
  <2> QED
    BY Zenon, <1>6, <2>1 DEF StopCancels, serviceVars
<1>7. ASSUME NEW i \in Startups, StartStep(i) PROVE Reachable'
  <2> USE DEF LockInv, stageVars, callerVars
  <2>1. CASE Lock(i) \/ Launch(i)
    BY ZenonT(60), <2>1 DEF Lock, Launch, Goto, serviceVars, contextVars
  <2>2. CASE StopOld(i)
    BY Zenon, <2>2 DEF StopOld, StopProviders, Goto, contextVars
  <2>3. CASE CancelOld(i)
    <3>1. took[i] \in StopFuncs
      BY Zenon
    <3>2. cancelled \subseteq cancelled'
      BY Zenon, <2>3, <3>1, CallType DEF CancelOld
    <3> QED
      BY Zenon, <2>3, <3>2 DEF CancelOld, Goto, serviceVars
  <2>4. CASE Begin(i)
    BY <2>4 DEF Begin, Leave, Goto, serviceVars
  <2>5. CASE Dial(i)
    BY SMTT(60), <2>5 DEF Dial, Goto, serviceVars
  <2>6. CASE Registry(i) \/ Policy(i) \/ Sink(i) \/ Assemble(i)
    BY <2>6 DEF Registry, Policy, Sink, Assemble, PassStage, FailStage, FailSink, Cleanup, Goto,
                serviceVars
  <2>7. CASE Publish(i)
    BY <2>7 DEF Publish, Cleanup, Leave, Goto, serviceVars
  <2>8. CASE Finish(i)
    BY Zenon, <2>8 DEF Finish, Cleanup, Goto, serviceVars
  <2>9. CASE ClearStartup(i)
    BY Zenon, <2>9 DEF ClearStartup, Leave, Goto, serviceVars
  <2> QED
    BY Zenon, <1>7, <2>1, <2>2, <2>3, <2>4, <2>5, <2>6, <2>7, <2>8, <2>9 DEF StartStep
<1>8. ASSUME NEW i \in Startups, NEW p \in ProviderNames, ProviderReturns(i, p) PROVE Reachable'
  BY Zenon, <1>8 DEF ProviderReturns, Cleanup, stageVars, callerVars, serviceVars
<1>9. ASSUME NEW value \in BOOLEAN, Notify(value) PROVE Reachable'
  BY Zenon, <1>1, <1>9 DEF Notify, callerVars, serviceVars, contextVars
<1> QED
  BY ZenonT(60), <1>1, <1>2, <1>3, <1>4, <1>5, <1>6, <1>7, <1>8, <1>9 DEF Next, LeaseExpires, Poll, Campaign,
     Stop, serverVars, callerVars, serviceVars, contextVars, vars

\* Whoever takes leadership away goes on to the stop function.
LEMMA ToldStep == TypeOK /\ LockInv /\ Reachable /\ ToldToStop /\ [Next]_vars => ToldToStop'
<1> SUFFICES ASSUME TypeOK, LockInv, Reachable, ToldToStop, [Next]_vars PROVE ToldToStop'
  BY Zenon
<1> USE StartupsExist DEF TypeOK, StartupTypeOK, Reachable, ToldToStop, Serving, LoopWillCancel
<1>1. CASE UNCHANGED <<pc, cancelled, isLeader, loop, loopCancel, stopper, stopCancel>>
  BY Zenon, <1>1
<1>2. CASE Receive
  <2>1. \/ UNCHANGED <<isLeader, loop, pc>>
        \/ isLeader' = TRUE
        \/ loop' = "lost"
    BY <1>2, Zenon DEF Receive
  <2>2. UNCHANGED <<cancelled, loopCancel, stopper, stopCancel>>
    BY Zenon, <1>2 DEF Receive, contextVars
  <2> QED
    BY Zenon, <1>1, <2>1, <2>2
<1>3. CASE Quit
  BY Zenon, <1>3 DEF Quit, contextVars
<1>4. CASE LoopStops
  BY Zenon, <1>4 DEF LoopStops, leaderVars, contextVars
<1>5. CASE LoopCancels
  <2>1. /\ cancelled \subseteq cancelled'
        /\ loopCancel.startup # None => loopCancel.startup \in cancelled'
    BY Zenon, <1>5, CallType DEF LoopCancels, ServerTypeOK
  <2> QED
    BY Zenon, <1>5, <2>1 DEF LoopCancels, leaderVars
<1>6. CASE Stop
  BY Zenon, <1>6 DEF Stop, contextVars
<1>7. CASE StopCancels
  <2>1. /\ cancelled \subseteq cancelled'
        /\ stopCancel.startup # None => stopCancel.startup \in cancelled'
    BY Zenon, <1>7, CallType DEF StopCancels, ServerTypeOK
  <2> QED
    BY <1>7, <2>1 DEF StopCancels, leaderVars
<1>8. ASSUME NEW i \in Startups, StartStep(i) PROVE ToldToStop'
  <2> USE DEF LockInv, stageVars, callerVars, leaderVars
  <2>0. ASSUME NEW stage, Goto(i, stage), cancelled \subseteq cancelled', UNCHANGED stageVars,
               stage \in {"launch", "run"} => Serving(i)
        PROVE  ToldToStop'
    BY ZenonT(60), <2>0 DEF Goto
  <2>1. CASE Lock(i) \/ StopOld(i) \/ Launch(i)
    <3>1. CASE Lock(i)
      BY Zenon, <2>0, <3>1 DEF Lock, contextVars
    <3>2. CASE StopOld(i)
      BY Zenon, <2>0, <3>2 DEF StopOld, contextVars
    <3>3. CASE Launch(i)
      BY Zenon, <2>0, <3>3 DEF Launch
    <3> QED BY Zenon, <2>1, <3>1, <3>2, <3>3
  <2>2. CASE CancelOld(i)
    <3>1. took[i] \in StopFuncs
      BY Zenon
    <3>2. cancelled \subseteq cancelled'
      BY Zenon, <2>2, <3>1, CallType DEF CancelOld
    <3> QED
      BY Zenon, <2>2, <3>2 DEF CancelOld, Goto
  <2>3. CASE Begin(i)
    <3> DEFINE next == IF cfg.atlas THEN "dial" ELSE IF cfg.nacos THEN "policy" ELSE "clear"
    <3>1. next \notin {"launch", "run"}
      BY Zenon
    <3>2. UNCHANGED stageVars /\ cancelled \subseteq cancelled'
      BY Zenon, <2>3 DEF Begin
    <3>3. Goto(i, "done") \/ Goto(i, next)
      BY Zenon, <2>3 DEF Begin, Leave
    <3> HIDE DEF next
    <3> QED BY Zenon, <2>0, <3>1, <3>2, <3>3
  <2>4. CASE Dial(i)
    <3>1. cancelled \subseteq cancelled' /\ UNCHANGED stageVars
      BY Zenon, <2>4 DEF Dial, Cleanup
    <3>2. UNCHANGED pc \/ Goto(i, "clear") \/ Goto(i, "registry")
      BY Zenon, <2>4 DEF Dial
    <3>3. CASE UNCHANGED pc
      BY Zenon, <3>1, <3>3
    <3> QED BY Zenon, <2>0, <3>1, <3>2, <3>3
  <2>5. CASE Registry(i) \/ Policy(i) \/ Sink(i) \/ Assemble(i)
    <3>1. \E stage \in {"policy", "assemble", "sink", "publish", "clear"} : Goto(i, stage)
      BY Zenon, <2>5 DEF Registry, Policy, Sink, Assemble, PassStage, FailStage, FailSink
    <3>2. cancelled \subseteq cancelled' /\ UNCHANGED stageVars
      BY Zenon, <2>5 DEF Registry, Policy, Sink, Assemble, PassStage, FailStage, FailSink, Cleanup
    <3> QED BY Zenon, <2>0, <3>1, <3>2
  <2>6. CASE Publish(i)
    BY Zenon, <2>6 DEF Publish, MayPublish, MayServe, Cleanup, Leave, Goto
  <2>7. CASE Finish(i)
    BY ZenonT(60), <2>7 DEF Finish, Cleanup, Goto
  <2>8. CASE ClearStartup(i)
    BY Zenon, <2>0, <2>8 DEF ClearStartup, Leave
  <2> QED
    BY Zenon, <1>8, <2>1, <2>2, <2>3, <2>4, <2>5, <2>6, <2>7, <2>8 DEF StartStep
<1>9. ASSUME NEW i \in Startups, NEW p \in ProviderNames, ProviderReturns(i, p) PROVE ToldToStop'
  BY Zenon, <1>9 DEF ProviderReturns, Cleanup, stageVars, callerVars, leaderVars
<1>10. ASSUME NEW value \in BOOLEAN, Notify(value) PROVE ToldToStop'
  BY Zenon, <1>1, <1>10 DEF Notify, callerVars, contextVars
<1> QED
  BY ZenonT(60), <1>1, <1>2, <1>3, <1>4, <1>5, <1>6, <1>7, <1>8, <1>9, <1>10 DEF Next, LeaseExpires, Poll,
     Campaign, serverVars, callerVars, leaderVars, contextVars, vars

-----------------------------------------------------------------------------
\* The inductive step: every action keeps the inductive invariant.
LEMMA StepIInv == IInv /\ [Next]_vars => IInv'
  BY Zenon, ElectionTypeStep, ServerTypeStep, StartupTypeStep, LockStep, OpenStep, RunStep, PublishStep,
     ReachableStep, ToldStep DEF IInv, TypeOK

\* The inductive invariant holds in every reachable state.
LEMMA InvariantHolds == Spec => []IInv
  BY InitIInv, StepIInv, PTL DEF Spec

\* Every variable of the server, its elector and its startups keeps its type.
THEOREM LifecycleTypeCorrect == Spec => []TypeOK
<1>1. IInv => TypeOK
  BY Zenon DEF IInv
<1> QED
  BY <1>1, InvariantHolds, PTL

\* Two startups never overlap: the sinks and providers of one leadership are
\* gone before those of the next exist (stopAndStartProviders under lifecycleMu).
THEOREM StartupsExclude == Spec => []OneAtATime
<1>1. IInv => OneAtATime
  BY Zenon DEF IInv, LockInv, OpenInv, RunInv, OneAtATime
<1> QED
  BY <1>1, InvariantHolds, PTL

\* Whichever stage a startup ends at, it closed what it had opened.
THEOREM StartupsCleanUp == Spec => []NothingLeaks
<1>1. IInv => NothingLeaks
  BY Zenon DEF IInv, OpenInv, RunInv, NothingLeaks
<1> QED
  BY <1>1, InvariantHolds, PTL

\* A published list of providers can always be stopped.
THEOREM PublishedStops == Spec => []PublishedIsStoppable
<1>1. IInv => PublishedIsStoppable
  BY Zenon DEF IInv, PublishInv
<1> QED
  BY <1>1, InvariantHolds, PTL

\* Once the loop has handled the loss of leadership, or Stop has returned from
\* its call, no provider is left that was not told to stop.
THEOREM NoProviderOutlivesLeadership == Spec => []NoRogueProviders
<1>1. IInv => NoRogueProviders
  BY Zenon DEF IInv, ToldToStop, Serving, LoopWillCancel, NoRogueProviders
<1> QED
  BY <1>1, InvariantHolds, PTL

-----------------------------------------------------------------------------
(***************************************************************************)
(* What a loop over a list makes of a value, for lists of any length.      *)
(***************************************************************************)
INSTANCE SequenceTheorems
INSTANCE WellFoundedInduction

\* A property of some natural number has a least number.
LEMMA LeastNatural ==
    ASSUME NEW T, T \subseteq Nat, T # {}
    PROVE  \E n \in T : \A m \in T : n <= m
  <1> DEFINE lt == {ss \in Nat \X Nat : ss[1] < ss[2]}
  <1>1. IsWellFoundedOn(lt, Nat)
    BY Zenon, NatLessThanWellFounded DEF OpToRel
  <1> HIDE DEF lt
  <1>2. PICK n \in T : \A m \in T : ~(<<m, n>> \in lt)
    BY Zenon, <1>1, WFMin
  <1>3. ASSUME NEW m \in T PROVE n <= m
    <2>1. m \in Nat /\ n \in Nat /\ <<m, n>> \notin lt
      BY Zenon, <1>2
    <2>2. ~(m < n)
      BY Zenon, <2>1 DEF lt
    <2> QED BY <2>1, <2>2
  <1> QED BY Zenon, <1>3

\* Induction over the naturals, for a set of them.
LEMMA SetInduction ==
    ASSUME NEW S, 0 \in S, \A n \in Nat : n \in S => n + 1 \in S
    PROVE  \A n \in Nat : n \in S
  <1> DEFINE T == Nat \ S
  <1> SUFFICES ASSUME T # {} PROVE FALSE
    BY Zenon
  <1>1. PICK n \in T : \A m \in T : n <= m
    BY Zenon, LeastNatural
  <1>2. n \in Nat /\ n # 0 /\ n - 1 \in Nat /\ n - 1 \notin T
    BY <1>1
  <1> QED BY <1>1, <1>2

\* g[n] is what n rounds of the loop step make of v.
Rounds(g, v, n, step) == g[0] = v /\ \A i \in 1 .. n : g[i] = step[<<i, g[i - 1]>>]

\* A function defined by recursion over 0 .. n obeys its equation.
LEMMA Recursion ==
    ASSUME NEW V, NEW v \in V, NEW N \in Nat, NEW step \in [(1 .. N) \X V -> V]
    PROVE  \E g \in [0 .. N -> V] : Rounds(g, v, N, step)
  <1> USE DEF Rounds
  <1> DEFINE Upto(n, g) == Rounds(g, v, n, step)
             S == {n \in Nat : n <= N => \E g \in [0 .. n -> V] : Upto(n, g)}
  <1>1. 0 \in S
    <2>1. [i \in 0 .. 0 |-> v] \in [0 .. 0 -> V] /\ Upto(0, [i \in 0 .. 0 |-> v])
      OBVIOUS
    <2> QED BY Zenon, <2>1
  <1>2. ASSUME NEW n \in Nat, n \in S PROVE n + 1 \in S
    <2> SUFFICES ASSUME n + 1 <= N PROVE \E g \in [0 .. n + 1 -> V] : Upto(n + 1, g)
      OBVIOUS
    <2>1. PICK g \in [0 .. n -> V] : Upto(n, g)
      BY <1>2
    <2> DEFINE h == [i \in 0 .. n + 1 |-> IF i = n + 1 THEN step[<<n + 1, g[n]>>] ELSE g[i]]
    <2>2. g[n] \in V /\ n + 1 \in 1 .. N
      BY <2>1
    <2>3. step[<<n + 1, g[n]>>] \in V
      BY Zenon, <2>2
    <2>4. h \in [0 .. n + 1 -> V] /\ h[0] = v /\ h[n + 1] = step[<<n + 1, h[n]>>]
      <3>1. h[n] = g[n] /\ h[n + 1] = step[<<n + 1, g[n]>>] /\ h[0] = g[0]
        BY <2>1
      <3>2. \A i \in 0 .. n + 1 : i = n + 1 \/ g[i] \in V
        BY <2>1
      <3>3. h \in [0 .. n + 1 -> V]
        BY Zenon, <2>3, <3>2
      <3> HIDE DEF h
      <3> QED BY Zenon, <2>1, <3>1, <3>3
    <2>5. ASSUME NEW i \in 1 .. n PROVE h[i] = step[<<i, h[i - 1]>>]
      <3>1. i \in 0 .. n + 1 /\ i # n + 1 /\ i - 1 \in 0 .. n + 1 /\ i - 1 # n + 1
        OBVIOUS
      <3>2. h[i] = g[i] /\ h[i - 1] = g[i - 1]
        BY Zenon, <3>1
      <3> QED BY Zenon, <2>1, <3>2
    <2>6. \A i \in 1 .. n + 1 : i = n + 1 \/ i \in 1 .. n
      OBVIOUS
    <2> HIDE DEF h
    <2>7. \A i \in 1 .. n + 1 : h[i] = step[<<i, h[i - 1]>>]
      <3>1. (n + 1) - 1 = n
        OBVIOUS
      <3> QED BY Zenon, <2>4, <2>5, <2>6, <3>1
    <2> QED BY Zenon, <2>4, <2>7
  <1> HIDE DEF S
  <1>3. N \in S
    BY Zenon, <1>1, <1>2, SetInduction
  <1> QED BY <1>3 DEF S

-----------------------------------------------------------------------------
(***************************************************************************)
(* The client around the sink.                                             *)
(***************************************************************************)
Client == INSTANCE NacosClient

\* What a probe may leave of the canary.
ProbeLeaves(config, env, probe) ==
    /\ probe.ready => probe.canary = {}
    /\ probe.canary # {} => ~Client!Wrote(env.deregister) \/ (~config.sdk /\ env.register.answer # "ok")
    /\ ~config.sdk => \A n \in probe.canary : env.reads[n].answer = "ok"

\* The two probes, and no probe at all.
LEMMA ProbesCleanUp ==
    ASSUME NEW config, NEW env
    PROVE  /\ ProbeLeaves(config, env, [ready |-> FALSE, canary |-> {}])
           /\ config.sdk => ProbeLeaves(config, env, Client!checkReadinessSDK(env))
           /\ ~config.sdk => ProbeLeaves(config, env, Client!checkReadinessHTTP(env))
  <1>1. ProbeLeaves(config, env, [ready |-> FALSE, canary |-> {}])
    BY Zenon DEF ProbeLeaves
  <1>2. ASSUME config.sdk PROVE ProbeLeaves(config, env, Client!checkReadinessSDK(env))
    <2>1. CASE env.reads[1].answer # "ok" \/ ~env.healthy
      BY Zenon, <1>1, <2>1 DEF Client!checkReadinessSDK
    <2>2. CASE ~(env.reads[1].answer # "ok" \/ ~env.healthy)
      <3> DEFINE canary == IF Client!Wrote(env.register) /\ ~(Client!CanaryRemoved(env) /\ Client!Wrote(env.deregister))
                           THEN {1} ELSE {}
      <3>1. Client!checkReadinessSDK(env) =
              [ready |-> env.register.answer = "ok" /\ env.deregister.answer = "ok", canary |-> canary]
        BY Zenon, <2>2 DEF Client!checkReadinessSDK
      <3>2. canary # {} => ~Client!Wrote(env.deregister)
        BY Zenon DEF Client!CanaryRemoved
      <3>3. env.deregister.answer = "ok" => canary = {}
        BY Zenon, <3>2 DEF Client!Wrote
      <3> HIDE DEF canary
      <3>4. /\ Client!checkReadinessSDK(env).canary = canary
            /\ Client!checkReadinessSDK(env).ready => env.register.answer = "ok" /\ env.deregister.answer = "ok"
        <4>1. PICK x : x = Client!checkReadinessSDK(env)
          BY Zenon
        <4>2. x = [ready |-> env.register.answer = "ok" /\ env.deregister.answer = "ok", canary |-> canary]
          BY Zenon, <3>1, <4>1
        <4>3. x.canary = canary
          BY Zenon, <4>2
        <4>4. x.ready => env.register.answer = "ok" /\ env.deregister.answer = "ok"
          BY Zenon, <4>2
        <4> QED BY Zenon, <4>1, <4>3, <4>4
      <3> QED BY ZenonT(60), <1>2, <3>2, <3>3, <3>4 DEF ProbeLeaves
    <2> QED BY Zenon, <2>1, <2>2
  <1>3. ASSUME ~config.sdk PROVE ProbeLeaves(config, env, Client!checkReadinessHTTP(env))
    <2>1. CASE Client!doForm(env.reads) # "ok"
      BY Zenon, <1>1, <2>1 DEF Client!checkReadinessHTTP
    <2>2. CASE Client!doForm(env.reads) = "ok"
      <3> DEFINE first == Client!Least(Client!Decisive(env.reads))
                 canary == IF Client!Wrote(env.register) /\ ~(env.register.answer = "ok" /\ Client!Wrote(env.deregister))
                           THEN {first} ELSE {}
      <3>1. Client!checkReadinessHTTP(env) =
              [ready |-> env.register.answer = "ok" /\ env.deregister.answer = "ok", canary |-> canary]
        BY Zenon, <2>2 DEF Client!checkReadinessHTTP
      <3>2. canary # {} => ~Client!Wrote(env.deregister) \/ env.register.answer # "ok"
        BY Zenon
      <3>3. env.register.answer = "ok" /\ env.deregister.answer = "ok" => canary = {}
        BY Zenon, <3>2 DEF Client!Wrote
      <3>4. env.reads[first].answer = "ok"
        <4>1. "down" # "ok"
          OBVIOUS
        <4> QED BY Zenon, <2>2, <4>1 DEF Client!doForm
      <3>5. \A n \in canary : n = first
        BY ZenonT(60)
      <3> HIDE DEF canary, first
      <3>6. /\ Client!checkReadinessHTTP(env).canary = canary
            /\ Client!checkReadinessHTTP(env).ready => env.register.answer = "ok" /\ env.deregister.answer = "ok"
        <4>1. PICK x : x = Client!checkReadinessHTTP(env)
          BY Zenon
        <4>2. x = [ready |-> env.register.answer = "ok" /\ env.deregister.answer = "ok", canary |-> canary]
          BY Zenon, <3>1, <4>1
        <4>3. x.canary = canary
          BY Zenon, <4>2
        <4>4. x.ready => env.register.answer = "ok" /\ env.deregister.answer = "ok"
          BY Zenon, <4>2
        <4> QED BY Zenon, <4>1, <4>3, <4>4
      <3> QED BY ZenonT(60), <1>3, <3>2, <3>3, <3>4, <3>5, <3>6 DEF ProbeLeaves
    <2> QED BY Zenon, <2>1, <2>2
  <1> QED BY ZenonT(60), <1>1, <1>2, <1>3

\* CheckReadinessWithConfig leaves nothing open and no canary behind, for
\* every configuration, any number of servers and whatever they answer.
THEOREM ReadinessCleansUp ==
    ASSUME NEW config, NEW env
    PROVE  Client!LeavesNothing(config, env)
<1> DEFINE client == Client!NewClientWithConfig(config)
           check == Client!CheckReadinessWithConfig(config, env)
           probe == IF ~Client!verifyHealthPolicy(config, env.disabled) THEN [ready |-> FALSE, canary |-> {}]
                    ELSE IF config.sdk THEN Client!checkReadinessSDK(env) ELSE Client!checkReadinessHTTP(env)
<1>1. ProbeLeaves(config, env, probe)
  BY Zenon, ProbesCleanUp
<1> HIDE DEF probe
<1>2. CASE ~client.ok
  <2>1. check = [ready |-> FALSE, canary |-> {}, open |-> client.open]
    BY Zenon, <1>2 DEF Client!CheckReadinessWithConfig
  <2> HIDE DEF check, client
  <2>2. check.ready = FALSE /\ check.canary = {}
    BY Zenon, <2>1
  <2> QED BY Zenon, <1>2, <2>2 DEF Client!LeavesNothing, client, check
<1>3. CASE client.ok
  <2>1. check = [ready |-> probe.ready /\ ("admin" \in client.open => env.closes), canary |-> probe.canary,
                 open |-> Client!CloseContext(client).open]
    BY Zenon, <1>3 DEF Client!CheckReadinessWithConfig, probe
  <2>2. "open" \in DOMAIN client
    BY DEF Client!NewClientWithConfig, Client!Refused
  <2>3. Client!CloseContext(client).open = {}
    <3> HIDE DEF client
    <3> QED BY Zenon, <2>2 DEF Client!CloseContext
  <2> HIDE DEF check, client
  <2>4. (check.ready => probe.ready) /\ check.canary = probe.canary /\ check.open = {}
    BY Zenon, <2>1, <2>3
  <2> QED BY Zenon, <1>1, <2>4 DEF Client!LeavesNothing, client, check, ProbeLeaves
<1> QED BY Zenon, <1>2, <1>3

-----------------------------------------------------------------------------
\* Least finds the least number of a set.
LEMMA LeastFact ==
    ASSUME NEW S, S \subseteq Nat, S # {}
    PROVE  Client!Least(S) \in S /\ \A m \in S : Client!Least(S) <= m
  <1>1. \E n \in S : \A m \in S : n <= m
    BY Zenon, LeastNatural
  <1> QED BY Zenon, <1>1 DEF Client!Least

\* The smaller of two numbers.
LEMMA LeastOfTwo ==
    ASSUME NEW a \in Nat, NEW b \in Nat
    PROVE  Client!Least({a, b}) = IF a <= b THEN a ELSE b
  <1>1. Client!Least({a, b}) \in {a, b} /\ \A m \in {a, b} : Client!Least({a, b}) <= m
    <2>1. {a, b} \subseteq Nat /\ {a, b} # {}
      OBVIOUS
    <2> QED BY Zenon, <2>1, LeastFact
  <1> QED BY <1>1

\* How far a number of names goes.
AtMost(names, n) == IF n <= Len(names) THEN n ELSE Len(names)

\* page is what follows the first a names, up to the first b.
Adjacent(N, names, a, b, page) ==
    /\ page \in Seq(N) /\ Len(page) = AtMost(names, b) - AtMost(names, a)
    /\ SubSeq(names, 1, AtMost(names, a)) \o page = SubSeq(names, 1, AtMost(names, b))
    /\ SubSeq(names, 1, AtMost(names, b)) \in Seq(N) /\ Len(SubSeq(names, 1, AtMost(names, b))) = AtMost(names, b)

\* A prefix of the names and the page after it.
LEMMA NextPage ==
    ASSUME NEW N, NEW names \in Seq(N), NEW a \in Nat, NEW b \in Nat, a <= b
    PROVE  Adjacent(N, names, a, b, SubSeq(names, a + 1, AtMost(names, b)))
  <1>0. PICK m, n : m = AtMost(names, a) /\ n = AtMost(names, b)
    BY Zenon
  <1> SUFFICES /\ SubSeq(names, 1, m) \o SubSeq(names, a + 1, n) = SubSeq(names, 1, n)
               /\ Len(SubSeq(names, a + 1, n)) = n - m /\ SubSeq(names, a + 1, n) \in Seq(N)
               /\ Len(SubSeq(names, 1, n)) = n /\ SubSeq(names, 1, n) \in Seq(N)
    BY Zenon, <1>0 DEF Adjacent
  <1>1. Len(names) \in Nat /\ \A i \in 1 .. Len(names) : names[i] \in N
    OBVIOUS
  <1>2. /\ m \in Nat /\ n \in Nat /\ m <= Len(names) /\ n <= Len(names) /\ m <= n
        /\ m = a \/ (m = n /\ n < a + 1)
    BY <1>0, <1>1 DEF AtMost
  <1>3. SubSeq(names, 1, n) \in Seq(N) /\ Len(SubSeq(names, 1, n)) = n
    BY <1>2
  <1>4. CASE m = n /\ n < a + 1
    <2>1. SubSeq(names, a + 1, n) = <<>>
      BY <1>2, <1>4
    <2>2. SubSeq(names, 1, n) \o <<>> = SubSeq(names, 1, n)
      BY Zenon, <1>3, ConcatEmptySeq
    <2>3. Len(<<>>) = n - m /\ <<>> \in Seq(N)
      BY <1>2, <1>4
    <2> QED BY ZenonT(60), <1>3, <1>4, <2>1, <2>2, <2>3
  <1>5. CASE m = a
    <2>1. SubSeq(names, 1, a) \o SubSeq(names, a + 1, n) = SubSeq(names, 1, n)
      BY <1>2, <1>5
    <2>2. SubSeq(names, a + 1, n) \in Seq(N) /\ Len(SubSeq(names, a + 1, n)) = n - a
      BY <1>2, <1>5
    <2> QED BY ZenonT(60), <1>3, <1>5, <2>1, <2>2
  <1> QED BY Zenon, <1>2, <1>4, <1>5

\* A server and a page size that are in order.
Proper(N, server, size) ==
    server.names \in Seq(N) /\ server.clamp \in Nat \ {0} /\ size \in Nat \ {0}

\* The names a page can have, and how far n pages of them go.
Step(server, size) == IF size <= server.clamp THEN size ELSE server.clamp
Reach(server, size, n) == AtMost(server.names, n * Step(server, size))

\* What the first pages and the next one hold.
LEMMA PageFacts ==
    ASSUME NEW N, NEW server, NEW size, Proper(N, server, size), NEW n \in Nat
    PROVE  Adjacent(N, server.names, n * Step(server, size), (n + 1) * Step(server, size),
                    Client!Page(server, n + 1, size))
  <1>1. server.names \in Seq(N) /\ server.clamp \in Nat /\ size \in Nat /\ Len(server.names) \in Nat
    BY DEF Proper
  <1> DEFINE step == Step(server, size)
             a == n * step
             b == (n + 1) * step
  <1>2. step \in Nat /\ Client!Least({size, server.clamp}) = step
    BY <1>1, LeastOfTwo DEF Step
  <1> HIDE DEF step
  <1>3. a \in Nat /\ b \in Nat /\ a <= b /\ ((n + 1) - 1) = n
    BY <1>2
  <1>4. Client!Page(server, n + 1, size) = SubSeq(server.names, a + 1, AtMost(server.names, b))
    <2>1. Client!Least({b, Len(server.names)}) = AtMost(server.names, b)
      <3> HIDE DEF b
      <3> QED BY Zenon, <1>1, <1>3, LeastOfTwo DEF AtMost
    <2> QED BY Zenon, <1>2, <1>3, <2>1 DEF Client!Page
  <1> HIDE DEF a, b
  <1>5. Adjacent(N, server.names, a, b, Client!Page(server, n + 1, size))
    BY ZenonT(60), <1>1, <1>3, <1>4, NextPage
  <1> QED BY Zenon, <1>5 DEF a, b, step

\* The first pages of a listing are a prefix of it.
First(server, size, n) == SubSeq(server.names, 1, Reach(server, size, n))

\* f collects the pages up to page one after the other.
Collects(server, page, size, f) ==
    f = [p \in 0..page |-> IF p = 0 THEN <<>> ELSE f[p - 1] \o Client!Page(server, p, size)]

\* What the walk has collected after some pages is a prefix of the listing.
LEMMA CollectedIsPrefix ==
    ASSUME NEW N, NEW server, NEW size, Proper(N, server, size), NEW page \in Nat
    PROVE  Client!Collected(server, page, size) = First(server, size, page)
  <1>1. ASSUME NEW n \in Nat
        PROVE  First(server, size, n) \o Client!Page(server, n + 1, size) = First(server, size, n + 1)
    <2>1. Adjacent(N, server.names, n * Step(server, size), (n + 1) * Step(server, size),
                   Client!Page(server, n + 1, size))
      BY Zenon, PageFacts
    <2> QED BY Zenon, <2>1 DEF Adjacent, First, Reach
  <1>2. First(server, size, 0) = <<>>
    <2>1. server.names \in Seq(N) /\ Len(server.names) \in Nat /\ Step(server, size) \in Nat
      BY DEF Proper, Step
    <2>2. 0 * Step(server, size) = 0 /\ 0 <= Len(server.names)
      BY <2>1
    <2>3. SubSeq(server.names, 1, 0) = <<>>
      BY <2>1
    <2> QED BY ZenonT(60), <2>2, <2>3 DEF First, Reach, AtMost
  <1> DEFINE g == [p \in 0..page |-> First(server, size, p)]
             f == CHOOSE h : Collects(server, page, size, h)
  <1>3. Collects(server, page, size, g)
    <2>1. ASSUME NEW p \in 0..page, p # 0
          PROVE  g[p] = g[p - 1] \o Client!Page(server, p, size)
      <3>1. p - 1 \in 0..page /\ p - 1 \in Nat /\ (p - 1) + 1 = p
        BY <2>1
      <3> QED BY ZenonT(60), <1>1, <3>1
    <2>2. 0 \in 0..page
      OBVIOUS
    <2>3. g[0] = <<>>
      BY Zenon, <2>2, <1>2
    <2>4. \A p \in 0..page : g[p] = IF p = 0 THEN <<>> ELSE g[p - 1] \o Client!Page(server, p, size)
      BY Zenon, <2>1, <2>3
    <2>5. g = [p \in 0..page |-> g[p]]
      BY Zenon
    <2> HIDE DEF g
    <2> QED BY ZenonT(60), <2>4, <2>5 DEF Collects
  <1>4. Collects(server, page, size, f)
    <2> HIDE DEF g
    <2> QED BY Zenon, <1>3
  <1>5. Client!Collected(server, page, size) = f[page]
    BY Zenon DEF Client!Collected, Collects
  <1> HIDE DEF f
  <1> DEFINE S == {p \in Nat : p <= page => f[p] = First(server, size, p)}
  <1>6. \A p \in 0..page : f[p] = IF p = 0 THEN <<>> ELSE f[p - 1] \o Client!Page(server, p, size)
    BY ZenonT(60), <1>4 DEF Collects
  <1>7. 0 \in S
    <2>1. 0 \in 0..page
      OBVIOUS
    <2> QED BY ZenonT(60), <1>2, <1>6, <2>1
  <1>8. ASSUME NEW n \in Nat, n \in S PROVE n + 1 \in S
    <2> SUFFICES ASSUME n + 1 <= page PROVE f[n + 1] = First(server, size, n + 1)
      BY SMT
    <2>1. n + 1 \in 0..page /\ n + 1 # 0 /\ (n + 1) - 1 = n /\ n <= page
      OBVIOUS
    <2>2. f[n] = First(server, size, n)
      BY ZenonT(60), <1>8, <2>1
    <2> QED BY ZenonT(60), <1>1, <1>6, <2>1, <2>2
  <1>9. page \in S
    <2> HIDE DEF S
    <2> QED BY ZenonT(60), <1>7, <1>8, SetInduction
  <1>10. page <= page
    OBVIOUS
  <1> QED BY ZenonT(60), <1>5, <1>9, <1>10

\* The sizes of a page and of all pages up to it, for a page that ends after b
\* of the names and a step of c.
Sized(server, page, size, b, c) ==
    /\ b \in Nat /\ c \in Nat /\ c <= b /\ Len(server.names) \in Nat
    /\ b = page * c
    /\ Len(Client!Page(server, page, size)) = AtMost(server.names, b) - AtMost(server.names, b - c)
    /\ Len(Client!Collected(server, page, size)) = AtMost(server.names, b)

LEMMA PageSizes ==
    ASSUME NEW N, NEW server, NEW size, Proper(N, server, size), NEW page \in Nat, page # 0
    PROVE  Sized(server, page, size, page * Step(server, size), Step(server, size))
  <1> DEFINE step == Step(server, size)
             n == page - 1
             a == n * step
             b == page * step
  <1>1. server.names \in Seq(N) /\ Len(server.names) \in Nat /\ step \in Nat /\ n \in Nat /\ n + 1 = page
    BY DEF Proper, Step
  <1>2. Adjacent(N, server.names, n * step, (n + 1) * step, Client!Page(server, n + 1, size))
    <2> HIDE DEF n
    <2> QED BY ZenonT(60), <1>1, PageFacts
  <1>3. Adjacent(N, server.names, a, b, Client!Page(server, page, size))
    <2> HIDE DEF n, step
    <2> QED BY ZenonT(60), <1>1, <1>2
  <1>4. a \in Nat /\ b \in Nat /\ step <= b /\ b - step = a
    <2> HIDE DEF step
    <2>1. a \in Nat /\ b = a + step
      BY <1>1
    <2> HIDE DEF a, b, n
    <2> QED BY <1>1, <2>1
  <1>5. Client!Collected(server, page, size) = SubSeq(server.names, 1, AtMost(server.names, b))
    BY Zenon, CollectedIsPrefix DEF First, Reach
  <1> HIDE DEF a, b, step
  <1>6. /\ Len(Client!Page(server, page, size)) = AtMost(server.names, b) - AtMost(server.names, a)
        /\ Len(SubSeq(server.names, 1, AtMost(server.names, b))) = AtMost(server.names, b)
    BY Zenon, <1>3 DEF Adjacent
  <1>7. b = page * step
    BY Zenon DEF b
  <1>8. Sized(server, page, size, b, step)
    BY ZenonT(60), <1>1, <1>4, <1>5, <1>6, <1>7 DEF Sized
  <1> QED BY ZenonT(60), <1>8 DEF b, step

\* A walk that ends with a page has seen the whole listing, if the server
\* declares the total or does not clamp.
LEMMA EndIsEnd ==
    ASSUME NEW N, NEW server, NEW size, Proper(N, server, size), server.declares \in BOOLEAN,
           NEW page \in Nat, page # 0,
           \/ Client!StopsAt(server, page, size) /\ (server.declares \/ size <= server.clamp)
           \/ Client!StopsAtHTTP(server, page, size) /\ size <= server.clamp
    PROVE  Client!Collected(server, page, size) = server.names
  <1>1. PICK b, c : b = page * Step(server, size) /\ c = Step(server, size)
    BY Zenon
  <1>2. Sized(server, page, size, b, c)
    BY ZenonT(60), <1>1, PageSizes
  <1>3. server.names \in Seq(N) /\ Len(server.names) \in Nat /\ size \in Nat \ {0} /\ server.clamp \in Nat \ {0}
    BY DEF Proper
  <1>4. PICK L, k, t : /\ L = Len(server.names) /\ k = Len(Client!Page(server, page, size))
                       /\ t = Len(Client!Collected(server, page, size))
    BY Zenon
  <1>5. /\ b \in Nat /\ c \in Nat /\ c <= b /\ L \in Nat
        /\ t = (IF b <= L THEN b ELSE L)
        /\ k = t - (IF b - c <= L THEN b - c ELSE L)
    BY ZenonT(60), <1>2, <1>4 DEF Sized, AtMost
  <1>6. size <= server.clamp => c = size
    BY Zenon, <1>1 DEF Step
  <1>7. t = L
    <2>1. CASE k < size /\ size <= server.clamp
      BY SMTT(60), <1>3, <1>5, <1>6, <2>1
    <2>2. CASE server.declares /\ Client!StopsAt(server, page, size)
      <3>1. ~(L > 0 /\ t < L) \/ t >= L
        BY ZenonT(60), <2>2, <1>4 DEF Client!StopsAt, Client!Count
      <3> QED BY <1>5, <3>1
    <2>3. CASE ~server.declares /\ Client!StopsAt(server, page, size) /\ size <= server.clamp
      <3>1. k < size \/ 0 > 0
        BY ZenonT(60), <2>3, <1>4 DEF Client!StopsAt, Client!Count
      <3> QED BY <2>1, <2>3, <3>1
    <2>4. CASE Client!StopsAtHTTP(server, page, size) /\ size <= server.clamp
      BY ZenonT(60), <2>1, <2>4, <1>4 DEF Client!StopsAtHTTP
    <2> QED BY ZenonT(60), <2>2, <2>3, <2>4
  <1>8. Client!Collected(server, page, size) = SubSeq(server.names, 1, L)
    <2>1. Client!Collected(server, page, size) = SubSeq(server.names, 1, AtMost(server.names, b))
      BY ZenonT(60), <1>1, CollectedIsPrefix DEF First, Reach
    <2>2. AtMost(server.names, b) = L
      BY ZenonT(60), <1>5, <1>7, <1>4 DEF AtMost
    <2> QED BY ZenonT(60), <2>1, <2>2
  <1>9. SubSeq(server.names, 1, Len(server.names)) = server.names
    BY <1>3
  <1> QED BY ZenonT(60), <1>4, <1>8, <1>9

\* Every walk ends with a page that lies behind the last name.
LEMMA BehindIsEnd ==
    ASSUME NEW N, NEW server, NEW size, Proper(N, server, size), server.declares \in BOOLEAN,
           NEW page \in Nat, page # 0, Len(server.names) < page * Step(server, size)
    PROVE  Client!StopsAt(server, page, size) /\ Client!StopsAtHTTP(server, page, size)
  <1>1. PICK b, c : b = page * Step(server, size) /\ c = Step(server, size)
    BY Zenon
  <1>2. Sized(server, page, size, b, c)
    BY ZenonT(60), <1>1, PageSizes
  <1>3. size \in Nat \ {0} /\ c \in Nat \ {0} /\ c <= size
    BY <1>1 DEF Proper, Step
  <1>4. PICK L, k, t : /\ L = Len(server.names) /\ k = Len(Client!Page(server, page, size))
                       /\ t = Len(Client!Collected(server, page, size))
    BY Zenon
  <1>5. /\ b \in Nat /\ c \in Nat /\ c <= b /\ L \in Nat /\ L < b
        /\ t = (IF b <= L THEN b ELSE L)
        /\ k = t - (IF b - c <= L THEN b - c ELSE L)
    BY ZenonT(60), <1>1, <1>2, <1>4 DEF Sized, AtMost
  <1>6. k < size /\ t = L /\ ~(t < L) /\ ~(0 > 0)
    BY <1>3, <1>5
  <1> QED BY ZenonT(60), <1>4, <1>6 DEF Client!StopsAt, Client!StopsAtHTTP, Client!Count

\* What a walk answers that may end with one of the pages ends.
LEMMA WalkAnswers ==
    ASSUME NEW server, NEW size, NEW ends, ends \subseteq Nat
    PROVE  LET walk == Client!Walk(server, size, ends) IN
           /\ walk.ok \in BOOLEAN
           /\ walk.ok => \E page \in ends : walk.names = Client!Collected(server, page, size)
           /\ ends # {} /\ server.fails = {} => walk.ok
  <1> DEFINE walk == Client!Walk(server, size, ends)
  <1> SUFFICES /\ walk.ok \in BOOLEAN
               /\ walk.ok => \E page \in ends : walk.names = Client!Collected(server, page, size)
               /\ ends # {} /\ server.fails = {} => walk.ok
    BY Zenon
  <1>1. CASE ends = {} \/ server.fails \cap 1..Client!Least(ends) # {}
    <2>1. walk = [ok |-> FALSE]
      BY Zenon, <1>1 DEF Client!Walk, Client!Failed
    <2> HIDE DEF walk
    <2>2. walk.ok = FALSE
      BY <2>1
    <2> QED BY ZenonT(60), <1>1, <2>2
  <1>2. CASE ~(ends = {} \/ server.fails \cap 1..Client!Least(ends) # {})
    <2>1. walk = [ok |-> TRUE, names |-> Client!Collected(server, Client!Least(ends), size)]
      BY ZenonT(60), <1>2 DEF Client!Walk
    <2> HIDE DEF walk
    <2>2. walk.ok = TRUE /\ walk.names = Client!Collected(server, Client!Least(ends), size)
      BY <2>1
    <2>3. Client!Least(ends) \in ends
      BY ZenonT(60), <1>2, LeastFact
    <2> QED BY ZenonT(60), <2>2, <2>3
  <1> QED BY ZenonT(60), <1>1, <1>2

\* A listing that is answered is the whole listing, from every server that
\* declares the total or does not clamp the page size, and pages enough for
\* everything fail only on a failing page (listServicesSDK,
\* ListCatalogInstances, listServicesHTTP): for every listing, page size and
\* limit of pages.
THEOREM ListingsAreWhole ==
    ASSUME NEW N, NEW server, NEW size, Proper(N, server, size), server.declares \in BOOLEAN,
           NEW maxPages \in Nat
    PROVE  Client!ListsAll(server, size, maxPages)
  <1> DEFINE ends == {p \in 1..maxPages : Client!StopsAt(server, p, size)}
             endsHTTP == {p \in 1..maxPages : Client!StopsAtHTTP(server, p, size)}
             sdk == Client!Walk(server, size, ends)
             http == Client!Walk(server, size, endsHTTP)
  <1>1. 1..maxPages \subseteq Nat /\ \A p \in 1..maxPages : p # 0
    OBVIOUS
  <1>2. ends \subseteq Nat /\ endsHTTP \subseteq Nat
    BY Zenon, <1>1
  <1>3. /\ sdk.ok => \E page \in ends : sdk.names = Client!Collected(server, page, size)
        /\ ends # {} /\ server.fails = {} => sdk.ok
    <2> HIDE DEF ends
    <2> QED BY ZenonT(60), <1>2, WalkAnswers
  <1>4. /\ http.ok => \E page \in endsHTTP : http.names = Client!Collected(server, page, size)
        /\ endsHTTP # {} /\ server.fails = {} => http.ok
    <2> HIDE DEF endsHTTP
    <2> QED BY ZenonT(60), <1>2, WalkAnswers
  <1>5. ASSUME sdk.ok, server.declares \/ size <= server.clamp PROVE sdk.names = server.names
    <2>1. PICK page \in ends : sdk.names = Client!Collected(server, page, size)
      BY ZenonT(60), <1>3, <1>5
    <2>2. page \in Nat /\ page # 0 /\ Client!StopsAt(server, page, size)
      BY Zenon, <1>1
    <2>3. Client!Collected(server, page, size) = server.names
      BY ZenonT(60), <1>5, <2>2, EndIsEnd
    <2> QED BY ZenonT(60), <2>1, <2>3
  <1>6. ASSUME http.ok, size <= server.clamp PROVE http.names = server.names
    <2>1. PICK page \in endsHTTP : http.names = Client!Collected(server, page, size)
      BY ZenonT(60), <1>4, <1>6
    <2>2. page \in Nat /\ page # 0 /\ Client!StopsAtHTTP(server, page, size)
      BY Zenon, <1>1
    <2>3. Client!Collected(server, page, size) = server.names
      BY ZenonT(60), <1>6, <2>2, EndIsEnd
    <2> QED BY Zenon, <2>1, <2>3
  <1>7. ASSUME server.fails = {}, Len(server.names) < maxPages * Client!Least({size, server.clamp})
        PROVE  sdk.ok /\ http.ok
    <2>0. size \in Nat /\ server.clamp \in Nat /\ Step(server, size) \in Nat /\ Len(server.names) \in Nat
      BY DEF Proper, Step
    <2>1. Client!Least({size, server.clamp}) = Step(server, size)
      BY ZenonT(60), <2>0, LeastOfTwo DEF Step
    <2>2. Len(server.names) < maxPages * Step(server, size)
      BY ZenonT(60), <1>7, <2>1
    <2>3. maxPages # 0 /\ maxPages \in 1..maxPages
      <3>1. maxPages # 0
        BY <2>0, <2>2
      <3> QED BY <3>1
    <2>4. maxPages \in ends /\ maxPages \in endsHTTP
      BY ZenonT(60), <2>2, <2>3, BehindIsEnd
    <2> HIDE DEF ends, endsHTTP, sdk, http
    <2> QED BY ZenonT(60), <1>3, <1>4, <1>7, <2>4
  <1>8. Client!listServicesSDK(server, size, maxPages) = sdk /\ Client!listServicesHTTP(server, size, maxPages) = http
    BY Zenon DEF Client!listServicesSDK, Client!listServicesHTTP
  <1> HIDE DEF sdk, http
  <1> QED BY ZenonT(60), <1>5, <1>6, <1>7, <1>8 DEF Client!ListsAll

-----------------------------------------------------------------------------
(***************************************************************************)
(* Batches.                                                                *)
(***************************************************************************)
\* The greatest of some numbers below a bound.
LEMMA GreatestFact ==
    ASSUME NEW B \in Nat, NEW S, S \subseteq 1..B, S # {}
    PROVE  Client!Greatest(S) \in S /\ \A m \in S : m <= Client!Greatest(S)
  <1> DEFINE T == {B - m : m \in S}
  <1>1. \A m \in S : m \in Nat /\ B - m \in Nat
    OBVIOUS
  <1>2. T \subseteq Nat /\ T # {}
    BY Zenon, <1>1
  <1>3. PICK t \in T : \A u \in T : t <= u
    BY ZenonT(60), <1>2, LeastNatural
  <1>4. PICK g \in S : t = B - g
    BY Zenon
  <1>5. ASSUME NEW m \in S PROVE m <= g
    <2>1. B - g <= B - m
      BY ZenonT(60), <1>3, <1>4
    <2> QED BY <1>1, <2>1
  <1>6. \E n \in S : \A m \in S : m <= n
    BY Zenon, <1>5
  <1> QED BY Zenon, <1>6 DEF Client!Greatest

\* The items among the first n that are pushed, and the places in the batches.
Pushed(list, n) == {i \in 1..n : Client!persistentBatchOperation(list[i]) # "none"}
Slots(batches, limit) == {s \in (DOMAIN batches) \X (1..limit) : s[2] <= Len(batches[s[1]].items)}

\* One place comes before another one.
Before(s, t) == s[1] < t[1] \/ (s[1] = t[1] /\ s[2] < t[2])

\* The batches hold what place says, in its order.
Holds(list, n, batches, limit, place) ==
    /\ place \in [Pushed(list, n) -> Slots(batches, limit)]
    /\ \A s \in Slots(batches, limit) : \E i \in Pushed(list, n) : place[i] = s
    /\ \A i \in Pushed(list, n) :
            /\ batches[place[i][1]].key = Client!BatchKey(list[i])
            /\ batches[place[i][1]].items[place[i][2]] = list[i]
    /\ \A i, j \in Pushed(list, n) : i < j /\ Client!BatchKey(list[i]) = Client!BatchKey(list[j]) =>
            Before(place[i], place[j])

\* No batch is empty or too large, and only the last one of a key has room.
Filled(batches, limit) ==
    /\ \A b \in DOMAIN batches : Len(batches[b].items) \in 1..limit
    /\ \A a, b \in DOMAIN batches : a < b /\ batches[a].key = batches[b].key => Len(batches[a].items) = limit

LEMMA CutIs ==
    ASSUME NEW list, NEW n, NEW batches, NEW limit
    PROVE  Client!Cut(list, n, batches, limit) <=>
             Filled(batches, limit) /\ \E place : Holds(list, n, batches, limit, place)
  BY ZenonT(30) DEF Client!Cut, Filled, Holds, Before, Pushed, Slots

\* The batches are more than the old ones by item, at s.
Grows(old, new, limit, item, s) ==
    /\ Slots(new, limit) = Slots(old, limit) \cup {s}
    /\ new[s[1]].key = Client!BatchKey(item) /\ new[s[1]].items[s[2]] = item
    /\ \A t \in Slots(old, limit) :
            /\ new[t[1]].key = old[t[1]].key /\ new[t[1]].items[t[2]] = old[t[1]].items[t[2]]
            /\ old[t[1]].key = Client!BatchKey(item) => Before(t, s)

\* One more item in its place.
LEMMA GrowsHolds ==
    ASSUME NEW list, NEW n \in Nat, NEW old, NEW new, NEW limit, NEW s, NEW place,
           Holds(list, n, old, limit, place), Grows(old, new, limit, list[n + 1], s),
           Client!persistentBatchOperation(list[n + 1]) # "none"
    PROVE  \E more : Holds(list, n + 1, new, limit, more)
  <1> DEFINE P == Pushed(list, n)
             more == [i \in P \cup {n + 1} |-> IF i = n + 1 THEN s ELSE place[i]]
  <1>1. Pushed(list, n + 1) = P \cup {n + 1} /\ \A i \in P : i \in Nat /\ i # n + 1 /\ i < n + 1 /\ ~(n + 1 < i)
    <2>1. \A i : i \in 1..(n + 1) <=> i \in 1..n \/ i = n + 1
      OBVIOUS
    <2>2. \A i \in 1..n : i \in Nat /\ i # n + 1 /\ i < n + 1 /\ ~(n + 1 < i)
      OBVIOUS
    <2> QED BY ZenonT(60), <2>1, <2>2 DEF Pushed
  <1>2. more[n + 1] = s /\ \A i \in P : more[i] = place[i] /\ place[i] \in Slots(old, limit)
    BY Zenon, <1>1 DEF Holds
  <1>3. more \in [P \cup {n + 1} -> Slots(new, limit)]
    BY Zenon, <1>2 DEF Grows
  <1> HIDE DEF more
  <1>4. ASSUME NEW t \in Slots(new, limit) PROVE \E i \in P \cup {n + 1} : more[i] = t
    <2>1. t \in Slots(old, limit) \/ t = s
      BY Zenon, <1>4 DEF Grows
    <2>2. t \in Slots(old, limit) => \E i \in P : place[i] = t
      BY Zenon DEF Holds
    <2> QED BY ZenonT(60), <1>2, <2>1, <2>2
  <1>5. ASSUME NEW i \in P \cup {n + 1}
        PROVE  /\ new[more[i][1]].key = Client!BatchKey(list[i])
               /\ new[more[i][1]].items[more[i][2]] = list[i]
    <2>1. CASE i = n + 1
      BY ZenonT(60), <1>2, <2>1 DEF Grows
    <2>2. CASE i \in P
      <3>1. more[i] = place[i] /\ place[i] \in Slots(old, limit)
        BY ZenonT(60), <1>2, <2>2
      <3>2. old[place[i][1]].key = Client!BatchKey(list[i]) /\ old[place[i][1]].items[place[i][2]] = list[i]
        BY Zenon, <2>2 DEF Holds
      <3>3. /\ new[place[i][1]].key = old[place[i][1]].key
            /\ new[place[i][1]].items[place[i][2]] = old[place[i][1]].items[place[i][2]]
        BY ZenonT(60), <3>1 DEF Grows
      <3> QED BY ZenonT(60), <3>1, <3>2, <3>3
    <2> QED BY ZenonT(60), <2>1, <2>2
  <1>6. ASSUME NEW i \in P \cup {n + 1}, NEW j \in P \cup {n + 1}, i < j,
               Client!BatchKey(list[i]) = Client!BatchKey(list[j])
        PROVE  Before(more[i], more[j])
    <2>1. CASE i \in P /\ j \in P
      <3>1. Before(place[i], place[j])
        BY ZenonT(60), <1>6, <2>1 DEF Holds
      <3> QED BY ZenonT(60), <1>2, <2>1, <3>1
    <2>2. CASE i \in P /\ j = n + 1
      <3>1. old[place[i][1]].key = Client!BatchKey(list[n + 1])
        BY ZenonT(60), <1>6, <2>2 DEF Holds
      <3>2. Before(place[i], s)
        BY ZenonT(60), <1>2, <2>2, <3>1 DEF Grows
      <3> QED BY ZenonT(60), <1>2, <2>2, <3>2
    <2>3. ~(i = n + 1 /\ j = n + 1)
      BY <1>6
    <2> QED BY ZenonT(60), <1>1, <1>6, <2>1, <2>2, <2>3
  <1>7. Holds(list, n + 1, new, limit, more)
    BY ZenonT(60), <1>1, <1>3, <1>4, <1>5, <1>6 DEF Holds
  <1> QED BY ZenonT(60), <1>7

Batch(I) == [key : {Client!BatchKey(i) : i \in I}, items : Seq(I)]

LEMMA SlotIs ==
    ASSUME NEW batches, NEW limit, NEW x, NEW y
    PROVE  <<x, y>> \in Slots(batches, limit) <=>
             x \in DOMAIN batches /\ y \in 1..limit /\ y <= Len(batches[x].items)
  <1>1. PICK s : s = <<x, y>>
    BY Zenon
  <1>2. s[1] = x /\ s[2] = y
    BY <1>1
  <1>3. s \in (DOMAIN batches) \X (1..limit) <=> x \in DOMAIN batches /\ y \in 1..limit
    BY Zenon, <1>1
  <1> QED BY ZenonT(60), <1>1, <1>2, <1>3 DEF Slots

LEMMA SlotIsPair ==
    ASSUME NEW batches, NEW limit, NEW s \in Slots(batches, limit)
    PROVE  s = <<s[1], s[2]>>
  <1>1. s \in (DOMAIN batches) \X (1..limit)
    BY Zenon DEF Slots
  <1> QED BY <1>1

\* The places of the new batches, from their sizes.
MoreSized(old, new, limit, x, y) ==
    /\ limit \in Nat /\ y \in 1..limit
    /\ DOMAIN new = DOMAIN old \cup {x}
    /\ \A b \in DOMAIN old \ {x} : new[b] = old[b]
    /\ Len(new[x].items) = y
    /\ \A k \in 1..limit : k < y => x \in DOMAIN old /\ k <= Len(old[x].items)
    /\ x \in DOMAIN old => Len(old[x].items) \in Nat /\ Len(old[x].items) < y

OneMore(old, new, limit, s) == Slots(new, limit) = Slots(old, limit) \cup {s}

LEMMA MoreSlots ==
    ASSUME NEW old, NEW new, NEW limit, NEW x, NEW y, MoreSized(old, new, limit, x, y)
    PROVE  OneMore(old, new, limit, <<x, y>>)
  <1>1. ASSUME NEW b, NEW k PROVE <<b, k>> \in Slots(new, limit) <=> <<b, k>> \in Slots(old, limit) \/ (b = x /\ k = y)
    <2>1. CASE b # x
      <3>1. b \in DOMAIN new <=> b \in DOMAIN old
        BY Zenon, <2>1 DEF MoreSized
      <3>2. b \in DOMAIN old => new[b] = old[b]
        BY Zenon, <2>1 DEF MoreSized
      <3> QED BY ZenonT(60), <2>1, <3>1, <3>2, SlotIs
    <2>2. CASE b = x
      <3>1. <<b, k>> \in Slots(new, limit) <=> k \in 1..limit /\ k <= y
        BY ZenonT(60), <2>2, SlotIs DEF MoreSized
      <3>2. <<b, k>> \in Slots(old, limit) <=> x \in DOMAIN old /\ k \in 1..limit /\ k <= Len(old[x].items)
        BY ZenonT(60), <2>2, SlotIs
      <3>3. k \in 1..limit /\ k <= y => k < y \/ k = y
        BY DEF MoreSized
      <3>4. x \in DOMAIN old /\ k \in 1..limit /\ k <= Len(old[x].items) => k <= y
        BY DEF MoreSized
      <3>5. y \in 1..limit /\ y <= y
        BY DEF MoreSized
      <3>6. k \in 1..limit /\ k < y => x \in DOMAIN old /\ k <= Len(old[x].items)
        BY Zenon DEF MoreSized
      <3> QED BY ZenonT(60), <2>2, <3>1, <3>2, <3>3, <3>4, <3>5, <3>6
    <2> QED BY ZenonT(60), <2>1, <2>2
  <1>2. ASSUME NEW s \in Slots(new, limit) PROVE s \in Slots(old, limit) \cup {<<x, y>>}
    <2>1. PICK b, k : s = <<b, k>>
      BY ZenonT(60), SlotIsPair
    <2>2. <<b, k>> \in Slots(old, limit) \/ (b = x /\ k = y)
      BY ZenonT(60), <1>1, <1>2, <2>1
    <2> QED BY ZenonT(60), <2>1, <2>2
  <1>3. ASSUME NEW s \in Slots(old, limit) PROVE s \in Slots(new, limit)
    <2>1. PICK b, k : s = <<b, k>>
      BY ZenonT(60), SlotIsPair
    <2> QED BY ZenonT(60), <1>1, <1>3, <2>1
  <1>4. <<x, y>> \in Slots(new, limit)
    BY ZenonT(60), <1>1
  <1> QED BY ZenonT(60), <1>2, <1>3, <1>4 DEF OneMore

\* x is a new batch.
Begins(I, old, new, limit, item, x) ==
    /\ new \in Seq(Batch(I))
    /\ Grows(old, new, limit, item, <<x, 1>>)
    /\ DOMAIN new = DOMAIN old \cup {x}
    /\ \A b \in DOMAIN old : new[b] = old[b]
    /\ new[x].key = Client!BatchKey(item) /\ Len(new[x].items) = 1

LEMMA BeginsBatch ==
    ASSUME NEW I, NEW old \in Seq(Batch(I)), NEW item \in I, NEW limit \in Nat \ {0}, NEW new,
           new = Append(old, [key |-> Client!BatchKey(item), items |-> <<item>>])
    PROVE  Begins(I, old, new, limit, item, Len(old) + 1)
  <1>1. PICK e, x : e = [key |-> Client!BatchKey(item), items |-> <<item>>] /\ x = Len(old) + 1
    BY ZenonT(60)
  <1>2. e \in Batch(I) /\ e.key = Client!BatchKey(item) /\ e.items = <<item>>
    <2>1. <<item>> \in Seq(I) /\ Client!BatchKey(item) \in {Client!BatchKey(i) : i \in I}
      OBVIOUS
    <2>2. e \in Batch(I)
      BY ZenonT(60), <1>1, <2>1 DEF Batch
    <2> QED BY <1>1, <2>2
  <1>3. /\ new \in Seq(Batch(I)) /\ Len(new) = Len(old) + 1
        /\ \A b \in 1..Len(old) : new[b] = old[b]
        /\ new[x] = e
    <2>1. new = Append(old, e)
      BY ZenonT(60), <1>1
    <2>2. e \in Batch(I)
      BY ZenonT(60), <1>2
    <2> QED BY <1>1, <2>1, <2>2
  <1>4. DOMAIN old = 1..Len(old) /\ DOMAIN new = 1..Len(new) /\ Len(old) \in Nat
    BY ZenonT(60), <1>3, LenProperties
  <1>5. DOMAIN new = DOMAIN old \cup {x} /\ x \notin DOMAIN old
    BY <1>1, <1>3, <1>4
  <1>6. new[x].items = <<item>> /\ Len(new[x].items) = 1 /\ new[x].items[1] = item
    <2>1. Len(<<item>>) = 1 /\ <<item>>[1] = item
      OBVIOUS
    <2> QED BY ZenonT(60), <1>2, <1>3, <2>1
  <1>7. Slots(new, limit) = Slots(old, limit) \cup {<<x, 1>>}
    <2>1. 1 \in 1..limit /\ \A k \in 1..limit : ~(k < 1)
      OBVIOUS
    <2>2. MoreSized(old, new, limit, x, 1)
      <3>1. limit \in Nat
        OBVIOUS
      <3>2. \A b \in DOMAIN old \ {x} : new[b] = old[b]
        BY ZenonT(60), <1>3, <1>4
      <3>3. \A k \in 1..limit : k < 1 => x \in DOMAIN old /\ k <= Len(old[x].items)
        BY ZenonT(60), <2>1
      <3>4. Len(new[x].items) = 1 /\ x \notin DOMAIN old /\ DOMAIN new = DOMAIN old \cup {x}
        BY ZenonT(60), <1>5, <1>6
      <3>5. x \in DOMAIN old => Len(old[x].items) \in Nat /\ Len(old[x].items) < 1
        BY ZenonT(60), <3>4
      <3>6. /\ limit \in Nat /\ 1 \in 1..limit
            /\ DOMAIN new = DOMAIN old \cup {x}
            /\ Len(new[x].items) = 1
        BY ZenonT(60), <2>1, <3>1, <3>4
      <3> QED BY ZenonT(60), <3>2, <3>3, <3>5, <3>6 DEF MoreSized
    <2>3. OneMore(old, new, limit, <<x, 1>>)
      BY Zenon, <2>2, MoreSlots
    <2> QED BY ZenonT(60), <2>3 DEF OneMore
  <1>8. ASSUME NEW t \in Slots(old, limit)
        PROVE  new[t[1]] = old[t[1]] /\ Before(t, <<x, 1>>)
    <2>1. t[1] \in DOMAIN old
      BY Zenon DEF Slots
    <2>2. t[1] < x
      BY <1>1, <1>4, <2>1
    <2> QED BY ZenonT(60), <1>3, <1>4, <2>1, <2>2 DEF Before
  <1>9. Grows(old, new, limit, item, <<x, 1>>)
    BY ZenonT(60), <1>2, <1>3, <1>6, <1>7, <1>8 DEF Grows
  <1>10. Begins(I, old, new, limit, item, x)
    BY ZenonT(60), <1>2, <1>3, <1>4, <1>5, <1>6, <1>9 DEF Begins
  <1> QED BY ZenonT(60), <1>1, <1>10

\* g is the last batch of the item's key, and has room for it.
HasRoom(old, item, limit, g) ==
    /\ g \in DOMAIN old /\ old[g].key = Client!BatchKey(item) /\ Len(old[g].items) < limit
    /\ \A b \in DOMAIN old : old[b].key = Client!BatchKey(item) => b <= g

\* The batch g has taken the item, at y.
Joins(I, old, new, limit, item, g, y) ==
    /\ new \in Seq(Batch(I)) /\ DOMAIN new = DOMAIN old
    /\ Grows(old, new, limit, item, <<g, y>>)
    /\ \A b \in DOMAIN old : new[b].key = old[b].key
    /\ \A b \in DOMAIN old : b # g => new[b] = old[b]
    /\ Len(new[g].items) = y

LEMMA JoinsBatch ==
    ASSUME NEW I, NEW old \in Seq(Batch(I)), NEW item \in I, NEW limit \in Nat \ {0}, NEW new,
           NEW g, HasRoom(old, item, limit, g), new = [old EXCEPT ![g].items = Append(@, item)]
    PROVE  Joins(I, old, new, limit, item, g, Len(old[g].items) + 1)
  <1>0. /\ g \in DOMAIN old /\ old[g].key = Client!BatchKey(item) /\ Len(old[g].items) < limit
        /\ \A b \in DOMAIN old : old[b].key = Client!BatchKey(item) => b <= g
    BY Zenon DEF HasRoom
  <1>1. DOMAIN old = 1..Len(old) /\ Len(old) \in Nat
    BY Zenon, LenProperties
  <1>2. old[g] \in Batch(I)
    BY Zenon, <1>0, <1>1, ElementOfSeq
  <1>3. PICK e, l, y : /\ e = [old[g] EXCEPT !.items = Append(@, item)]
                       /\ l = Len(old[g].items) /\ y = l + 1
    BY Zenon
  <1>4. old[g].items \in Seq(I)
    BY <1>2 DEF Batch
  <1>5. /\ l \in Nat /\ Append(old[g].items, item) \in Seq(I)
        /\ Len(Append(old[g].items, item)) = y /\ Append(old[g].items, item)[y] = item
        /\ \A k \in 1..l : Append(old[g].items, item)[k] = old[g].items[k]
    BY <1>3, <1>4
  <1>6. e \in Batch(I) /\ e.key = old[g].key /\ e.items = Append(old[g].items, item)
    BY ZenonT(60), <1>2, <1>3, <1>5 DEF Batch
  <1>7. new = [old EXCEPT ![g] = e]
    BY Zenon, <1>3
  <1>8. /\ new \in Seq(Batch(I)) /\ DOMAIN new = DOMAIN old /\ new[g] = e
        /\ \A b \in DOMAIN old : b # g => new[b] = old[b]
    <2>1. [old EXCEPT ![g] = e] \in Seq(Batch(I))
      BY ZenonT(60), <1>0, <1>1, <1>6, ExceptSeq
    <2>2. old \in [1..Len(old) -> Batch(I)]
      BY Zenon, LenProperties
    <2> QED BY ZenonT(60), <1>0, <1>7, <2>1, <2>2
  <1>9. \A b \in DOMAIN old : new[b].key = old[b].key
    BY Zenon, <1>6, <1>8
  <1>10. /\ Len(new[g].items) = y /\ new[g].items[y] = item /\ new[g].key = Client!BatchKey(item)
         /\ \A k \in 1..l : new[g].items[k] = old[g].items[k]
    BY ZenonT(60), <1>0, <1>5, <1>6, <1>8
  <1>11. OneMore(old, new, limit, <<g, y>>)
    <2>1. limit \in Nat /\ y \in 1..limit /\ l \in Nat /\ l < y
      BY <1>0, <1>3, <1>5
    <2>2. \A k \in 1..limit : k < y => k <= l
      BY <1>3, <1>5
    <2>3. DOMAIN new = DOMAIN old \cup {g}
      BY Zenon, <1>0, <1>8
    <2>4. MoreSized(old, new, limit, g, y)
      BY ZenonT(60), <1>3, <1>8, <1>10, <2>1, <2>2, <2>3 DEF MoreSized
    <2> QED BY ZenonT(60), <2>4, MoreSlots
  <1>12. ASSUME NEW t \in Slots(old, limit)
         PROVE  /\ new[t[1]].key = old[t[1]].key /\ new[t[1]].items[t[2]] = old[t[1]].items[t[2]]
                /\ old[t[1]].key = Client!BatchKey(item) => Before(t, <<g, y>>)
    <2>1. PICK b, k : t[1] = b /\ t[2] = k
      BY Zenon
    <2>2. b \in DOMAIN old /\ k \in 1..limit /\ k <= Len(old[b].items)
      BY Zenon, <2>1 DEF Slots
    <2>3. b = g => k \in 1..l /\ k < y
      BY <1>3, <1>5, <2>2
    <2>4. new[b].items[k] = old[b].items[k]
      BY ZenonT(60), <1>8, <1>10, <2>2, <2>3
    <2>5. ASSUME old[b].key = Client!BatchKey(item) PROVE b < g \/ (b = g /\ k < y)
      <3>1. b <= g
        BY ZenonT(60), <1>0, <2>2, <2>5
      <3> QED BY SMTT(60), <1>0, <1>1, <2>2, <2>3, <3>1
    <2>6. <<g, y>>[1] = g /\ <<g, y>>[2] = y
      OBVIOUS
    <2> QED BY ZenonT(60), <1>9, <2>1, <2>2, <2>4, <2>5, <2>6 DEF Before
  <1>13. Grows(old, new, limit, item, <<g, y>>)
    <2>1. <<g, y>>[1] = g /\ <<g, y>>[2] = y
      OBVIOUS
    <2> QED BY ZenonT(60), <1>10, <1>11, <1>12, <2>1 DEF Grows, OneMore
  <1>14. Joins(I, old, new, limit, item, g, y)
    BY ZenonT(60), <1>8, <1>9, <1>10, <1>13 DEF Joins
  <1> QED BY Zenon, <1>3, <1>14

\* The batches of the first items, after one more.
LEMMA AdmitCuts ==
    ASSUME NEW I, NEW list \in Seq(I), NEW n \in Nat, n + 1 \in 1..Len(list),
           NEW old \in Seq(Batch(I)), NEW limit \in Nat \ {0}, Client!Cut(list, n, old, limit)
    PROVE  /\ Client!Admit(old, list[n + 1], limit) \in Seq(Batch(I))
           /\ Client!Cut(list, n + 1, Client!Admit(old, list[n + 1], limit), limit)
  <1> DEFINE same(it) == {b \in DOMAIN old : old[b].key = Client!BatchKey(it)}
             g(it) == Client!Greatest(same(it))
  <1>1. PICK item, new : item = list[n + 1] /\ new = Client!Admit(old, list[n + 1], limit)
    BY Zenon
  <1>2. item \in I
    BY Zenon, <1>1, ElementOfSeq
  <1>3. DOMAIN old = 1..Len(old) /\ Len(old) \in Nat
    BY Zenon, LenProperties
  <1>4. PICK place : Holds(list, n, old, limit, place)
    BY Zenon, CutIs
  <1>5. Filled(old, limit)
    BY Zenon, CutIs
  <1>6. same(item) # {} => /\ g(item) \in DOMAIN old /\ old[g(item)].key = Client!BatchKey(item)
                           /\ \A b \in DOMAIN old : old[b].key = Client!BatchKey(item) => b <= g(item)
    <2> SUFFICES ASSUME same(item) # {}
                 PROVE  g(item) \in same(item) /\ \A b \in same(item) : b <= g(item)
      BY Zenon
    <2>1. same(item) \subseteq 1..Len(old)
      BY Zenon, <1>3
    <2> HIDE DEF same
    <2> QED BY ZenonT(60), <1>3, <2>1, GreatestFact
  <1> SUFFICES new \in Seq(Batch(I)) /\ Client!Cut(list, n + 1, new, limit)
    BY Zenon, <1>1
  <1>7. CASE Client!persistentBatchOperation(item) = "none"
    <2>1. new = old
      BY Zenon, <1>1, <1>7 DEF Client!Admit
    <2>2. Pushed(list, n + 1) = Pushed(list, n)
      <3>1. \A i : i \in 1..(n + 1) <=> i \in 1..n \/ i = n + 1
        OBVIOUS
      <3> QED BY ZenonT(60), <1>1, <1>7, <3>1 DEF Pushed
    <2>3. Holds(list, n + 1, new, limit, place)
      BY ZenonT(60), <1>4, <2>1, <2>2 DEF Holds
    <2> QED BY ZenonT(60), <1>5, <2>1, <2>3, CutIs
  <1>8. CASE /\ Client!persistentBatchOperation(item) # "none"
             /\ same(item) = {} \/ Client!Full(old[g(item)], limit)
    <2>1. new = Append(old, [key |-> Client!BatchKey(item), items |-> <<item>>])
      BY Zenon, <1>1, <1>8 DEF Client!Admit
    <2>2. PICK x : x = Len(old) + 1
      BY Zenon
    <2>3. /\ new \in Seq(Batch(I)) /\ Grows(old, new, limit, item, <<x, 1>>)
          /\ DOMAIN new = DOMAIN old \cup {x}
          /\ \A b \in DOMAIN old : new[b] = old[b]
          /\ new[x].key = Client!BatchKey(item) /\ Len(new[x].items) = 1
      <3>1. Begins(I, old, new, limit, item, Len(old) + 1)
        BY Zenon, <1>2, <2>1, BeginsBatch
      <3> QED BY Zenon, <2>2, <3>1 DEF Begins
    <2>4. \A b \in DOMAIN new : Len(new[b].items) \in 1..limit
      <3>1. 1 \in 1..limit
        OBVIOUS
      <3> QED BY ZenonT(60), <1>5, <2>3, <3>1 DEF Filled
    <2>5. ASSUME NEW a \in DOMAIN new, NEW b \in DOMAIN new, a < b, new[a].key = new[b].key
          PROVE  Len(new[a].items) = limit
      <3>1. a \in DOMAIN old
        BY <1>3, <2>2, <2>3, <2>5
      <3>2. CASE b \in DOMAIN old
        BY ZenonT(60), <1>5, <2>3, <2>5, <3>1, <3>2 DEF Filled
      <3>3. CASE b = x
        <4>1. old[a].key = Client!BatchKey(item)
          BY ZenonT(60), <2>3, <2>5, <3>1, <3>3
        <4>2. same(item) # {}
          BY Zenon, <3>1, <4>1
        <4>3. PICK h : h = g(item)
          BY Zenon
        <4>4. h \in DOMAIN old /\ old[h].key = Client!BatchKey(item) /\ a <= h
          BY ZenonT(60), <1>6, <3>1, <4>1, <4>2, <4>3
        <4>5. Len(old[h].items) >= limit
          BY ZenonT(60), <1>8, <4>2, <4>3 DEF Client!Full
        <4>6. Len(old[h].items) \in 1..limit
          BY ZenonT(60), <1>5, <4>4 DEF Filled
        <4>7. Len(old[h].items) = limit
          BY <4>5, <4>6
        <4>8. a = h \/ a < h
          BY <1>3, <3>1, <4>4
        <4> QED BY ZenonT(60), <1>5, <2>3, <3>1, <4>1, <4>4, <4>7, <4>8 DEF Filled
      <3> QED BY ZenonT(60), <2>3, <3>2, <3>3
    <2>6. \E more : Holds(list, n + 1, new, limit, more)
      BY ZenonT(60), <1>1, <1>4, <1>8, <2>3, GrowsHolds
    <2> QED BY ZenonT(60), <2>3, <2>4, <2>5, <2>6, CutIs DEF Filled
  <1>9. CASE /\ Client!persistentBatchOperation(item) # "none"
             /\ ~(same(item) = {} \/ Client!Full(old[g(item)], limit))
    <2>1. new = [old EXCEPT ![g(item)].items = Append(@, item)]
      BY Zenon, <1>1, <1>9 DEF Client!Admit
    <2>2. PICK h, l : h = g(item) /\ l = Len(old[h].items)
      BY Zenon
    <2>3. /\ h \in DOMAIN old /\ old[h].key = Client!BatchKey(item)
          /\ \A b \in DOMAIN old : old[b].key = Client!BatchKey(item) => b <= h
      BY ZenonT(60), <1>6, <1>9, <2>2
    <2>4. l \in 1..limit
      BY ZenonT(60), <1>5, <2>2, <2>3 DEF Filled
    <2>5. ~(l >= limit)
      BY Zenon, <1>9, <2>2 DEF Client!Full
    <2>6. l < limit /\ l + 1 \in 1..limit
      BY <2>4, <2>5
    <2>7. new = [old EXCEPT ![h].items = Append(@, item)]
      BY ZenonT(60), <2>1, <2>2
    <2> HIDE DEF same, g
    <2>8. /\ new \in Seq(Batch(I)) /\ DOMAIN new = DOMAIN old
          /\ Grows(old, new, limit, item, <<h, l + 1>>)
          /\ \A b \in DOMAIN old : new[b].key = old[b].key
          /\ \A b \in DOMAIN old : b # h => new[b] = old[b]
          /\ Len(new[h].items) = l + 1
      <3>1. HasRoom(old, item, limit, h)
        BY ZenonT(60), <2>2, <2>3, <2>6 DEF HasRoom
      <3>2. Joins(I, old, new, limit, item, h, Len(old[h].items) + 1)
        BY ZenonT(60), <1>2, <2>7, <3>1, JoinsBatch
      <3> QED BY Zenon, <2>2, <3>2 DEF Joins
    <2>9. \A b \in DOMAIN new : Len(new[b].items) \in 1..limit
      BY ZenonT(60), <1>5, <2>6, <2>8 DEF Filled
    <2>10. ASSUME NEW a \in DOMAIN new, NEW b \in DOMAIN new, a < b, new[a].key = new[b].key
           PROVE  Len(new[a].items) = limit
      <3>1. a \in DOMAIN old /\ b \in DOMAIN old /\ old[a].key = old[b].key
        BY ZenonT(60), <2>8, <2>10
      <3>2. a # h
        <4> SUFFICES ASSUME a = h PROVE FALSE
          BY Zenon
        <4>1. b <= h
          BY ZenonT(60), <2>3, <3>1
        <4> QED BY <1>3, <2>10, <3>1, <4>1
      <3> QED BY ZenonT(60), <1>5, <2>8, <2>10, <3>1, <3>2 DEF Filled
    <2>11. \E more : Holds(list, n + 1, new, limit, more)
      BY ZenonT(60), <1>1, <1>4, <1>9, <2>8, GrowsHolds
    <2> QED BY ZenonT(60), <2>8, <2>9, <2>10, <2>11, CutIs DEF Filled
  <1> QED BY Zenon, <1>7, <1>8, <1>9

\* No item is in no batches.
LEMMA NothingCut ==
    ASSUME NEW list, NEW limit \in Nat
    PROVE  Client!Cut(list, 0, <<>>, limit)
  <1>1. DOMAIN <<>> = {} /\ 1..0 = {}
    OBVIOUS
  <1>2. Slots(<<>>, limit) = {} /\ Pushed(list, 0) = {}
    BY Zenon, <1>1 DEF Slots, Pushed
  <1>3. PICK place : place = [i \in {} |-> {}]
    BY Zenon
  <1>4. place \in [{} -> {}]
    BY Zenon, <1>3
  <1>5. Holds(list, 0, <<>>, limit, place)
    BY Zenon, <1>2, <1>4 DEF Holds
  <1>6. Filled(<<>>, limit)
    BY Zenon, <1>1 DEF Filled
  <1> QED BY ZenonT(60), <1>5, <1>6, CutIs

\* f is what the loop over the list makes of the batches.
Splits(list, limit, f) ==
    f = [n \in 0..Len(list) |-> IF n = 0 THEN <<>> ELSE Client!Admit(f[n - 1], list[n], limit)]

\* Along the loop the batches are those of the items considered.
LEMMA SplitCuts ==
    ASSUME NEW I, NEW list \in Seq(I), NEW limit \in Nat \ {0}, NEW h, h[0] = <<>>,
           \A n \in 1..Len(list) : Client!Admit(h[n - 1], list[n], limit) \in Seq(Batch(I)) =>
                                     h[n] = Client!Admit(h[n - 1], list[n], limit)
    PROVE  \A n \in 0..Len(list) : h[n] \in Seq(Batch(I)) /\ Client!Cut(list, n, h[n], limit)
  <1> DEFINE S == {n \in Nat : n <= Len(list) => h[n] \in Seq(Batch(I)) /\ Client!Cut(list, n, h[n], limit)}
  <1>1. 0 \in S
    <2>1. limit \in Nat /\ 0 \in Nat
      OBVIOUS
    <2>2. <<>> \in Seq(Batch(I))
      BY Zenon, EmptySeq
    <2> QED BY ZenonT(60), <2>1, <2>2, NothingCut
  <1>2. ASSUME NEW n \in Nat, n \in S PROVE n + 1 \in S
    <2> SUFFICES ASSUME n + 1 <= Len(list)
                 PROVE  h[n + 1] \in Seq(Batch(I)) /\ Client!Cut(list, n + 1, h[n + 1], limit)
      BY SMT
    <2>1. n <= Len(list) /\ n + 1 \in 1..Len(list) /\ (n + 1) - 1 = n
      OBVIOUS
    <2>2. h[n] \in Seq(Batch(I)) /\ Client!Cut(list, n, h[n], limit)
      BY Zenon, <1>2, <2>1
    <2>3. /\ Client!Admit(h[n], list[n + 1], limit) \in Seq(Batch(I))
          /\ Client!Cut(list, n + 1, Client!Admit(h[n], list[n + 1], limit), limit)
      BY ZenonT(60), <2>1, <2>2, AdmitCuts
    <2>4. h[n + 1] = Client!Admit(h[n], list[n + 1], limit)
      BY Zenon, <2>1, <2>3
    <2> QED BY ZenonT(60), <2>3, <2>4
  <1>3. \A n \in Nat : n \in S
    <2> HIDE DEF S
    <2> QED BY ZenonT(60), <1>1, <1>2, SetInduction
  <1>4. \A n \in 0..Len(list) : n \in Nat /\ n <= Len(list)
    OBVIOUS
  <1> QED BY ZenonT(60), <1>3, <1>4

\* Cutting a snapshot into batches loses, repeats and reorders nothing within a
\* service and an operation, no batch is empty or larger than allowed, and only
\* the last batch of a key has room left (splitPersistentBatchesForScope): for
\* every list of items, every maximum the caller asks for, below one too, and
\* every largest size.
THEOREM BatchesAreExact ==
    ASSUME NEW I, NEW list \in Seq(I), NEW maxItems \in Int, NEW most \in Nat \ {0}
    PROVE  Client!CutsExactly(list, maxItems, most)
  <1>1. PICK limit : limit = Client!Limit(maxItems, most)
    BY Zenon
  <1>2. limit \in Nat \ {0} /\ limit \in Nat /\ Len(list) \in Nat
    BY <1>1 DEF Client!Limit
  <1> DEFINE V == Seq(Batch(I))
             admitted(x) == Client!Admit(x[2], list[x[1]], limit)
             step == [x \in (1..Len(list)) \X V |-> IF admitted(x) \in V THEN admitted(x) ELSE <<>>]
             f == CHOOSE h : Splits(list, limit, h)
  <1>3. <<>> \in V
    BY Zenon, EmptySeq
  <1>4. step \in [(1..Len(list)) \X V -> V]
    BY ZenonT(60), <1>3
  <1>5. PICK g \in [0..Len(list) -> V] : Rounds(g, <<>>, Len(list), step)
    <2> HIDE DEF step, V
    <2> QED BY ZenonT(60), <1>2, <1>3, <1>4, Recursion
  <1>6. ASSUME NEW n \in 1..Len(list), Client!Admit(g[n - 1], list[n], limit) \in V
        PROVE  g[n] = Client!Admit(g[n - 1], list[n], limit)
    <2>1. PICK x : x = <<n, g[n - 1]>>
      BY Zenon
    <2>2. n - 1 \in 0..Len(list)
      BY <1>2
    <2>3. x \in (1..Len(list)) \X V /\ x[1] = n /\ x[2] = g[n - 1]
      <3> HIDE DEF V
      <3>1. g[n - 1] \in V
        BY ZenonT(60), <1>5, <2>2
      <3>2. x \in (1..Len(list)) \X V
        BY ZenonT(60), <2>1, <3>1
      <3> QED BY <2>1, <3>2
    <2>4. g[n] = step[x]
      BY ZenonT(60), <1>5, <2>1 DEF Rounds
    <2> QED BY ZenonT(60), <1>6, <2>3, <2>4
  <1>7. \A n \in 0..Len(list) : g[n] \in V /\ Client!Cut(list, n, g[n], limit)
    <2>1. g[0] = <<>>
      BY Zenon, <1>5 DEF Rounds
    <2> QED BY ZenonT(60), <1>2, <1>6, <2>1, SplitCuts
  <1>8. Splits(list, limit, g)
    <2>1. ASSUME NEW n \in 0..Len(list), n # 0 PROVE g[n] = Client!Admit(g[n - 1], list[n], limit)
      <3>1. n \in 1..Len(list) /\ n - 1 \in 0..Len(list) /\ n - 1 \in Nat /\ (n - 1) + 1 = n
        BY <1>2, <2>1
      <3>2. Client!Admit(g[n - 1], list[n], limit) \in V
        <4>1. g[n - 1] \in V /\ Client!Cut(list, n - 1, g[n - 1], limit)
          BY ZenonT(60), <1>7, <3>1
        <4>2. PICK m : m = n - 1
          BY Zenon
        <4>3. m \in Nat /\ m + 1 = n /\ g[m] \in V /\ Client!Cut(list, m, g[m], limit)
          BY ZenonT(60), <3>1, <4>1, <4>2
        <4>4. Client!Admit(g[m], list[m + 1], limit) \in V
          BY ZenonT(60), <1>2, <3>1, <4>3, AdmitCuts
        <4> QED BY ZenonT(60), <4>2, <4>3, <4>4
      <3> QED BY ZenonT(60), <1>6, <3>1, <3>2
    <2>2. g = [n \in 0..Len(list) |-> g[n]]
      BY ZenonT(60), <1>5
    <2>3. g[0] = <<>>
      BY Zenon, <1>5 DEF Rounds
    <2>4. \A n \in 0..Len(list) : g[n] = IF n = 0 THEN <<>> ELSE Client!Admit(g[n - 1], list[n], limit)
      BY ZenonT(60), <2>1, <2>3
    <2> QED BY ZenonT(60), <2>2, <2>4 DEF Splits
  <1>9. Splits(list, limit, f)
    BY Zenon, <1>8
  <1> HIDE DEF f
  <1>10. f[0] = <<>> /\ \A n \in 1..Len(list) : f[n] = Client!Admit(f[n - 1], list[n], limit)
    <2>1. 0 \in 0..Len(list) /\ \A n \in 1..Len(list) : n \in 0..Len(list) /\ n # 0
      BY <1>2
    <2>2. \A n \in 0..Len(list) : f[n] = IF n = 0 THEN <<>> ELSE Client!Admit(f[n - 1], list[n], limit)
      BY Zenon, <1>9 DEF Splits
    <2> QED BY ZenonT(60), <2>1, <2>2
  <1>11. Client!Cut(list, Len(list), f[Len(list)], limit)
    <2>1. \A n \in 0..Len(list) : f[n] \in Seq(Batch(I)) /\ Client!Cut(list, n, f[n], limit)
      BY ZenonT(60), <1>2, <1>10, SplitCuts
    <2>2. Len(list) \in 0..Len(list)
      BY <1>2
    <2> QED BY Zenon, <2>1, <2>2
  <1>12. Client!splitPersistentBatches(list, maxItems, most) = f[Len(list)]
    BY Zenon, <1>1 DEF f, Splits, Client!splitPersistentBatches
  <1> QED BY ZenonT(60), <1>1, <1>11, <1>12 DEF Client!CutsExactly
=============================================================================
