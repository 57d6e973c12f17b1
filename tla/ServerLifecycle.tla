--------------------------- MODULE ServerLifecycle ---------------------------
(***************************************************************************)
(* Leadership and the life of the providers: the election candidate        *)
(* (pkg/distribute/election), the elector that forwards its observations   *)
(* (pkg/worker/elector.go) and the server that starts and stops the        *)
(* providers (internal/server.go).                                         *)
(*                                                                         *)
(* Goroutines: the candidate's poll loop, one notify goroutine for each    *)
(* observed change, the server's Run loop, one stopAndStartProviders       *)
(* goroutine for each gain of leadership (a "startup"), the providers of   *)
(* a published startup, and a caller of Server.Stop.                       *)
(***************************************************************************)
EXTENDS Naturals, Sequences, FiniteSets

CONSTANTS
    Configs,       \* the configurations: sinks, health policy, EnableLeaderElection
    MaxWins,       \* bound: campaigns this node wins
    MaxFailures,   \* bound: startup stages that fail, providers that return early
    DialAttempts,  \* discoveryDialAttempts
    ProviderNames  \* cfg.Providers

ASSUME ConfigsAssumption ==
    Configs \subseteq
        [nacos: BOOLEAN, atlas: BOOLEAN, adminManaged: BOOLEAN, electing: BOOLEAN]

ASSUME BoundsAssumption ==
    /\ MaxWins \in Nat \ {0}
    /\ MaxFailures \in Nat
    /\ DialAttempts \in Nat \ {0}
    /\ ProviderNames # {}

None == 0   \* no startup

\* One startup for each TRUE the loop acts on, hence at most one for each win.
Startups == 1..MaxWins

StartPCs == {"idle", "lock", "stop", "cancel", "begin", "dial", "registry", "policy", "sink",
             "assemble", "publish", "launch", "run", "clear", "done"}
Resources == {"client", "admin", "nacos"}

VARIABLES
    cfg,         \* the configuration of this process
    holdsKey,    \* this node holds the campaign key in etcd
    wins,        \* campaigns won so far
    candidate,   \* [pc, session, known, value]: the poll loop and its last dispatch
    notifying,   \* for each value, its notify goroutines still in flight
    electorDone, \* the elector's context is cancelled
    leaderChCh,  \* the channel of leader changes
    loop,        \* where Run's loop is
    loopCancel,  \* the stop function the loop took in stopProviders
    stopper,     \* where the caller of Stop is; at "done" the stop channel is closed
    stopCancel,  \* the stop function Stop read
    isLeader, stopped, startupGeneration,
    stopProviderFunc, \* NoFunc, or whose wcancel or cleanup it is
    published,   \* the startup whose providers are s.Providers, or None
    lifecycleMu, \* the startup that holds it, or None
    pc,          \* where each startup is
    generation,  \* the generation each startup registered
    attempt,     \* failed dials of each startup
    took,        \* the stop function each startup took in stopProviders
    cancelled,   \* the startups whose context wctx is cancelled
    open,        \* the clients each startup holds open
    running,     \* the providers of each startup that are in Run
    failures

electionVars == <<holdsKey, wins, candidate, notifying>>
callerVars   == <<electorDone, loop, loopCancel, stopper, stopCancel>>
leaderVars   == <<leaderChCh, isLeader, stopped>>
serviceVars  == <<startupGeneration, stopProviderFunc, published>>
contextVars  == <<cancelled, open, running>>
localVars    == <<generation, attempt, took>>
vars == <<cfg, electionVars, callerVars, leaderVars, serviceVars, contextVars,
          lifecycleMu, pc, localVars, failures>>

NoFunc == [startup |-> None, kind |-> "none"]
StopFuncs == [startup: Startups, kind: {"wcancel", "cleanup"}] \cup {NoFunc}

ElectionTypeOK ==
    /\ cfg \in Configs
    /\ holdsKey \in BOOLEAN
    /\ wins \in 0..MaxWins
    /\ candidate \in [pc: {"poll", "campaign"}, session: BOOLEAN, known: BOOLEAN,
                      value: BOOLEAN]
    /\ notifying \in [BOOLEAN -> Nat]
    /\ electorDone \in BOOLEAN
    /\ leaderChCh \in Seq(BOOLEAN)

ServerTypeOK ==
    /\ loop \in {"idle", "lost", "cancel", "quit", "quitCancel", "exited"}
    /\ stopper \in {"none", "cancel", "done"}
    /\ loopCancel \in StopFuncs /\ stopCancel \in StopFuncs
    /\ stopProviderFunc \in StopFuncs
    /\ isLeader \in BOOLEAN /\ stopped \in BOOLEAN
    /\ startupGeneration \in Nat
    /\ published \in Startups \cup {None}
    /\ lifecycleMu \in Startups \cup {None}

StartupTypeOK ==
    /\ pc \in [Startups -> StartPCs]
    /\ generation \in [Startups -> Nat]
    /\ attempt \in [Startups -> Nat]
    /\ took \in [Startups -> StopFuncs]
    /\ cancelled \subseteq Startups
    /\ open \in [Startups -> SUBSET Resources]
    /\ running \in [Startups -> SUBSET ProviderNames]
    /\ failures \in 0..MaxFailures

\* Every variable of the election, the server and the startups keeps its type.
TypeOK == ElectionTypeOK /\ ServerTypeOK /\ StartupTypeOK

\* NewServerFromDeps, and Run, which sends itself the one TRUE when election is off.
Init ==
    /\ cfg \in Configs
    /\ holdsKey = FALSE /\ wins = 0
    /\ candidate = [pc |-> "campaign", session |-> TRUE, known |-> FALSE, value |-> FALSE]
    /\ notifying = [value \in BOOLEAN |-> 0]
    /\ electorDone = FALSE
    /\ leaderChCh = IF cfg.electing THEN <<>> ELSE <<TRUE>>
    /\ loop = "idle" /\ loopCancel = NoFunc
    /\ stopper = "none" /\ stopCancel = NoFunc
    /\ isLeader = FALSE /\ stopped = FALSE
    /\ startupGeneration = 0 /\ stopProviderFunc = NoFunc /\ published = None
    /\ lifecycleMu = None
    /\ pc = [i \in Startups |-> "idle"]
    /\ generation = [i \in Startups |-> 0]
    /\ attempt = [i \in Startups |-> 0]
    /\ took = [i \in Startups |-> NoFunc]
    /\ cancelled = {} /\ failures = 0
    /\ open = [i \in Startups |-> {}]
    /\ running = [i \in Startups |-> {}]

-----------------------------------------------------------------------------
\* The candidate. etcd is external: a lease expires, and a campaign is lost to
\* another node whenever etcd says so.

serverVars == <<callerVars, leaderVars, serviceVars, contextVars, lifecycleMu, pc, localVars,
                failures>>

LeaseExpires ==
    /\ holdsKey
    /\ holdsKey' = FALSE
    /\ UNCHANGED <<cfg, wins, candidate, notifying, serverVars>>

\* No session, no leader and another node's tag all answer FALSE. On any other
\* error Wait skips the tick, which is the same as not having polled yet.
IsLeader == candidate.session /\ holdsKey

\* The first observation and every change of it are dispatched.
ShouldDispatch(value) == ~(candidate.known /\ candidate.value = value)

\* Close and NewElectionSession: the old key is revoked; a failed rebuild leaves
\* the candidate without a session.
Rebuild ==
    /\ \E rebuilt \in BOOLEAN:
         candidate' = [pc |-> "campaign", session |-> rebuilt, known |-> TRUE, value |-> FALSE]
    /\ holdsKey' = FALSE

\* One tick of Wait: observe, dispatch a change in a goroutine of its own, and
\* when not the leader re-enter the election with a new session.
Poll ==
    /\ cfg.electing /\ candidate.pc = "poll" /\ ~electorDone
    /\ notifying' = IF ShouldDispatch(IsLeader)
                    THEN [notifying EXCEPT ![IsLeader] = @ + 1]
                    ELSE notifying
    /\ \/ /\ IsLeader
          /\ candidate' = [candidate EXCEPT !.known = TRUE, !.value = TRUE]
          /\ UNCHANGED holdsKey
       \/ ~IsLeader /\ Rebuild
    /\ UNCHANGED <<cfg, wins, serverVars>>

\* Campaign wins the key, or gives up at its timeout or for want of a session.
Campaign ==
    /\ cfg.electing /\ candidate.pc = "campaign"
    /\ candidate' = [candidate EXCEPT !.pc = "poll"]
    /\ \/ /\ candidate.session /\ wins < MaxWins
          /\ holdsKey' = TRUE /\ wins' = wins + 1
       \/ UNCHANGED <<holdsKey, wins>>
    /\ UNCHANGED <<cfg, notifying, serverVars>>

\* notify and the elector's callback: forwarded, or dropped once the elector's
\* context is done. These goroutines are not ordered among themselves.
Notify(value) ==
    /\ notifying[value] > 0
    /\ notifying' = [notifying EXCEPT ![value] = @ - 1]
    /\ \/ leaderChCh' = Append(leaderChCh, value)
       \/ electorDone /\ UNCHANGED leaderChCh
    /\ UNCHANGED <<cfg, holdsKey, wins, candidate, callerVars, isLeader, stopped, serviceVars,
                   contextVars, lifecycleMu, pc, localVars, failures>>

-----------------------------------------------------------------------------
\* Mutant: the Nacos sink is closed, the discovery client is not.
AfterCleanupOfSink(i) == [open EXCEPT ![i] = IF "nacos" \in @ THEN @ \cap {"client"} ELSE @]

\* Cleanup runs once: it cancels wctx and closes the sinks that exist; the Nacos
\* sink, once built, owns the admin client.
AfterCleanup(i) == [open EXCEPT ![i] = IF "nacos" \in @ THEN {} ELSE @ \cap {"admin"}]

Cleanup(i) ==
    /\ cancelled' = cancelled \cup {i}
    /\ open' = AfterCleanup(i)

Call(f) ==
    /\ cancelled' = IF f = NoFunc THEN cancelled ELSE cancelled \cup {f.startup}
    /\ open' = IF f.kind = "cleanup" THEN AfterCleanup(f.startup) ELSE open
    /\ UNCHANGED running

\* The critical section of stopProviders; its caller then calls what it took.
StopProviders ==
    /\ startupGeneration' = startupGeneration + 1
    /\ stopProviderFunc' = NoFunc
    /\ published' = None

-----------------------------------------------------------------------------
\* Run's loop and Server.Stop.

\* A value Run already holds, or any value after Stop, is dropped.
Receive ==
    /\ loop = "idle" /\ leaderChCh # <<>>
    /\ leaderChCh' = Tail(leaderChCh)
    /\ LET value == Head(leaderChCh) IN
         \/ /\ isLeader = value \/ stopped
            /\ UNCHANGED <<isLeader, loop, pc>>
         \/ /\ value /\ ~isLeader /\ ~stopped
            /\ isLeader' = TRUE
            /\ \E i \in Startups:
                 /\ pc[i] = "idle" /\ \A j \in 1..(i - 1): pc[j] # "idle"
                 /\ pc' = [pc EXCEPT ![i] = "lock"]
            /\ UNCHANGED loop
         \/ /\ ~value /\ isLeader /\ ~stopped
            /\ isLeader' = FALSE
            /\ loop' = "lost"
            /\ UNCHANGED pc
    /\ UNCHANGED <<cfg, electionVars, electorDone, loopCancel, stopper, stopCancel, stopped,
                   serviceVars, contextVars, lifecycleMu, localVars, failures>>

\* The stop channel is closed: Run leaves, and ends the elector.
Quit ==
    /\ loop = "idle" /\ stopper = "done"
    /\ stopped' = TRUE /\ isLeader' = FALSE
    /\ electorDone' = TRUE
    /\ loop' = "quit"
    /\ UNCHANGED <<cfg, electionVars, loopCancel, stopper, stopCancel, leaderChCh, serviceVars,
                   contextVars, lifecycleMu, pc, localVars, failures>>

LoopStops ==
    /\ loop \in {"lost", "quit"}
    /\ StopProviders
    /\ loopCancel' = stopProviderFunc
    /\ loop' = IF loop = "lost" THEN "cancel" ELSE "quitCancel"
    /\ UNCHANGED <<cfg, electionVars, electorDone, stopper, stopCancel, leaderVars, contextVars,
                   lifecycleMu, pc, localVars, failures>>

LoopCancels ==
    /\ loop \in {"cancel", "quitCancel"}
    /\ Call(loopCancel)
    /\ loopCancel' = NoFunc
    /\ loop' = IF loop = "cancel" THEN "idle" ELSE "exited"
    /\ UNCHANGED <<cfg, electionVars, electorDone, stopper, stopCancel, leaderVars, serviceVars,
                   lifecycleMu, pc, localVars, failures>>

\* Stop reads stopProviderFunc without taking it, calls it, closes the channel.
Stop ==
    /\ stopper = "none"
    /\ stopper' = "cancel"
    /\ stopped' = TRUE /\ isLeader' = FALSE
    /\ stopCancel' = stopProviderFunc
    /\ UNCHANGED <<cfg, electionVars, electorDone, loop, loopCancel, leaderChCh, serviceVars,
                   contextVars, lifecycleMu, pc, localVars, failures>>

StopCancels ==
    /\ stopper = "cancel"
    /\ stopper' = "done"
    /\ Call(stopCancel)
    /\ stopCancel' = NoFunc
    /\ UNCHANGED <<cfg, electionVars, electorDone, loop, loopCancel, leaderVars, serviceVars,
                   lifecycleMu, pc, localVars, failures>>

-----------------------------------------------------------------------------
\* A startup: stopAndStartProviders and startProviders, which hold lifecycleMu
\* from the first step to the return of the last provider.

stageVars == <<cfg, electionVars, callerVars, leaderVars>>

Goto(i, stage) == pc' = [pc EXCEPT ![i] = stage]

\* Mutant: an early return without the unlock.
LeaveLocked(i) == Goto(i, "done") /\ UNCHANGED lifecycleMu

\* The return of stopAndStartProviders, with its deferred unlock.
Leave(i) == Goto(i, "done") /\ lifecycleMu' = None

Lock(i) ==
    /\ pc[i] = "lock" /\ lifecycleMu = None
    /\ lifecycleMu' = i
    /\ Goto(i, "stop")
    /\ UNCHANGED <<stageVars, serviceVars, contextVars, localVars, failures>>

StopOld(i) ==
    /\ pc[i] = "stop"
    /\ StopProviders
    /\ took' = [took EXCEPT ![i] = stopProviderFunc]
    /\ Goto(i, "cancel")
    /\ UNCHANGED <<stageVars, contextVars, lifecycleMu, generation, attempt, failures>>

CancelOld(i) ==
    /\ pc[i] = "cancel"
    /\ Call(took[i])
    /\ took' = [took EXCEPT ![i] = NoFunc]
    /\ Goto(i, "begin")
    /\ UNCHANGED <<stageVars, serviceVars, lifecycleMu, generation, attempt, failures>>

\* Mutant: leadership is not looked at again.
MayServeUntilStop == ~stopped

\* The condition a startup checks when it begins and again when it publishes.
MayServe == isLeader /\ ~stopped

Begin(i) ==
    /\ pc[i] = "begin"
    /\ \/ /\ ~MayServe
          /\ cancelled' = cancelled \cup {i}
          /\ Leave(i)
          /\ UNCHANGED <<serviceVars, generation>>
       \/ /\ MayServe
          /\ startupGeneration' = startupGeneration + 1
          /\ stopProviderFunc' = [startup |-> i, kind |-> "wcancel"]
          /\ generation' = [generation EXCEPT ![i] = startupGeneration + 1]
          /\ Goto(i, IF cfg.atlas THEN "dial" ELSE IF cfg.nacos THEN "policy" ELSE "clear")
          /\ UNCHANGED <<published, cancelled, lifecycleMu>>
    /\ UNCHANGED <<stageVars, open, running, attempt, took, failures>>

\* dialDiscoveryWithRetry: the context is looked at before every attempt.
Dial(i) ==
    /\ pc[i] = "dial"
    /\ \/ /\ i \in cancelled
          /\ Goto(i, "clear")
          /\ UNCHANGED <<open, attempt, failures>>
       \/ /\ i \notin cancelled
          /\ open' = [open EXCEPT ![i] = @ \cup {"client"}]
          /\ Goto(i, "registry")
          /\ UNCHANGED <<attempt, failures>>
       \/ /\ i \notin cancelled /\ attempt[i] + 1 < DialAttempts
          /\ attempt' = [attempt EXCEPT ![i] = @ + 1]
          /\ UNCHANGED <<pc, open, failures>>
       \/ /\ i \notin cancelled /\ attempt[i] + 1 = DialAttempts
          /\ failures < MaxFailures /\ failures' = failures + 1
          /\ Goto(i, "clear")
          /\ UNCHANGED <<open, attempt>>
    /\ UNCHANGED <<stageVars, serviceVars, cancelled, running, lifecycleMu, generation, took>>

\* Any stage may fail: it cleans up and goes on to clearStartup.
FailStage(i) ==
    /\ failures < MaxFailures
    /\ failures' = failures + 1
    /\ Cleanup(i)
    /\ Goto(i, "clear")

\* A stage that succeeds opens what it built and moves on.
PassStage(i, built, next) ==
    /\ open' = [open EXCEPT ![i] = @ \cup built]
    /\ Goto(i, next)
    /\ UNCHANGED <<cancelled, failures>>

\* NewDiscoveryCenter
Registry(i) ==
    /\ pc[i] = "registry"
    /\ \/ PassStage(i, {}, IF cfg.nacos THEN "policy" ELSE "assemble")
       \/ FailStage(i)
    /\ UNCHANGED <<stageVars, serviceVars, running, lifecycleMu, localVars>>

\* Transport and environment checks, the admin or the verifier factory.
Policy(i) ==
    /\ pc[i] = "policy"
    /\ \/ PassStage(i, IF cfg.adminManaged THEN {"admin"} ELSE {}, "sink")
       \/ FailStage(i)
    /\ UNCHANGED <<stageVars, serviceVars, running, lifecycleMu, localVars>>

\* Mutant: the admin client of a failed sink is forgotten.
FailSinkOnly(i) == FailStage(i)

\* A sink that cannot be built does not own the admin client: it is closed here.
FailSink(i) ==
    /\ failures < MaxFailures
    /\ failures' = failures + 1
    /\ cancelled' = cancelled \cup {i}
    /\ open' = [open EXCEPT ![i] = {}]
    /\ Goto(i, "clear")

\* NewSinkWithConfig
Sink(i) ==
    /\ pc[i] = "sink"
    /\ \/ PassStage(i, {"nacos"}, "assemble")
       \/ FailSink(i)
    /\ UNCHANGED <<stageVars, serviceVars, running, lifecycleMu, localVars>>

\* The readiness probe, the fanout, the reconcile source, the worker, the
\* providers: whichever of them fails, everything built so far is closed.
Assemble(i) ==
    /\ pc[i] = "assemble"
    /\ \/ PassStage(i, {}, "publish")
       \/ FailStage(i)
    /\ UNCHANGED <<stageVars, serviceVars, running, lifecycleMu, localVars>>

\* A startup that was overtaken, or lost its leadership, is abandoned.
MayPublish(i) ==
    /\ startupGeneration = generation[i]
    /\ MayServe
    /\ i \notin cancelled

Publish(i) ==
    /\ pc[i] = "publish"
    /\ \/ /\ MayPublish(i)
          /\ stopProviderFunc' = [startup |-> i, kind |-> "cleanup"]
          /\ published' = i
          /\ Goto(i, "launch")
          /\ UNCHANGED <<startupGeneration, cancelled, open, lifecycleMu>>
       \/ /\ ~MayPublish(i)
          /\ Cleanup(i)
          /\ Leave(i)
          /\ UNCHANGED serviceVars
    /\ UNCHANGED <<stageVars, running, localVars, failures>>

Launch(i) ==
    /\ pc[i] = "launch"
    /\ running' = [running EXCEPT ![i] = ProviderNames]
    /\ Goto(i, "run")
    /\ UNCHANGED <<stageVars, serviceVars, cancelled, open, lifecycleMu, localVars, failures>>

\* A provider returns because its context is cancelled, or by itself; either way
\* its deferred cleanup ends the whole startup.
ProviderReturns(i, p) ==
    /\ p \in running[i]
    /\ running' = [running EXCEPT ![i] = @ \ {p}]
    /\ \/ i \in cancelled /\ UNCHANGED failures
       \/ i \notin cancelled /\ failures < MaxFailures /\ failures' = failures + 1
    /\ Cleanup(i)
    /\ UNCHANGED <<stageVars, serviceVars, lifecycleMu, pc, localVars>>

\* eg.Wait returned.
Finish(i) ==
    /\ pc[i] = "run" /\ running[i] = {}
    /\ Cleanup(i)
    /\ Goto(i, "clear")
    /\ UNCHANGED <<stageVars, serviceVars, running, lifecycleMu, localVars, failures>>

ClearStartup(i) ==
    /\ pc[i] = "clear"
    /\ IF startupGeneration = generation[i]
       THEN stopProviderFunc' = NoFunc /\ published' = None /\ UNCHANGED startupGeneration
       ELSE UNCHANGED serviceVars
    /\ cancelled' = cancelled \cup {i}
    /\ Leave(i)
    /\ UNCHANGED <<stageVars, open, running, localVars, failures>>

StartStep(i) ==
    \/ Lock(i) \/ StopOld(i) \/ CancelOld(i) \/ Begin(i) \/ Dial(i) \/ Registry(i)
    \/ Policy(i) \/ Sink(i) \/ Assemble(i) \/ Publish(i) \/ Launch(i) \/ Finish(i)
    \/ ClearStartup(i)

Next ==
    \/ LeaseExpires \/ Poll \/ Campaign
    \/ \E value \in BOOLEAN: Notify(value)
    \/ Receive \/ Quit \/ LoopStops \/ LoopCancels \/ Stop \/ StopCancels
    \/ \E i \in Startups: StartStep(i)
    \/ \E i \in Startups, p \in ProviderNames: ProviderReturns(i, p)

\* The goroutines of the server run: its loop, a caller inside Stop, every
\* startup, and a provider whose context is cancelled.
Fairness ==
    /\ WF_vars(Receive) /\ WF_vars(Quit) /\ WF_vars(LoopStops)
    /\ WF_vars(LoopCancels) /\ WF_vars(StopCancels)
    /\ \A i \in Startups:
         /\ WF_vars(StartStep(i))
         /\ \A p \in ProviderNames: WF_vars(i \in cancelled /\ ProviderReturns(i, p))

Spec == Init /\ [][Next]_vars /\ Fairness

-----------------------------------------------------------------------------
\* At most one startup has anything open or running: a new leadership never
\* overlaps the previous one's sinks and providers (stopAndStartProviders holds
\* lifecycleMu until its last provider returned).
OneAtATime ==
    \A i, j \in Startups:
        /\ open[i] # {} \/ running[i] # {}
        /\ open[j] # {} \/ running[j] # {}
        => i = j

\* Once the loop has dealt with a lost leadership (or a stop), every provider
\* still in Run has been told to stop: none was published in between by a
\* startup that checked its leadership too early.
NoRogueProviders ==
    \A i \in Startups:
        /\ ~isLeader /\ loop \in {"idle", "exited"} /\ stopper # "cancel"
        /\ pc[i] \in {"launch", "run"}
        => i \in cancelled

\* A startup that returned left no client, sink or admin connection open and no
\* provider running, whichever stage it ended at.
NothingLeaks ==
    \A i \in Startups: pc[i] = "done" => open[i] = {} /\ running[i] = {}

\* What the server publishes it can stop: s.Providers is set only while
\* stopProviderFunc is the cleanup of the very same startup.
PublishedIsStoppable ==
    published # None => stopProviderFunc = [startup |-> published, kind |-> "cleanup"]

\* After Stop everything is closed and every provider has returned, for good.
StopQuiesces ==
    stopped ~> [](\A i \in Startups: open[i] = {} /\ running[i] = {})

\* A node that stays leader ends up running its providers, unless a stage
\* failed or no sink is configured: no startup waits for ever on another, and
\* none is abandoned for a generation that nobody serves.
LeaderServes ==
    (MayServe /\ (cfg.nacos \/ cfg.atlas)) ~>
        \/ ~MayServe \/ failures > 0
        \/ published # None /\ running[published] = ProviderNames

\* Once every notification is delivered and handled, the server's isLeader is
\* the candidate's last observation (election.go: dispatching only changes "is
\* behavior-compatible for the only consumer (the server)").
BeliefMatchesObservation ==
    /\ candidate.known /\ ~stopped
    /\ \A value \in BOOLEAN: notifying[value] = 0
    /\ leaderChCh = <<>>
    => isLeader = candidate.value

=============================================================================
