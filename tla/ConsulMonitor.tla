--------------------------- MODULE ConsulMonitor ---------------------------
(***************************************************************************)
(* The Consul monitor (pkg/providers/consul/monitor.go): from a blocking   *)
(* health query to the provider's change handler.                          *)
(*                                                                         *)
(* One goroutine watches the index of Consul; another collects what it     *)
(* signals, waits until the changes pause, and calls the handler in a      *)
(* goroutine of its own.  Two channels with room for one element join      *)
(* them: change says that there is something new, watchTimestamps when it  *)
(* was seen.  The provider registers only a timestamped handler, which is  *)
(* not called without a time.                                              *)
(*                                                                         *)
(* Consul (external) changes its catalog and its index; a restored         *)
(* snapshot takes the index back.  A time is the number of changes that    *)
(* had happened: notices have strictly increasing times.                   *)
(***************************************************************************)
EXTENDS Naturals, FiniteSets

CONSTANTS
    MaxChanges,     \* bound: changes of the catalog
    MaxRestores     \* bound: restored snapshots

ASSUME BoundsAssumption == MaxChanges \in Nat /\ MaxRestores \in Nat

VARIABLES
    changes,        \* changes of the catalog so far
    index,          \* the index Consul answers with
    restores,       \* snapshots restored so far
    cancelled,      \* ctx.Done
    watch,          \* where watchConsul is
    waitIndex, lastIndex,   \* consulWatchIndex
    watchAt,        \* the time of the notice that is being signalled
    watchTimestamps,    \* the time in the channel, 0 if it is empty
    change,         \* there is a signal in the channel
    update,         \* where updateRecord is
    lastChange,     \* lastChange is set: a change waits for the pause
    firstWatchAt,   \* its time, 0 if zero
    running,        \* handler calls in progress
    called,         \* changes that had happened when a handler last began
    returned,       \* Start has returned
    uncovered       \* the notices no handler call has followed yet

sourceVars == <<changes, index, restores>>
watchVars == <<watch, waitIndex, lastIndex, watchAt>>
channels == <<watchTimestamps, change>>
updateVars == <<update, lastChange, firstWatchAt>>
handlerVars == <<running, called>>
vars == <<sourceVars, cancelled, watchVars, channels, updateVars, handlerVars, returned, uncovered>>

Init ==
    /\ changes = 1 /\ index = 1 /\ restores = 0
    /\ cancelled = FALSE
    /\ watch = "client" /\ waitIndex = 0 /\ lastIndex = 0 /\ watchAt = 0
    /\ watchTimestamps = 0 /\ change = FALSE
    /\ update = "select" /\ lastChange = FALSE /\ firstWatchAt = 0
    /\ running = 0 /\ called = 0
    /\ returned = FALSE
    /\ uncovered = {}

-----------------------------------------------------------------------------
\* Consul (external): the catalog changes, or an older snapshot is restored.
CatalogChanges ==
    /\ changes < MaxChanges
    /\ changes' = changes + 1
    /\ \/ index' = index + 1 /\ UNCHANGED restores
       \/ restores < MaxRestores /\ restores' = restores + 1 /\ index' \in 1 .. (index - 1)
    /\ UNCHANGED <<cancelled, watchVars, channels, updateVars, handlerVars, returned, uncovered>>

Cancel ==
    /\ ~cancelled
    /\ cancelled' = TRUE
    /\ UNCHANGED <<sourceVars, watchVars, channels, updateVars, handlerVars, returned, uncovered>>

-----------------------------------------------------------------------------
(***************************************************************************)
(* watchConsul.                                                            *)
(***************************************************************************)
\* A step of the watch that leaves everything else alone.
OnlyWatch == UNCHANGED <<sourceVars, cancelled, updateVars, handlerVars, returned>>

\* Mutant: the first answer is only a baseline.
ObserveFromBaseline(answer) ==
    IF answer = 0
    THEN [changed |-> FALSE, wait |-> 1, last |-> lastIndex]
    ELSE [changed |-> lastIndex # 0 /\ lastIndex # answer, wait |-> answer,
          last |-> answer]

\* observe: changed and the new indexes for an answer (retryImmediately is
\* the case that sets waitIndex to 0).  An answer of 0 has no index.
observe(answer) ==
    IF answer = 0
    THEN [changed |-> FALSE, wait |-> 1, last |-> lastIndex]
    ELSE IF lastIndex # 0 /\ answer < lastIndex
    THEN [changed |-> TRUE, wait |-> 0, last |-> answer]
    ELSE [changed |-> lastIndex # answer, wait |-> answer, last |-> answer]

\* The factory has a client; without one the loop waits and tries again.
GetClient ==
    /\ watch = "client" /\ ~cancelled
    /\ watch' \in {"query", "wait"}
    /\ UNCHANGED <<waitIndex, lastIndex, watchAt, channels, uncovered>> /\ OnlyWatch

\* The health query returns the index of Consul, no index, or an error.
QueryAnswers(answer) ==
    /\ watch = "query"
    /\ LET seen == observe(answer)
       IN  /\ waitIndex' = seen.wait /\ lastIndex' = seen.last
           /\ watch' = IF seen.changed THEN "stamp" ELSE "wait"
           /\ watchAt' = IF seen.changed THEN changes ELSE 0
           /\ uncovered' = IF seen.changed THEN uncovered \cup {changes} ELSE uncovered
    /\ UNCHANGED channels /\ OnlyWatch

QueryFails ==
    /\ watch = "query"
    /\ watch' = IF cancelled THEN "done" ELSE "wait"
    /\ UNCHANGED <<waitIndex, lastIndex, watchAt, channels, uncovered>> /\ OnlyWatch

\* After the signal: a rollback, which has set waitIndex to 0, asks again at
\* once, anything else waits.
AfterSignal == IF waitIndex = 0 THEN "client" ELSE "wait"

\* The time goes into its channel, unless an earlier one is waiting there.
Stamp ==
    /\ watch = "stamp"
    /\ watchTimestamps' = IF watchTimestamps = 0 THEN watchAt ELSE watchTimestamps
    /\ watch' = "signal"
    /\ UNCHANGED <<waitIndex, lastIndex, watchAt, change, uncovered>> /\ OnlyWatch

\* The signal follows, unless one is waiting.
Signal ==
    /\ watch = "signal"
    /\ change' = TRUE
    /\ watch' = AfterSignal
    /\ watchAt' = 0
    /\ UNCHANGED <<waitIndex, lastIndex, watchTimestamps, uncovered>> /\ OnlyWatch

\* m.wait is over.
Waited ==
    /\ watch = "wait" /\ ~cancelled
    /\ watch' = "client"
    /\ UNCHANGED <<waitIndex, lastIndex, watchAt, channels, uncovered>> /\ OnlyWatch

\* ctx.Done is seen at the top of the loop, in a select or in the wait.
WatchStops ==
    /\ cancelled /\ watch \in {"client", "stamp", "signal", "wait"}
    /\ watch' = "done"
    /\ UNCHANGED <<waitIndex, lastIndex, watchAt, channels, uncovered>> /\ OnlyWatch

-----------------------------------------------------------------------------
(***************************************************************************)
(* updateRecord.                                                           *)
(***************************************************************************)
\* The change is received.
Receive ==
    /\ update = "select" /\ change
    /\ change' = FALSE
    /\ update' = "take"
    /\ UNCHANGED <<sourceVars, cancelled, watchVars, watchTimestamps, lastChange, firstWatchAt,
                   handlerVars, returned, uncovered>>

\* The earlier of the time that waits in the channel and the one already kept.
EarlierWatchAt ==
    IF watchTimestamps # 0 /\ (firstWatchAt = 0 \/ watchTimestamps < firstWatchAt)
    THEN watchTimestamps ELSE firstWatchAt

\* takeWatchTimestamp, and the pause starts again.
Take ==
    /\ update = "take"
    /\ firstWatchAt' = EarlierWatchAt
    /\ watchTimestamps' = 0
    /\ lastChange' = TRUE
    /\ update' = "select"
    /\ UNCHANGED <<sourceVars, cancelled, watchVars, change, handlerVars, returned, uncovered>>

\* The periodic check finds that the changes have paused: updateInstanceRecordAt
\* starts the handler, if it has a time to give it.
Fire ==
    /\ update = "select" /\ lastChange
    /\ IF firstWatchAt # 0
       THEN running' = running + 1 /\ uncovered' = {}
       ELSE UNCHANGED <<running, uncovered>>
    /\ lastChange' = FALSE /\ firstWatchAt' = 0
    /\ UNCHANGED <<sourceVars, cancelled, watchVars, channels, update, called, returned>>

UpdateStops ==
    /\ update = "select" /\ cancelled
    /\ update' = "done"
    /\ UNCHANGED <<sourceVars, cancelled, watchVars, channels, lastChange, firstWatchAt, handlerVars,
                   returned, uncovered>>

\* The provider's handler runs: it reads the catalog (ConsulProvider.tla).
HandlerRuns ==
    /\ running > 0
    /\ running' = running - 1
    /\ called' = changes
    /\ UNCHANGED <<sourceVars, cancelled, watchVars, channels, updateVars, returned, uncovered>>

\* eg.Wait and handlersWG.Wait are over.
Joined == watch = "done" /\ update = "done" /\ running = 0

Return ==
    /\ Joined /\ ~returned
    /\ returned' = TRUE
    /\ UNCHANGED <<sourceVars, cancelled, watchVars, channels, updateVars, handlerVars, uncovered>>

WatchStep ==
    \/ GetClient \/ QueryAnswers(index) \/ QueryAnswers(0) \/ QueryFails
    \/ Stamp \/ Signal \/ Waited \/ WatchStops

Next ==
    \/ CatalogChanges \/ Cancel
    \/ WatchStep
    \/ Receive \/ Take \/ Fire \/ UpdateStops
    \/ HandlerRuns \/ Return

Spec == Init /\ [][Next]_vars

(***************************************************************************)
(* Fairness.  Both goroutines go on, and so does the handler.  Clients can *)
(* be had and queries do answer again and again.                           *)
(***************************************************************************)
FairSpec ==
    /\ Spec
    /\ WF_vars(WatchStep)
    /\ SF_vars(GetClient /\ watch' = "query") /\ SF_vars(QueryAnswers(index))
    /\ WF_vars(Receive \/ Take \/ UpdateStops) /\ WF_vars(Fire)
    /\ WF_vars(HandlerRuns) /\ WF_vars(Return)

-----------------------------------------------------------------------------
\* Type invariant.
TypeOK ==
    /\ changes \in Nat /\ index \in Nat /\ restores \in Nat
    /\ cancelled \in BOOLEAN /\ change \in BOOLEAN /\ lastChange \in BOOLEAN /\ returned \in BOOLEAN
    /\ watch \in {"client", "query", "stamp", "signal", "wait", "done"}
    /\ update \in {"select", "take", "done"}
    /\ waitIndex \in Nat /\ lastIndex \in Nat
    /\ watchAt \in 0 .. changes /\ watchTimestamps \in 0 .. changes /\ firstWatchAt \in 0 .. changes
    /\ running \in Nat /\ called \in 0 .. changes
    /\ uncovered \subseteq 1 .. changes

\* A signal is on its way to updateRecord.
Signalled == change \/ watch \in {"stamp", "signal"}

(***************************************************************************)
(* No notice is dropped.  A check that finds no time, and so calls nobody, *)
(* leaves no notice behind, unless another signal is on its way.  Full     *)
(* channels drop times and signals, and a time can be taken by the signal  *)
(* before its own: it must never be the last one that is missing.          *)
(***************************************************************************)
NoNoticeDropped ==
    [][lastChange /\ ~lastChange' /\ running' = running =>
        uncovered = {} \/ Signalled \/ cancelled]_vars

(***************************************************************************)
(* The handler is given the time of the earliest notice it covers, so that *)
(* the latency measured from it is never too small.                        *)
(***************************************************************************)
EarliestNotice ==
    [][running' = running + 1 => \A n \in uncovered : firstWatchAt <= n]_vars

\* Start returns only when no handler call can still reach the provider.
NoCallAfterReturn == returned => running = 0

(***************************************************************************)
(* Whatever the watch has noticed is followed by a handler call that sees  *)
(* it, and so is every change of the catalog as long as the index only     *)
(* grows.  After a restore the index can come back to the value last seen  *)
(* before anyone looks: such a change waits for the periodic compare.      *)
(***************************************************************************)
ChangesReachTheHandler ==
    \A n \in 1 .. MaxChanges :
        /\ (n \in uncovered) ~> (called >= n \/ cancelled)
        /\ (changes >= n) ~> (called >= n \/ cancelled \/ restores > 0)
=============================================================================
