--------------------------- MODULE OverflowQueue ---------------------------
(***************************************************************************)
(* The provider's requeue for events that a saturated worker pool refused  *)
(* (pkg/providers/overflow.go).                                            *)
(*                                                                         *)
(* At most one task per identity waits; a newer task replaces it, even     *)
(* while the dispatcher is submitting the older one to the pool.  The      *)
(* dispatcher runs on its own goroutine and sleeps on a channel that holds *)
(* one wake-up token.  The tasks of an identity are numbered in the order  *)
(* they are offered.                                                       *)
(***************************************************************************)
EXTENDS Naturals, Sequences, FiniteSets, Functions

CONSTANTS
    Keys,       \* identities
    MaxKeys,    \* the number of identities the queue retains
    MaxTasks,   \* bound: tasks of one identity
    MaxRefusals,\* bound: submissions the pool refuses
    None        \* an absent map entry

ASSUME MaxKeysAssumption == MaxKeys \in Nat \ {0}
ASSUME BoundsAssumption == MaxTasks \in Nat /\ MaxRefusals \in Nat

Task == 1 .. MaxTasks

\* What the queue retains of an identity, and what the dispatcher submits.
Waiting == [task : Task, generation : Task, inflight : BOOLEAN]
Taken == [key : Keys, task : Task, generation : Task]

ASSUME NoneAssumption == None \notin Waiting \cup Taken

VARIABLES
    entries,    \* entries[k]: [task, generation, inflight], or None
    order,      \* the identities to submit, first come first served
    wake,       \* the wake-up token is in the channel
    signalling, \* identities whose Offer has left the lock and not yet signalled
    closed,     \* Close was called
    cancelled,  \* the provider's context is done
    pc,         \* the dispatcher: "select", "next", "submit", "finish", "refused",
                \* "retry" or "done"
    current,    \* what it is submitting: [key, task, generation], or None
    accepted,   \* accepted[k]: the last task Offer took, 0 before the first
    submitted,  \* submitted[k]: the last task the pool took, 0 before the first
    refusals

vars == <<entries, order, wake, signalling, closed, cancelled, pc, current,
          accepted, submitted, refusals>>

Retained == {k \in Keys : entries[k] # None}

Init ==
    /\ entries = [k \in Keys |-> None]
    /\ order = <<>>
    /\ wake = FALSE
    /\ signalling = {}
    /\ closed = FALSE
    /\ cancelled = FALSE
    /\ pc = "select"
    /\ current = None
    /\ accepted = [k \in Keys |-> 0]
    /\ submitted = [k \in Keys |-> 0]
    /\ refusals = 0

-----------------------------------------------------------------------------
\* Mutant: the replacing task keeps the generation of the replaced one.
ReplacedSameGeneration(entry, task) == [entry EXCEPT !.task = task]

\* A newer task replaces the waiting one, under a generation of its own.
Replaced(entry, task) == [entry EXCEPT !.task = task, !.generation = @ + 1]

Room == Cardinality(Retained) < MaxKeys

\* Offer of k's next task, up to its unlock.  An Offer that is refused, by a
\* closed queue or for want of room, changes nothing.
Offer(k) ==
    LET task == accepted[k] + 1
    IN  /\ k \notin signalling
        /\ task <= MaxTasks
        /\ ~closed
        /\ \/ /\ k \in Retained
              /\ entries' = [entries EXCEPT ![k] = Replaced(@, task)]
              /\ UNCHANGED order
           \/ /\ k \notin Retained /\ Room
              /\ entries' = [entries EXCEPT ![k] =
                                [task |-> task, generation |-> 1, inflight |-> FALSE]]
              /\ order' = Append(order, k)
        /\ accepted' = [accepted EXCEPT ![k] = task]
        /\ signalling' = signalling \cup {k}
        /\ UNCHANGED <<wake, closed, cancelled, pc, current, submitted, refusals>>

\* The end of Offer: a non-blocking send of the wake-up token.
Signal(k) ==
    /\ k \in signalling
    /\ signalling' = signalling \ {k}
    /\ wake' = TRUE
    /\ UNCHANGED <<entries, order, closed, cancelled, pc, current, accepted,
                   submitted, refusals>>

-----------------------------------------------------------------------------
\* run: the select on the context, the stop channel and the token.
Select ==
    /\ pc = "select"
    /\ \/ (closed \/ cancelled) /\ pc' = "done" /\ UNCHANGED wake
       \/ wake /\ wake' = FALSE /\ pc' = "next"
    /\ UNCHANGED <<entries, order, signalling, closed, cancelled, current, accepted, submitted, refusals>>

\* next: the first identity in order that is retained and not in flight.
NextTask ==
    LET eligible(i) == order[i] \in Retained /\ ~entries[order[i]].inflight
        first == CHOOSE i \in 1 .. Len(order) + 1 :
                    /\ \A j \in 1 .. i - 1 : ~eligible(j)
                    /\ i <= Len(order) => eligible(i)
        k == order[first]
    IN  /\ pc = "next"
        /\ \/ /\ first > Len(order)
              /\ order' = <<>>
              /\ pc' = "select"
              /\ UNCHANGED <<entries, current>>
           \/ /\ first <= Len(order)
              /\ order' = SubSeq(order, first + 1, Len(order))
              /\ entries' = [entries EXCEPT ![k].inflight = TRUE]
              /\ current' = [key |-> k, task |-> entries[k].task,
                             generation |-> entries[k].generation]
              /\ pc' = "submit"
        /\ UNCHANGED <<wake, signalling, closed, cancelled, accepted, submitted, refusals>>

\* The non-blocking pool takes the task, or refuses it while it is saturated.
\* A queue without a pool (submit is nil) behaves as one that always refuses.
Submit ==
    /\ pc = "submit"
    /\ \/ /\ submitted' = [submitted EXCEPT ![current.key] = current.task]
          /\ pc' = "finish"
          /\ UNCHANGED refusals
       \/ /\ refusals < MaxRefusals
          /\ refusals' = refusals + 1
          /\ pc' = "refused"
          /\ UNCHANGED submitted
    /\ UNCHANGED <<entries, order, wake, signalling, closed, cancelled, current, accepted>>

\* The entry is deleted if the task that the pool took is still the newest.
Forgotten(k, generation, ok) == ok /\ entries[k].generation = generation

\* Mutant: what stays is queued again, but nobody is told.
FinishSilent(ok) ==
    LET k == current.key
    IN  /\ \/ /\ Forgotten(k, current.generation, ok)
              /\ entries' = [entries EXCEPT ![k] = None]
              /\ UNCHANGED order
           \/ /\ ~Forgotten(k, current.generation, ok)
              /\ entries' = [entries EXCEPT ![k].inflight = FALSE]
              /\ order' = Append(order, k)
        /\ current' = None
        /\ UNCHANGED wake

\* finish: otherwise the identity is queued again, and the token is sent.
Finish(ok) ==
    LET k == current.key
    IN  /\ \/ /\ Forgotten(k, current.generation, ok)
              /\ entries' = [entries EXCEPT ![k] = None]
              /\ UNCHANGED <<order, wake>>
           \/ /\ ~Forgotten(k, current.generation, ok)
              /\ entries' = [entries EXCEPT ![k].inflight = FALSE]
              /\ order' = Append(order, k)
              /\ wake' = TRUE
        /\ current' = None

FinishSubmitted ==
    /\ pc = "finish"
    /\ Finish(TRUE)
    /\ pc' = "next"
    /\ UNCHANGED <<signalling, closed, cancelled, accepted, submitted, refusals>>

FinishRefused ==
    /\ pc = "refused"
    /\ Finish(FALSE)
    /\ pc' = "retry"
    /\ UNCHANGED <<signalling, closed, cancelled, accepted, submitted, refusals>>

\* waitRetry: the timer, or the end of the queue.
WaitRetry ==
    /\ pc = "retry"
    /\ \/ pc' = "select"
       \/ (closed \/ cancelled) /\ pc' = "done"
    /\ UNCHANGED <<entries, order, wake, signalling, closed, cancelled, current, accepted, submitted, refusals>>

Close ==
    /\ ~closed
    /\ closed' = TRUE
    /\ UNCHANGED <<entries, order, wake, signalling, cancelled, pc, current, accepted, submitted, refusals>>

Cancel ==
    /\ ~cancelled
    /\ cancelled' = TRUE
    /\ UNCHANGED <<entries, order, wake, signalling, closed, pc, current, accepted, submitted, refusals>>

Dispatch == Select \/ NextTask \/ Submit \/ FinishSubmitted \/ FinishRefused \/ WaitRetry

Next ==
    \/ \E k \in Keys : Offer(k) \/ Signal(k)
    \/ Dispatch
    \/ Close \/ Cancel

Spec == Init /\ [][Next]_vars

\* The dispatcher and a goroutine inside Offer are scheduled; nobody has to
\* offer or close anything.  The pool is not saturated for ever.
FairSpec == Spec /\ WF_vars(Dispatch) /\ \A k \in Keys : WF_vars(Signal(k))

-----------------------------------------------------------------------------
\* Type invariant: the queue never retains more identities than its bound.
TypeOK ==
    /\ entries \in [Keys -> Waiting \cup {None}]
    /\ Cardinality(Retained) <= MaxKeys
    /\ order \in Seq(Keys)
    /\ wake \in BOOLEAN /\ closed \in BOOLEAN /\ cancelled \in BOOLEAN
    /\ signalling \subseteq Keys
    /\ pc \in {"select", "next", "submit", "finish", "refused", "retry", "done"}
    /\ current \in Taken \cup {None}
    /\ \A k \in Keys : submitted[k] \in 0 .. MaxTasks /\ accepted[k] \in 0 .. MaxTasks

(***************************************************************************)
(* No accepted task is lost or repeated.  The newest task that Offer took  *)
(* for an identity is submitted or retained, whatever the dispatcher was   *)
(* doing when it came, so that the number Close returns counts every task  *)
(* given up; the waiting identities are in order exactly once each, and    *)
(* only the task the dispatcher holds is in flight; and a task is handed   *)
(* to the pool only if it is newer than the last one of its identity.      *)
(***************************************************************************)
NewestIsKept ==
    /\ \A k \in Keys :
        accepted[k] = submitted[k] \/ (k \in Retained /\ entries[k].task = accepted[k])
    /\ \A i, j \in DOMAIN order : order[i] = order[j] => i = j
    /\ Range(order) = {k \in Retained : ~entries[k].inflight}
    /\ {k \in Retained : entries[k].inflight} = {c.key : c \in {current} \ {None}}
    /\ pc = "submit" => current.task > submitted[current.key]

\* A task that Offer took reaches the pool, or a newer one does, unless the
\* queue is closed: a pool saturated for a while loses nothing.
AcceptedIsSubmitted ==
    \A k \in Keys : \A n \in Task :
        accepted[k] = n ~> submitted[k] >= n \/ closed \/ cancelled
=============================================================================
