-------------------------- MODULE CoalescingQueue --------------------------
(***************************************************************************)
(* The event queue between the pod informers and the Kubernetes provider   *)
(* (pkg/k8srobot/k8srobot.go, coalescingQueue and robot.Pop).              *)
(*                                                                         *)
(* The queue is keyed: a later event of a queued pod replaces the queued   *)
(* one where it stands.  A new pod that finds the queue full of other pods *)
(* is dropped into a bounded recovery buffer, which pop empties into the   *)
(* slots it frees.  Informer callbacks never block; the one consumer       *)
(* sleeps on a channel that holds a single wake-up token.                  *)
(*                                                                         *)
(* An event is told apart by its pod and its number among the events of    *)
(* that pod, which also stands for the time it was created.                *)
(***************************************************************************)
EXTENDS Naturals, Sequences, Functions

CONSTANTS
    Pods,       \* identity keys of queued objects
    Capacity,   \* the number of different pods the queue holds
    MaxEvents   \* bound: events of one pod

ASSUME CapacityAssumption == Capacity \in Nat \ {0}
ASSUME MaxEventsAssumption == MaxEvents \in Nat

VARIABLES
    order,      \* the queued entries (items, in the order of the list)
    recovering, \* the dropped entries that will be offered again
    notify,     \* the wake-up token is in the channel
    waking,     \* pods whose callback has left the lock and not yet sent it
    done,       \* the robot was stopped
    consumer,   \* where Pop is: "pop", "select", "drain", "stopped"
    offered,    \* offered[p]: the number of p's last event
    popped,     \* popped[p]: offered[p] at p's last pop
    delivered,  \* delivered[p]: the number of the event Pop last returned for p
    lost,       \* pods with an event that found the recovery buffer full
    owed        \* pods that waited in the queue when the robot was stopped

vars == <<order, recovering, notify, waking, done, consumer, offered, popped,
          delivered, lost, owed>>

\* A queued object: its pod, its newest event, and the time it counts from.
Entry == [pod : Pods, event : 1 .. MaxEvents, createAt : 1 .. MaxEvents]

PodsIn(s) == {e.pod : e \in Range(s)}

\* Something happened to p since Pop last returned it.
Unseen == {p \in Pods : popped[p] < offered[p]}

Init ==
    /\ order = <<>>
    /\ recovering = <<>>
    /\ notify = FALSE
    /\ waking = {}
    /\ done = FALSE
    /\ consumer = "pop"
    /\ offered = [p \in Pods |-> 0]
    /\ popped = [p \in Pods |-> 0]
    /\ delivered = [p \in Pods |-> 0]
    /\ lost = {}
    /\ owed = {}

-----------------------------------------------------------------------------
\* The newest event of a queued pod takes the place of the queued one and
\* keeps the earlier creation time.
Supersede(q, item) ==
    [i \in DOMAIN q |->
        IF q[i].pod = item.pod
        THEN [item EXCEPT !.createAt = IF q[i].createAt < @ THEN q[i].createAt ELSE @]
        ELSE q[i]]

\* Offer, from an informer callback: the next event of p, under the lock.
Offer(p) ==
    LET item == [pod |-> p, event |-> offered[p] + 1, createAt |-> offered[p] + 1]
    IN  /\ p \notin waking
        /\ offered[p] < MaxEvents
        /\ offered' = [offered EXCEPT ![p] = @ + 1]
        /\ \/ /\ p \in PodsIn(order)
              /\ order' = Supersede(order, item)
              /\ UNCHANGED <<recovering, waking, lost>>
           \/ /\ p \notin PodsIn(order) /\ Len(order) >= Capacity
              /\ IF Len(recovering) < Capacity
                 THEN recovering' = Append(recovering, item) /\ UNCHANGED lost
                 ELSE lost' = lost \cup {p} /\ UNCHANGED recovering
              /\ UNCHANGED <<order, waking>>
           \/ /\ p \notin PodsIn(order) /\ Len(order) < Capacity
              /\ order' = Append(order, item)
              /\ waking' = waking \cup {p}
              /\ UNCHANGED <<recovering, lost>>
        /\ UNCHANGED <<notify, done, consumer, popped, delivered, owed>>

\* Mutant: a new pod is queued without waking the consumer.
SignalNever(p) ==
    /\ p \in waking
    /\ waking' = waking \ {p}
    /\ UNCHANGED <<order, recovering, notify, done, consumer, offered, popped, delivered, lost, owed>>

\* The end of Offer, outside the lock: the non-blocking send to notify.
Signal(p) ==
    /\ p \in waking
    /\ waking' = waking \ {p}
    /\ notify' = TRUE
    /\ UNCHANGED <<order, recovering, done, consumer, offered, popped, delivered, lost, owed>>

-----------------------------------------------------------------------------
\* Mutant: the dropped pods are left to the next full push.
ReadmitNone(q, r) == [order |-> q, recovering |-> <<>>]

\* Mutant: dropped pods are admitted only into an empty queue.
ReadmitWhenDrained(q, r) ==
    IF q = <<>> /\ r # <<>>
    THEN [order |-> <<Head(r)>>, recovering |-> Tail(r)]
    ELSE [order |-> q, recovering |-> r]

(***************************************************************************)
(* The loop at the end of pop: while there is room, the first recovery     *)
(* entry is queued, or skipped if its pod is queued already.  readmit[i]   *)
(* is the queue after the first i entries were considered.                 *)
(***************************************************************************)
Readmit(q, r) ==
    LET readmit[i \in 0 .. Len(r)] ==
            IF i = 0 THEN q
            ELSE IF r[i].pod \in PodsIn(readmit[i - 1]) THEN readmit[i - 1]
            ELSE Append(readmit[i - 1], r[i])
        taken == CHOOSE n \in 0 .. Len(r) :
                    /\ \A i \in 0 .. n - 1 : Len(readmit[i]) < Capacity
                    /\ n = Len(r) \/ Len(readmit[n]) >= Capacity
    IN  [order |-> readmit[taken], recovering |-> SubSeq(r, taken + 1, Len(r))]

\* pop: the oldest entry leaves the queue and its slot is filled again.
PopFront ==
    LET p == Head(order).pod
        after == Readmit(Tail(order), recovering)
    IN  /\ order' = after.order
        /\ recovering' = after.recovering
        /\ popped' = [popped EXCEPT ![p] = offered[p]]
        /\ delivered' = [delivered EXCEPT ![p] = Head(order).event]
        /\ lost' = lost \ {p}
        /\ owed' = owed \ {p}

\* Pop: the attempt that returns an object; the monitor then calls Pop again.
Pop ==
    /\ consumer \in {"pop", "drain"}
    /\ order # <<>>
    /\ PopFront
    /\ consumer' = "pop"
    /\ UNCHANGED <<notify, waking, done, offered>>

\* Pop: the attempt that finds the queue empty.
PopEmpty ==
    /\ order = <<>>
    /\ \/ consumer = "pop" /\ consumer' = "select"
       \/ consumer = "drain" /\ consumer' = "stopped"
    /\ UNCHANGED <<order, recovering, notify, waking, done, offered, popped, delivered, lost, owed>>

\* Pop: the select on the wake-up token and on done.
Select ==
    /\ consumer = "select"
    /\ \/ notify /\ notify' = FALSE /\ consumer' = "pop"
       \/ done /\ consumer' = "drain" /\ UNCHANGED notify
    /\ UNCHANGED <<order, recovering, waking, done, offered, popped, delivered, lost, owed>>

Stop ==
    /\ ~done
    /\ done' = TRUE
    /\ owed' = PodsIn(order) \cup PodsIn(recovering)
    /\ UNCHANGED <<order, recovering, notify, waking, consumer, offered, popped, delivered, lost>>

Next == (\E p \in Pods : Offer(p) \/ Signal(p)) \/ Pop \/ PopEmpty \/ Select \/ Stop

Spec == Init /\ [][Next]_vars

\* The monitor goroutine keeps calling Pop and a callback that has left the
\* lock goes on; new events and Stop may or may not come.
FairSpec ==
    /\ Spec
    /\ WF_vars(Pop) /\ WF_vars(PopEmpty) /\ WF_vars(Select)
    /\ \A p \in Pods : WF_vars(Signal(p))

-----------------------------------------------------------------------------
\* Type invariant: both buffers are bounded, and no pod is queued twice.
TypeOK ==
    /\ order \in Seq(Entry) /\ Len(order) <= Capacity
    /\ \A i, j \in DOMAIN order : order[i].pod = order[j].pod => i = j
    /\ recovering \in Seq(Entry) /\ Len(recovering) <= Capacity
    /\ notify \in BOOLEAN /\ done \in BOOLEAN /\ waking \subseteq Pods
    /\ consumer \in {"pop", "select", "drain", "stopped"}
    /\ offered \in [Pods -> 0 .. MaxEvents]
    /\ popped \in [Pods -> 0 .. MaxEvents]
    /\ delivered \in [Pods -> 0 .. MaxEvents]
    /\ lost \subseteq Pods /\ owed \subseteq Pods

(***************************************************************************)
(* Nothing is lost in the queue.  Every change of a pod is followed by a   *)
(* pop of that pod or waits for one, the only way out being an overflow of *)
(* the recovery buffer; a pod that waits counts from the first of its      *)
(* events that Pop has not returned, so the measured delay includes the    *)
(* whole wait; and Pop reports the end only after it has returned every    *)
(* pod that waited when the robot was stopped.                             *)
(***************************************************************************)
ChangesAreKept ==
    /\ Unseen \subseteq PodsIn(order) \cup PodsIn(recovering) \cup lost
    /\ \A e \in Range(order) : e.pod \notin lost => e.createAt = popped[e.pod] + 1
    /\ consumer = "stopped" => owed = {}

\* Pop never goes back in the events of a pod.
EventsInOrder == [][\A p \in Pods : delivered'[p] >= delivered[p]]_vars

\* A pod that waits is popped, in the queue or in the recovery buffer, and
\* even after Stop.
WaitingPodsArePopped ==
    \A p \in Pods : p \in Unseen \ lost ~> p \notin Unseen \/ p \in lost \/ consumer = "stopped"

-----------------------------------------------------------------------------
(***************************************************************************)
(* A statement of the source's comments that the code does not keep.       *)
(***************************************************************************)

\* k8srobot.go, on pop: a recovery entry "whose key is already queued again
\* (a later event admitted it) is skipped: the queued event is at least as
\* new".  Without an overflow, Pop returns the last event of the pod.
SkippedIsOlder ==
    [][\A p \in Pods :
        popped'[p] # popped[p] /\ p \notin lost => delivered'[p] = offered[p]]_vars
=============================================================================
