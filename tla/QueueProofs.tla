---------------------------- MODULE QueueProofs ----------------------------
(***************************************************************************)
(* The two bounded queues of the program, for any number of identities,    *)
(* any capacity and any number of tasks or events.                         *)
(*                                                                         *)
(* The first part is about the event queue of the Kubernetes informers     *)
(* (CoalescingQueue), the second about the queue in front of the           *)
(* providers' worker pool (OverflowQueue). The keys stand for the pods of  *)
(* the first and the identities of the second.                             *)
(*                                                                         *)
(* Both invariants tell where the newest thing of a key is. In the event   *)
(* queue it may be in the recovery buffer behind a full queue, and a       *)
(* recovery entry is of use only if its pod is not queued and no earlier   *)
(* entry is of the same pod: SinceInv is about those entries (Returns),    *)
(* and PlaceInv keeps the entries that are to be skipped in front of the   *)
(* moment their pod is popped. What the loop at the end of pop does to the *)
(* two buffers is an induction over the recovery buffer                    *)
(* (ReadmitFillsTheSlot).                                                  *)
(***************************************************************************)
EXTENDS OverflowQueue, SequenceTheorems, WellFoundedInduction, TLAPS

VARIABLES
    pods, recovering, notify, waking, done, consumer, offered, popped, delivered, lost, owed

\* The event queue, with a capacity that OverflowQueue assumes to be positive.
Coalescing == INSTANCE CoalescingQueue WITH
    Pods <- Keys, Capacity <- MaxKeys, MaxEvents <- MaxTasks, order <- pods

\* An entry that waits is newer than what was delivered of its pod.
Sound(e) ==
    delivered[e.pod] < e.event /\ e.event <= offered[e.pod] /\ e.createAt <= e.event

EventInv ==
    /\ \A p \in Keys : delivered[p] <= offered[p] /\ popped[p] <= offered[p]
    /\ \A i \in DOMAIN pods : Sound(pods[i])
    /\ \A j \in DOMAIN recovering : Sound(recovering[j])

\* An entry waits for recovery only behind a full queue, and one whose pod is
\* queued is considered, and skipped, before that pod is popped.
PlaceInv ==
    /\ recovering # <<>> => Len(pods) = MaxKeys
    /\ \A i \in DOMAIN pods, j \in DOMAIN recovering : pods[i].pod = recovering[j].pod => j < i

\* Entry j of the recovery buffer is the one that will bring its pod back.
Returns(j) ==
    /\ recovering[j].pod \notin Coalescing!PodsIn(pods)
    /\ \A i \in 1 .. j - 1 : recovering[i].pod # recovering[j].pod

\* What waits counts from the first event that was not popped.
SinceInv ==
    /\ \A i \in DOMAIN pods : pods[i].pod \notin lost => pods[i].createAt = popped[pods[i].pod] + 1
    /\ \A j \in DOMAIN recovering :
        Returns(j) /\ recovering[j].pod \notin lost => recovering[j].createAt = popped[recovering[j].pod] + 1

QueuedPods == Coalescing!PodsIn(pods) \cup Coalescing!PodsIn(recovering)

KeptInv ==
    /\ Coalescing!Unseen \subseteq QueuedPods \cup lost
    /\ owed \subseteq QueuedPods
    /\ consumer \in {"drain", "stopped"} => done
    /\ consumer = "stopped" => owed = {}

CoalescingInv == Coalescing!TypeOK /\ EventInv /\ PlaceInv /\ SinceInv /\ KeptInv

-----------------------------------------------------------------------------

\* A property of some natural number has a least number.
LEMMA LeastNatural ==
    ASSUME NEW T, T \subseteq Nat, T # {}
    PROVE  \E n \in T : \A m \in T : n <= m
  <1> DEFINE lt == {ss \in Nat \X Nat : ss[1] < ss[2]}
  <1>1. IsWellFoundedOn(lt, Nat)
    BY Zenon, NatLessThanWellFounded DEF OpToRel
  <1> HIDE DEF lt
  <1>2. PICK n \in T : \A m \in T : ~(<<m, n>> \in lt)
    BY Zenon, <1>1, WFMin
  <1>3. ASSUME NEW m \in T PROVE n <= m
    <2>1. m \in Nat /\ n \in Nat /\ <<m, n>> \notin lt
      BY Zenon, <1>2
    <2>2. ~(m < n)
      BY Zenon, <2>1 DEF lt
    <2> QED BY <2>1, <2>2
  <1> QED BY Zenon, <1>3

\* Induction over the naturals, for a set of them.
LEMMA SetInduction ==
    ASSUME NEW S, 0 \in S, \A n \in Nat : n \in S => n + 1 \in S
    PROVE  \A n \in Nat : n \in S
  <1> DEFINE T == Nat \ S
  <1> SUFFICES ASSUME T # {} PROVE FALSE
    BY Zenon
  <1>1. PICK n \in T : \A m \in T : n <= m
    BY Zenon, LeastNatural
  <1>2. n \in Nat /\ n # 0 /\ n - 1 \in Nat /\ n - 1 \notin T
    BY <1>1
  <1> QED BY <1>1, <1>2

\* g[n] is what n rounds of the loop step make of v.
Rounds(g, v, n, step) == g[0] = v /\ \A i \in 1 .. n : g[i] = step[<<i, g[i - 1]>>]

\* A function defined by recursion over 0 .. n obeys its equation.
LEMMA Recursion ==
    ASSUME NEW V, NEW v \in V, NEW N \in Nat, NEW step \in [(1 .. N) \X V -> V]
    PROVE  \E g \in [0 .. N -> V] : Rounds(g, v, N, step)
  <1> USE DEF Rounds
  <1> DEFINE Upto(n, g) == Rounds(g, v, n, step)
             S == {n \in Nat : n <= N => \E g \in [0 .. n -> V] : Upto(n, g)}
  <1>1. 0 \in S
    <2>1. [i \in 0 .. 0 |-> v] \in [0 .. 0 -> V] /\ Upto(0, [i \in 0 .. 0 |-> v])
      OBVIOUS
    <2> QED BY Zenon, <2>1
  <1>2. ASSUME NEW n \in Nat, n \in S PROVE n + 1 \in S
    <2> SUFFICES ASSUME n + 1 <= N PROVE \E g \in [0 .. n + 1 -> V] : Upto(n + 1, g)
      OBVIOUS
    <2>1. PICK g \in [0 .. n -> V] : Upto(n, g)
      BY <1>2
    <2> DEFINE h == [i \in 0 .. n + 1 |-> IF i = n + 1 THEN step[<<n + 1, g[n]>>] ELSE g[i]]
    <2>2. g[n] \in V /\ n + 1 \in 1 .. N
      BY <2>1
    <2>3. step[<<n + 1, g[n]>>] \in V
      BY Zenon, <2>2
    <2>4. h \in [0 .. n + 1 -> V] /\ h[0] = v /\ h[n + 1] = step[<<n + 1, h[n]>>]
      <3>1. h[n] = g[n] /\ h[n + 1] = step[<<n + 1, g[n]>>] /\ h[0] = g[0]
        BY <2>1
      <3>2. \A i \in 0 .. n + 1 : i = n + 1 \/ g[i] \in V
        BY <2>1
      <3>3. h \in [0 .. n + 1 -> V]
        BY Zenon, <2>3, <3>2
      <3> HIDE DEF h
      <3> QED BY Zenon, <2>1, <3>1, <3>3
    <2>5. ASSUME NEW i \in 1 .. n PROVE h[i] = step[<<i, h[i - 1]>>]
      <3>1. i \in 0 .. n + 1 /\ i # n + 1 /\ i - 1 \in 0 .. n + 1 /\ i - 1 # n + 1
        OBVIOUS
      <3>2. h[i] = g[i] /\ h[i - 1] = g[i - 1]
        BY Zenon, <3>1
      <3> QED BY Zenon, <2>1, <3>2
    <2>6. \A i \in 1 .. n + 1 : i = n + 1 \/ i \in 1 .. n
      OBVIOUS
    <2> HIDE DEF h
    <2>7. \A i \in 1 .. n + 1 : h[i] = step[<<i, h[i - 1]>>]
      <3>1. (n + 1) - 1 = n
        OBVIOUS
      <3> QED BY Zenon, <2>4, <2>5, <2>6, <3>1
    <2> QED BY Zenon, <2>4, <2>7
  <1> HIDE DEF S
  <1>3. N \in S
    BY Zenon, <1>1, <1>2, SetInduction
  <1> QED BY <1>3 DEF S

-----------------------------------------------------------------------------
\* The first n entries of r are considered: those before the n-th are skipped,
\* and so is the n-th, or it is queued.
Skips(q, r, n) ==
    /\ n = Len(r)
    /\ \A j \in 1 .. n : r[j].pod \in Coalescing!PodsIn(q)
    /\ Coalescing!Readmit(q, r) = [order |-> q, recovering |-> SubSeq(r, n + 1, Len(r))]

Queues(q, r, n) ==
    /\ n \in 1 .. Len(r)
    /\ r[n].pod \notin Coalescing!PodsIn(q)
    /\ \A j \in 1 .. n - 1 : r[j].pod \in Coalescing!PodsIn(q)
    /\ Coalescing!Readmit(q, r) = [order |-> Append(q, r[n]), recovering |-> SubSeq(r, n + 1, Len(r))]

\* What the loop of pop does: it stops where the queue is full or the recovery
\* buffer is used up, and everything it considered is queued.
LEMMA ReadmitFillsTheSlot ==
    ASSUME NEW q \in Seq(Coalescing!Entry), NEW r \in Seq(Coalescing!Entry), r # <<>> => Len(q) = MaxKeys - 1
    PROVE  Skips(q, r, Len(r)) \/ \E n \in 1 .. Len(r) : Queues(q, r, n)
  <1> DEFINE V == Seq(Coalescing!Entry)
             Loop(g) == [i \in 0 .. Len(r) |->
                            IF i = 0 THEN q
                            ELSE IF r[i].pod \in Coalescing!PodsIn(g[i - 1]) THEN g[i - 1]
                            ELSE Append(g[i - 1], r[i])]
             readmit == CHOOSE g : g = Loop(g)
             Stops(n) == /\ \A i \in 0 .. n - 1 : Len(readmit[i]) < MaxKeys
                         /\ n = Len(r) \/ Len(readmit[n]) >= MaxKeys
             taken == CHOOSE n \in 0 .. Len(r) : Stops(n)
             Skipped(n) == \A j \in 1 .. n : r[j].pod \in Coalescing!PodsIn(q)
  <1>1. Coalescing!Readmit(q, r) = [order |-> readmit[taken], recovering |-> SubSeq(r, taken + 1, Len(r))]
    BY Zenon DEF Coalescing!Readmit
  <1>2. readmit = Loop(readmit)
    <2> DEFINE step == [x \in (1 .. Len(r)) \X V |->
                            IF r[x[1]].pod \in Coalescing!PodsIn(x[2]) THEN x[2] ELSE Append(x[2], r[x[1]])]
    <2>1. step \in [(1 .. Len(r)) \X V -> V]
      <3>1. \A x \in (1 .. Len(r)) \X V : x[2] \in V /\ Append(x[2], r[x[1]]) \in V
        OBVIOUS
      <3> QED BY Zenon, <3>1
    <2>2. PICK g \in [0 .. Len(r) -> V] : Rounds(g, q, Len(r), step)
      <3>1. Len(r) \in Nat /\ q \in V
        OBVIOUS
      <3> HIDE DEF step, V
      <3> QED BY Zenon, <2>1, <3>1, Recursion
    <2>3. ASSUME NEW i \in 1 .. Len(r)
          PROVE  g[i] = IF r[i].pod \in Coalescing!PodsIn(g[i - 1]) THEN g[i - 1] ELSE Append(g[i - 1], r[i])
      <3>1. g[i - 1] \in V
        OBVIOUS
      <3>2. g[i] = step[<<i, g[i - 1]>>]
        BY Zenon, <2>2 DEF Rounds
      <3> QED BY Zenon, <3>1, <3>2
    <2>4. g = Loop(g)
      <3>1. \A i \in 0 .. Len(r) : i = 0 \/ i \in 1 .. Len(r)
        OBVIOUS
      <3> QED BY Zenon, <2>2, <2>3, <3>1 DEF Rounds
    <2> HIDE DEF Loop
    <2> QED BY Zenon, <2>4
  <1> HIDE DEF readmit
  <1>3. readmit[0] = q
    BY <1>2
  <1>4. ASSUME NEW i \in 1 .. Len(r)
        PROVE  readmit[i] = IF r[i].pod \in Coalescing!PodsIn(readmit[i - 1]) THEN readmit[i - 1]
                            ELSE Append(readmit[i - 1], r[i])
    <2>1. i \in 0 .. Len(r) /\ i # 0
      OBVIOUS
    <2> DEFINE f == Loop(readmit)
    <2>2. f[i] = IF r[i].pod \in Coalescing!PodsIn(readmit[i - 1]) THEN readmit[i - 1]
                 ELSE Append(readmit[i - 1], r[i])
      BY Zenon, <2>1
    <2> HIDE DEF Loop
    <2> QED BY Zenon, <1>2, <2>2
  <1> HIDE DEF Loop
  <1>5. ASSUME NEW n \in 0 .. Len(r), Skipped(n), NEW i \in 0 .. n PROVE readmit[i] = q
    <2> DEFINE S == {k \in Nat : k <= n => readmit[k] = q}
    <2>1. 0 \in S
      BY Zenon, <1>3
    <2>2. ASSUME NEW k \in Nat, k \in S PROVE k + 1 \in S
      <3> SUFFICES ASSUME k + 1 <= n PROVE readmit[k + 1] = q
        OBVIOUS
      <3>1. k + 1 \in 1 .. Len(r) /\ k + 1 \in 1 .. n /\ (k + 1) - 1 = k /\ readmit[k] = q
        BY <2>2
      <3>2. r[k + 1].pod \in Coalescing!PodsIn(q)
        BY Zenon, <1>5, <3>1
      <3> QED BY Zenon, <1>4, <3>1, <3>2
    <2> HIDE DEF S
    <2>3. i \in Nat
      OBVIOUS
    <2>4. i \in S
      BY Zenon, <2>1, <2>2, <2>3, SetInduction
    <2> QED BY <2>4 DEF S
  <1>6. ASSUME NEW n \in 0 .. Len(r), Stops(n), \A k \in 0 .. Len(r) : Stops(k) => k = n
        PROVE  taken = n
    <2> HIDE DEF Stops
    <2> QED BY Zenon, <1>6
  <1>7. Len(q) \in Nat /\ MaxKeys \in Nat /\ Len(r) \in Nat
    BY MaxKeysAssumption
  <1>8. CASE Skipped(Len(r))
    <2>1. \A i \in 0 .. Len(r) : readmit[i] = q
      <3>1. Len(r) \in 0 .. Len(r)
        BY <1>7
      <3> HIDE DEF Skipped
      <3> QED BY Zenon, <1>5, <1>8, <3>1
    <2>2. r = <<>> \/ (Len(q) < MaxKeys /\ ~(Len(q) >= MaxKeys))
      BY <1>7
    <2>3. Stops(Len(r))
      BY <2>1, <2>2, <1>7
    <2>4. \A k \in 0 .. Len(r) : Stops(k) => k = Len(r)
      BY <2>1, <2>2, <1>7
    <2>5. taken = Len(r)
      BY <1>6, <1>7, <2>3, <2>4
    <2>6. Len(r) \in 0 .. Len(r)
      BY <1>7
    <2> HIDE DEF taken
    <2> QED BY Zenon, <1>1, <1>8, <2>1, <2>5, <2>6 DEF Skips
  <1>9. CASE ~Skipped(Len(r))
    <2> DEFINE T == {j \in 1 .. Len(r) : r[j].pod \notin Coalescing!PodsIn(q)}
    <2>1. T \subseteq Nat /\ T # {}
      BY <1>9
    <2>2. PICK n \in T : \A m \in T : n <= m
      BY Zenon, <2>1, LeastNatural
    <2>3. n \in 1 .. Len(r) /\ r[n].pod \notin Coalescing!PodsIn(q) /\ r # <<>>
      BY <2>2
    <2>4. n - 1 \in 0 .. Len(r) /\ n \in 0 .. Len(r)
      BY <2>3, <1>7
    <2>5. Skipped(n - 1)
      <3> SUFFICES ASSUME NEW j \in 1 .. n - 1, r[j].pod \notin Coalescing!PodsIn(q) PROVE FALSE
        BY Zenon
      <3>1. j \in T
        BY <2>3
      <3> QED BY <2>2, <2>3, <3>1
    <2>6. \A i \in 0 .. n - 1 : readmit[i] = q
      BY Zenon, <1>5, <2>4, <2>5
    <2>7. n - 1 \in 0 .. n - 1
      BY <2>3
    <2>8. readmit[n] = Append(q, r[n])
      BY Zenon, <1>4, <2>3, <2>6, <2>7
    <2>9. Len(q) < MaxKeys /\ Len(Append(q, r[n])) = MaxKeys
      BY <2>3, <1>7
    <2>10. Stops(n)
      BY <2>3, <2>6, <2>8, <2>9, <1>7
    <2>11. ASSUME NEW k \in 0 .. Len(r), Stops(k) PROVE k = n
      <3>1. CASE k < n
        <4>1. k \in 0 .. n - 1 /\ k # Len(r)
          BY <3>1, <2>3
        <4>2. Len(readmit[k]) >= MaxKeys /\ readmit[k] = q
          BY Zenon, <2>6, <2>11, <4>1
        <4> QED BY <4>2, <2>9, <1>7
      <3>2. CASE k > n
        <4>1. n \in 0 .. k - 1
          BY <3>2, <2>3
        <4>2. Len(readmit[n]) < MaxKeys
          BY Zenon, <2>11, <4>1
        <4> QED BY <4>2, <2>8, <2>9, <1>7
      <3> QED BY <3>1, <3>2, <2>3
    <2>12. taken = n
      BY Zenon, <1>6, <2>4, <2>10, <2>11
    <2> HIDE DEF taken, T
    <2> QED BY ZenonT(60), <1>1, <2>3, <2>5, <2>8, <2>12 DEF Queues
  <1> QED BY Zenon, <1>8, <1>9
-----------------------------------------------------------------------------

\* The pods of a buffer are found at its positions.
LEMMA PodsInAt ==
    ASSUME NEW s \in Seq(Coalescing!Entry), NEW p
    PROVE  p \in Coalescing!PodsIn(s) <=> \E i \in DOMAIN s : s[i].pod = p
  BY Zenon DEF Coalescing!PodsIn, Coalescing!Range

\* What becomes of an entry when item is offered.
SupersededBy(new, old, item) ==
    /\ old.pod # item.pod => new = old
    /\ old.pod = item.pod /\ old.createAt < item.createAt =>
        new.pod = item.pod /\ new.event = item.event /\ new.createAt = old.createAt

\* Superseding keeps every entry where it stands.
LEMMA SupersedeAt ==
    ASSUME NEW q \in Seq(Coalescing!Entry), NEW item \in Coalescing!Entry
    PROVE  /\ Coalescing!Supersede(q, item) \in Seq(Coalescing!Entry)
           /\ Len(Coalescing!Supersede(q, item)) = Len(q) /\ DOMAIN Coalescing!Supersede(q, item) = DOMAIN q
           /\ \A i \in DOMAIN q : SupersededBy(Coalescing!Supersede(q, item)[i], q[i], item)
  <1>1. \A i \in 1 .. Len(q) : q[i] \in Coalescing!Entry
    OBVIOUS
  <1>2. DOMAIN q = 1 .. Len(q)
    OBVIOUS
  <1>3. \A c \in 1 .. MaxTasks : [item EXCEPT !.createAt = c] \in Coalescing!Entry
    BY Zenon DEF Coalescing!Entry
  <1>4. \A i \in 1 .. Len(q) :
            [item EXCEPT !.createAt = IF q[i].createAt < @ THEN q[i].createAt ELSE @] \in Coalescing!Entry
    BY Zenon, <1>1 DEF Coalescing!Entry
  <1>5. \A i \in 1 .. Len(q) : Coalescing!Supersede(q, item)[i] \in Coalescing!Entry
    BY Zenon, <1>1, <1>2, <1>4 DEF Coalescing!Supersede
  <1>6. DOMAIN Coalescing!Supersede(q, item) = 1 .. Len(q)
    BY Zenon, <1>2 DEF Coalescing!Supersede
  <1>7. Len(q) \in Nat
    OBVIOUS
  <1>8. Coalescing!Supersede(q, item) = [i \in 1 .. Len(q) |-> Coalescing!Supersede(q, item)[i]]
    BY Zenon, <1>6 DEF Coalescing!Supersede
  <1>9. Coalescing!Supersede(q, item) \in [1 .. Len(q) -> Coalescing!Entry]
    BY Zenon, <1>5, <1>8
  <1>10. Coalescing!Supersede(q, item) \in Seq(Coalescing!Entry)
    BY <1>7, <1>9, SeqDef
  <1>11. Len(Coalescing!Supersede(q, item)) = Len(q)
    BY <1>6, <1>7, <1>10
  <1>12. ASSUME NEW i \in DOMAIN q PROVE SupersededBy(Coalescing!Supersede(q, item)[i], q[i], item)
    BY Zenon DEF Coalescing!Supersede, SupersededBy, Coalescing!Entry
  <1> QED BY Zenon, <1>10, <1>11, <1>6, <1>2, <1>12

\* The empty queue.
LEMMA InitCoalescingInv == Coalescing!Init => CoalescingInv
  <1> SUFFICES ASSUME Coalescing!Init PROVE CoalescingInv
    BY Zenon
  <1>1. Coalescing!TypeOK
    <2>1. notify \in BOOLEAN /\ done \in BOOLEAN
      BY Zenon DEF Coalescing!Init
    <2>2. 0 \in 0 .. MaxTasks
      BY BoundsAssumption
    <2>3. pods \in Seq(Coalescing!Entry) /\ Len(pods) <= MaxKeys /\ DOMAIN pods = {}
      BY MaxKeysAssumption DEF Coalescing!Init
    <2>4. recovering \in Seq(Coalescing!Entry) /\ Len(recovering) <= MaxKeys
      BY MaxKeysAssumption DEF Coalescing!Init
    <2> QED BY ZenonT(60), <2>1, <2>2, <2>3, <2>4 DEF Coalescing!Init, Coalescing!TypeOK
  <1>2. EventInv /\ PlaceInv /\ SinceInv
    BY DEF Coalescing!Init, EventInv, PlaceInv, SinceInv
  <1>3. KeptInv
    BY DEF Coalescing!Init, KeptInv, Coalescing!Unseen, QueuedPods
  <1> QED BY Zenon, <1>1, <1>2, <1>3 DEF CoalescingInv

\* Offer: the pod is superseded, sent to recovery, given up or queued.
LEMMA OfferStep ==
    ASSUME CoalescingInv, NEW p \in Keys, Coalescing!Offer(p)
    PROVE  CoalescingInv'
  <1> DEFINE item == [pod |-> p, event |-> offered[p] + 1, createAt |-> offered[p] + 1]
         SoundNext(e) == delivered'[e.pod] < e.event /\ e.event <= offered'[e.pod] /\ e.createAt <= e.event
  <1>1. Coalescing!TypeOK /\ EventInv /\ PlaceInv /\ SinceInv /\ KeptInv
    BY Zenon DEF CoalescingInv
  <1>2. /\ pods \in Seq(Coalescing!Entry) /\ recovering \in Seq(Coalescing!Entry)
        /\ DOMAIN pods = 1 .. Len(pods) /\ DOMAIN recovering = 1 .. Len(recovering)
        /\ \A i \in DOMAIN pods : pods[i] \in Coalescing!Entry
        /\ \A j \in DOMAIN recovering : recovering[j] \in Coalescing!Entry
    BY <1>1 DEF Coalescing!TypeOK
  <1>3. /\ offered \in [Keys -> 0 .. MaxTasks] /\ offered[p] \in Nat /\ offered[p] < MaxTasks
        /\ popped \in [Keys -> 0 .. MaxTasks] /\ delivered \in [Keys -> 0 .. MaxTasks]
        /\ lost \subseteq Keys /\ MaxKeys \in Nat /\ MaxTasks \in Nat
    BY <1>1, MaxKeysAssumption, BoundsAssumption DEF Coalescing!TypeOK, Coalescing!Offer
  <1>4. item \in Coalescing!Entry /\ item.pod = p /\ item.event = offered[p] + 1 /\ item.createAt = offered[p] + 1
    BY <1>3 DEF Coalescing!Entry
  <1>5. offered' = [offered EXCEPT ![p] = @ + 1]
    BY Zenon DEF Coalescing!Offer
  <1>6. /\ offered' \in [Keys -> 0 .. MaxTasks] /\ offered'[p] = offered[p] + 1
        /\ \A x \in Keys : x # p => offered'[x] = offered[x]
        /\ \A x \in Keys : offered[x] <= offered'[x]
    BY <1>3, <1>5
  <1>7. UNCHANGED <<notify, done, consumer, popped, delivered, owed>>
    BY Zenon DEF Coalescing!Offer
  <1>8. /\ notify' \in BOOLEAN /\ done' \in BOOLEAN
        /\ consumer' \in {"pop", "select", "drain", "stopped"} /\ owed' \subseteq Keys
        /\ popped' \in [Keys -> 0 .. MaxTasks] /\ delivered' \in [Keys -> 0 .. MaxTasks]
    BY Zenon, <1>1, <1>7 DEF Coalescing!TypeOK
  <1>9. \A x \in Keys : delivered'[x] <= offered'[x] /\ popped'[x] <= offered'[x]
    BY <1>1, <1>3, <1>6, <1>7 DEF EventInv
  <1>10. ASSUME NEW e \in Coalescing!Entry, Sound(e) PROVE SoundNext(e)
    <2>1. e.pod \in Keys /\ e.event \in Nat
      BY DEF Coalescing!Entry
    <2>2. offered[e.pod] <= offered'[e.pod] /\ offered[e.pod] \in Nat /\ offered'[e.pod] \in Nat
      BY <1>3, <1>6, <2>1
    <2> QED BY <1>7, <1>10, <2>1, <2>2 DEF Sound
  <1>11. SoundNext(item)
    BY <1>1, <1>3, <1>4, <1>6, <1>7 DEF Sound, EventInv
  <1>12. Coalescing!Unseen' \subseteq Coalescing!Unseen \cup {p}
    BY ZenonT(60), <1>6, <1>7 DEF Coalescing!Unseen
  <1>13. p \notin QueuedPods \cup lost => popped[p] = offered[p]
    BY <1>1, <1>3 DEF KeptInv, Coalescing!Unseen, EventInv
  <1> HIDE DEF item
  <1>14. CASE /\ p \in Coalescing!PodsIn(pods)
              /\ pods' = Coalescing!Supersede(pods, item)
              /\ UNCHANGED <<recovering, waking, lost>>
    <2>1. /\ pods' \in Seq(Coalescing!Entry) /\ Len(pods') = Len(pods) /\ DOMAIN pods' = DOMAIN pods
          /\ \A i \in DOMAIN pods : SupersededBy(pods'[i], pods[i], item)
      BY Zenon, <1>2, <1>4, <1>14, SupersedeAt
    <2>2. ASSUME NEW i \in DOMAIN pods
          PROVE  /\ pods'[i].pod = pods[i].pod /\ pods'[i].createAt = pods[i].createAt
                 /\ pods[i].pod = p => pods'[i].event = offered[p] + 1
                 /\ pods[i].pod # p => pods'[i] = pods[i]
      <3>1. pods[i] \in Coalescing!Entry /\ Sound(pods[i])
        BY Zenon, <1>1, <1>2 DEF EventInv
      <3>2. CASE pods[i].pod = p
        <4>1. pods[i].createAt < item.createAt
          BY <1>3, <1>4, <3>1, <3>2 DEF Sound, Coalescing!Entry
        <4> QED BY ZenonT(60), <1>4, <2>1, <3>2, <4>1 DEF SupersededBy
      <3> QED BY Zenon, <2>1, <1>4, <3>2 DEF SupersededBy
    <2>3. Coalescing!PodsIn(pods') = Coalescing!PodsIn(pods) /\ QueuedPods' = QueuedPods
      <3>1. \A x : x \in Coalescing!PodsIn(pods') <=> x \in Coalescing!PodsIn(pods)
        <4>1. \A x : x \in Coalescing!PodsIn(pods') <=> \E i \in DOMAIN pods : pods'[i].pod = x
          BY Zenon, <2>1, PodsInAt
        <4>2. \A x : x \in Coalescing!PodsIn(pods) <=> \E i \in DOMAIN pods : pods[i].pod = x
          BY ZenonT(60), <1>2, PodsInAt
        <4> QED BY <2>2, <4>1, <4>2
      <3> QED BY Zenon, <3>1, <1>14 DEF QueuedPods
    <2>4. Coalescing!TypeOK'
      <3>1. Len(pods') <= MaxKeys /\ \A i, j \in DOMAIN pods' : pods'[i].pod = pods'[j].pod => i = j
        BY ZenonT(60), <1>1, <2>1, <2>2 DEF Coalescing!TypeOK
      <3>2. recovering' \in Seq(Coalescing!Entry) /\ Len(recovering') <= MaxKeys /\ waking' \subseteq Keys /\ lost' \subseteq Keys
        BY Zenon, <1>1, <1>14 DEF Coalescing!TypeOK
      <3> QED BY ZenonT(60), <1>6, <1>8, <2>1, <3>1, <3>2 DEF Coalescing!TypeOK
    <2>5. EventInv'
      <3>1. ASSUME NEW i \in DOMAIN pods' PROVE Sound(pods[i]) /\ pods[i] \in Coalescing!Entry /\ SoundNext(pods'[i])
        <4>1. i \in DOMAIN pods /\ Sound(pods[i]) /\ pods[i] \in Coalescing!Entry
          BY Zenon, <1>1, <1>2, <2>1 DEF EventInv
        <4>2. CASE pods[i].pod # p
          BY ZenonT(60), <1>10, <2>2, <4>1, <4>2
        <4>3. CASE pods[i].pod = p
          BY <1>3, <1>6, <1>7, <2>2, <4>1, <4>3 DEF Sound, Coalescing!Entry
        <4> QED BY Zenon, <4>1, <4>2, <4>3
      <3>2. \A j \in DOMAIN recovering' : SoundNext(recovering'[j])
        BY ZenonT(60), <1>1, <1>2, <1>10, <1>14 DEF EventInv
      <3> QED BY Zenon, <1>9, <3>1, <3>2 DEF EventInv, Sound
    <2>6. PlaceInv'
      BY <1>1, <1>14, <2>1, <2>2 DEF PlaceInv
    <2>7. SinceInv'
      <3>1. \A j : Returns(j)' <=> Returns(j)
        BY Zenon, <1>14, <2>3 DEF Returns
      <3>2. \A i \in DOMAIN pods : pods[i].pod \notin lost => pods'[i].createAt = popped[pods[i].pod] + 1
        BY Zenon, <1>1, <2>2 DEF SinceInv
      <3>3. \A i \in DOMAIN pods' : pods'[i].pod \notin lost' => pods'[i].createAt = popped'[pods'[i].pod] + 1
        BY ZenonT(60), <1>7, <1>14, <2>1, <2>2, <3>2
      <3>4. \A j \in DOMAIN recovering :
                Returns(j) /\ recovering[j].pod \notin lost => recovering[j].createAt = popped[recovering[j].pod] + 1
        BY Zenon, <1>1 DEF SinceInv
      <3> QED BY ZenonT(60), <1>7, <1>14, <3>1, <3>3, <3>4 DEF SinceInv
    <2>8. KeptInv'
      BY ZenonT(60), <1>1, <1>7, <1>12, <1>14, <2>3 DEF KeptInv, QueuedPods
    <2> QED BY ZenonT(60), <2>4, <2>5, <2>6, <2>7, <2>8 DEF CoalescingInv
  <1>15. CASE /\ p \notin Coalescing!PodsIn(pods) /\ Len(pods) >= MaxKeys
              /\ Len(recovering) < MaxKeys /\ recovering' = Append(recovering, item)
              /\ UNCHANGED <<pods, waking, lost>>
    <2>0. PICK n \in Nat : n = Len(recovering) + 1
      BY <1>2
    <2>1. /\ recovering' \in Seq(Coalescing!Entry) /\ Len(recovering') = n /\ DOMAIN recovering' = 1 .. n
          /\ n \in Nat /\ recovering'[n] = item
          /\ \A j \in 1 .. n - 1 : recovering'[j] = recovering[j]
      BY <1>2, <1>4, <1>15, <2>0
    <2>2. \A j \in 1 .. n : j = n \/ j \in DOMAIN recovering
      BY <1>2, <2>0
    <2>3. n - 1 = Len(recovering) /\ DOMAIN recovering = 1 .. n - 1
      BY <1>2, <2>0
    <2>4. Coalescing!PodsIn(recovering') = Coalescing!PodsIn(recovering) \cup {p} /\ QueuedPods' = QueuedPods \cup {p}
      <3>1. \A x : x \in Coalescing!PodsIn(recovering') <=> \E j \in 1 .. n : recovering'[j].pod = x
        BY <2>1, PodsInAt
      <3>2. \A x : x \in Coalescing!PodsIn(recovering) <=> \E j \in 1 .. n - 1 : recovering[j].pod = x
        BY ZenonT(60), <1>2, <2>3, PodsInAt
      <3>3. \A j \in 1 .. n - 1 : j \in 1 .. n
        BY <2>1
      <3>4. n \in 1 .. n
        BY <2>1, <2>3, <1>2
      <3>5. Coalescing!PodsIn(recovering') = Coalescing!PodsIn(recovering) \cup {p}
        BY SMTT(60), <2>1, <2>2, <2>3, <3>1, <3>2, <3>3, <3>4, <1>4
      <3> QED BY Zenon, <3>5, <1>15 DEF QueuedPods
    <2>5. Coalescing!TypeOK'
      <3>1. /\ pods' \in Seq(Coalescing!Entry) /\ Len(pods') <= MaxKeys /\ waking' \subseteq Keys /\ lost' \subseteq Keys
            /\ \A i, j \in DOMAIN pods' : pods'[i].pod = pods'[j].pod => i = j
        BY ZenonT(60), <1>1, <1>15 DEF Coalescing!TypeOK
      <3>2. Len(recovering') <= MaxKeys
        BY <1>2, <1>3, <1>15, <2>1, <2>3
      <3> QED BY ZenonT(60), <1>6, <1>8, <2>1, <3>1, <3>2 DEF Coalescing!TypeOK
    <2>6. EventInv'
      <3>1. \A i \in DOMAIN pods' : SoundNext(pods'[i])
        BY ZenonT(60), <1>1, <1>2, <1>10, <1>15 DEF EventInv
      <3>2. \A j \in DOMAIN recovering' : SoundNext(recovering'[j])
        <4>1. \A j \in DOMAIN recovering : SoundNext(recovering[j])
          BY ZenonT(60), <1>1, <1>2, <1>10 DEF EventInv
        <4> QED BY ZenonT(60), <1>11, <2>1, <2>2, <2>3, <4>1
      <3> QED BY Zenon, <1>9, <3>1, <3>2 DEF EventInv, Sound
    <2>7. PlaceInv'
      <3>1. Len(pods) = MaxKeys
        <4>1. Len(pods) \in Nat /\ Len(pods) <= MaxKeys /\ Len(pods) >= MaxKeys
          BY <1>1, <1>2, <1>15 DEF Coalescing!TypeOK
        <4> QED BY <1>3, <4>1
      <3>2. \A i \in DOMAIN pods : pods[i].pod # p
        BY Zenon, <1>2, <1>15, PodsInAt
      <3>3. \A i \in DOMAIN pods, j \in DOMAIN recovering' : pods[i].pod = recovering'[j].pod => j < i
        BY ZenonT(60), <1>1, <1>4, <2>1, <2>2, <2>3, <3>2 DEF PlaceInv
      <3> QED BY ZenonT(60), <1>15, <3>1, <3>3 DEF PlaceInv
    <2>8. SinceInv'
      <3>1. \A i \in DOMAIN pods' : pods'[i].pod \notin lost' => pods'[i].createAt = popped'[pods'[i].pod] + 1
        BY Zenon, <1>1, <1>7, <1>15 DEF SinceInv
      <3>2. ASSUME NEW j \in 1 .. n - 1, Returns(j)', recovering[j].pod \notin lost
            PROVE  recovering'[j].createAt = popped'[recovering'[j].pod] + 1
        <4>1. recovering'[j] = recovering[j] /\ \A i \in 1 .. j - 1 : recovering'[i] = recovering[i]
          BY <2>1
        <4>2. Returns(j)
          BY Zenon, <1>15, <3>2, <4>1 DEF Returns
        <4> QED BY ZenonT(60), <1>1, <1>7, <2>3, <3>2, <4>1, <4>2 DEF SinceInv
      <3>3. ASSUME Returns(n)', p \notin lost PROVE item.createAt = popped'[p] + 1
        <4>1. \A i \in 1 .. n - 1 : recovering[i].pod # p
          BY ZenonT(60), <1>4, <2>1, <3>3 DEF Returns
        <4>2. p \notin Coalescing!PodsIn(recovering)
          BY ZenonT(60), <1>2, <2>3, <4>1, PodsInAt
        <4> QED BY ZenonT(60), <1>4, <1>7, <1>13, <1>15, <3>3, <4>2 DEF QueuedPods
      <3>4. ASSUME NEW j \in DOMAIN recovering', Returns(j)', recovering'[j].pod \notin lost'
            PROVE  recovering'[j].createAt = popped'[recovering'[j].pod] + 1
        <4>1. CASE j = n
          BY ZenonT(60), <1>4, <1>15, <2>1, <3>3, <3>4, <4>1
        <4>2. CASE j \in 1 .. n - 1
          BY ZenonT(60), <1>15, <2>1, <3>2, <3>4, <4>2
        <4> QED BY ZenonT(60), <2>1, <2>2, <2>3, <4>1, <4>2
      <3> QED BY Zenon, <3>1, <3>4 DEF SinceInv
    <2>9. KeptInv'
      BY ZenonT(60), <1>1, <1>7, <1>12, <1>15, <2>4 DEF KeptInv
    <2> QED BY ZenonT(60), <2>5, <2>6, <2>7, <2>8, <2>9 DEF CoalescingInv
  <1>16. CASE /\ lost' = lost \cup {p}
              /\ UNCHANGED <<pods, recovering, waking>>
    <2>1. Coalescing!TypeOK'
      <3>1. /\ pods' \in Seq(Coalescing!Entry) /\ Len(pods') <= MaxKeys /\ waking' \subseteq Keys /\ lost' \subseteq Keys
            /\ \A i, j \in DOMAIN pods' : pods'[i].pod = pods'[j].pod => i = j
            /\ recovering' \in Seq(Coalescing!Entry) /\ Len(recovering') <= MaxKeys
        BY ZenonT(60), <1>1, <1>16 DEF Coalescing!TypeOK
      <3> QED BY ZenonT(60), <1>6, <1>8, <3>1 DEF Coalescing!TypeOK
    <2>2. EventInv'
      <3>1. \A i \in DOMAIN pods' : SoundNext(pods'[i])
        BY Zenon, <1>1, <1>2, <1>10, <1>16 DEF EventInv
      <3>2. \A j \in DOMAIN recovering' : SoundNext(recovering'[j])
        BY ZenonT(60), <1>1, <1>2, <1>10, <1>16 DEF EventInv
      <3> QED BY ZenonT(60), <1>9, <3>1, <3>2 DEF EventInv, Sound
    <2>3. PlaceInv'
      BY Zenon, <1>1, <1>16 DEF PlaceInv
    <2>4. SinceInv'
      BY ZenonT(60), <1>1, <1>7, <1>16 DEF SinceInv, Returns
    <2>5. KeptInv'
      BY ZenonT(60), <1>1, <1>7, <1>12, <1>16 DEF KeptInv, QueuedPods
    <2> QED BY Zenon, <2>1, <2>2, <2>3, <2>4, <2>5 DEF CoalescingInv
  <1>17. CASE /\ p \notin Coalescing!PodsIn(pods) /\ Len(pods) < MaxKeys
              /\ pods' = Append(pods, item)
              /\ waking' = waking \cup {p}
              /\ UNCHANGED <<recovering, lost>>
    <2>0. PICK n \in Nat : n = Len(pods) + 1
      BY <1>2
    <2>1. /\ pods' \in Seq(Coalescing!Entry) /\ Len(pods') = n /\ DOMAIN pods' = 1 .. n
          /\ n \in Nat /\ pods'[n] = item
          /\ \A i \in 1 .. n - 1 : pods'[i] = pods[i]
      BY <1>2, <1>4, <1>17, <2>0
    <2>2. \A i \in 1 .. n : i = n \/ i \in DOMAIN pods
      BY <1>2, <2>0
    <2>3. n - 1 = Len(pods) /\ DOMAIN pods = 1 .. n - 1
      BY <1>2, <2>0
    <2>4. recovering = <<>> /\ recovering' = <<>> /\ DOMAIN recovering' = {}
      <3>1. Len(pods) # MaxKeys
        <4>1. Len(pods) \in Nat
          BY <1>2
        <4>2. Len(pods) < MaxKeys /\ MaxKeys \in Nat
          BY Zenon, <1>3, <1>17
        <4> QED BY <4>1, <4>2
      <3>2. recovering = <<>>
        BY Zenon, <1>1, <3>1 DEF PlaceInv
      <3> QED BY <1>17, <3>2
    <2>5. \A i \in DOMAIN pods : pods[i].pod # p
      BY ZenonT(60), <1>2, <1>17, PodsInAt
    <2>6. Coalescing!PodsIn(pods') = Coalescing!PodsIn(pods) \cup {p} /\ QueuedPods' = QueuedPods \cup {p}
      <3>1. \A x : x \in Coalescing!PodsIn(pods') <=> \E j \in 1 .. n : pods'[j].pod = x
        BY <2>1, PodsInAt
      <3>2. \A x : x \in Coalescing!PodsIn(pods) <=> \E j \in 1 .. n - 1 : pods[j].pod = x
        BY ZenonT(60), <1>2, <2>3, PodsInAt
      <3>3. \A j \in 1 .. n - 1 : j \in 1 .. n
        BY <2>1
      <3>4. n \in 1 .. n
        BY SMTT(60), <2>1, <2>3, <1>2
      <3>5. Coalescing!PodsIn(pods') = Coalescing!PodsIn(pods) \cup {p}
        BY <2>1, <2>2, <2>3, <3>1, <3>2, <3>3, <3>4, <1>4
      <3> QED BY ZenonT(60), <3>5, <1>17 DEF QueuedPods
    <2>7. Coalescing!TypeOK'
      <3>1. Len(pods') <= MaxKeys
        BY <1>2, <1>3, <1>17, <2>1, <2>3
      <3>2. \A i, j \in DOMAIN pods : pods[i].pod = pods[j].pod => i = j
        BY ZenonT(60), <1>1 DEF Coalescing!TypeOK
      <3>3. \A i, j \in DOMAIN pods' : pods'[i].pod = pods'[j].pod => i = j
        BY <1>4, <2>1, <2>2, <2>3, <2>5, <3>2
      <3>4. recovering' \in Seq(Coalescing!Entry) /\ Len(recovering') <= MaxKeys /\ waking' \subseteq Keys /\ lost' \subseteq Keys
        BY Zenon, <1>1, <1>17 DEF Coalescing!TypeOK
      <3> QED BY ZenonT(60), <1>6, <1>8, <2>1, <3>1, <3>3, <3>4 DEF Coalescing!TypeOK
    <2>8. EventInv'
      <3>1. \A i \in DOMAIN pods : SoundNext(pods[i])
        BY ZenonT(60), <1>1, <1>2, <1>10 DEF EventInv
      <3>2. \A i \in DOMAIN pods' : SoundNext(pods'[i])
        BY Zenon, <1>11, <2>1, <2>2, <2>3, <3>1
      <3> QED BY Zenon, <1>9, <2>4, <3>2 DEF EventInv, Sound
    <2>9. PlaceInv'
      BY Zenon, <2>4 DEF PlaceInv
    <2>10. SinceInv'
      <3>1. p \notin lost => item.createAt = popped'[p] + 1
        <4>1. p \notin QueuedPods
          BY ZenonT(60), <1>17, <2>4 DEF QueuedPods, Coalescing!PodsIn, Coalescing!Range
        <4> QED BY ZenonT(60), <1>4, <1>7, <1>13, <4>1
      <3>2. ASSUME NEW i \in DOMAIN pods', pods'[i].pod \notin lost'
            PROVE  pods'[i].createAt = popped'[pods'[i].pod] + 1
        <4>1. CASE i = n
          BY ZenonT(60), <1>4, <1>17, <2>1, <3>1, <3>2, <4>1
        <4>2. CASE i \in 1 .. n - 1
          BY ZenonT(60), <1>1, <1>7, <1>17, <2>1, <2>3, <3>2, <4>2 DEF SinceInv
        <4> QED BY Zenon, <2>1, <2>2, <2>3, <4>1, <4>2
      <3> QED BY Zenon, <2>4, <3>2 DEF SinceInv
    <2>11. KeptInv'
      BY ZenonT(60), <1>1, <1>7, <1>12, <1>17, <2>6 DEF KeptInv
    <2> QED BY Zenon, <2>7, <2>8, <2>9, <2>10, <2>11 DEF CoalescingInv
  <1> QED BY ZenonT(60), <1>14, <1>15, <1>16, <1>17 DEF Coalescing!Offer, item

(***************************************************************************)
(* What pop does to the two buffers: the queue moves up by one, the first  *)
(* n recovery entries are considered, and unless the pods of all of them   *)
(* are queued the n-th takes the last slot.                                *)
(***************************************************************************)
Refill(n) ==
    /\ n \in 0 .. Len(recovering) /\ (recovering # <<>> => n > 0)
    /\ pods' \in Seq(Coalescing!Entry) /\ recovering' \in Seq(Coalescing!Entry)
    /\ Len(recovering') = Len(recovering) - n
    /\ \A j \in 1 .. Len(recovering) - n : recovering'[j] = recovering[j + n]
    /\ \A i \in 1 .. Len(pods) - 1 : pods'[i] = pods[i + 1]
    /\ \/ /\ Len(pods') = Len(pods) - 1 /\ n = Len(recovering)
          /\ \A j \in 1 .. n : \E i \in 2 .. Len(pods) : pods[i].pod = recovering[j].pod
       \/ /\ Len(pods') = Len(pods) /\ n >= 1 /\ Len(pods) = MaxKeys
          /\ pods'[MaxKeys] = recovering[n]
          /\ \A i \in 2 .. Len(pods) : pods[i].pod # recovering[n].pod
          /\ \A j \in 1 .. n - 1 : \E i \in 2 .. Len(pods) : pods[i].pod = recovering[j].pod

\* pop with its loop, position by position.
LEMMA PopRefills ==
    ASSUME CoalescingInv, pods # <<>>, Coalescing!PopFront
    PROVE  \E n \in Nat : Refill(n)
  <1> DEFINE q == Tail(pods)
             r == recovering
  <1>1. /\ pods \in Seq(Coalescing!Entry) /\ Len(pods) \in Nat /\ Len(pods) >= 1 /\ r \in Seq(Coalescing!Entry)
        /\ Len(r) \in Nat /\ MaxKeys \in Nat
    BY MaxKeysAssumption DEF CoalescingInv, Coalescing!TypeOK
  <1>2. q \in Seq(Coalescing!Entry) /\ Len(q) = Len(pods) - 1 /\ DOMAIN q = 1 .. Len(pods) - 1
    BY <1>1
  <1>3. \A i \in 1 .. Len(pods) - 1 : q[i] = pods[i + 1]
    BY <1>1
  <1>4. r # <<>> => Len(pods) = MaxKeys
    BY Zenon DEF CoalescingInv, PlaceInv
  <1>5. \A x : x \in Coalescing!PodsIn(q) <=> \E i \in 2 .. Len(pods) : pods[i].pod = x
    <2>1. \A i \in 2 .. Len(pods) : i - 1 \in 1 .. Len(pods) - 1 /\ (i - 1) + 1 = i
      BY <1>1
    <2>2. \A i \in 1 .. Len(pods) - 1 : i + 1 \in 2 .. Len(pods)
      BY <1>1
    <2>3. \A x : x \in Coalescing!PodsIn(q) <=> \E i \in 1 .. Len(pods) - 1 : q[i].pod = x
      BY Zenon, <1>2, PodsInAt
    <2> HIDE DEF q
    <2>4. ASSUME NEW i \in 2 .. Len(pods) PROVE q[i - 1] = pods[i]
      BY Zenon, <1>3, <2>1
    <2> QED BY <1>3, <2>1, <2>2, <2>3, <2>4
  <1>6. r # <<>> => Len(q) = MaxKeys - 1
    BY ZenonT(60), <1>2, <1>4
  <1>7. pods' = Coalescing!Readmit(q, r).order /\ recovering' = Coalescing!Readmit(q, r).recovering
    BY Zenon DEF Coalescing!PopFront
  <1>8. ASSUME NEW n \in 0 .. Len(r)
        PROVE  /\ SubSeq(r, n + 1, Len(r)) \in Seq(Coalescing!Entry)
               /\ Len(SubSeq(r, n + 1, Len(r))) = Len(r) - n
               /\ \A j \in 1 .. Len(r) - n : SubSeq(r, n + 1, Len(r))[j] = r[j + n]
    <2>1. n + 1 \in 1 .. Len(r) + 1 /\ Len(r) \in n .. Len(r)
      BY <1>1
    <2> DEFINE t == SubSeq(r, n + 1, Len(r))
    <2>2. t \in Seq(Coalescing!Entry) /\ Len(t) = Len(r) - n
      BY <1>1, <2>1
    <2>3. ASSUME NEW j \in 1 .. Len(r) - n PROVE t[j] = r[j + n]
      <3>1. t[j] = r[(n + 1) + j - 1]
        BY <1>1, <2>1
      <3>2. (n + 1) + j - 1 = j + n
        BY <1>1
      <3> QED BY Zenon, <3>1, <3>2
    <2> QED BY ZenonT(60), <2>2, <2>3
  <1> HIDE DEF q, r
  <1>9. CASE Skips(q, r, Len(r))
    <2>1. pods' = q /\ recovering' = SubSeq(r, Len(r) + 1, Len(r)) /\ Len(r) \in 0 .. Len(r)
      BY <1>1, <1>7, <1>9 DEF Skips
    <2>2. \A j \in 1 .. Len(r) : r[j].pod \in Coalescing!PodsIn(q)
      BY Zenon, <1>9 DEF Skips
    <2>3. \A j \in 1 .. Len(r) : \E i \in 2 .. Len(pods) : pods[i].pod = r[j].pod
      BY Zenon, <1>5, <2>2
    <2>4. r # <<>> => Len(r) > 0
      BY <1>1
    <2>5. /\ recovering' \in Seq(Coalescing!Entry) /\ Len(recovering') = Len(r) - Len(r)
          /\ \A j \in 1 .. Len(r) - Len(r) : recovering'[j] = r[j + Len(r)]
      BY Zenon, <1>8, <2>1
    <2>6. Refill(Len(r))
      BY ZenonT(60), <1>2, <1>3, <2>1, <2>3, <2>4, <2>5 DEF Refill, r
    <2> QED BY Zenon, <1>1, <2>6
  <1>10. ASSUME NEW n \in 1 .. Len(r), Queues(q, r, n) PROVE Refill(n)
    <2>1. pods' = Append(q, r[n]) /\ recovering' = SubSeq(r, n + 1, Len(r)) /\ n \in 0 .. Len(r) /\ r # <<>>
      BY <1>1, <1>7, <1>10 DEF Queues
    <2>2. /\ pods' \in Seq(Coalescing!Entry) /\ Len(pods') = Len(pods) /\ pods'[Len(pods)] = r[n]
          /\ \A i \in 1 .. Len(pods) - 1 : pods'[i] = q[i]
      <3>1. r[n] \in Coalescing!Entry
        BY <1>1
      <3> QED BY <1>1, <1>2, <2>1, <3>1
    <2>3. \A i \in 2 .. Len(pods) : pods[i].pod # r[n].pod
      BY Zenon, <1>5, <1>10 DEF Queues
    <2>4. \A j \in 1 .. n - 1 : \E i \in 2 .. Len(pods) : pods[i].pod = r[j].pod
      BY Zenon, <1>5, <1>10 DEF Queues
    <2>5. /\ recovering' \in Seq(Coalescing!Entry) /\ Len(recovering') = Len(r) - n
          /\ \A j \in 1 .. Len(r) - n : recovering'[j] = r[j + n]
      BY Zenon, <1>8, <2>1
    <2>6. n >= 1 /\ n > 0
      BY <1>1
    <2> QED BY ZenonT(60), <1>3, <1>4, <2>1, <2>2, <2>3, <2>4, <2>5, <2>6 DEF Refill, r
  <1>11. \A n \in 1 .. Len(r) : n \in Nat
    BY <1>1
  <1> QED BY ZenonT(60), <1>1, <1>2, <1>6, <1>9, <1>10, <1>11, ReadmitFillsTheSlot

\* Pop: one pod leaves, and the slot is filled from the recovery buffer.
LEMMA PopStep ==
    ASSUME CoalescingInv, Coalescing!Pop
    PROVE  CoalescingInv'
  <1>1. Coalescing!TypeOK /\ EventInv /\ PlaceInv /\ SinceInv /\ KeptInv
    BY Zenon DEF CoalescingInv
  <1>2. pods # <<>> /\ Coalescing!PopFront /\ consumer' = "pop" /\ UNCHANGED <<notify, waking, done, offered>>
    BY Zenon DEF Coalescing!Pop
  <1>3. /\ pods \in Seq(Coalescing!Entry) /\ recovering \in Seq(Coalescing!Entry)
        /\ Len(pods) \in Nat /\ Len(recovering) \in Nat /\ Len(pods) >= 1
        /\ DOMAIN pods = 1 .. Len(pods) /\ DOMAIN recovering = 1 .. Len(recovering)
        /\ \A i \in 1 .. Len(pods) : pods[i] \in Coalescing!Entry
        /\ \A j \in 1 .. Len(recovering) : recovering[j] \in Coalescing!Entry
    BY <1>1, <1>2 DEF Coalescing!TypeOK
  <1>4. PICK n \in Nat : Refill(n)
    BY Zenon, <1>2, PopRefills
  <1>5. /\ pods' \in Seq(Coalescing!Entry) /\ recovering' \in Seq(Coalescing!Entry)
        /\ Len(pods') \in Nat /\ Len(recovering') \in Nat
        /\ DOMAIN pods' = 1 .. Len(pods') /\ DOMAIN recovering' = 1 .. Len(recovering')
        /\ n \in 0 .. Len(recovering) /\ Len(recovering') = Len(recovering) - n
    <2>1. /\ pods' \in Seq(Coalescing!Entry) /\ recovering' \in Seq(Coalescing!Entry)
          /\ n \in 0 .. Len(recovering) /\ Len(recovering') = Len(recovering) - n
      BY Zenon, <1>4 DEF Refill
    <2> QED BY <2>1
  <1>6. Len(pods') = Len(pods) - 1 \/ (Len(pods') = Len(pods) /\ Len(pods) = MaxKeys)
    BY Zenon, <1>4 DEF Refill
  <1>7. \A i \in 1 .. Len(pods) - 1 : pods'[i] = pods[i + 1]
    BY Zenon, <1>4 DEF Refill
  <1>8. \A j \in 1 .. Len(recovering) - n : recovering'[j] = recovering[j + n]
    BY Zenon, <1>4 DEF Refill
  <1>9. \A i, j \in 1 .. Len(pods) : pods[i].pod = pods[j].pod => i = j
    <2>1. \A i, j \in DOMAIN pods : pods[i].pod = pods[j].pod => i = j
      BY Zenon, <1>1 DEF Coalescing!TypeOK
    <2> QED BY Zenon, <1>3, <2>1
  <1>10. Len(pods) \in Nat /\ Len(pods') \in Nat /\ Len(recovering) \in Nat /\ Len(recovering') \in Nat
    BY Zenon, <1>3, <1>5
  <1>11. MaxKeys \in Nat /\ MaxKeys >= 1 /\ Len(pods) <= MaxKeys /\ Len(recovering) <= MaxKeys
    BY <1>1, MaxKeysAssumption DEF Coalescing!TypeOK
  <1>12. PICK p \in Keys : p = Head(pods).pod
    BY <1>3, <1>2 DEF Coalescing!Entry
  <1>13. pods[1].pod = p /\ pods[1] \in Coalescing!Entry /\ Head(pods) = pods[1]
    BY <1>3, <1>2, <1>12
  <1>14. \A i \in 2 .. Len(pods) : pods[i].pod # p
    <2>1. \A i \in 2 .. Len(pods) : i \in 1 .. Len(pods) /\ 1 \in 1 .. Len(pods) /\ i # 1
      BY <1>3
    <2> QED BY Zenon, <1>13, <1>9, <2>1
  <1>15. \A j \in 1 .. Len(recovering) : recovering[j].pod # p
    BY <1>1, <1>3, <1>13 DEF PlaceInv
  <1>16. /\ popped' = [popped EXCEPT ![p] = offered[p]]
         /\ delivered' = [delivered EXCEPT ![p] = pods[1].event]
         /\ lost' = lost \ {p} /\ owed' = owed \ {p}
    BY Zenon, <1>2, <1>12, <1>13 DEF Coalescing!PopFront
  <1>17. /\ popped \in [Keys -> 0 .. MaxTasks] /\ delivered \in [Keys -> 0 .. MaxTasks]
         /\ offered \in [Keys -> 0 .. MaxTasks] /\ MaxTasks \in Nat
         /\ lost \subseteq Keys /\ owed \subseteq Keys
    BY Zenon, <1>1, BoundsAssumption DEF Coalescing!TypeOK
  <1>18. /\ popped' \in [Keys -> 0 .. MaxTasks] /\ delivered' \in [Keys -> 0 .. MaxTasks]
         /\ popped'[p] = offered[p] /\ delivered'[p] = pods[1].event
         /\ \A x \in Keys : x # p => popped'[x] = popped[x] /\ delivered'[x] = delivered[x]
    BY <1>13, <1>16, <1>17 DEF Coalescing!Entry
  <1>19. ASSUME NEW i \in 1 .. Len(pods')
         PROVE  \/ i \in 1 .. Len(pods) - 1 /\ i + 1 \in 2 .. Len(pods) /\ pods'[i] = pods[i + 1]
                \/ /\ i = MaxKeys /\ Len(pods') = MaxKeys /\ Len(pods) = MaxKeys /\ n \in 1 .. Len(recovering)
                   /\ pods'[i] = recovering[n] /\ \A k \in 2 .. Len(pods) : pods[k].pod # recovering[n].pod
                   /\ \A j \in 1 .. n - 1 : \E k \in 2 .. Len(pods) : pods[k].pod = recovering[j].pod
    <2>1. CASE i \in 1 .. Len(pods) - 1
      <3>1. pods'[i] = pods[i + 1]
        BY Zenon, <1>7, <2>1
      <3>2. i + 1 \in 2 .. Len(pods)
        BY <1>3, <2>1
      <3> QED BY Zenon, <2>1, <3>1, <3>2
    <2>2. CASE i \notin 1 .. Len(pods) - 1
      <3>1. Len(pods') # Len(pods) - 1
        BY Zenon, <1>3, <1>5, <2>2
      <3>2. /\ Len(pods') = Len(pods) /\ n >= 1 /\ Len(pods) = MaxKeys
            /\ pods'[MaxKeys] = recovering[n]
            /\ \A k \in 2 .. Len(pods) : pods[k].pod # recovering[n].pod
            /\ \A j \in 1 .. n - 1 : \E k \in 2 .. Len(pods) : pods[k].pod = recovering[j].pod
        BY Zenon, <1>4, <3>1 DEF Refill
      <3>3. i = MaxKeys /\ n \in 1 .. Len(recovering)
        BY <1>3, <1>5, <2>2, <3>2
      <3> QED BY Zenon, <3>2, <3>3
    <2> QED BY Zenon, <2>1, <2>2
  <1>20. \A j \in 1 .. Len(recovering') : j + n \in 1 .. Len(recovering) /\ recovering'[j] = recovering[j + n]
    BY <1>3, <1>5, <1>8
  <1>21. ASSUME NEW i \in 2 .. Len(pods) PROVE i - 1 \in 1 .. Len(pods') /\ pods'[i - 1] = pods[i]
    <2>1. Len(pods') >= Len(pods) - 1
      BY <1>6, <1>10
    <2>2. i - 1 \in 1 .. Len(pods) - 1 /\ i - 1 \in 1 .. Len(pods') /\ (i - 1) + 1 = i
      BY <1>3, <1>5, <2>1
    <2> QED BY Zenon, <1>7, <2>2
  <1>22. \A i \in 1 .. Len(pods') : pods'[i] \in Coalescing!Entry /\ pods'[i].pod # p
    <2> SUFFICES ASSUME NEW i \in 1 .. Len(pods') PROVE pods'[i] \in Coalescing!Entry /\ pods'[i].pod # p
      BY Zenon
    <2>1. pods'[i] \in Coalescing!Entry
      BY <1>5
    <2> QED BY <1>14, <1>15, <1>19, <2>1
  <1>23. Coalescing!TypeOK'
    <2>1. Len(pods') <= MaxKeys
      <3>1. Len(pods) <= MaxKeys
        BY Zenon, <1>11
      <3> QED BY <1>11, <1>6, <1>10, <3>1
    <2>2. Len(recovering') <= MaxKeys
      BY <1>3, <1>5, <1>11
    <2>3. ASSUME NEW i \in 1 .. Len(pods'), NEW j \in 1 .. Len(pods'), pods'[i].pod = pods'[j].pod
          PROVE  i = j
      <3>1. \A k, l \in 2 .. Len(pods) : pods[k].pod = pods[l].pod => k = l
        BY <1>3, <1>9
      <3>2. CASE i \in 1 .. Len(pods) - 1 /\ j \in 1 .. Len(pods) - 1
        <4>1. /\ i + 1 \in 2 .. Len(pods) /\ j + 1 \in 2 .. Len(pods)
              /\ pods'[i] = pods[i + 1] /\ pods'[j] = pods[j + 1]
          BY <1>3, <1>7, <3>2
        <4> QED BY <2>3, <3>1, <4>1
      <3>3. CASE ~(i \in 1 .. Len(pods) - 1) /\ j \in 1 .. Len(pods) - 1
        BY <1>19, <2>3, <3>3
      <3>4. CASE i \in 1 .. Len(pods) - 1 /\ ~(j \in 1 .. Len(pods) - 1)
        BY SMTT(60), <1>19, <2>3, <3>4
      <3>5. CASE ~(i \in 1 .. Len(pods) - 1) /\ ~(j \in 1 .. Len(pods) - 1)
        BY Zenon, <1>19, <3>5
      <3> QED BY Zenon, <3>2, <3>3, <3>4, <3>5
    <2>4. /\ notify' \in BOOLEAN /\ done' \in BOOLEAN /\ waking' \subseteq Keys
          /\ consumer' \in {"pop", "select", "drain", "stopped"} /\ offered' \in [Keys -> 0 .. MaxTasks]
      BY Zenon, <1>1, <1>2 DEF Coalescing!TypeOK
    <2>5. lost' \subseteq Keys /\ owed' \subseteq Keys
      BY Zenon, <1>16, <1>17
    <2> QED BY Zenon, <1>5, <1>18, <2>1, <2>2, <2>3, <2>4, <2>5 DEF Coalescing!TypeOK
  <1>24. EventInv'
    <2> DEFINE SoundNext(e) == delivered'[e.pod] < e.event /\ e.event <= offered'[e.pod] /\ e.createAt <= e.event
    <2>1. \A x \in Keys : delivered'[x] <= offered'[x] /\ popped'[x] <= offered'[x]
      <3>1. pods[1].event <= offered[p]
        BY <1>1, <1>3, <1>13 DEF EventInv, Sound
      <3>2. \A x \in Keys : delivered[x] <= offered[x] /\ popped[x] <= offered[x] /\ offered[x] \in Nat
        BY <1>1, <1>17 DEF EventInv
      <3> QED BY SMTT(60), <1>2, <1>18, <3>1, <3>2
    <2>2. \A e \in Coalescing!Entry : Sound(e) /\ e.pod # p => SoundNext(e)
      BY Zenon, <1>2, <1>18 DEF Sound, Coalescing!Entry
    <2>3. \A i \in 1 .. Len(pods) : Sound(pods[i])
      BY Zenon, <1>1, <1>3 DEF EventInv
    <2>4. \A j \in 1 .. Len(recovering) : Sound(recovering[j])
      BY Zenon, <1>1, <1>3 DEF EventInv
    <2> HIDE DEF SoundNext
    <2>5. \A j \in 1 .. Len(recovering) : SoundNext(recovering[j])
      BY Zenon, <1>3, <1>15, <2>2, <2>4
    <2>6. \A i \in 2 .. Len(pods) : SoundNext(pods[i])
      <3>1. \A i \in 2 .. Len(pods) : i \in 1 .. Len(pods)
        BY <1>3
      <3> QED BY ZenonT(60), <1>3, <1>14, <2>2, <2>3, <3>1
    <2>7. \A i \in 1 .. Len(pods') : SoundNext(pods'[i])
      BY Zenon, <1>19, <2>5, <2>6
    <2>8. \A j \in 1 .. Len(recovering') : SoundNext(recovering'[j])
      BY Zenon, <1>20, <2>5
    <2> QED BY Zenon, <1>5, <2>1, <2>7, <2>8 DEF EventInv, Sound, SoundNext
  <1>25. PlaceInv'
    <2>1. ASSUME recovering' # <<>> PROVE n >= 1 /\ Len(pods') = MaxKeys
      <3>1. n # Len(recovering)
        BY <1>5, <1>10, <2>1
      <3>2. Len(pods') = Len(pods) /\ n >= 1 /\ Len(pods) = MaxKeys
        BY Zenon, <1>4, <3>1 DEF Refill
      <3> QED BY Zenon, <3>2
    <2>2. ASSUME NEW i \in 1 .. Len(pods'), NEW j \in 1 .. Len(recovering'), pods'[i].pod = recovering'[j].pod
          PROVE  j < i
      <3>1. n >= 1
        BY <1>5, <2>1
      <3>2. CASE i \in 1 .. Len(pods) - 1 /\ i + 1 \in 2 .. Len(pods) /\ pods'[i] = pods[i + 1]
        <4>1. i + 1 \in DOMAIN pods /\ j + n \in DOMAIN recovering
          BY <1>3, <1>20, <3>2
        <4>2. pods[i + 1].pod = recovering[j + n].pod
          BY Zenon, <1>20, <2>2, <3>2
        <4>3. j + n < i + 1
          BY Zenon, <1>1, <4>1, <4>2 DEF PlaceInv
        <4> QED BY <3>1, <4>3
      <3>3. CASE i = MaxKeys
        <4>1. j <= Len(recovering) - n /\ Len(recovering) <= MaxKeys
          BY <1>5, <1>11
        <4> QED BY <1>11, <1>10, <3>1, <3>3, <4>1
      <3> QED BY Zenon, <1>19, <3>2, <3>3
    <2> QED BY Zenon, <1>5, <2>1, <2>2 DEF PlaceInv
  <1>26. SinceInv'
    <2>1. \A i \in 1 .. Len(pods) : pods[i].pod \notin lost => pods[i].createAt = popped[pods[i].pod] + 1
      BY Zenon, <1>1, <1>3 DEF SinceInv
    <2>2. \A j \in 1 .. Len(recovering) :
            Returns(j) /\ recovering[j].pod \notin lost => recovering[j].createAt = popped[recovering[j].pod] + 1
      BY Zenon, <1>1, <1>3 DEF SinceInv
    <2>3. \A e \in Coalescing!Entry : e.pod # p => (e.pod \in lost' <=> e.pod \in lost) /\ popped'[e.pod] = popped[e.pod]
      BY Zenon, <1>16, <1>18 DEF Coalescing!Entry
    <2>4. ASSUME NEW i \in 1 .. Len(pods'), pods'[i].pod \notin lost'
          PROVE  pods'[i].createAt = popped'[pods'[i].pod] + 1
      <3>1. CASE i \in 1 .. Len(pods) - 1 /\ i + 1 \in 2 .. Len(pods) /\ pods'[i] = pods[i + 1]
        <4>1. i + 1 \in 1 .. Len(pods)
          BY <1>10, <3>1
        <4> QED BY <1>22, <2>1, <2>3, <2>4, <3>1, <4>1
      <3>2. CASE /\ n \in 1 .. Len(recovering)
                 /\ pods'[i] = recovering[n] /\ \A k \in 2 .. Len(pods) : pods[k].pod # recovering[n].pod
                 /\ \A j \in 1 .. n - 1 : \E k \in 2 .. Len(pods) : pods[k].pod = recovering[j].pod
        <4>1. \A k \in 1 .. Len(pods) : pods[k].pod # recovering[n].pod
          <5>1. \A k \in 1 .. Len(pods) : k = 1 \/ k \in 2 .. Len(pods)
            BY <1>10
          <5> QED BY Zenon, <1>13, <1>15, <3>2, <5>1
        <4>2. \A j \in 1 .. n - 1 : recovering[j].pod # recovering[n].pod
          BY Zenon, <3>2
        <4>3. recovering[n].pod \notin Coalescing!PodsIn(pods)
          BY <1>3, <4>1, PodsInAt
        <4>4. Returns(n)
          BY Zenon, <4>2, <4>3 DEF Returns
        <4> QED BY <1>22, <2>2, <2>3, <2>4, <3>2, <4>4
      <3> QED BY Zenon, <1>19, <3>1, <3>2
    <2>5. ASSUME NEW j \in 1 .. Len(recovering'), Returns(j)', recovering'[j].pod \notin lost'
          PROVE  recovering'[j].createAt = popped'[recovering'[j].pod] + 1
      <3> DEFINE x == recovering[j + n].pod
      <3>1. j + n \in 1 .. Len(recovering) /\ recovering'[j] = recovering[j + n]
        BY Zenon, <1>20
      <3>2. \A i \in 1 .. Len(pods') : pods'[i].pod # x
        <4>1. recovering'[j].pod \notin Coalescing!PodsIn(pods')
          BY Zenon, <2>5 DEF Returns
        <4> QED BY Zenon, <1>5, <3>1, <4>1, PodsInAt
      <3>3. \A k \in 1 .. j - 1 : recovering'[k].pod # x
        BY Zenon, <2>5, <3>1 DEF Returns
      <3>4. \A i \in 2 .. Len(pods) : pods[i].pod # x
        BY Zenon, <1>21, <3>2
      <3>5. x # p
        BY Zenon, <1>15, <3>1
      <3>6. x \notin Coalescing!PodsIn(pods)
        <4>1. \A i \in 1 .. Len(pods) : i = 1 \/ i \in 2 .. Len(pods)
          BY <1>10
        <4>2. \A i \in 1 .. Len(pods) : pods[i].pod # x
          BY Zenon, <1>13, <3>4, <3>5, <4>1
        <4> QED BY <1>3, <4>2, PodsInAt
      <3>7. ASSUME NEW k \in 1 .. (j + n) - 1 PROVE recovering[k].pod # x
        <4>1. CASE k > n
          <5>1. k - n \in 1 .. j - 1 /\ k - n \in 1 .. Len(recovering') /\ (k - n) + n = k
            BY <1>10, <4>1
          <5> QED BY Zenon, <1>20, <3>3, <5>1
        <4>2. CASE k <= n
          <5>1. n # Len(recovering)
            BY <1>5, <1>10
          <5>2. /\ Len(pods') = MaxKeys /\ pods'[MaxKeys] = recovering[n]
                /\ \A l \in 1 .. n - 1 : \E i \in 2 .. Len(pods) : pods[i].pod = recovering[l].pod
            BY Zenon, <1>4, <5>1 DEF Refill
          <5>3. CASE k = n
            BY <1>11, <3>2, <5>2, <5>3
          <5>4. CASE k \in 1 .. n - 1
            BY Zenon, <3>4, <5>2, <5>4
          <5> QED BY <4>2, <5>3, <5>4
        <4> QED BY <4>1, <4>2
      <3>8. Returns(j + n)
        BY Zenon, <3>6, <3>7 DEF Returns
      <3> QED BY <1>3, <2>2, <2>3, <2>5, <3>1, <3>5, <3>8
    <2> QED BY Zenon, <1>5, <2>4, <2>5 DEF SinceInv
  <1>27. KeptInv'
    <2>1. ASSUME NEW i \in 2 .. Len(pods) PROVE pods[i].pod \in Coalescing!PodsIn(pods')
      BY Zenon, <1>5, <1>21, PodsInAt
    <2>2. ASSUME NEW k \in 1 .. Len(recovering) PROVE recovering[k].pod \in QueuedPods'
      <3>1. CASE k > n
        <4>1. k - n \in 1 .. Len(recovering') /\ (k - n) + n = k
          BY <1>5, <1>10, <3>1
        <4>2. recovering'[k - n] = recovering[k]
          BY Zenon, <1>20, <4>1
        <4> QED BY Zenon, <1>5, <4>1, <4>2, PodsInAt DEF QueuedPods
      <3>2. CASE k <= n /\ Len(pods') = Len(pods) - 1 /\ \A j \in 1 .. n : \E i \in 2 .. Len(pods) : pods[i].pod = recovering[j].pod
        <4>1. k \in 1 .. n
          BY <3>2
        <4> QED BY Zenon, <2>1, <3>2, <4>1 DEF QueuedPods
      <3>3. CASE /\ k <= n /\ Len(pods') = MaxKeys /\ pods'[MaxKeys] = recovering[n]
                 /\ \A j \in 1 .. n - 1 : \E i \in 2 .. Len(pods) : pods[i].pod = recovering[j].pod
        <4>1. CASE k = n
          <5>1. MaxKeys \in DOMAIN pods'
            BY <1>5, <1>11, <3>3
          <5> QED BY ZenonT(60), <1>5, <3>3, <4>1, <5>1, PodsInAt DEF QueuedPods
        <4>2. CASE k \in 1 .. n - 1
          BY Zenon, <2>1, <3>3, <4>2 DEF QueuedPods
        <4> QED BY <3>3, <4>1, <4>2
      <3> QED BY SMTT(60), <1>4, <3>1, <3>2, <3>3 DEF Refill
    <2>3. QueuedPods \ {p} \subseteq QueuedPods'
      <3> SUFFICES ASSUME NEW x \in QueuedPods, x # p PROVE x \in QueuedPods'
        BY Zenon
      <3>1. CASE x \in Coalescing!PodsIn(pods)
        <4>1. PICK i \in 1 .. Len(pods) : pods[i].pod = x
          BY Zenon, <1>3, <3>1, PodsInAt
        <4>2. i \in 2 .. Len(pods)
          BY <1>13, <1>10, <4>1
        <4> QED BY Zenon, <2>1, <4>1, <4>2 DEF QueuedPods
      <3>2. CASE x \in Coalescing!PodsIn(recovering)
        <4>1. PICK k \in 1 .. Len(recovering) : recovering[k].pod = x
          BY ZenonT(60), <1>3, <3>2, PodsInAt
        <4> QED BY Zenon, <2>2, <4>1
      <3> QED BY Zenon, <3>1, <3>2 DEF QueuedPods
    <2>4. Coalescing!Unseen' \subseteq Coalescing!Unseen \ {p}
      BY <1>2, <1>17, <1>18 DEF Coalescing!Unseen
    <2>5. Coalescing!Unseen \subseteq QueuedPods \cup lost /\ owed \subseteq QueuedPods
      BY Zenon, <1>1 DEF KeptInv
    <2> QED BY Zenon, <1>2, <1>16, <2>3, <2>4, <2>5 DEF KeptInv
  <1> QED BY Zenon, <1>23, <1>24, <1>25, <1>26, <1>27 DEF CoalescingInv

\* A step that leaves the buffers and what was offered and popped alone.
LEMMA QuietStep ==
    ASSUME CoalescingInv, UNCHANGED <<pods, recovering, offered, popped, delivered, lost>>,
           notify' \in BOOLEAN, done' \in BOOLEAN, waking' \subseteq Keys, owed' \subseteq QueuedPods,
           consumer' \in {"pop", "select", "drain", "stopped"},
           consumer' \in {"drain", "stopped"} => done', consumer' = "stopped" => owed' = {}
    PROVE  CoalescingInv'
  <1>1. Coalescing!TypeOK /\ EventInv /\ PlaceInv /\ SinceInv /\ KeptInv
    BY Zenon DEF CoalescingInv
  <1>2. QueuedPods' = QueuedPods /\ Coalescing!Unseen' = Coalescing!Unseen
    BY Zenon DEF QueuedPods, Coalescing!Unseen
  <1>3. EventInv' /\ PlaceInv' /\ SinceInv'
    BY Zenon, <1>1 DEF EventInv, Sound, PlaceInv, SinceInv, Returns
  <1>4. KeptInv'
    BY Zenon, <1>1, <1>2 DEF KeptInv
  <1>5. QueuedPods \subseteq Keys
    <2>1. pods \in Seq(Coalescing!Entry) /\ recovering \in Seq(Coalescing!Entry)
      BY Zenon, <1>1 DEF Coalescing!TypeOK
    <2>2. ASSUME NEW s \in Seq(Coalescing!Entry) PROVE Coalescing!PodsIn(s) \subseteq Keys
      <3>1. \A i \in DOMAIN s : s[i].pod \in Keys
        <4>1. \A i \in DOMAIN s : s[i] \in Coalescing!Entry
          OBVIOUS
        <4>2. \A e \in Coalescing!Entry : e.pod \in Keys
          BY Zenon DEF Coalescing!Entry
        <4> QED BY Zenon, <4>1, <4>2
      <3> QED BY Zenon, <3>1, PodsInAt
    <2> QED BY Zenon, <2>1, <2>2 DEF QueuedPods
  <1>6. Coalescing!TypeOK'
    BY Zenon, <1>1, <1>5 DEF Coalescing!TypeOK
  <1> QED BY Zenon, <1>3, <1>4, <1>6 DEF CoalescingInv

\* Every step preserves the invariant.
LEMMA StepCoalescingInv == CoalescingInv /\ [Coalescing!Next]_(Coalescing!vars) => CoalescingInv'
  <1> SUFFICES ASSUME CoalescingInv, [Coalescing!Next]_(Coalescing!vars) PROVE CoalescingInv'
    BY Zenon
  <1>1. /\ notify \in BOOLEAN /\ done \in BOOLEAN /\ waking \subseteq Keys /\ owed \subseteq QueuedPods
        /\ consumer \in {"pop", "select", "drain", "stopped"}
        /\ consumer \in {"drain", "stopped"} => done
        /\ consumer = "stopped" => owed = {}
    BY Zenon DEF CoalescingInv, Coalescing!TypeOK, KeptInv
  <1>2. ASSUME NEW p \in Keys, Coalescing!Signal(p) PROVE CoalescingInv'
    <2>1. /\ UNCHANGED <<pods, recovering, offered, popped, delivered, lost, done, consumer, owed>>
          /\ waking' \subseteq Keys /\ notify' \in BOOLEAN
      BY Zenon, <1>1, <1>2 DEF Coalescing!Signal
    <2> QED BY Zenon, <1>1, <2>1, QuietStep
  <1>3. CASE Coalescing!PopEmpty
    <2>1. /\ UNCHANGED <<pods, recovering, offered, popped, delivered, lost, done, waking, notify, owed>>
          /\ pods = <<>>
          /\ (consumer = "pop" /\ consumer' = "select") \/ (consumer = "drain" /\ consumer' = "stopped")
      BY Zenon, <1>3 DEF Coalescing!PopEmpty
    <2>2. owed = {}
      <3>1. recovering = <<>>
        BY Zenon, <2>1, MaxKeysAssumption DEF CoalescingInv, PlaceInv
      <3>2. Coalescing!PodsIn(<<>>) = {}
        BY DEF Coalescing!PodsIn, Coalescing!Range
      <3> QED BY Zenon, <1>1, <2>1, <3>1, <3>2 DEF QueuedPods
    <2> QED BY Zenon, <1>1, <2>1, <2>2, QuietStep
  <1>4. CASE Coalescing!Select
    <2>1. /\ UNCHANGED <<pods, recovering, offered, popped, delivered, lost, done, waking, owed>>
          /\ notify' \in BOOLEAN
          /\ consumer' = "pop" \/ (done /\ consumer' = "drain")
      BY Zenon, <1>1, <1>4 DEF Coalescing!Select
    <2> QED BY Zenon, <1>1, <2>1, QuietStep
  <1>5. CASE Coalescing!Stop
    <2>1. /\ UNCHANGED <<pods, recovering, offered, popped, delivered, lost, consumer, waking, notify>>
          /\ ~done /\ done' = TRUE /\ owed' = QueuedPods
      BY Zenon, <1>5 DEF Coalescing!Stop, QueuedPods
    <2>2. consumer \notin {"drain", "stopped"}
      BY Zenon, <1>1, <2>1
    <2> QED BY Zenon, <1>1, <2>1, <2>2, QuietStep
  <1>6. CASE UNCHANGED Coalescing!vars
    BY Zenon, <1>1, <1>6, QuietStep DEF Coalescing!vars
  <1> QED BY Zenon, <1>2, <1>3, <1>4, <1>5, <1>6, OfferStep, PopStep DEF Coalescing!Next

\* The inductive invariant holds in every state of the queue.
THEOREM CoalescingInvariantHolds == Coalescing!Spec => []CoalescingInv
  <1> QED BY InitCoalescingInv, StepCoalescingInv, PTL DEF Coalescing!Spec

\* The buffers stay within their bounds and no pod is queued twice.
THEOREM CoalescingTypesHold == Coalescing!Spec => []Coalescing!TypeOK
  <1>1. CoalescingInv => Coalescing!TypeOK
    BY Zenon DEF CoalescingInv
  <1> QED BY <1>1, CoalescingInvariantHolds, PTL

\* No change of a pod is lost without an overflow of the recovery buffer, a
\* waiting pod counts from its first unseen event, and Pop reports the end
\* only when what waited at Stop was returned: offer and pop, for any number
\* of pods and events and any capacity.
THEOREM CoalescingKeepsChanges == Coalescing!Spec => []Coalescing!ChangesAreKept
  <1>1. CoalescingInv => Coalescing!ChangesAreKept
    <2> SUFFICES ASSUME CoalescingInv PROVE Coalescing!ChangesAreKept
      BY Zenon
    <2>1. \A e \in Coalescing!Range(pods) : e.pod \notin lost => e.createAt = popped[e.pod] + 1
      BY Zenon DEF CoalescingInv, SinceInv, Coalescing!Range
    <2> QED BY Zenon, <2>1 DEF CoalescingInv, KeptInv, QueuedPods, Coalescing!ChangesAreKept
  <1> QED BY <1>1, CoalescingInvariantHolds, PTL

\* Pop never returns an older event of a pod than the one it returned last,
\* though recovery entries overtake and are overtaken by later events.
THEOREM CoalescingDeliversInOrder == Coalescing!Spec => Coalescing!EventsInOrder
  <1> DEFINE Forward == \A p \in Keys : delivered'[p] >= delivered[p]
  <1>1. CoalescingInv /\ [Coalescing!Next]_(Coalescing!vars) => [Forward]_(Coalescing!vars)
    <2> SUFFICES ASSUME CoalescingInv, Coalescing!Next PROVE Forward
      BY Zenon
    <2>1. delivered \in [Keys -> 0 .. MaxTasks] /\ MaxTasks \in Nat
      BY Zenon, BoundsAssumption DEF CoalescingInv, Coalescing!TypeOK
    <2>2. CASE Coalescing!Pop
      <3>1. pods # <<>> /\ delivered' = [delivered EXCEPT ![Head(pods).pod] = Head(pods).event]
        BY Zenon, <2>2 DEF Coalescing!Pop, Coalescing!PopFront
      <3>2. pods \in Seq(Coalescing!Entry) /\ 1 \in DOMAIN pods /\ Head(pods) = pods[1] /\ pods[1] \in Coalescing!Entry
        BY <3>1 DEF CoalescingInv, Coalescing!TypeOK
      <3>3. delivered[pods[1].pod] < pods[1].event /\ pods[1].pod \in Keys /\ pods[1].event \in Nat
        BY <3>2 DEF CoalescingInv, EventInv, Sound, Coalescing!Entry
      <3> QED BY <2>1, <3>1, <3>2, <3>3
    <2>3. CASE delivered' = delivered
      BY <2>1, <2>3
    <2> QED BY Zenon, <2>2, <2>3 DEF Coalescing!Next, Coalescing!Offer, Coalescing!Signal, Coalescing!PopEmpty, Coalescing!Select, Coalescing!Stop
  <1> QED BY <1>1, CoalescingInvariantHolds, PTL DEF Coalescing!Spec, Coalescing!EventsInOrder

-----------------------------------------------------------------------------

Held == {"submit", "finish", "refused"}

InFlight == {k \in Retained : entries[k].inflight}

Once(s) == \A i, j \in DOMAIN s : s[i] = s[j] => i = j

Types ==
    /\ entries \in [Keys -> Waiting \cup {None}]
    /\ order \in Seq(Keys)
    /\ wake \in BOOLEAN /\ closed \in BOOLEAN /\ cancelled \in BOOLEAN
    /\ signalling \subseteq Keys
    /\ pc \in {"select", "next", "retry", "done"} \cup Held
    /\ current \in Taken \cup {None}
    /\ accepted \in [Keys -> 0 .. MaxTasks] /\ submitted \in [Keys -> 0 .. MaxTasks]

\* The waiting task is the last one accepted; a task and its generation are
\* equally far behind those that wait; and all that was accepted is submitted,
\* waits, or is what the pool has just taken.
TaskInv ==
    /\ current # None <=> pc \in Held
    /\ \A k \in Retained : entries[k].task = accepted[k] /\ entries[k].generation \in 1 .. entries[k].task
    /\ \A k \in Keys \ Retained : submitted[k] = accepted[k]
    /\ \A k \in Retained : submitted[k] < accepted[k] \/ (pc = "finish" /\ current.key = k)
    /\ current # None =>
        /\ current.generation \in 1 .. entries[current.key].generation
        /\ entries[current.key].task - current.task = entries[current.key].generation - current.generation
        /\ pc = "finish" => submitted[current.key] = current.task
        /\ pc # "finish" => submitted[current.key] < current.task

\* What waits is in order once, and what does not is in the dispatcher's hands.
OrderInv ==
    /\ Once(order)
    /\ Range(order) = Retained \ InFlight
    /\ InFlight = {t.key : t \in {current} \ {None}}

IInv == Types /\ TaskInv /\ OrderInv

\* What a step may do to the identities the queue retains: it forgets some, or
\* adds one when there is room.
Admits ==
    \/ Retained' \subseteq Retained
    \/ Room /\ \E k \in Keys \ Retained : Retained' = Retained \cup {k}

-----------------------------------------------------------------------------
\* A new identity at the end of the order.
LEMMA AppendOnce ==
    ASSUME NEW S, NEW s \in Seq(S), NEW e \in S, Once(s), e \notin Range(s)
    PROVE  /\ Append(s, e) \in Seq(S) /\ Once(Append(s, e))
           /\ Range(Append(s, e)) = Range(s) \cup {e}
  <1>1. /\ Len(s) \in Nat /\ DOMAIN s = 1 .. Len(s)
        /\ Append(s, e) \in Seq(S) /\ Len(Append(s, e)) = Len(s) + 1
        /\ DOMAIN Append(s, e) = 1 .. Len(s) + 1
        /\ \A i \in 1 .. Len(s) : Append(s, e)[i] = s[i]
        /\ Append(s, e)[Len(s) + 1] = e
    BY AppendProperties, LenProperties
  <1>2. \A i \in 1 .. Len(s) : s[i] \in Range(s)
    BY Zenon, <1>1 DEF Range
  <1>3. Once(Append(s, e))
    BY <1>1, <1>2 DEF Once
  <1>4. Range(Append(s, e)) = Range(s) \cup {e}
    <2>1. 1 .. Len(s) + 1 = (1 .. Len(s)) \cup {Len(s) + 1}
      BY <1>1
    <2> QED BY <1>1, <2>1 DEF Range
  <1> QED BY Zenon, <1>1, <1>3, <1>4

\* The order without its first identity.
LEMMA RestOnce ==
    ASSUME NEW S, NEW s \in Seq(S), Once(s), Len(s) >= 1
    PROVE  /\ SubSeq(s, 2, Len(s)) \in Seq(S) /\ Once(SubSeq(s, 2, Len(s)))
           /\ Range(SubSeq(s, 2, Len(s))) = Range(s) \ {s[1]}
  <1> DEFINE r == SubSeq(s, 2, Len(s))
  <1>1. /\ Len(s) \in Nat /\ DOMAIN s = 1 .. Len(s)
        /\ r \in Seq(S) /\ DOMAIN r = 1 .. Len(s) - 1
        /\ \A i \in 1 .. Len(s) - 1 : r[i] = s[i + 1]
    BY SubSeqProperties, LenProperties
  <1> HIDE DEF r
  <1>2. Once(r)
    <2> SUFFICES ASSUME NEW i \in 1 .. Len(s) - 1, NEW j \in 1 .. Len(s) - 1, r[i] = r[j]
                 PROVE  i = j
      BY Zenon, <1>1 DEF Once
    <2>1. i + 1 \in 1 .. Len(s) /\ j + 1 \in 1 .. Len(s) /\ s[i + 1] = s[j + 1]
      BY <1>1
    <2>2. i + 1 = j + 1
      BY Zenon, <1>1, <2>1 DEF Once
    <2> QED BY <2>2
  <1>3. Range(r) = Range(s) \ {s[1]}
    <2>1. ASSUME NEW x \in Range(r) PROVE x \in Range(s) \ {s[1]}
      <3>1. PICK i \in 1 .. Len(s) - 1 : x = s[i + 1]
        BY Zenon, <1>1, <2>1 DEF Range
      <3>2. i + 1 \in 1 .. Len(s) /\ 1 \in 1 .. Len(s) /\ i + 1 # 1
        BY <1>1
      <3> QED BY <1>1, <3>1, <3>2 DEF Range, Once
    <2>2. ASSUME NEW x \in Range(s), x # s[1] PROVE x \in Range(r)
      <3>1. PICK i \in 1 .. Len(s) : x = s[i]
        BY Zenon, <1>1, <2>2 DEF Range
      <3>2. i - 1 \in 1 .. Len(s) - 1 /\ r[i - 1] = s[(i - 1) + 1] /\ (i - 1) + 1 = i
        BY <1>1, <2>2, <3>1
      <3> QED BY Zenon, <1>1, <3>1, <3>2 DEF Range
    <2> QED BY Zenon, <2>1, <2>2
  <1> QED BY Zenon, <1>1, <1>2, <1>3 DEF r

-----------------------------------------------------------------------------
\* Steps that touch neither the entries nor what is accepted or submitted.
LEMMA QueueKept ==
    ASSUME IInv, UNCHANGED <<entries, order, accepted, submitted>>, Types',
           \/ UNCHANGED <<pc, current>>
           \/ UNCHANGED current /\ pc \notin Held /\ pc' \notin Held
    PROVE  IInv' /\ Admits
  <1>1. Retained' = Retained /\ InFlight' = InFlight
    BY Zenon DEF Retained, InFlight
  <1>2. current' = current /\ (pc' \in Held <=> pc \in Held) /\ (pc' = "finish" <=> pc = "finish")
    BY Zenon DEF Held
  <1>3. TaskInv'
    BY Zenon, <1>1, <1>2 DEF IInv, TaskInv
  <1>4. OrderInv' /\ Admits
    BY Zenon, <1>1, <1>2 DEF IInv, OrderInv, Admits, Once
  <1> QED BY Zenon, <1>3, <1>4 DEF IInv

\* The two ways of an Offer that is accepted.
LEMMA OfferCases ==
    ASSUME NEW k \in Keys, Offer(k)
    PROVE  /\ k \in Retained =>
                entries' = [entries EXCEPT ![k] = Replaced(entries[k], accepted[k] + 1)] /\ order' = order
           /\ k \notin Retained =>
                /\ entries' = [entries EXCEPT ![k] =
                                [task |-> accepted[k] + 1, generation |-> 1, inflight |-> FALSE]]
                /\ order' = Append(order, k) /\ Room
           /\ accepted' = [accepted EXCEPT ![k] = accepted[k] + 1]
           /\ accepted[k] + 1 <= MaxTasks /\ signalling' = signalling \cup {k}
           /\ UNCHANGED <<wake, closed, cancelled, pc, current, submitted>>
  <1> DEFINE task == accepted[k] + 1
  <1>1. \/ /\ k \in Retained
           /\ entries' = [entries EXCEPT ![k] = Replaced(@, task)]
           /\ UNCHANGED order
        \/ /\ k \notin Retained /\ Room
           /\ entries' = [entries EXCEPT ![k] = [task |-> task, generation |-> 1, inflight |-> FALSE]]
           /\ order' = Append(order, k)
    BY Zenon DEF Offer
  <1>2. /\ accepted' = [accepted EXCEPT ![k] = task]
        /\ task <= MaxTasks /\ signalling' = signalling \cup {k}
        /\ UNCHANGED <<wake, closed, cancelled, pc, current, submitted>>
    BY Zenon DEF Offer
  <1> QED BY Zenon, <1>1, <1>2

\* Replacing the task of an entry advances its generation and nothing else.
LEMMA ReplacedType ==
    ASSUME NEW e \in Waiting, NEW t \in Task, e.generation + 1 \in Task
    PROVE  /\ Replaced(e, t) \in Waiting /\ Replaced(e, t).task = t
           /\ Replaced(e, t).generation = e.generation + 1 /\ Replaced(e, t).inflight = e.inflight
  <1> DEFINE f == [e EXCEPT !.task = t]
             g == [f EXCEPT !.generation = @ + 1]
  <1>1. f \in Waiting /\ f.task = t /\ f.generation = e.generation /\ f.inflight = e.inflight
    BY Zenon DEF Waiting
  <1> HIDE DEF f
  <1>2. g \in Waiting /\ g.task = f.task /\ g.generation = f.generation + 1 /\ g.inflight = f.inflight
    BY Zenon, <1>1 DEF Waiting
  <1> HIDE DEF g
  <1>3. Replaced(e, t) = g
    BY Zenon DEF Replaced, f, g
  <1> QED BY Zenon, <1>1, <1>2, <1>3

\* Offer: the identity waits already, and its task is replaced.
LEMMA OfferReplaces ==
    ASSUME IInv, NEW k \in Keys, Offer(k), k \in Retained
    PROVE  IInv' /\ Admits
  <1> DEFINE old == entries[k]
             new == Replaced(old, accepted[k] + 1)
  <1>1. /\ entries' = [entries EXCEPT ![k] = new] /\ order' = order
        /\ accepted' = [accepted EXCEPT ![k] = accepted[k] + 1]
        /\ accepted[k] + 1 <= MaxTasks /\ signalling' = signalling \cup {k}
        /\ UNCHANGED <<wake, closed, cancelled, pc, current, submitted>>
    BY Zenon, OfferCases
  <1>2. /\ old \in Waiting /\ old.task = accepted[k] /\ old.generation \in 1 .. old.task
        /\ accepted[k] \in 0 .. MaxTasks
    <2>1. entries[k] \in Waiting \cup {None} /\ accepted[k] \in 0 .. MaxTasks
      BY Zenon DEF IInv, Types
    <2>2. entries[k] # None
      BY Zenon DEF Retained
    <2> QED BY Zenon, <2>1, <2>2 DEF IInv, TaskInv
  <1>3. /\ new.task = accepted[k] + 1 /\ new.generation = old.generation + 1
        /\ new.inflight = old.inflight /\ new \in Waiting
    <2>1. accepted[k] + 1 \in Task /\ old.generation + 1 \in Task
      BY <1>1, <1>2, BoundsAssumption DEF Task
    <2> QED BY Zenon, <1>2, <2>1, ReplacedType
  <1> HIDE DEF old, new
  <1>4. Types'
    BY <1>1, <1>2, <1>3, BoundsAssumption DEF IInv, Types
  <1>5. new # None /\ old # None
    BY Zenon, <1>2, <1>3, NoneAssumption
  <1>6. \A j \in Keys : entries'[j] = IF j = k THEN new ELSE entries[j]
    BY Zenon, <1>1 DEF IInv, Types
  <1>7. Retained' = Retained
    BY Zenon, <1>5, <1>6 DEF Retained, old
  <1>8. InFlight' = InFlight
    BY Zenon, <1>3, <1>6, <1>7 DEF InFlight, old, Retained
  <1>9. OrderInv' /\ Admits
    BY Zenon, <1>1, <1>7, <1>8 DEF IInv, OrderInv, Admits
  <1>10. \A j \in Keys : accepted'[j] = IF j = k THEN accepted[k] + 1 ELSE accepted[j]
    BY Zenon, <1>1 DEF IInv, Types
  <1>11. TaskInv'
    <2>1. \A j \in Retained : entries'[j].task = accepted'[j] /\ entries'[j].generation \in 1 .. entries'[j].task
      BY <1>2, <1>3, <1>6, <1>10 DEF IInv, TaskInv, Retained
    <2>2. \A j \in Keys \ Retained : submitted'[j] = accepted'[j]
      BY Zenon, <1>1, <1>10 DEF IInv, TaskInv
    <2>3. \A j \in Retained : submitted'[j] < accepted'[j] \/ (pc' = "finish" /\ current'.key = j)
      <3> TAKE j \in Retained
      <3>1. CASE j = k
        <4>1. submitted[k] <= accepted[k] \/ (pc = "finish" /\ current.key = k)
          BY DEF IInv, TaskInv, Types
        <4> QED BY <1>1, <1>2, <1>10, <3>1, <4>1 DEF IInv, Types
      <3>2. CASE j # k
        BY ZenonT(60), <1>1, <1>10, <3>2 DEF IInv, TaskInv, Retained
      <3> QED BY Zenon, <3>1, <3>2
    <2>4. current # None =>
            /\ current.generation \in 1 .. entries'[current.key].generation
            /\ entries'[current.key].task - current.task = entries'[current.key].generation - current.generation
      <3> SUFFICES ASSUME current # None
                   PROVE  /\ current.generation \in 1 .. entries'[current.key].generation
                          /\ entries'[current.key].task - current.task
                                = entries'[current.key].generation - current.generation
        BY Zenon
      <3>1. current \in Taken /\ current.key \in Keys /\ current.task \in Nat /\ current.generation \in Nat
        BY DEF IInv, Types, Taken, Task
      <3>2. /\ current.generation \in 1 .. entries[current.key].generation
            /\ entries[current.key].task - current.task = entries[current.key].generation - current.generation
        BY Zenon DEF IInv, TaskInv
      <3>3. CASE current.key = k
        BY <1>2, <1>3, <1>6, <3>1, <3>2, <3>3 DEF old
      <3>4. CASE current.key # k
        BY Zenon, <1>6, <3>1, <3>2, <3>4
      <3> QED BY Zenon, <3>3, <3>4
    <2> QED BY ZenonT(60), <1>1, <1>7, <2>1, <2>2, <2>3, <2>4 DEF IInv, TaskInv
  <1> QED BY Zenon, <1>4, <1>9, <1>11 DEF IInv

\* Offer: a new identity, for which there is room.
LEMMA OfferAppends ==
    ASSUME IInv, NEW k \in Keys, Offer(k), k \notin Retained
    PROVE  IInv' /\ Admits
  <1> DEFINE new == [task |-> accepted[k] + 1, generation |-> 1, inflight |-> FALSE]
  <1>1. /\ entries' = [entries EXCEPT ![k] = new] /\ order' = Append(order, k) /\ Room
        /\ accepted' = [accepted EXCEPT ![k] = accepted[k] + 1]
        /\ accepted[k] + 1 <= MaxTasks /\ signalling' = signalling \cup {k}
        /\ UNCHANGED <<wake, closed, cancelled, pc, current, submitted>>
    BY Zenon, OfferCases
  <1>2. new \in Waiting /\ new # None /\ accepted[k] \in 0 .. MaxTasks /\ accepted[k] + 1 \in Task
    <2>1. accepted[k] \in 0 .. MaxTasks
      BY Zenon DEF IInv, Types
    <2>2. accepted[k] + 1 \in Task /\ 1 \in Task
      BY <1>1, <2>1, BoundsAssumption DEF Task
    <2>3. new \in Waiting
      BY Zenon, <2>2 DEF Waiting
    <2> QED BY Zenon, <2>1, <2>2, <2>3, NoneAssumption
  <1>3. new.task = accepted[k] + 1 /\ new.generation = 1 /\ ~new.inflight
    BY Zenon
  <1> HIDE DEF new
  <1>4. \A j \in Keys : /\ entries'[j] = IF j = k THEN new ELSE entries[j]
                        /\ accepted'[j] = IF j = k THEN accepted[k] + 1 ELSE accepted[j]
    BY Zenon, <1>1 DEF IInv, Types
  <1>5. Retained' = Retained \cup {k} /\ InFlight' = InFlight /\ k \notin InFlight
    <2>1. Retained' = Retained \cup {k}
      BY Zenon, <1>2, <1>4 DEF Retained
    <2>2. \A j \in Retained : j \in Keys /\ entries'[j] = entries[j]
      BY Zenon, <1>4 DEF Retained
    <2> QED BY Zenon, <1>3, <1>4, <2>1, <2>2 DEF InFlight
  <1>6. order \in Seq(Keys) /\ Once(order) /\ Range(order) = Retained \ InFlight
    BY Zenon DEF IInv, Types, OrderInv
  <1>7. /\ order' \in Seq(Keys) /\ Once(order')
        /\ Range(order') = (Retained \ InFlight) \cup {k}
    <2>1. k \notin Range(order)
      BY Zenon, <1>6
    <2>2. /\ Append(order, k) \in Seq(Keys) /\ Once(Append(order, k))
          /\ Range(Append(order, k)) = Range(order) \cup {k}
      BY <1>6, <2>1, AppendOnce
    <2> QED BY Zenon, <1>1, <1>6, <2>2
  <1>8. Types'
    <2>1. entries' \in [Keys -> Waiting \cup {None}]
      BY Zenon, <1>1, <1>2 DEF IInv, Types
    <2>2. accepted' \in [Keys -> 0 .. MaxTasks]
      BY <1>1, <1>2, BoundsAssumption DEF IInv, Types, Task
    <2> QED BY ZenonT(60), <1>1, <1>7, <2>1, <2>2 DEF IInv, Types
  <1>9. OrderInv'
    <2>1. Retained' \ InFlight' = (Retained \ InFlight) \cup {k}
      BY Zenon, <1>5
    <2> QED BY Zenon, <1>1, <1>5, <1>7, <2>1 DEF IInv, OrderInv
  <1>10. Admits
    BY Zenon, <1>1, <1>5 DEF Admits
  <1>11. TaskInv'
    <2>1. submitted[k] = accepted[k]
      BY Zenon DEF IInv, TaskInv
    <2>2. current # None => current.key # k /\ current.key \in Retained /\ entries'[current.key] = entries[current.key]
      <3>1. current # None => current.key \in InFlight
        BY Zenon DEF IInv, OrderInv
      <3> QED BY Zenon, <1>4, <3>1 DEF InFlight, Retained
    <2>3. ASSUME NEW j \in Retained' PROVE
            /\ entries'[j].task = accepted'[j] /\ entries'[j].generation \in 1 .. entries'[j].task
            /\ submitted'[j] < accepted'[j] \/ (pc' = "finish" /\ current'.key = j)
      <3>1. CASE j = k
        BY <1>1, <1>2, <1>3, <1>4, <2>1, <3>1 DEF Task
      <3>2. CASE j # k
        <4>1. j \in Retained /\ j \in Keys
          BY Zenon, <1>5, <2>3, <3>2 DEF Retained
        <4>2. entries'[j] = entries[j] /\ accepted'[j] = accepted[j] /\ submitted'[j] = submitted[j]
          BY Zenon, <1>1, <1>4, <3>2, <4>1
        <4>3. /\ entries[j].task = accepted[j] /\ entries[j].generation \in 1 .. entries[j].task
              /\ submitted[j] < accepted[j] \/ (pc = "finish" /\ current.key = j)
          BY Zenon, <4>1 DEF IInv, TaskInv
        <4> QED BY Zenon, <1>1, <4>2, <4>3
      <3> QED BY Zenon, <3>1, <3>2
    <2>4. ASSUME NEW j \in Keys \ Retained' PROVE submitted'[j] = accepted'[j]
      BY Zenon, <1>1, <1>4, <1>5, <2>4 DEF IInv, TaskInv
    <2> QED BY ZenonT(60), <1>1, <2>2, <2>3, <2>4 DEF IInv, TaskInv
  <1> QED BY Zenon, <1>8, <1>9, <1>10, <1>11 DEF IInv

\* What next finds: everything in order waits, so it takes the first.
LEMMA NextTakes ==
    ASSUME IInv, NextTask
    PROVE  /\ pc = "next" /\ UNCHANGED <<wake, signalling, closed, cancelled, accepted, submitted>>
           /\ \/ Len(order) = 0 /\ order' = <<>> /\ pc' = "select" /\ UNCHANGED <<entries, current>>
              \/ /\ Len(order) >= 1 /\ order' = SubSeq(order, 2, Len(order)) /\ pc' = "submit"
                 /\ entries' = [entries EXCEPT ![order[1]].inflight = TRUE]
                 /\ current' = [key |-> order[1], task |-> entries[order[1]].task,
                                generation |-> entries[order[1]].generation]
  <1> DEFINE eligible(i) == order[i] \in Retained /\ ~entries[order[i]].inflight
             stops(i) == (\A j \in 1 .. i - 1 : ~eligible(j)) /\ (i <= Len(order) => eligible(i))
             first == CHOOSE i \in 1 .. Len(order) + 1 : stops(i)
  <1>1. Len(order) \in Nat /\ DOMAIN order = 1 .. Len(order)
    BY Zenon, LenProperties DEF IInv, Types
  <1>2. \A i \in 1 .. Len(order) : eligible(i)
    <2> TAKE i \in 1 .. Len(order)
    <2>1. order[i] \in Range(order)
      BY Zenon, <1>1 DEF Range
    <2> QED BY Zenon, <2>1 DEF IInv, OrderInv, InFlight
  <1>3. /\ pc = "next" /\ UNCHANGED <<wake, signalling, closed, cancelled, accepted, submitted>>
        /\ \/ first > Len(order) /\ order' = <<>> /\ pc' = "select" /\ UNCHANGED <<entries, current>>
           \/ /\ first <= Len(order) /\ order' = SubSeq(order, first + 1, Len(order)) /\ pc' = "submit"
              /\ entries' = [entries EXCEPT ![order[first]].inflight = TRUE]
              /\ current' = [key |-> order[first], task |-> entries[order[first]].task,
                             generation |-> entries[order[first]].generation]
    BY Zenon DEF NextTask
  <1> HIDE DEF eligible
  <1>4. 1 \in 1 .. Len(order) + 1 /\ stops(1)
    BY <1>1, <1>2
  <1>5. first \in 1 .. Len(order) + 1 /\ stops(first)
    BY Zenon, <1>4
  <1> HIDE DEF first
  <1>6. first = 1
    BY <1>1, <1>2, <1>5
  <1>7. first + 1 = 2 /\ (first > Len(order) => Len(order) = 0) /\ (first <= Len(order) => Len(order) >= 1)
    BY <1>1, <1>6
  <1> QED BY Zenon, <1>3, <1>6, <1>7

\* A bit of one entry is set.
LEMMA InflightSet ==
    ASSUME Types, NEW k \in Retained, NEW b \in BOOLEAN, entries' = [entries EXCEPT ![k].inflight = b]
    PROVE  /\ entries' \in [Keys -> Waiting \cup {None}] /\ Retained' = Retained
           /\ InFlight' = IF b THEN InFlight \cup {k} ELSE InFlight \ {k}
           /\ \A j \in Retained : entries'[j].task = entries[j].task /\ entries'[j].generation = entries[j].generation
  <1>1. k \in Keys /\ entries[k] \in Waiting /\ entries[k] # None /\ entries \in [Keys -> Waiting \cup {None}]
    BY Zenon DEF Types, Retained
  <1> DEFINE new == [entries[k] EXCEPT !.inflight = b]
  <1>2. /\ new \in Waiting /\ new.inflight = b
        /\ new.task = entries[k].task /\ new.generation = entries[k].generation
    BY Zenon, <1>1 DEF Waiting
  <1>3. entries' = [entries EXCEPT ![k] = new]
    BY Zenon, <1>1
  <1> HIDE DEF new
  <1>4. /\ entries' \in [Keys -> Waiting \cup {None}]
        /\ \A j \in Keys : entries'[j] = IF j = k THEN new ELSE entries[j]
    BY Zenon, <1>1, <1>2, <1>3
  <1>5. new # None
    BY Zenon, <1>2, NoneAssumption
  <1>6. Retained' = Retained
    BY Zenon, <1>1, <1>4, <1>5 DEF Retained
  <1>7. \A j \in Retained : j \in Keys
    BY Zenon DEF Retained
  <1>8. InFlight' = IF b THEN InFlight \cup {k} ELSE InFlight \ {k}
    <2>1. \A j \in Retained : entries'[j].inflight = IF j = k THEN b ELSE entries[j].inflight
      BY Zenon, <1>2, <1>4, <1>7
    <2>2. CASE b
      BY Zenon, <1>6, <2>1, <2>2 DEF InFlight
    <2>3. CASE ~b
      BY Zenon, <1>6, <2>1, <2>3 DEF InFlight
    <2> QED BY Zenon, <2>2, <2>3
  <1> QED BY Zenon, <1>2, <1>4, <1>6, <1>7, <1>8

\* next: the first entry is taken and marked in flight.
LEMMA NextStep ==
    ASSUME IInv, NextTask
    PROVE  IInv' /\ Admits
  <1>1. /\ pc = "next" /\ current = None /\ InFlight = {}
        /\ UNCHANGED <<wake, signalling, closed, cancelled, accepted, submitted>>
    BY Zenon, NextTakes DEF IInv, TaskInv, OrderInv, Held
  <1>2. order \in Seq(Keys) /\ Once(order) /\ Range(order) = Retained /\ Len(order) \in Nat
    <2>1. order \in Seq(Keys) /\ Once(order) /\ Range(order) = Retained
      BY Zenon, <1>1 DEF IInv, Types, OrderInv
    <2> QED BY Zenon, <2>1, LenProperties
  <1>3. CASE Len(order) = 0 /\ order' = <<>> /\ pc' = "select" /\ UNCHANGED <<entries, current>>
    <2>1. order' = order
      BY Zenon, <1>2, <1>3, EmptySeq
    <2>2. Types'
      BY Zenon, <1>1, <1>3, <2>1 DEF IInv, Types
    <2> QED BY ZenonT(60), <1>1, <1>3, <2>1, <2>2, QueueKept DEF Held
  <1>4. CASE /\ Len(order) >= 1 /\ order' = SubSeq(order, 2, Len(order)) /\ pc' = "submit"
             /\ entries' = [entries EXCEPT ![order[1]].inflight = TRUE]
             /\ current' = [key |-> order[1], task |-> entries[order[1]].task,
                            generation |-> entries[order[1]].generation]
    <2> DEFINE k == order[1]
    <2>1. k \in Retained /\ k \in Keys
      <3>1. k \in Range(order)
        BY <1>2, <1>4 DEF Range
      <3> QED BY Zenon, <1>2, <3>1 DEF Retained
    <2>2. /\ order' \in Seq(Keys) /\ Once(order')
          /\ Range(order') = Retained \ {k}
      BY Zenon, <1>2, <1>4, RestOnce
    <2> HIDE DEF k
    <2>3. /\ entries' \in [Keys -> Waiting \cup {None}] /\ Retained' = Retained /\ InFlight' = {k}
          /\ \A j \in Retained : entries'[j].task = entries[j].task /\ entries'[j].generation = entries[j].generation
      <3>1. InFlight \cup {k} = {k}
        BY Zenon, <1>1
      <3>2. Types /\ entries' = [entries EXCEPT ![k].inflight = TRUE]
        BY Zenon, <1>4 DEF k, IInv
      <3> QED BY Zenon, <2>1, <3>1, <3>2, InflightSet
    <2>4. entries[k] \in Waiting
      BY Zenon, <2>1 DEF IInv, Types, Retained
    <2>5. /\ current'.key = k /\ current'.task = entries[k].task /\ current'.generation = entries[k].generation
          /\ current' \in Taken /\ current' # None
      <3>1. current' = [key |-> k, task |-> entries[k].task, generation |-> entries[k].generation]
        BY Zenon, <1>4 DEF k
      <3>2. current' \in Taken
        BY <2>1, <2>4, <3>1 DEF Waiting, Taken
      <3> QED BY Zenon, <3>1, <3>2, NoneAssumption
    <2>6. Types'
      BY ZenonT(60), <1>1, <1>4, <2>2, <2>3, <2>5 DEF IInv, Types, Held
    <2>7. OrderInv'
      <3>1. {t.key : t \in {current'} \ {None}} = {k}
        BY Zenon, <2>5
      <3> QED BY Zenon, <2>2, <2>3, <3>1 DEF OrderInv
    <2>8. Admits
      BY Zenon, <2>3 DEF Admits
    <2>9. TaskInv'
      <3>1. /\ entries[k].task = accepted[k] /\ entries[k].generation \in 1 .. entries[k].task
            /\ submitted[k] < accepted[k]
        BY ZenonT(60), <1>1, <2>1 DEF IInv, TaskInv
      <3>2. /\ entries'[k].task - entries[k].task = entries'[k].generation - entries[k].generation
            /\ entries[k].generation \in 1 .. entries'[k].generation
        BY <2>1, <2>3, <2>4 DEF Waiting, Task
      <3>3. \A j \in Retained : submitted[j] < accepted[j]
        BY Zenon, <1>1 DEF IInv, TaskInv
      <3>4. pc' \in Held /\ pc' # "finish"
        BY Zenon, <1>4 DEF Held
      <3>5. /\ current' # None <=> pc' \in Held
            /\ \A j \in Retained : entries'[j].task = accepted[j] /\ entries'[j].generation \in 1 .. entries'[j].task
            /\ \A j \in Keys \ Retained : submitted[j] = accepted[j]
        BY ZenonT(60), <2>3, <2>5, <3>4 DEF IInv, TaskInv
      <3>6. /\ current'.generation \in 1 .. entries'[current'.key].generation
            /\ entries'[current'.key].task - current'.task = entries'[current'.key].generation - current'.generation
            /\ submitted[current'.key] < current'.task
        BY Zenon, <2>5, <3>1, <3>2
      <3> QED BY ZenonT(60), <1>1, <2>3, <3>3, <3>4, <3>5, <3>6 DEF TaskInv
    <2> QED BY ZenonT(60), <2>6, <2>7, <2>8, <2>9 DEF IInv
  <1> QED BY Zenon, <1>3, <1>4, NextTakes

\* The pool takes the task, which is then the last one submitted, or refuses it.
LEMMA SubmitStep ==
    ASSUME IInv, Submit
    PROVE  IInv' /\ Admits
  <1> DEFINE k == current.key
  <1>1. /\ pc = "submit" /\ UNCHANGED <<entries, order, wake, signalling, closed, cancelled, current, accepted>>
        /\ \/ submitted' = [submitted EXCEPT ![k] = current.task] /\ pc' = "finish"
           \/ submitted' = submitted /\ pc' = "refused"
    BY Zenon DEF Submit
  <1>2. /\ current # None /\ current \in Taken /\ k \in Keys /\ current.task \in 0 .. MaxTasks
        /\ submitted \in [Keys -> 0 .. MaxTasks]
    <2>1. current # None /\ current \in Taken /\ submitted \in [Keys -> 0 .. MaxTasks]
      BY Zenon, <1>1 DEF IInv, Types, TaskInv, Held
    <2> QED BY <2>1, BoundsAssumption DEF Taken, Task
  <1>3. Retained' = Retained /\ InFlight' = InFlight
    BY Zenon, <1>1 DEF Retained, InFlight
  <1>4. OrderInv' /\ Admits
    BY Zenon, <1>1, <1>3 DEF IInv, OrderInv, Admits
  <1>5. k \in Retained
    <2>1. k \in InFlight
      BY Zenon, <1>2 DEF IInv, OrderInv
    <2> QED BY Zenon, <2>1 DEF InFlight
  <1> HIDE DEF k
  <1>6. CASE submitted' = [submitted EXCEPT ![k] = current.task] /\ pc' = "finish"
    <2>1. /\ submitted' \in [Keys -> 0 .. MaxTasks]
          /\ \A j \in Keys : submitted'[j] = IF j = k THEN current.task ELSE submitted[j]
      BY Zenon, <1>2, <1>6
    <2>2. Types'
      BY Zenon, <1>1, <1>6, <2>1 DEF IInv, Types, Held
    <2>3. \A j \in Retained : submitted'[j] < accepted[j] \/ (pc' = "finish" /\ current.key = j)
      BY Zenon, <1>1, <1>6, <2>1 DEF IInv, TaskInv, Retained, k
    <2>4. \A j \in Keys \ Retained : submitted'[j] = accepted[j]
      BY Zenon, <1>5, <2>1 DEF IInv, TaskInv
    <2>5. submitted'[current.key] = current.task
      BY Zenon, <1>2, <2>1 DEF k
    <2>6. TaskInv'
      BY ZenonT(60), <1>1, <1>2, <1>3, <1>6, <2>3, <2>4, <2>5 DEF IInv, TaskInv, Held
    <2> QED BY Zenon, <1>4, <2>2, <2>6 DEF IInv
  <1>7. CASE submitted' = submitted /\ pc' = "refused"
    <2>1. Types'
      BY Zenon, <1>1, <1>7 DEF IInv, Types, Held
    <2>2. TaskInv'
      BY Zenon, <1>1, <1>3, <1>7 DEF IInv, TaskInv, Held
    <2> QED BY Zenon, <1>4, <2>1, <2>2 DEF IInv
  <1> QED BY Zenon, <1>1, <1>6, <1>7 DEF k

\* finish: the entry is deleted only if its task is the one the pool took.
LEMMA FinishStep ==
    ASSUME IInv, NEW ok \in BOOLEAN, Finish(ok), ok <=> pc = "finish", pc \in {"finish", "refused"},
           pc' \in {"next", "retry"}, UNCHANGED <<signalling, closed, cancelled, accepted, submitted>>
    PROVE  IInv' /\ Admits
  <1> DEFINE k == current.key
             e == entries[k]
  <1>1. /\ current' = None
        /\ \/ /\ Forgotten(k, current.generation, ok)
              /\ entries' = [entries EXCEPT ![k] = None] /\ UNCHANGED <<order, wake>>
           \/ /\ ~Forgotten(k, current.generation, ok)
              /\ entries' = [entries EXCEPT ![k].inflight = FALSE]
              /\ order' = Append(order, k) /\ wake' = TRUE
    BY Zenon DEF Finish
  <1>2. /\ current # None /\ InFlight = {k} /\ k \in Retained /\ k \in Keys
        /\ current \in Taken /\ e \in Waiting
    <2>1. current # None
      BY Zenon DEF IInv, TaskInv, Held
    <2>2. InFlight = {k}
      BY Zenon, <2>1 DEF IInv, OrderInv
    <2> QED BY Zenon, <2>1, <2>2 DEF IInv, Types, InFlight, Retained
  <1>3. /\ current.task \in Nat /\ current.generation \in Nat /\ e.task \in Nat /\ e.generation \in Nat
    BY <1>2, BoundsAssumption DEF Taken, Waiting, Task
  <1>4. /\ current.generation \in 1 .. e.generation /\ e.task = accepted[k]
        /\ e.task - current.task = e.generation - current.generation
        /\ pc = "finish" => submitted[k] = current.task
        /\ pc # "finish" => submitted[k] < current.task
        /\ e.generation \in 1 .. e.task
    BY Zenon, <1>2 DEF IInv, TaskInv
  <1>5. accepted[k] \in Nat /\ submitted[k] \in Nat
    BY <1>2, BoundsAssumption DEF IInv, Types
  <1>6. order \in Seq(Keys) /\ Once(order) /\ Range(order) = Retained \ {k}
    BY Zenon, <1>2 DEF IInv, Types, OrderInv
  <1>7. pc' \notin Held /\ {t.key : t \in {current'} \ {None}} = {}
    <2>1. pc' \notin Held
      BY Zenon DEF Held
    <2> QED BY Zenon, <1>1, <2>1
  <1>8. CASE Forgotten(k, current.generation, ok) /\ entries' = [entries EXCEPT ![k] = None] /\ UNCHANGED <<order, wake>>
    <2>1. submitted[k] = accepted[k]
      <3>1. e.generation = current.generation /\ pc = "finish"
        BY Zenon, <1>8 DEF Forgotten
      <3> QED BY <1>3, <1>4, <3>1
    <2>2. /\ entries' \in [Keys -> Waiting \cup {None}]
          /\ \A j \in Keys : entries'[j] = IF j = k THEN None ELSE entries[j]
      BY Zenon, <1>2, <1>8 DEF IInv, Types
    <2>3. Retained' = Retained \ {k} /\ InFlight' = {}
      <3>1. Retained' = Retained \ {k}
        BY Zenon, <2>2 DEF Retained
      <3>2. \A j \in Retained' : j \in Retained /\ j # k /\ entries'[j] = entries[j]
        BY Zenon, <2>2, <3>1 DEF Retained
      <3> QED BY ZenonT(60), <1>2, <3>1, <3>2 DEF InFlight
    <2>4. Types'
      BY Zenon, <1>1, <1>8, <2>2 DEF IInv, Types
    <2>5. OrderInv'
      <3>1. Retained' \ InFlight' = Retained \ {k}
        BY Zenon, <2>3
      <3> QED BY Zenon, <1>6, <1>7, <1>8, <2>3, <3>1 DEF OrderInv
    <2>6. Admits
      BY Zenon, <2>3 DEF Admits
    <2>7. TaskInv'
      <3>1. \A j \in Retained' : /\ j \in Retained /\ j # k /\ j # current.key /\ entries'[j] = entries[j]
        BY Zenon, <2>2, <2>3 DEF Retained
      <3>2. \A j \in Keys \ Retained' : submitted'[j] = accepted'[j]
        BY Zenon, <2>1, <2>3 DEF IInv, TaskInv
      <3>3. \A j \in Retained' : submitted'[j] < accepted'[j]
        BY Zenon, <3>1 DEF IInv, TaskInv
      <3>4. \A j \in Retained' : entries'[j].task = accepted'[j] /\ entries'[j].generation \in 1 .. entries'[j].task
        BY ZenonT(60), <3>1 DEF IInv, TaskInv
      <3> QED BY ZenonT(60), <1>1, <1>7, <3>2, <3>3, <3>4 DEF TaskInv
    <2> QED BY ZenonT(60), <2>4, <2>5, <2>6, <2>7 DEF IInv
  <1>9. CASE /\ ~Forgotten(k, current.generation, ok) /\ entries' = [entries EXCEPT ![k].inflight = FALSE]
             /\ order' = Append(order, k) /\ wake' = TRUE
    <2>1. submitted[k] < accepted[k]
      <3>1. e.generation # current.generation \/ pc # "finish"
        BY Zenon, <1>9 DEF Forgotten
      <3> QED BY <1>3, <1>4, <1>5, <3>1
    <2>2. /\ entries' \in [Keys -> Waiting \cup {None}] /\ Retained' = Retained /\ InFlight' = {}
          /\ \A j \in Retained : entries'[j].task = entries[j].task /\ entries'[j].generation = entries[j].generation
      <3>1. InFlight \ {k} = {} /\ Types
        BY Zenon, <1>2 DEF IInv
      <3> QED BY ZenonT(60), <1>2, <1>9, <3>1, InflightSet
    <2>3. /\ order' \in Seq(Keys) /\ Once(order') /\ Range(order') = Retained
      <3>1. (Retained \ {k}) \cup {k} = Retained /\ k \notin Range(order)
        BY ZenonT(60), <1>2, <1>6
      <3>2. /\ Append(order, k) \in Seq(Keys) /\ Once(Append(order, k))
            /\ Range(Append(order, k)) = Range(order) \cup {k}
        BY <1>2, <1>6, <3>1, AppendOnce
      <3> QED BY ZenonT(60), <1>6, <1>9, <3>1, <3>2
    <2>4. Types'
      BY ZenonT(60), <1>1, <1>9, <2>2, <2>3 DEF IInv, Types
    <2>5. OrderInv'
      <3>1. Retained' \ InFlight' = Retained
        BY Zenon, <2>2
      <3> QED BY ZenonT(60), <1>7, <2>2, <2>3, <3>1 DEF OrderInv
    <2>6. Admits
      BY Zenon, <2>2 DEF Admits
    <2>7. TaskInv'
      <3>1. \A j \in Keys \ Retained : submitted'[j] = accepted'[j]
        BY Zenon DEF IInv, TaskInv
      <3>2. \A j \in Retained : submitted'[j] < accepted'[j]
        BY Zenon, <2>1 DEF IInv, TaskInv
      <3>3. \A j \in Retained : entries'[j].task = accepted'[j] /\ entries'[j].generation \in 1 .. entries'[j].task
        BY Zenon, <2>2 DEF IInv, TaskInv
      <3> QED BY ZenonT(60), <1>1, <1>7, <2>2, <3>1, <3>2, <3>3 DEF TaskInv
    <2> QED BY Zenon, <2>4, <2>5, <2>6, <2>7 DEF IInv
  <1> QED BY Zenon, <1>1, <1>8, <1>9

-----------------------------------------------------------------------------
\* The empty queue.
LEMMA InitIInv ==
    Init => IInv
  <1> SUFFICES ASSUME Init PROVE IInv
    BY Zenon
  <1>1. Retained = {} /\ InFlight = {}
    BY Zenon DEF Init, Retained, InFlight
  <1>2. /\ order \in Seq(Keys) /\ Once(order) /\ Range(order) = {}
    BY DEF Init, Once, Range
  <1>3. Types
    <2>1. accepted \in [Keys -> 0 .. MaxTasks] /\ submitted \in [Keys -> 0 .. MaxTasks]
      BY BoundsAssumption DEF Init
    <2>2. entries \in [Keys -> Waiting \cup {None}] /\ current \in Taken \cup {None}
      BY Zenon DEF Init
    <2>3. pc \in {"select", "next", "retry", "done"} \cup Held /\ signalling \subseteq Keys
      BY Zenon DEF Init
    <2> QED BY Zenon, <1>2, <2>1, <2>2, <2>3 DEF Init, Types
  <1>4. TaskInv
    <2>1. pc \notin Held
      BY Zenon DEF Init, Held
    <2>2. \A k \in Keys : submitted[k] = accepted[k]
      BY Zenon DEF Init
    <2> QED BY Zenon, <1>1, <2>1, <2>2 DEF Init, TaskInv
  <1>5. OrderInv
    <2>1. {t.key : t \in {current} \ {None}} = {}
      BY Zenon DEF Init
    <2> QED BY Zenon, <1>1, <1>2, <2>1 DEF OrderInv
  <1> QED BY Zenon, <1>3, <1>4, <1>5 DEF IInv

\* Every step preserves the invariant, and admits within the bound.
LEMMA NextIInv ==
    IInv /\ [Next]_vars => IInv' /\ Admits
  <1> SUFFICES ASSUME IInv, [Next]_vars PROVE IInv' /\ Admits
    BY Zenon
  <1>1. ASSUME NEW k \in Keys, Offer(k) PROVE IInv' /\ Admits
    BY Zenon, <1>1, OfferReplaces, OfferAppends
  <1>2. ASSUME NEW k \in Keys, Signal(k) PROVE IInv' /\ Admits
    <2>1. Types'
      BY Zenon, <1>2 DEF IInv, Types, Signal
    <2> QED BY Zenon, <1>2, <2>1, QueueKept DEF Signal
  <1>3. CASE Select
    <2>1. pc \notin Held /\ pc' \notin Held
      BY Zenon, <1>3 DEF Select, Held
    <2>2. Types'
      BY Zenon, <1>3 DEF IInv, Types, Select
    <2> QED BY Zenon, <1>3, <2>1, <2>2, QueueKept DEF Select
  <1>4. CASE NextTask
    BY Zenon, <1>4, NextStep
  <1>5. CASE Submit
    BY Zenon, <1>5, SubmitStep
  <1>6. CASE FinishSubmitted
    BY Zenon, <1>6, FinishStep DEF FinishSubmitted
  <1>7. CASE FinishRefused
    <2>1. "refused" # "finish"
      BY Zenon
    <2> QED BY Zenon, <1>7, <2>1, FinishStep DEF FinishRefused
  <1>8. CASE WaitRetry
    <2>1. pc \notin Held /\ pc' \notin Held
      BY Zenon, <1>8 DEF WaitRetry, Held
    <2>2. Types'
      BY Zenon, <1>8 DEF IInv, Types, WaitRetry
    <2> QED BY Zenon, <1>8, <2>1, <2>2, QueueKept DEF WaitRetry
  <1>9. CASE Close
    <2>1. Types'
      BY Zenon, <1>9 DEF IInv, Types, Close
    <2> QED BY Zenon, <1>9, <2>1, QueueKept DEF Close
  <1>10. CASE Cancel
    <2>1. Types'
      BY Zenon, <1>10 DEF IInv, Types, Cancel
    <2> QED BY Zenon, <1>10, <2>1, QueueKept DEF Cancel
  <1>11. CASE UNCHANGED vars
    <2>1. Types'
      BY Zenon, <1>11 DEF IInv, Types, vars
    <2> QED BY Zenon, <1>11, <2>1, QueueKept DEF vars
  <1> QED BY ZenonT(60), <1>1, <1>2, <1>3, <1>4, <1>5, <1>6, <1>7, <1>8, <1>9, <1>10, <1>11 DEF Next, Dispatch

\* The inductive invariant holds throughout.
THEOREM QueueInvariant == Spec => []IInv
  <1>1. Init => IInv
    BY Zenon, InitIInv
  <1>2. IInv /\ [Next]_vars => IInv'
    BY Zenon, NextIInv
  <1> QED BY <1>1, <1>2, PTL DEF Spec

\* An Offer that races the submission of an older task of its identity is
\* neither dropped with it nor overtaken by it, and no identity waits twice.
THEOREM NewestTaskIsKept == Spec => []NewestIsKept
  <1>1. IInv => NewestIsKept
    <2> SUFFICES ASSUME IInv PROVE NewestIsKept
      BY Zenon
    <2>1. \A k \in Keys : accepted[k] = submitted[k] \/ (k \in Retained /\ entries[k].task = accepted[k])
      BY Zenon DEF IInv, TaskInv
    <2>2. \A i, j \in DOMAIN order : order[i] = order[j] => i = j
      BY Zenon DEF IInv, OrderInv, Once
    <2>3. InFlight = {k \in Retained : entries[k].inflight}
      BY Zenon DEF InFlight
    <2>4. Retained \ InFlight = {k \in Retained : ~entries[k].inflight}
      BY Zenon, <2>3
    <2>5. ASSUME pc = "submit" PROVE current.task > submitted[current.key]
      <3>1. current # None /\ current \in Taken /\ current.key \in Keys /\ submitted[current.key] < current.task
        BY Zenon, <2>5 DEF IInv, TaskInv, Held, Types, Taken
      <3> QED BY Zenon, <3>1, BoundsAssumption DEF IInv, Types, Taken, Task
    <2> QED BY Zenon, <2>1, <2>2, <2>3, <2>4, <2>5 DEF IInv, OrderInv, NewestIsKept
  <1> QED BY <1>1, QueueInvariant, PTL

-----------------------------------------------------------------------------
INSTANCE FiniteSetTheorems

BoundInv == IsFiniteSet(Retained) /\ Cardinality(Retained) <= MaxKeys

\* The check of the size before an identity is added keeps the queue bounded.
LEMMA AdmitsWithinBound ==
    ASSUME BoundInv, Admits
    PROVE  BoundInv'
  <1>1. IsFiniteSet(Retained) /\ Cardinality(Retained) \in Nat /\ Cardinality(Retained) <= MaxKeys
    BY Zenon, FS_CardinalityType DEF BoundInv
  <1>2. CASE Retained' \subseteq Retained
    <2>1. IsFiniteSet(Retained') /\ Cardinality(Retained') <= Cardinality(Retained)
      BY ZenonT(60), <1>1, <1>2, FS_Subset
    <2>2. Cardinality(Retained') \in Nat
      BY ZenonT(60), <2>1, FS_CardinalityType
    <2>3. Cardinality(Retained') <= MaxKeys
      BY <1>1, <2>1, <2>2, MaxKeysAssumption
    <2> QED BY ZenonT(60), <2>1, <2>3 DEF BoundInv
  <1>3. ASSUME Room, NEW k \in Keys \ Retained, Retained' = Retained \cup {k}
        PROVE  BoundInv'
    <2>1. Cardinality(Retained) < MaxKeys
      BY Zenon, <1>3 DEF Room
    <2>2. IsFiniteSet(Retained \cup {k}) /\ Cardinality(Retained \cup {k}) = Cardinality(Retained) + 1
      BY ZenonT(60), <1>1, FS_AddElement
    <2>3. Cardinality(Retained) + 1 <= MaxKeys
      BY <1>1, <2>1, MaxKeysAssumption
    <2> QED BY ZenonT(60), <1>3, <2>2, <2>3 DEF BoundInv
  <1> QED BY Zenon, <1>2, <1>3 DEF Admits

\* However many identities are offered, the queue retains at most the number
\* that newOverflowQueue was given.
THEOREM QueueIsBounded == Spec => []TypeOK
  <1>1. Init => BoundInv
    <2>1. Init => Retained = {}
      BY Zenon DEF Init, Retained
    <2>2. IsFiniteSet({}) /\ Cardinality({}) <= MaxKeys
      BY FS_EmptySet, MaxKeysAssumption
    <2> QED BY Zenon, <2>1, <2>2 DEF BoundInv
  <1>2. BoundInv /\ IInv /\ [Next]_vars => BoundInv'
    BY Zenon, NextIInv, AdmitsWithinBound
  <1>3. IInv /\ BoundInv => TypeOK
    BY Zenon DEF IInv, Types, BoundInv, TypeOK, Held
  <1> QED BY <1>1, <1>2, <1>3, QueueInvariant, PTL DEF Spec

=============================================================================
