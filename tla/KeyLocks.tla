------------------------------ MODULE KeyLocks ------------------------------
(***************************************************************************)
(* The table of reference-counted identity locks of orderedSink            *)
(* (pkg/worker/fanout.go, lockKeys).                                       *)
(*                                                                         *)
(* A caller first registers under keysMu: it finds or creates the entry of *)
(* each of its keys and counts itself in.  It then locks the entries one   *)
(* by one, outside keysMu, in the sorted order of the keys.  The unlock    *)
(* function unlocks them in the reverse order and counts the caller out    *)
(* under keysMu, dropping an entry that nobody references any more.        *)
(*                                                                         *)
(* Two callers exclude each other only if they hold the SAME entry of a    *)
(* key, so an entry must stay in the table for as long as anyone           *)
(* references it.  Entries are therefore modelled by their addresses.      *)
(***************************************************************************)
EXTENDS Integers, FiniteSets

CONSTANTS
    Callers,    \* goroutines
    Keys,       \* identity keys; integers, so that they can be sorted
    Addresses,  \* addresses of keyLockEntry values
    NoCaller,
    Nil         \* the nil *keyLockEntry

ASSUME KeysAssumption == Keys \subseteq Int
ASSUME CallersAssumption == IsFiniteSet(Callers) /\ NoCaller \notin Callers
ASSUME NilAssumption == Nil \notin Addresses

VARIABLES
    keyLocks,   \* keyLocks[k]: the entry of k in the table, or Nil
    refs,       \* refs[a]: the reference count of the entry at a
    owner,      \* owner[a]: who holds the mutex of the entry at a
    pc,         \* pc[c]: where c is in lockKeys and its unlock function
    keys,       \* keys[c]: the argument of c's call
    entries     \* entries[c][k]: the entry c registered with for k, or Nil

vars == <<keyLocks, refs, owner, pc, keys, entries>>

NoEntries == [k \in Keys |-> Nil]

Init ==
    /\ keyLocks = NoEntries
    /\ refs = [a \in Addresses |-> 0]
    /\ owner = [a \in Addresses |-> NoCaller]
    /\ pc = [c \in Callers |-> "idle"]
    /\ keys = [c \in Callers |-> {}]
    /\ entries = [c \in Callers |-> NoEntries]

\* Nothing points to the entry at a: `new` may return this address.
Unreferenced(a) ==
    /\ \A k \in Keys : keyLocks[k] # a
    /\ \A c \in Callers, k \in Keys : entries[c][k] # a

\* The mutexes c holds: locking takes them in sorted order, one at a time.
Held(c) == {k \in keys[c] : entries[c][k] # Nil /\ owner[entries[c][k]] = c}

\* entry.refs++ of an entry found in the table, or of a new one.
Counted(a) == IF Unreferenced(a) THEN 1 ELSE refs[a] + 1

(***************************************************************************)
(* The registration loop, under keysMu: an existing entry is reused, a     *)
(* missing one is allocated, either is counted.                            *)
(***************************************************************************)
Register(c) ==
    /\ pc[c] = "idle"
    /\ \E K \in (SUBSET Keys) \ {{}}, entry \in [Keys -> Addresses \cup {Nil}] :
        /\ \A k \in Keys \ K : entry[k] = Nil
        /\ \A k \in K :
            IF keyLocks[k] # Nil
            THEN entry[k] = keyLocks[k]
            ELSE entry[k] # Nil /\ Unreferenced(entry[k])
        /\ \A k, l \in K : entry[k] = entry[l] => k = l
        /\ keyLocks' = [k \in Keys |-> IF k \in K THEN entry[k] ELSE keyLocks[k]]
        /\ refs' = [a \in Addresses |->
                        IF \E k \in K : entry[k] = a
                        THEN Counted(a) ELSE refs[a]]
        /\ owner' = [a \in Addresses |->
                        IF \E k \in K : entry[k] = a /\ Unreferenced(a)
                        THEN NoCaller ELSE owner[a]]
        /\ keys' = [keys EXCEPT ![c] = K]
        /\ entries' = [entries EXCEPT ![c] = entry]
    /\ pc' = [pc EXCEPT ![c] = "locking"]

\* Mutant: the keys are locked in the order of the items.
LockNextUnsorted(c) ==
    /\ pc[c] = "locking"
    /\ \E k \in keys[c] \ Held(c) :
        /\ owner[entries[c][k]] = NoCaller
        /\ owner' = [owner EXCEPT ![entries[c][k]] = c]
        /\ pc' = [pc EXCEPT ![c] = IF keys[c] \ Held(c) = {k} THEN "held" ELSE "locking"]
    /\ UNCHANGED <<keyLocks, refs, keys, entries>>

\* entry.mu.Lock() of the next key in sorted order; it waits for the owner.
LockNext(c) ==
    /\ pc[c] = "locking"
    /\ \E k \in keys[c] \ Held(c) :
        /\ \A l \in keys[c] \ Held(c) : k <= l
        /\ owner[entries[c][k]] = NoCaller
        /\ owner' = [owner EXCEPT ![entries[c][k]] = c]
        /\ pc' = [pc EXCEPT ![c] = IF keys[c] \ Held(c) = {k} THEN "held" ELSE "locking"]
    /\ UNCHANGED <<keyLocks, refs, keys, entries>>

\* entries[i].mu.Unlock(), last key first; the first one ends c's section.
UnlockNext(c) ==
    /\ pc[c] \in {"held", "unlocking"}
    /\ \E k \in Held(c) :
        /\ \A l \in Held(c) : l <= k
        /\ owner' = [owner EXCEPT ![entries[c][k]] = NoCaller]
        /\ pc' = [pc EXCEPT ![c] = IF Held(c) = {k} THEN "leaving" ELSE "unlocking"]
    /\ UNCHANGED <<keyLocks, refs, keys, entries>>

\* Mutant: the entry is dropped whoever else references it.
DroppedUncounted(c, k) ==
    /\ k \in keys[c]
    /\ keyLocks[k] = entries[c][k]

\* The entry of k is dropped when c is the last one that references it.
Dropped(c, k) ==
    /\ k \in keys[c]
    /\ refs[entries[c][k]] = 1
    /\ keyLocks[k] = entries[c][k]

\* The release loop, under keysMu.
Unregister(c) ==
    /\ pc[c] = "leaving"
    /\ refs' = [a \in Addresses |->
                    IF \E k \in keys[c] : entries[c][k] = a THEN refs[a] - 1 ELSE refs[a]]
    /\ keyLocks' = [k \in Keys |-> IF Dropped(c, k) THEN Nil ELSE keyLocks[k]]
    /\ pc' = [pc EXCEPT ![c] = "idle"]
    /\ keys' = [keys EXCEPT ![c] = {}]
    /\ entries' = [entries EXCEPT ![c] = NoEntries]
    /\ UNCHANGED owner

Next ==
    \E c \in Callers : Register(c) \/ LockNext(c) \/ UnlockNext(c) \/ Unregister(c)

Spec == Init /\ [][Next]_vars

\* A goroutine that can run runs, and sync.Mutex does not starve a waiter.
Fairness ==
    \A c \in Callers :
        /\ SF_vars(LockNext(c))
        /\ WF_vars(UnlockNext(c))
        /\ WF_vars(Unregister(c))

FairSpec == Spec /\ Fairness

-----------------------------------------------------------------------------
\* Type invariant of the lock table and of the calls in progress.
TypeOK ==
    /\ keyLocks \in [Keys -> Addresses \cup {Nil}]
    /\ refs \in [Addresses -> Nat]
    /\ owner \in [Addresses -> Callers \cup {NoCaller}]
    /\ pc \in [Callers -> {"idle", "locking", "held", "unlocking", "leaving"}]
    /\ keys \in [Callers -> SUBSET Keys]
    /\ entries \in [Callers -> [Keys -> Addresses \cup {Nil}]]

\* Two goroutines are never both past lockKeys for one identity, although the
\* entry of that identity is created, shared and dropped concurrently.
MutualExclusion ==
    \A c, d \in Callers :
        c # d /\ pc[c] = "held" /\ pc[d] = "held" => keys[c] \cap keys[d] = {}

\* The entry of an identity is in the table exactly while somebody references
\* it: it is not replaced under a waiter, and no entry is left behind.
TableTracksUsers ==
    /\ \A c \in Callers : \A k \in keys[c] : keyLocks[k] = entries[c][k]
    /\ \A k \in Keys : keyLocks[k] # Nil => \E c \in Callers : k \in keys[c]

\* Every goroutine that enters lockKeys gets all its locks: because the keys
\* are sorted before they are locked, callers never wait for one another in a
\* circle.
EveryCallerGetsIn ==
    \A c \in Callers : pc[c] = "locking" ~> pc[c] = "held"

-----------------------------------------------------------------------------
\* The goroutines inside the section guarded by k: one at most.
Inside(k) == {c \in Callers : pc[c] = "held" /\ k \in keys[c]}

Holder(k) == IF Inside(k) = {} THEN NoCaller ELSE CHOOSE c \in Inside(k) : TRUE

Mutex == INSTANCE KeyMutex WITH holder <- [k \in Keys |-> Holder(k)]

\* The table implements one mutex per identity: a call takes all its
\* identities when its last lock is granted and returns them all at its first
\* unlock.
ImplementsMutex == Mutex!MutexSpec
=============================================================================
