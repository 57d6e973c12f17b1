------------------------------ MODULE KeyMutex ------------------------------
(***************************************************************************)
(* What lockKeys (pkg/worker/fanout.go) promises to its callers: a mutex   *)
(* per identity, of which a caller takes and gives back several at once.   *)
(* How the mutexes are created, counted and dropped is the business of     *)
(* module KeyLocks, which implements this one.                             *)
(***************************************************************************)

CONSTANTS
    Callers,    \* goroutines that push through one orderedSink
    Keys,       \* identity keys
    NoCaller    \* "nobody holds it"

VARIABLE
    holder      \* holder[k]: the caller inside the section guarded by k

MutexInit == holder = [k \in Keys |-> NoCaller]

\* lockKeys(keys) has returned to caller c.
Acquire(c, K) ==
    /\ \A k \in K : holder[k] = NoCaller
    /\ holder' = [k \in Keys |-> IF k \in K THEN c ELSE holder[k]]

\* The unlock function returned by lockKeys has released what c held.
Release(c) ==
    holder' = [k \in Keys |-> IF holder[k] = c THEN NoCaller ELSE holder[k]]

MutexNext ==
    \E c \in Callers :
        \/ \E K \in SUBSET Keys : Acquire(c, K)
        \/ Release(c)

MutexSpec == MutexInit /\ [][MutexNext]_holder
=============================================================================
