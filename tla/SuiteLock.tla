----------------------------- MODULE SuiteLock -----------------------------
(***************************************************************************)
(* What the suite mutex promises (suite_lock.py): a try-lock per suite.    *)
(* holders[k] is the set of pytest processes that hold suite k's mutex.    *)
(* An attempt that does not get the mutex leaves no trace; there is no     *)
(* queue and nobody ever waits.                                            *)
(***************************************************************************)
CONSTANTS Procs,   \* pytest processes
          Suites   \* suite keys

VARIABLE holders

Init == holders = [k \in Suites |-> {}]

Acquire(p, k) == /\ holders[k] = {}
                 /\ holders' = [holders EXCEPT ![k] = {p}]

\* Closing the handle, or the end of the process that owns it.
Release(p, k) == /\ p \in holders[k]
                 /\ holders' = [holders EXCEPT ![k] = @ \ {p}]

Next == \E p \in Procs, k \in Suites : Acquire(p, k) \/ Release(p, k)

Spec == Init /\ [][Next]_holders

\* Mutual exclusion: at most one process holds a suite.
AtMostOneHolder ==
  \A k \in Suites : \A p, q \in holders[k] : p = q
=============================================================================
