---------------------------- MODULE RecursiveLock ----------------------------
(***************************************************************************)
(* What a dronecan::Semaphore promises to those that take it: one thread   *)
(* at a time has it, as many times as it took it, and it gets lost and     *)
(* found by nobody else's doing.                                           *)
(***************************************************************************)
EXTENDS Naturals

CONSTANT Threads

VARIABLE has       \* how many times each thread has the semaphore

Init == has = [t \in Threads |-> 0]

Acquire(t) ==
  /\ \A u \in Threads \ {t} : has[u] = 0
  /\ has' = [has EXCEPT ![t] = @ + 1]

Release(t) ==
  /\ has[t] > 0
  /\ has' = [has EXCEPT ![t] = @ - 1]

Next == \E t \in Threads : Acquire(t) \/ Release(t)

Spec == Init /\ [][Next]_has
=============================================================================
