------------------------------ MODULE Semaphore ------------------------------
(***************************************************************************)
(* dronecan::Semaphore (DC_PAL_Posix/Semaphore.cpp): a recursive pthread   *)
(* mutex, taken for ever, at once or with a timeout.  The library's own    *)
(* pthread_mutex_timedlock, which the non-const timespec selects, polls    *)
(* the mutex while the deadline has passed and tries once when it has not. *)
(* An action is one system call: a clock read or a call on the mutex.      *)
(***************************************************************************)
EXTENDS Integers

CONSTANTS
  Threads,
  NULL,
  Timeouts,     \* the timeouts other than -1 and 0 that are used
  MaxDepth      \* bound: how often one thread takes it without giving it

ASSUME SemaphoreConstantsOK ==
  /\ NULL \notin Threads
  /\ Timeouts \subseteq Int \ {-1, 0}
  /\ MaxDepth \in Nat

VARIABLES
  owner, count, \* the pthread mutex
  pc,           \* a thread in take(): "lock", "clock", "poll", "last"; or "out"
  left,         \* time left to the deadline of its timed take, if any
  has           \* what the results of its calls tell each thread it holds

mutex == <<owner, count>>
vars  == <<mutex, pc, left, has>>

Init ==
  /\ owner = NULL /\ count = 0
  /\ pc = [t \in Threads |-> "out"]
  /\ left = [t \in Threads |-> 0]
  /\ has = [t \in Threads |-> 0]

-----------------------------------------------------------------------------
(* The pthread mutex. *)

Available(t) == owner \in {NULL, t}

Locked(t) ==
  /\ Available(t)
  /\ owner' = t
  /\ count' = count + 1

-----------------------------------------------------------------------------
\* take() returns true, or false, to t.
Taken(t) == /\ pc' = [pc EXCEPT ![t] = "out"]
            /\ left' = [left EXCEPT ![t] = 0]
            /\ has' = [has EXCEPT ![t] = @ + 1]
Refused(t) == /\ pc' = [pc EXCEPT ![t] = "out"]
              /\ left' = [left EXCEPT ![t] = 0]
              /\ UNCHANGED <<mutex, has>>

MayTake(t) == pc[t] = "out" /\ has[t] < MaxDepth

TakeForever(t) ==
  /\ MayTake(t)
  /\ \/ Locked(t) /\ Taken(t)
     \/ /\ ~Available(t)
        /\ pc' = [pc EXCEPT ![t] = "lock"]
        /\ UNCHANGED <<mutex, left, has>>

(* Mutant of LockReturns: a call that is interrupted gives up. *)
LockReturnsUnheld(t) == pc[t] = "lock" /\ Refused(t)

\* pthread_mutex_lock returns to a thread that it blocked.
LockReturns(t) == pc[t] = "lock" /\ Locked(t) /\ Taken(t)

(* Mutant of TryLock: EBUSY passes for success. *)
TryLockUnchecked(t) == \/ Locked(t) /\ Taken(t)
                       \/ ~Available(t) /\ Taken(t) /\ UNCHANGED mutex

TryLock(t) == \/ Locked(t) /\ Taken(t)
              \/ ~Available(t) /\ Refused(t)

TakeNow(t) == MayTake(t) /\ TryLock(t)

\* The deadline is computed; one that is in the past already is at -1.
TakeTimed(t, timeout_us) ==
  /\ MayTake(t)
  /\ pc' = [pc EXCEPT ![t] = "clock"]
  /\ left' = [left EXCEPT ![t] = IF timeout_us < 0 THEN -1 ELSE timeout_us]
  /\ UNCHANGED <<mutex, has>>

Overdue(t) == left[t] < 0

ReadClock(t) ==
  /\ pc[t] = "clock"
  /\ pc' = [pc EXCEPT ![t] = IF Overdue(t) THEN "poll" ELSE "last"]
  /\ UNCHANGED <<mutex, left, has>>

\* The loop of pthread_mutex_timedlock, up to its next read of the clock.
Poll(t) ==
  /\ pc[t] = "poll"
  /\ \/ Locked(t) /\ Taken(t)
     \/ /\ ~Available(t)
        /\ pc' = [pc EXCEPT ![t] = "clock"]
        /\ UNCHANGED <<mutex, left, has>>

LastTry(t) == pc[t] = "last" /\ TryLock(t)

(* Mutant of Give: a thread that has it twice lets everybody in. *)
GiveAll(t) ==
  /\ pc[t] = "out" /\ owner = t
  /\ owner' = NULL
  /\ count' = 0
  /\ has' = [has EXCEPT ![t] = @ - 1]
  /\ UNCHANGED <<pc, left>>

(* Mutant of Give: anybody gives it back. *)
GiveUnowned(t) ==
  /\ pc[t] = "out" /\ owner # NULL
  /\ count' = count - 1
  /\ owner' = IF count = 1 THEN NULL ELSE owner
  /\ has' = [has EXCEPT ![t] = @ - 1]
  /\ UNCHANGED <<pc, left>>

\* Without effect when t does not own the mutex.
Give(t) ==
  /\ pc[t] = "out" /\ owner = t
  /\ count' = count - 1
  /\ owner' = IF count = 1 THEN NULL ELSE t
  /\ has' = [has EXCEPT ![t] = @ - 1]
  /\ UNCHANGED <<pc, left>>

\* Time passes, for the deadlines that are not in the past yet.
Tick ==
  /\ \E t \in Threads : pc[t] # "out" /\ left[t] >= 0
  /\ left' = [t \in Threads |-> IF pc[t] \in {"clock", "poll", "last"} /\ left[t] >= 0
                                THEN left[t] - 1 ELSE left[t]]
  /\ UNCHANGED <<mutex, pc, has>>

Next ==
  \/ Tick
  \/ \E t \in Threads :
       \/ TakeForever(t) \/ LockReturns(t) \/ TakeNow(t) \/ Give(t)
       \/ \E timeout_us \in Timeouts : TakeTimed(t, timeout_us)
       \/ ReadClock(t) \/ Poll(t) \/ LastTry(t)

\* Threads run; pthread_mutex_lock is granted to a waiter that finds the mutex
\* free again and again.  That holders give is not assumed here.
Fairness ==
  \A t \in Threads : /\ WF_vars(ReadClock(t)) /\ WF_vars(Poll(t)) /\ WF_vars(LastTry(t))
                     /\ SF_vars(LockReturns(t))

Spec     == Init /\ [][Next]_vars
FairSpec == Spec /\ Fairness

-----------------------------------------------------------------------------
(* Properties. *)

(* Every variable has its type.                                            *)
TypeOK ==
  /\ owner \in Threads \cup {NULL}
  /\ count \in 0 .. MaxDepth
  /\ pc \in [Threads -> {"out", "lock", "clock", "poll", "last"}]
  /\ left \in [Threads -> Int]
  /\ has \in [Threads -> 0 .. MaxDepth]

(* What the results of take() and give() tell the threads is what the      *)
(* mutex says, through recursion and through every path of the timed take. *)
Agreement ==
  \A t \in Threads : has[t] = IF owner = t THEN count ELSE 0

(* The semaphore is a recursive lock as seen by its callers.               *)
Lock == INSTANCE RecursiveLock
ImplementsLock == Lock!Spec

(* WITH_SEMAPHORE, which ignores the result of take(-1), has the semaphore *)
(* when that returns, and it returns if whoever has it lets it go in the   *)
(* end; a timed take returns, with or without it, once nobody else has it. *)
WaitersGetIt ==
  \A t \in Threads :
    /\ (\A u \in Threads : []<>(owner # u)) => (pc[t] = "lock" ~> pc[t] = "out" /\ owner = t)
    /\ <>[](owner \in {NULL, t}) => (pc[t] \in {"clock", "poll", "last"} ~> pc[t] = "out")
=============================================================================
