---------------------------- MODULE SemaphoreProofs ----------------------------
(***************************************************************************)
(* What dronecan::Semaphore guarantees for any set of threads, any timeouts *)
(* and any depth of recursion.                                             *)
(***************************************************************************)
EXTENDS Semaphore, TLAPS

(* The mutex has an owner exactly while somebody is inside, and a thread in *)
(* the middle of take() has room for one more level: it was checked when    *)
(* the call began, and only the thread itself takes and gives for itself.   *)
Inv ==
  /\ TypeOK
  /\ Agreement
  /\ owner = NULL <=> count = 0
  /\ \A t \in Threads : pc[t] # "out" => has[t] < MaxDepth

-----------------------------------------------------------------------------
(* The two ways a call changes what a thread has. *)

LEMMA TakenKeepsInv ==
  ASSUME Inv, NEW t \in Threads, has[t] < MaxDepth, Locked(t), Taken(t)
  PROVE  Inv' /\ Lock!Acquire(t)
<1> USE DEF Inv, TypeOK, Agreement
<1>1. owner \in {NULL, t} /\ owner' = t /\ count' = count + 1 /\ t # NULL
  BY SemaphoreConstantsOK DEF Locked, Available
<1>2. count = has[t]
  BY <1>1
<1>3. \A u \in Threads \ {t} : has[u] = 0
  BY <1>1
<1>4. has' = [has EXCEPT ![t] = @ + 1]
  BY DEF Taken
<1>5. Lock!Acquire(t)
  BY <1>3, <1>4 DEF Lock!Acquire
<1>6. count' \in 0 .. MaxDepth /\ count' # 0
  BY <1>1, <1>2, SemaphoreConstantsOK
<1>7. TypeOK'
  BY <1>1, <1>2, <1>6, SemaphoreConstantsOK DEF Taken
<1>8. Agreement'
  BY <1>1, <1>2, <1>3, <1>4
<1>9. \A u \in Threads : pc'[u] # "out" => has'[u] < MaxDepth
  BY <1>4 DEF Taken
<1> QED BY <1>1, <1>5, <1>6, <1>7, <1>8, <1>9

LEMMA GiveKeepsInv ==
  ASSUME Inv, NEW t \in Threads, Give(t)
  PROVE  Inv' /\ Lock!Release(t)
<1> USE DEF Inv, TypeOK, Agreement
<1>1. owner = t /\ t # NULL /\ count = has[t] /\ count > 0
  BY SemaphoreConstantsOK DEF Give
<1>2. has' = [has EXCEPT ![t] = @ - 1]
  BY DEF Give
<1>3. Lock!Release(t)
  BY <1>1, <1>2 DEF Lock!Release
<1>4. count' = count - 1 /\ owner' = IF count = 1 THEN NULL ELSE t
  BY DEF Give
<1>5. \A u \in Threads \ {t} : has[u] = 0
  BY <1>1
<1>6. TypeOK'
  BY <1>1, <1>2, <1>4, SemaphoreConstantsOK DEF Give
<1>7. Agreement'
  BY <1>1, <1>2, <1>4, <1>5, SemaphoreConstantsOK
<1>8. \A u \in Threads : pc'[u] # "out" => has'[u] < MaxDepth
  BY <1>1, <1>2, SemaphoreConstantsOK DEF Give
<1> QED BY <1>1, <1>3, <1>4, <1>6, <1>7, <1>8

-----------------------------------------------------------------------------
(* Every other step leaves the mutex and the answers alone.                *)
LEMMA OthersKeepInv ==
  ASSUME Inv, UNCHANGED <<mutex, has>>,
         pc' \in [Threads -> {"out", "lock", "clock", "poll", "last"}],
         left' \in [Threads -> Int],
         \A t \in Threads : pc'[t] # "out" => pc[t] # "out" \/ has[t] < MaxDepth
  PROVE  Inv'
BY DEF Inv, TypeOK, Agreement, mutex

(* A try on the mutex takes it or is refused.                              *)
LEMMA TryLockKeepsInv ==
  ASSUME Inv, NEW t \in Threads, has[t] < MaxDepth, TryLock(t)
  PROVE  Inv' /\ (Lock!Acquire(t) \/ UNCHANGED has)
<1>1. CASE Locked(t) /\ Taken(t)
  BY <1>1, TakenKeepsInv
<1>2. CASE Refused(t)
  BY <1>2, OthersKeepInv DEF Refused, Inv, TypeOK
<1> QED BY <1>1, <1>2 DEF TryLock

LEMMA StepIsLockStep ==
  Inv /\ [Next]_vars => Inv' /\ [Lock!Next]_has
<1> SUFFICES ASSUME Inv, [Next]_vars
             PROVE  Inv' /\ ((\E t \in Threads : Lock!Acquire(t) \/ Lock!Release(t)) \/ UNCHANGED has)
  BY DEF Lock!Next
<1> USE DEF Inv, TypeOK
<1>1. ASSUME NEW t \in Threads, TakeForever(t) \/ LockReturns(t) \/ Poll(t)
      PROVE  Inv' /\ (Lock!Acquire(t) \/ UNCHANGED has)
  <2>1. has[t] < MaxDepth
    BY <1>1 DEF TakeForever, LockReturns, Poll, MayTake
  <2>2. CASE Locked(t) /\ Taken(t)
    BY <2>1, <2>2, TakenKeepsInv
  <2>3. CASE /\ \E next \in {"lock", "clock"} : pc' = [pc EXCEPT ![t] = next]
             /\ UNCHANGED <<mutex, left, has>>
    BY <2>1, <2>3, OthersKeepInv
  <2> QED BY <1>1, <2>2, <2>3 DEF TakeForever, LockReturns, Poll
<1>2. ASSUME NEW t \in Threads, TakeNow(t) \/ LastTry(t)
      PROVE  Inv' /\ (Lock!Acquire(t) \/ UNCHANGED has)
  BY <1>2, TryLockKeepsInv DEF TakeNow, LastTry, MayTake
<1>3. ASSUME NEW t \in Threads, NEW timeout_us \in Timeouts, TakeTimed(t, timeout_us)
      PROVE  Inv' /\ UNCHANGED has
  BY <1>3, OthersKeepInv, SemaphoreConstantsOK DEF TakeTimed, MayTake
<1>4. ASSUME NEW t \in Threads, ReadClock(t)
      PROVE  Inv' /\ UNCHANGED has
  BY <1>4, OthersKeepInv DEF ReadClock
<1>5. CASE Tick
  BY <1>5, OthersKeepInv DEF Tick
<1>6. ASSUME NEW t \in Threads, Give(t)
      PROVE  Inv' /\ Lock!Release(t)
  BY <1>6, GiveKeepsInv
<1>7. CASE UNCHANGED vars
  BY <1>7, OthersKeepInv DEF vars
<1> QED BY <1>1, <1>2, <1>3, <1>4, <1>5, <1>6, <1>7 DEF Next

LEMMA InitHolds == Init => Inv /\ Lock!Init
<1> SUFFICES ASSUME Init PROVE Inv /\ Lock!Init
  OBVIOUS
<1> QED BY SemaphoreConstantsOK DEF Init, Inv, TypeOK, Agreement, Lock!Init

LEMMA InvHolds == Spec => []Inv
BY InitHolds, StepIsLockStep, PTL DEF Spec

-----------------------------------------------------------------------------
(* The results of take() and give() agree with the pthread mutex, whichever *)
(* of the four ways take() goes (Semaphore.cpp:41-80).                      *)
THEOREM AnswersAgree == Spec => []Agreement
<1>1. Inv => Agreement
  BY DEF Inv
<1> QED BY <1>1, InvHolds, PTL

(* No depth of recursion, refused try or late poll breaks the types.        *)
THEOREM SemaphoreTypeCorrect == Spec => []TypeOK
<1>1. Inv => TypeOK
  BY DEF Inv
<1> QED BY <1>1, InvHolds, PTL

(* The semaphore is a recursive lock: a thread takes it only while no other *)
(* one has it, and everything else is a stutter (Semaphore.cpp:41-80).      *)
THEOREM SemaphoreIsALock == Spec => ImplementsLock
<1>1. Init => Lock!Init
  BY InitHolds
<1>2. Inv /\ [Next]_vars => [Lock!Next]_has
  BY StepIsLockStep
<1> QED BY <1>1, <1>2, InvHolds, PTL DEF Spec, ImplementsLock, Lock!Spec
-----------------------------------------------------------------------------
(* What follows for every recursive lock follows for the semaphore. *)

(* Two threads never both believe that they have it.                       *)
OneHolder == \A t, u \in Threads : has[t] > 0 /\ has[u] > 0 => t = u

LEMMA LockExcludes == Lock!Spec => []OneHolder
<1> DEFINE LockInv == has \in [Threads -> Nat] /\ OneHolder
<1>1. Lock!Init => LockInv
  BY DEF Lock!Init, OneHolder
<1>2. LockInv /\ [Lock!Next]_has => LockInv'
  <2> SUFFICES ASSUME LockInv, [Lock!Next]_has PROVE LockInv'
    OBVIOUS
  <2>1. ASSUME NEW t \in Threads, Lock!Acquire(t) PROVE LockInv'
    BY <2>1 DEF Lock!Acquire, OneHolder
  <2>2. ASSUME NEW t \in Threads, Lock!Release(t) PROVE LockInv'
    BY <2>2 DEF Lock!Release, OneHolder
  <2>3. CASE UNCHANGED has
    BY <2>3 DEF OneHolder
  <2> QED BY <2>1, <2>2, <2>3 DEF Lock!Next
<1>3. LockInv => OneHolder
  OBVIOUS
<1> HIDE DEF LockInv
<1> QED BY <1>1, <1>2, <1>3, PTL DEF Lock!Spec

(* The semaphore keeps threads apart, because it is such a lock            *)
(* (Semaphore.cpp:41-80).                                                  *)
THEOREM SemaphoreExcludes == Spec => []OneHolder
BY SemaphoreIsALock, LockExcludes, PTL DEF ImplementsLock

(* A timed take waits for the mutex only when its deadline has passed.     *)
WaitsOnlyWhenLate == \A t \in Threads : pc[t] = "poll" => left[t] < 0

(* Nobody polls for a semaphore within the time that the caller gave it:   *)
(* until then one try is made (Semaphore.cpp:42-57, 67-74).                *)
THEOREM PollsOnlyLate == Spec => []WaitsOnlyWhenLate
<1>1. Init => WaitsOnlyWhenLate
  BY DEF Init, WaitsOnlyWhenLate
<1>2. Inv /\ WaitsOnlyWhenLate /\ [Next]_vars => WaitsOnlyWhenLate'
  <2> SUFFICES ASSUME Inv, WaitsOnlyWhenLate, [Next]_vars PROVE WaitsOnlyWhenLate'
    OBVIOUS
  <2> USE DEF Inv, TypeOK, WaitsOnlyWhenLate
  <2>1. ASSUME NEW t \in Threads,
               \/ TakeForever(t) \/ LockReturns(t) \/ TakeNow(t) \/ Poll(t) \/ LastTry(t)
               \/ \E timeout_us \in Timeouts : TakeTimed(t, timeout_us)
        PROVE  WaitsOnlyWhenLate'
    BY <2>1 DEF TakeForever, LockReturns, TakeNow, Poll, LastTry, TryLock, Taken, Refused,
                TakeTimed, mutex
  <2>2. ASSUME NEW t \in Threads, ReadClock(t) PROVE WaitsOnlyWhenLate'
    BY <2>2 DEF ReadClock, Overdue
  <2>3. CASE Tick
    BY <2>3 DEF Tick
  <2>4. ASSUME NEW t \in Threads, Give(t) PROVE WaitsOnlyWhenLate'
    BY <2>4 DEF Give
  <2>5. CASE UNCHANGED vars
    BY <2>5 DEF vars
  <2> QED BY <2>1, <2>2, <2>3, <2>4, <2>5 DEF Next
<1> QED BY <1>1, <1>2, InvHolds, PTL DEF Spec
=============================================================================
