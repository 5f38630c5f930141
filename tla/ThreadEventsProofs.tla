------------------------- MODULE ThreadEventsProofs -------------------------
(***************************************************************************)
(* What ThreadEvents guarantees for every number of events, every width of *)
(* the timeout and every content of the memory it starts from.             *)
(***************************************************************************)
EXTENDS ThreadEvents, TLAPS

(* However the product wraps, the deadline lies a natural number of        *)
(* microseconds ahead: a wait always has a time to end at.                 *)
LEMMA DeadlineIsNat == \A t \in Nat : WaitUsec(t) \in Nat
<1> SUFFICES ASSUME NEW t \in Nat PROVE WaitUsec(t) \in Nat
  OBVIOUS
<1> DEFINE n == t * NsecPerUsec
           w == n % UintRange
<1>1. n \in Nat
  BY ConstantsOK
<1> HIDE DEF n
<1>2. w \in Nat
  BY <1>1, ConstantsOK
<1> HIDE DEF w
<1>3. (w + NsecPerUsec - 1) \div NsecPerUsec \in Nat
  <2> DEFINE k == w + NsecPerUsec - 1
  <2>1. k \in Nat
    BY <1>2, ConstantsOK
  <2> HIDE DEF k
  <2>2. k \div NsecPerUsec \in Nat
    BY <2>1, ConstantsOK
  <2> QED BY <2>2 DEF k
<1> QED BY <1>3 DEF WaitUsec, WaitNsec, w, n

-----------------------------------------------------------------------------
LEMMA TypeInit == Init => TypeOK
<1> SUFFICES ASSUME Init PROVE TypeOK
  OBVIOUS
<1>1. 0 \in Timeouts
  BY ConstantsOK DEF Timeouts
<1>2. 0 \in 0 .. WaitUsec(0)
  BY DeadlineIsNat
<1> QED BY <1>1, <1>2, ConstantsOK DEF Init, TypeOK

LEMMA TypeStep == TypeOK /\ [Next]_vars => TypeOK'
<1> SUFFICES ASSUME TypeOK, [Next]_vars PROVE TypeOK'
  OBVIOUS
<1> USE DEF TypeOK
<1>1. ASSUME NEW S \in SUBSET Event, Signal(S) PROVE TypeOK'
  BY <1>1 DEF Signal, vars
<1>2. ASSUME NEW id \in Event \cup {-1}, RegisterEvt(id) PROVE TypeOK'
  BY <1>2 DEF RegisterEvt, call
<1>3. ASSUME NEW id \in Event, UnregisterEvt(id) PROVE TypeOK'
  BY <1>3 DEF UnregisterEvt, call
<1>4. ASSUME NEW kind \in WaitOps, NEW mask \in SUBSET Event, NEW t \in Timeouts,
             Block(kind, mask, t)
      PROVE TypeOK'
  <2>1. WaitUsec(t) \in Nat
    BY DeadlineIsNat, ConstantsOK DEF Timeouts
  <2>2. elapsed' \in 0 .. WaitUsec(timeout')
    BY <1>4, <2>1 DEF Block
  <2> QED BY <1>4, <2>2 DEF Block, evts
<1>5. ASSUME NEW mask \in SUBSET Event, TakeAtOnce(mask) PROVE TypeOK'
  BY <1>5 DEF TakeAtOnce
<1>6. ASSUME NEW mask \in SUBSET Event, NEW t \in Timeouts,
             \/ "any" \in WaitOps /\ WaitAny(mask, t)
             \/ "all" \in WaitOps /\ WaitAll(mask, t)
      PROVE TypeOK'
  BY <1>4, <1>5, <1>6 DEF WaitAny, WaitAll
<1>7. ASSUME NEW r \in BOOLEAN, Return(r) PROVE TypeOK'
  <2>1. WaitUsec(timeout) \in Nat
    BY DeadlineIsNat, ConstantsOK DEF Timeouts
  <2>2. elapsed' \in 0 .. WaitUsec(timeout')
    BY <1>7, <2>1 DEF Return
  <2> QED BY <1>7, <2>2 DEF Return
<1>8. CASE Woken
  BY <1>7, <1>8 DEF Woken, evts
<1>9. CASE TimeOut
  BY <1>7, <1>9 DEF TimeOut
<1>10. CASE Tick
  <2>1. WaitUsec(timeout) \in Nat
    BY DeadlineIsNat, ConstantsOK DEF Timeouts
  <2>2. elapsed' \in 0 .. WaitUsec(timeout')
    BY <1>10, <2>1 DEF Tick
  <2> QED BY <1>10, <2>2 DEF Tick, evts
<1>11. CASE UNCHANGED vars
  BY <1>11 DEF vars
<1> QED BY <1>1, <1>2, <1>3, <1>6, <1>8, <1>9, <1>10, <1>11
        DEF Next, WakeUp, SpuriousWakeUp

(* The type invariant: every operation of posix::Thread keeps its masks    *)
(* within the 32 bits, and a wait never outlives its deadline, even when   *)
(* the deadline comes from a product that wrapped.                         *)
THEOREM TypeCorrect == Spec => []TypeOK
<1> QED BY TypeInit, TypeStep, PTL DEF Spec

-----------------------------------------------------------------------------
LEMMA NoMissedStep == NoMissedWakeUp /\ [Next]_vars => NoMissedWakeUp'
<1> SUFFICES ASSUME NoMissedWakeUp, [Next]_vars PROVE NoMissedWakeUp'
  OBVIOUS
<1> USE DEF NoMissedWakeUp, Arrived, AnyArrived, AllArrived
<1>1. ASSUME NEW S \in SUBSET Event, Signal(S) PROVE NoMissedWakeUp'
  BY <1>1 DEF Signal, vars
<1>2. ASSUME NEW id \in Event \cup {-1}, RegisterEvt(id) PROVE NoMissedWakeUp'
  BY <1>2 DEF RegisterEvt, call
<1>3. ASSUME NEW id \in Event, UnregisterEvt(id) PROVE NoMissedWakeUp'
  BY <1>3 DEF UnregisterEvt, call
<1>4. ASSUME NEW mask \in SUBSET Event, NEW t \in Timeouts,
             WaitAny(mask, t) \/ WaitAll(mask, t)
      PROVE NoMissedWakeUp'
  BY <1>4 DEF WaitAny, WaitAll, TakeAtOnce, Block, evts
<1>5. CASE Woken
  BY <1>5 DEF Woken, Return, evts
<1>6. CASE TimeOut
  BY <1>6 DEF TimeOut, Return
<1>7. CASE Tick
  BY <1>7 DEF Tick, evts
<1>8. CASE UNCHANGED vars
  BY <1>8 DEF vars
<1> QED BY <1>1, <1>2, <1>3, <1>4, <1>5, <1>6, <1>7, <1>8
        DEF Next, WakeUp, SpuriousWakeUp

(* No wake-up is missed (Threads.cpp:125-221): signal() latches the events *)
(* and signals the condition variable in one critical section, a wait      *)
(* tests and blocks in another.  The invariant is inductive as it stands.  *)
THEOREM NoWakeUpIsMissed == Spec => []NoMissedWakeUp
<1>1. Init => NoMissedWakeUp
  BY DEF Init, NoMissedWakeUp, Arrived
<1> QED BY <1>1, NoMissedStep, PTL DEF Spec

-----------------------------------------------------------------------------
(* Whatever waits the owner uses, the object is a set of event flags: every *)
(* step of it posts events, changes what the owner asks for, hands events   *)
(* over that the owner's mask then names, or ends a wait for all of several *)
(* events (DC_PAL_Posix/Threads.cpp:125-221).                               *)
LEMMA AnAskOrACollect ==
  ASSUME TypeOK, NEW mask \in SUBSET Event, NEW t \in Timeouts,
         WaitAny(mask, t) \/ WaitAll(mask, t)
  PROVE  Flags!Ask \/ Flags!Collect
<1>1. CASE op = "none" /\ TakeAtOnce(mask) /\ signalled_events \cap mask # {}
  <2> DEFINE taken == signalled_events \cap mask
  <2>1. taken \in SUBSET signalled_events /\ taken # {} /\ taken \subseteq mask
    BY <1>1
  <2>2. evt_mask' = mask /\ signalled_events' = signalled_events \ taken
    BY <1>1 DEF TakeAtOnce
  <2>3. op # "all" /\ (op = "all")' = (op = "all")
    BY <1>1 DEF TakeAtOnce
  <2> HIDE DEF taken
  <2>4. \E S \in SUBSET signalled_events :
           S # {} /\ S \subseteq evt_mask' /\ signalled_events' = signalled_events \ S
    BY <2>1, <2>2
  <2> QED BY <2>2, <2>3, <2>4 DEF Flags!Collect
<1>2. ASSUME NEW kind \in {"any", "all"}, op = "none", Block(kind, mask, t)
      PROVE Flags!Ask
  <2>1. op # "all" /\ evt_mask' \in SUBSET Event /\ UNCHANGED signalled_events
    BY <1>2 DEF Block, evts
  <2>2. (op = "all")' \in BOOLEAN
    OBVIOUS
  <2> QED BY <2>1, <2>2 DEF Flags!Ask
<1>3. CASE WaitAny(mask, t)
  BY <1>1, <1>2, <1>3 DEF WaitAny, AnyArrived
<1>4. CASE WaitAll(mask, t)
  BY <1>1, <1>2, <1>4 DEF WaitAll, AllArrived
<1> QED BY <1>3, <1>4

LEMMA AReturnHandsOver ==
  ASSUME TypeOK, op # "none", NEW r, Return(r)
  PROVE  Flags!Collect \/ Flags!Ask \/ Flags!Discard
<1>1. op \in {"any", "all"} /\ signalled_events \in SUBSET Event
  BY ConstantsOK DEF TypeOK
<1>2. signalled_events' = {} /\ op' = "none"
  BY DEF Return
<1>3. CASE op = "all"
  <2>1. evt_mask' = evt_mask
    BY <1>3 DEF Return
  <2>2. (op = "all")' = FALSE
    BY <1>2
  <2> QED BY <1>2, <1>3, <2>1, <2>2 DEF Flags!Discard
<1>4. CASE op = "any" /\ signalled_events = {}
  <2>1. evt_mask' = {}
    BY <1>4 DEF Return
  <2>2. (op = "all")' \in BOOLEAN
    OBVIOUS
  <2> QED BY <1>2, <1>4, <2>1, <2>2 DEF Flags!Ask
<1>5. CASE op = "any" /\ signalled_events # {}
  <2>1. evt_mask' = signalled_events
    BY <1>5 DEF Return
  <2>2. (op = "all")' = (op = "all")
    BY <1>2, <1>5
  <2>3. \E S \in SUBSET signalled_events :
           S # {} /\ S \subseteq evt_mask' /\ signalled_events' = signalled_events \ S
    <3>1. signalled_events \in SUBSET signalled_events
      OBVIOUS
    <3>2. signalled_events' = signalled_events \ signalled_events
      BY <1>2
    <3> QED BY <1>5, <2>1, <3>1, <3>2
  <2>4. evt_mask' \in SUBSET Event
    BY <1>1, <2>1
  <2> QED BY <1>5, <2>2, <2>3, <2>4 DEF Flags!Collect
<1> QED BY <1>1, <1>3, <1>4, <1>5

LEMMA FlagsStep == TypeOK /\ TypeOK' /\ [Next]_vars => [Flags!Next]_(Flags!vars)
<1> DEFINE same == UNCHANGED <<signalled_events, evt_mask, op>>
<1> SUFFICES ASSUME TypeOK, TypeOK', [Next]_vars PROVE Flags!Next \/ same
  BY DEF Flags!vars
<1>1. ASSUME NEW S \in SUBSET Event, Signal(S) PROVE Flags!Post \/ same
  BY <1>1 DEF Signal, Flags!Post, vars
<1>2. ASSUME NEW mask \in SUBSET Event, NEW t \in Timeouts,
             WaitAny(mask, t) \/ WaitAll(mask, t)
      PROVE Flags!Next
  BY <1>2, AnAskOrACollect DEF Flags!Next
<1>3. CASE Woken
  <2>1. CASE op # "none" /\ Return(TRUE)
    BY <2>1, AReturnHandsOver DEF Flags!Next
  <2>2. CASE same
    BY <2>2
  <2> QED BY <1>3, <2>1, <2>2 DEF Woken, evts
<1>4. CASE TimeOut
  BY <1>4, AReturnHandsOver DEF TimeOut, Flags!Next
<1>5. ASSUME NEW id, RegisterEvt(id) \/ UnregisterEvt(id) PROVE same
  BY <1>5 DEF RegisterEvt, UnregisterEvt, call
<1>6. CASE Tick \/ UNCHANGED vars
  BY <1>6 DEF Tick, evts, vars
<1> QED BY <1>1, <1>2, <1>3, <1>4, <1>5, <1>6
        DEF Next, WakeUp, SpuriousWakeUp, Flags!Next

(* The object is a set of event flags (DC_PAL_Posix/Threads.cpp:125-221):  *)
(* an event leaves the latch only by being reported to the owner, or by    *)
(* the end of a wait for all of several events.                            *)
THEOREM ImplementsEventFlags == Spec => ImplementsFlags
<1> SUFFICES Spec => Flags!Spec
  BY DEF ImplementsFlags
<1>1. Init => Flags!Init
  <2> SUFFICES ASSUME Init PROVE Flags!Init
    OBVIOUS
  <2>1. signalled_events \in SUBSET Event /\ evt_mask \in SUBSET Event /\ op # "all"
    BY ConstantsOK DEF Init
  <2> QED BY <2>1 DEF Flags!Init, Flags!TypeOK
<1> QED BY <1>1, FlagsStep, TypeCorrect, PTL DEF Spec, Flags!Spec
=============================================================================
