------------------------------ MODULE ShMemProofs ------------------------------
(***************************************************************************)
(* What ShMemIface guarantees for every capacity of the ring and any       *)
(* number of sending threads, whichever core is the CM7.                   *)
(***************************************************************************)
EXTENDS ShMem, TLAPS

(* Whoever is at the ring has the hardware semaphore for its core, but for *)
(* those under whose feet their own core released it.  Only senders share  *)
(* a core.                                                                 *)
Owner ==
  /\ \A t \in Inside \ exposed : lock = Core(t)
  /\ exposed \subseteq Senders

Sending == Inside \cap Senders # {}

\* The receiver is about to wait, having found nothing, or waits.
LookedInVain == pc[Rx] \in {"leave", "clear_last", "register", "enable", "wait"}

(* The receiver looks under the semaphore, so what it does not know of was *)
(* sent since, or is being sent.                                           *)
Unseen ==
  /\ "tx" \in ready /\ ring > 0 /\ LookedInVain => sentSince \/ Sending
  /\ "tx" \in ready /\ "rx" \notin ready => sentSince \/ Sending

(* The release of what it does not know of raised its flag, or is missed;  *)
(* the handler makes an event of a flag before it clears it, once the      *)
(* receiver listens.                                                       *)
WakeComes ==
  /\ pc[Rx] \in {"enable", "wait"} => "rx" \in ready
  /\ pc[Rx] = "register" => "rx" \notin ready
  /\ "rx" \in handling /\ pc[Rx] \in {"enable", "wait"} => Rx \in event
  /\ missed => sentSince
  /\ sentSince /\ ~missed /\ pc[Rx] = "register" => flag["rx"]
  /\ sentSince /\ ~missed /\ pc[Rx] \in {"enable", "wait"} => Rx \in event \/ flag["rx"]

\* The receiver's interrupt is enabled while it waits: no other thread masks it.
EnabledRx == pc[Rx] = "wait" => ier["rx"]

Inv == TypeOK /\ Owner /\ Unseen /\ WakeComes /\ EnabledRx

-----------------------------------------------------------------------------
(* Types. *)

LEMMA GoesTyped ==
  ASSUME TypeOK, NEW t \in Threads, NEW from, NEW to \in Places, Goes(t, from, to)
  PROVE  pc' \in [Threads -> Places] /\ cm7' = cm7
BY DEF TypeOK, Goes

LEMMA FlagsTyped ==
  ASSUME TypeOK, NEW c \in Cores, NEW b \in BOOLEAN
  PROVE  [flag EXCEPT ![c] = b] \in [Cores -> BOOLEAN] /\ [ier EXCEPT ![c] = b] \in [Cores -> BOOLEAN]
BY DEF TypeOK

LEMMA CoreTyped == \A t : Core(t) \in Cores
BY DEF Core, Cores

(* A thread that stays in its place, or leaves it for the next one inside,  *)
(* stays at the ring; one that leaves is no longer exposed.                *)
LEMMA ExposedStep ==
  ASSUME TypeOK, [Next]_vars
  PROVE  exposed' \subseteq Inside'
<1> SUFFICES ASSUME NEW x \in exposed' PROVE x \in Inside'
  OBVIOUS
<1> USE DEF TypeOK, Inside, Goes, hsem, shared, history
<1>1. ASSUME NEW c \in Cores, Broadcast(c) \/ ClearInterrupt(c) PROVE x \in Inside'
  BY <1>1 DEF Broadcast, ClearInterrupt
<1>2. ASSUME NEW t \in Threads, TryLock(t) \/ WakeInLock(t) PROVE x \in Inside'
  BY <1>2 DEF TryLock, WakeInLock
<1>3. ASSUME NEW t \in Threads, Locked(t) \/ BeginLock(t) PROVE x \in Inside'
  BY <1>3 DEF Locked, BeginLock
<1>4. ASSUME NEW t \in Threads, Reset(t) \/ Push(t) PROVE x \in Inside'
  BY <1>4 DEF Reset, Push
<1>5. ASSUME NEW t \in Threads, Unlock(t) PROVE x \in Inside'
  BY <1>5 DEF Unlock, Release
<1>6. ASSUME NEW t \in Threads, ClearFlag(t) PROVE x \in Inside'
  BY <1>6 DEF ClearFlag
<1>7. CASE Attach \/ Pop \/ PopEmpty
  BY <1>7 DEF Attach, Pop, PopEmpty, Looks
<1>8. CASE Register \/ Enable \/ Wake \/ Deliver
  BY <1>8 DEF Register, Enable, Wake, Deliver
<1>9. CASE UNCHANGED vars
  BY <1>9 DEF vars
<1>10. Senders \subseteq Threads
  BY DEF Threads
<1> HIDE DEF TypeOK, Inside, Goes
<1> QED BY <1>1, <1>2, <1>3, <1>4, <1>5, <1>6, <1>7, <1>8, <1>9, <1>10 DEF Next, Step

LEMMA TypeStep == TypeOK /\ [Next]_vars => TypeOK'
<1> SUFFICES ASSUME TypeOK, [Next]_vars PROVE TypeOK'
  OBVIOUS
<1>0. exposed' \subseteq Inside'
  BY ExposedStep
<1> USE ShMemConstantsOK, CoreTyped, <1>0 DEF TypeOK, hsem, shared, history
<1>1. ASSUME NEW c \in Cores, Broadcast(c) PROVE TypeOK'
  BY <1>1 DEF Broadcast
<1>2. ASSUME NEW c \in Cores, ClearInterrupt(c) PROVE TypeOK'
  BY <1>2, FlagsTyped DEF ClearInterrupt
<1>3. ASSUME NEW t \in Threads, TryLock(t) \/ WakeInLock(t) PROVE TypeOK'
  <2>1. pc' \in [Threads -> Places] /\ cm7' = cm7
    BY <1>3, GoesTyped DEF TryLock, WakeInLock, Places
  <2> QED BY <1>3, <2>1 DEF TryLock, WakeInLock
<1>4. ASSUME NEW t \in Threads, Locked(t) \/ BeginLock(t) PROVE TypeOK'
  <2>1. pc' \in [Threads -> Places] /\ cm7' = cm7
    BY <1>4, GoesTyped DEF Locked, BeginLock, Places
  <2>2. ier' \in [Cores -> BOOLEAN] /\ masked' \subseteq Threads
    BY <1>4, FlagsTyped DEF Locked, BeginLock, SetIer
  <2> QED BY <1>4, <2>1, <2>2 DEF Locked, BeginLock
<1>5. ASSUME NEW t \in Threads, Reset(t) \/ Push(t) PROVE TypeOK'
  <2>1. pc' \in [Threads -> Places] /\ cm7' = cm7
    BY <1>5, GoesTyped DEF Reset, Push, Places
  <2>2. ready' \subseteq Cores
    BY <1>5 DEF Reset, Push, Cores
  <2>3. ring' \in 0 .. Capacity
    BY <1>5 DEF Reset, Push
  <2> QED BY <1>5, <2>1, <2>2, <2>3 DEF Reset, Push
<1>6. ASSUME NEW t \in Threads, Unlock(t) PROVE TypeOK'
  <2>1. pc' \in [Threads -> Places] /\ cm7' = cm7
    BY <1>6, GoesTyped DEF Unlock, Release, Places
  <2>2. flag' \in [Cores -> BOOLEAN] /\ lock' \in Cores \cup {"none"}
    BY <1>6 DEF Unlock, Release
  <2>3. sentSince' \in BOOLEAN /\ missed' \in BOOLEAN
    BY <1>6 DEF Unlock, Release
  <2> QED BY <1>6, <2>1, <2>2, <2>3 DEF Unlock, Release
<1>7. ASSUME NEW t \in Threads, ClearFlag(t) PROVE TypeOK'
  <2>1. pc' \in [Threads -> Places] /\ cm7' = cm7
    BY <1>7, GoesTyped DEF ClearFlag, Places
  <2>2. flag' \in [Cores -> BOOLEAN] /\ missed' \in BOOLEAN
    BY <1>7, FlagsTyped DEF ClearFlag
  <2> QED BY <1>7, <2>1, <2>2 DEF ClearFlag
<1>8. CASE Attach \/ Pop \/ PopEmpty \/ Deliver
  <2>1. pc' \in [Threads -> Places] /\ cm7' = cm7
    BY <1>8, GoesTyped DEF Attach, Pop, PopEmpty, Looks, Deliver, Places, Threads
  <2>2. ring' \in 0 .. Capacity
    BY <1>8 DEF Attach, Pop, PopEmpty, Deliver
  <2>3. sentSince' \in BOOLEAN /\ missed' \in BOOLEAN
    BY <1>8 DEF Attach, Pop, PopEmpty, Looks, Deliver
  <2>4. UNCHANGED <<lock, flag, ier, handling, event, ready, masked>>
    BY <1>8 DEF Attach, Pop, PopEmpty, Looks, Deliver
  <2> QED BY <2>1, <2>2, <2>3, <2>4
<1>9. CASE Register \/ Enable \/ Wake
  <2>1. pc' \in [Threads -> Places] /\ cm7' = cm7
    BY <1>9, GoesTyped DEF Register, Enable, Wake, Places, Threads
  <2>2. ier' \in [Cores -> BOOLEAN] /\ ready' \subseteq Cores
    BY <1>9, FlagsTyped DEF Register, Enable, Wake, SetIer, Cores
  <2> QED BY <1>9, <2>1, <2>2 DEF Register, Enable, Wake
<1>10. CASE UNCHANGED vars
  BY <1>10 DEF vars, Inside
<1>11. ASSUME NEW t \in Threads, Step(t) PROVE TypeOK'
  <2> HIDE DEF TypeOK
  <2> QED BY <1>3, <1>4, <1>5, <1>6, <1>7, <1>8, <1>9, <1>11 DEF Step
<1>12. Senders \subseteq Threads
  BY DEF Threads
<1> HIDE DEF TypeOK
<1> QED BY <1>1, <1>2, <1>4, <1>10, <1>11, <1>12 DEF Next

(* No order of sends, receptions and interrupts overfills the ring or      *)
(* breaks another type (DataIface_ShMem.cpp:108-214).                      *)
THEOREM ShMemTypeCorrect == Spec => []TypeOK
<1>1. Init => TypeOK
  BY ShMemConstantsOK DEF Init, TypeOK, Threads, Cores, Places
<1> QED BY <1>1, TypeStep, PTL DEF Spec

-----------------------------------------------------------------------------
(* The semaphore keeps the cores apart. *)

LEMMA OwnerStep ==
  ASSUME TypeOK, Owner, [Next]_vars
  PROVE  Owner'
<1> USE ShMemConstantsOK
    DEF TypeOK, Owner, Inside, Threads, Cores, Core, hsem, shared, history, Goes, SetIer
<1>1. ASSUME NEW c \in Cores, Broadcast(c) \/ ClearInterrupt(c) PROVE Owner'
  BY <1>1 DEF Broadcast, ClearInterrupt
<1>2. ASSUME NEW t \in Threads, TryLock(t) PROVE Owner'
  BY <1>2 DEF TryLock
<1>3. ASSUME NEW t \in Threads, WakeInLock(t) \/ Locked(t) \/ BeginLock(t) PROVE Owner'
  BY <1>3 DEF WakeInLock, Locked, BeginLock
<1>4. ASSUME NEW t \in Threads, Reset(t) \/ Push(t) PROVE Owner'
  BY <1>4 DEF Reset, Push
<1>5. ASSUME NEW t \in Threads, Unlock(t) PROVE Owner'
  <2>1. pc'[t] \in {"clear", "clear_last"} /\ \A u \in Threads : u # t => pc'[u] = pc[u]
    BY <1>5 DEF Unlock, Release
  <2>2. CASE lock = Core(t)
    <3>1. exposed' = (exposed \cup {u \in Inside : Core(u) = Core(t)}) \ {t}
      BY <1>5, <2>2 DEF Unlock, Release
    <3>2. \A u \in Inside : lock = Core(u) => u = t \/ u \in exposed'
      BY <2>2, <3>1
    <3> QED BY <2>1, <3>1, <3>2
  <2>3. CASE lock # Core(t)
    <3>1. lock' = lock /\ exposed' = exposed \ {t}
      BY <1>5, <2>3 DEF Unlock, Release
    <3> QED BY <2>1, <3>1
  <2> QED BY <2>2, <2>3
<1>6. ASSUME NEW t \in Threads, ClearFlag(t) PROVE Owner'
  BY <1>6 DEF ClearFlag
<1>7. CASE Attach \/ Pop \/ PopEmpty
  BY <1>7 DEF Attach, Pop, PopEmpty, Looks
<1>8. CASE Register \/ Enable \/ Wake \/ Deliver
  BY <1>8 DEF Register, Enable, Wake, Deliver
<1>9. CASE UNCHANGED vars
  BY <1>9 DEF vars
<1> HIDE DEF Owner
<1> QED BY <1>1, <1>2, <1>3, <1>4, <1>5, <1>6, <1>7, <1>8, <1>9 DEF Next, Step

-----------------------------------------------------------------------------
(* What a receiver does not know of wakes it. *)

LEMMA UnseenStep ==
  ASSUME TypeOK, Owner, Unseen, [Next]_vars
  PROVE  Unseen'
<1> USE ShMemConstantsOK
    DEF TypeOK, Unseen, Sending, Inside, LookedInVain, Threads, hsem, shared, history, Goes, SetIer
<1>1. ASSUME NEW c \in Cores, Broadcast(c) \/ ClearInterrupt(c) PROVE Unseen'
  BY <1>1 DEF Broadcast, ClearInterrupt
<1>2. ASSUME NEW t \in Threads, TryLock(t) \/ WakeInLock(t) \/ Locked(t) \/ BeginLock(t)
      PROVE Unseen'
  BY <1>2 DEF TryLock, WakeInLock, Locked, BeginLock
<1>3. ASSUME NEW t \in Threads, Reset(t) \/ Push(t) PROVE Unseen'
  <2>1. t \in Senders /\ pc'[t] = "unlock"
    BY <1>3 DEF Reset, Push
  <2> QED BY <2>1
<1>4. ASSUME NEW t \in Senders, Unlock(t) PROVE Unseen'
  <2>1. sentSince'
    BY <1>4 DEF Unlock, Release
  <2> QED BY <2>1
<1>5. CASE Unlock(Rx)
  <2>1. /\ \A s \in Senders : pc'[s] = pc[s]
        /\ UNCHANGED <<ring, ready>> /\ sentSince' = sentSince
        /\ pc'[Rx] = "clear_last" => pc[Rx] = "leave"
        /\ pc'[Rx] \in {"clear", "clear_last"}
    BY <1>5 DEF Unlock, Release
  <2> QED BY <2>1
<1>6. ASSUME NEW t \in Threads, ClearFlag(t) PROVE Unseen'
  BY <1>6 DEF ClearFlag
<1>7. CASE Attach
  BY <1>7 DEF Attach
<1>8. CASE Pop \/ PopEmpty
  <2>1. "rx" \in ready /\ UNCHANGED ready /\ \A s \in Senders : pc'[s] = pc[s]
    BY <1>8 DEF Pop, PopEmpty, Looks
  <2>2. ASSUME Pop PROVE ~LookedInVain'
    BY <2>2 DEF Pop, Looks
  <2>3. ASSUME PopEmpty, ring' > 0 PROVE Sending'
    <3>1. Overlaps(Rx)
      BY <2>3 DEF PopEmpty
    <3>2. Rx \notin exposed
      BY DEF Owner
    <3> QED BY <2>1, <3>1, <3>2 DEF Overlaps
  <2> HIDE DEF LookedInVain, Sending
  <2> QED BY <1>8, <2>1, <2>2, <2>3
<1>9. CASE Register \/ Enable \/ Wake \/ Deliver
  BY <1>9 DEF Register, Enable, Wake, Deliver
<1>10. CASE UNCHANGED vars
  BY <1>10 DEF vars
<1> HIDE DEF Unseen
<1> QED BY <1>1, <1>2, <1>3, <1>4, <1>5, <1>6, <1>7, <1>8, <1>9, <1>10 DEF Next, Step

LEMMA WakeStep ==
  ASSUME TypeOK, WakeComes, [Next]_vars
  PROVE  WakeComes'
<1> USE ShMemConstantsOK
    DEF TypeOK, WakeComes, Threads, Cores, Core, hsem, shared, history, Goes, SetIer
<1>1. ASSUME NEW c \in Cores, Broadcast(c) PROVE WakeComes'
  BY <1>1 DEF Broadcast, Listening
<1>2. ASSUME NEW c \in Cores, ClearInterrupt(c) PROVE WakeComes'
  BY <1>2 DEF ClearInterrupt
<1>3. ASSUME NEW t \in Threads, WakeInLock(t) PROVE WakeComes'
  BY <1>3 DEF WakeInLock
<1>4. ASSUME NEW t \in Threads, TryLock(t) \/ Locked(t) \/ BeginLock(t) \/ Reset(t) \/ Push(t)
      PROVE WakeComes'
  BY <1>4 DEF TryLock, Locked, BeginLock, Reset, Push
<1>5. ASSUME NEW t \in Threads, Unlock(t) PROVE WakeComes'
  <2>1. pc'[Rx] \in {"clear", "clear_last"} \/ pc'[Rx] = pc[Rx]
    BY <1>5 DEF Unlock, Release
  <2>2. UNCHANGED <<handling, event, ready>> /\ sentSince' = (sentSince \/ t # Rx)
    BY <1>5 DEF Unlock, Release
  <2>3. t = Rx => pc'[Rx] \in {"clear", "clear_last"} /\ (missed' => missed)
    BY <1>5 DEF Unlock, Release
  <2>4. t # Rx => flag'["rx"] \/ missed'
    BY <1>5 DEF Unlock, Release
  <2> QED BY <2>1, <2>2, <2>3, <2>4
<1>6. ASSUME NEW t \in Threads, ClearFlag(t) PROVE WakeComes'
  BY <1>6 DEF ClearFlag
<1>7. CASE Attach \/ Pop \/ PopEmpty
  BY <1>7 DEF Attach, Pop, PopEmpty, Looks
<1>8. CASE Register \/ Enable \/ Wake \/ Deliver
  BY <1>8 DEF Register, Enable, Wake, Deliver
<1>9. CASE UNCHANGED vars
  BY <1>9 DEF vars
<1> HIDE DEF WakeComes
<1> QED BY <1>1, <1>2, <1>3, <1>4, <1>5, <1>6, <1>7, <1>8, <1>9 DEF Next, Step

LEMMA EnabledRxStep ==
  ASSUME TypeOK, EnabledRx, [Next]_vars
  PROVE  EnabledRx'
<1> USE ShMemConstantsOK
    DEF TypeOK, EnabledRx, Threads, Cores, Core, hsem, shared, history, Goes, SetIer
<1>1. ASSUME NEW c \in Cores, Broadcast(c) \/ ClearInterrupt(c) PROVE EnabledRx'
  BY <1>1 DEF Broadcast, ClearInterrupt
<1>2. ASSUME NEW t \in Threads, TryLock(t) \/ WakeInLock(t) \/ Reset(t) \/ Push(t) PROVE EnabledRx'
  BY <1>2 DEF TryLock, WakeInLock, Reset, Push
<1>3. ASSUME NEW t \in Threads, Locked(t) \/ BeginLock(t) PROVE EnabledRx'
  BY <1>3 DEF Locked, BeginLock
<1>4. ASSUME NEW t \in Threads, Unlock(t) \/ ClearFlag(t) PROVE EnabledRx'
  BY <1>4 DEF Unlock, Release, ClearFlag
<1>5. CASE Attach \/ Pop \/ PopEmpty \/ Register \/ Enable \/ Wake \/ Deliver
  BY <1>5 DEF Attach, Pop, PopEmpty, Looks, Register, Enable, Wake, Deliver
<1>6. CASE UNCHANGED vars
  BY <1>6 DEF vars
<1> HIDE DEF EnabledRx
<1> QED BY <1>1, <1>2, <1>3, <1>4, <1>5, <1>6 DEF Next, Step

LEMMA Invariance == Spec => []Inv
<1>1. Init => Inv
  <2> SUFFICES ASSUME Init PROVE Inv
    OBVIOUS
  <2>1. TypeOK
    BY ShMemConstantsOK DEF Init, TypeOK, Threads, Cores, Places
  <2>2. Owner
    <3>1. Inside = {}
      BY DEF Init, Inside
    <3> QED BY <3>1 DEF Init, Owner
  <2>3. pc[Rx] = "enter" /\ ready = {} /\ ~missed
    BY DEF Init, Threads
  <2>4. Unseen /\ WakeComes /\ EnabledRx
    BY <2>3 DEF Init, Unseen, LookedInVain, WakeComes, EnabledRx
  <2> QED BY <2>1, <2>2, <2>4 DEF Inv
<1>2. Inv /\ [Next]_vars => Inv'
  BY TypeStep, OwnerStep, UnseenStep, WakeStep, EnabledRxStep DEF Inv
<1> QED BY <1>1, <1>2, PTL DEF Spec

(* Never are both cores at the ring, whatever number of threads sends, but *)
(* for the threads that another one of their core has exposed              *)
(* (DataIface_ShMem.cpp:152-183).                                          *)
THEOREM CoresExcludeEachOther == Spec => []OneCoreAtRing
<1>1. Inv => OneCoreAtRing
  BY DEF Inv, Owner, OneCoreAtRing
<1> QED BY <1>1, Invariance, PTL

(* A receiver of the CM7 does not sleep over frames, but for the windows   *)
(* that SleepIsSafe names (DataIface_ShMem.cpp:121-144, 178-183).          *)
THEOREM ReceiverIsWoken == Spec => []SleepIsSafe
<1>1. Inv => SleepIsSafe
  <2> SUFFICES ASSUME Inv, cm7 = "rx", pc[Rx] = "wait", "tx" \in ready, ring > 0, ~missed,
                      Inside \cap Senders = {}
               PROVE  Rx \in event \/ Pending("rx")
    BY DEF SleepIsSafe
  <2>1. sentSince
    BY DEF Inv, Unseen, LookedInVain, Sending
  <2> QED BY <2>1 DEF Inv, WakeComes, EnabledRx, Pending
<1> QED BY <1>1, Invariance, PTL
-----------------------------------------------------------------------------
(* The constructor of HWSemaphore. *)

(* A core's interrupt is enabled while a thread of it that no other one    *)
(* masked tries to take the semaphore.                                     *)
Enabled == \A t \in Threads \ masked : pc[t] \in {"try", "sleep"} => ier[Core(t)]

(* What such a thread of the CM7 sleeps for is on its way: the handler has *)
(* made it an event, the flag is up, or the other core has the semaphore.  *)
Awaited ==
  /\ \A t \in Threads : Core(t) \in handling /\ pc[t] = "sleep" => t \in event
  /\ \A t \in Threads \ masked :
       Core(t) = cm7 /\ pc[t] = "sleep" => t \in event \/ flag[Core(t)] \/ lock \notin {"none", Core(t)}

LEMMA EnabledStep ==
  ASSUME TypeOK, Enabled, [Next]_vars
  PROVE  Enabled'
<1> USE ShMemConstantsOK
    DEF TypeOK, Enabled, Threads, Cores, Core, hsem, shared, history, Goes, SetIer
<1>1. ASSUME NEW c \in Cores, Broadcast(c) \/ ClearInterrupt(c) PROVE Enabled'
  BY <1>1 DEF Broadcast, ClearInterrupt
<1>2. ASSUME NEW t \in Threads, TryLock(t) \/ WakeInLock(t) PROVE Enabled'
  BY <1>2 DEF TryLock, WakeInLock
<1>3. ASSUME NEW t \in Threads, Locked(t) PROVE Enabled'
  BY <1>3 DEF Locked
<1>4. ASSUME NEW t \in Threads, BeginLock(t) PROVE Enabled'
  BY <1>4 DEF BeginLock
<1>5. ASSUME NEW t \in Threads, Reset(t) \/ Push(t) \/ Unlock(t) \/ ClearFlag(t) PROVE Enabled'
  BY <1>5 DEF Reset, Push, Unlock, Release, ClearFlag
<1>6. CASE Attach \/ Pop \/ PopEmpty \/ Register \/ Enable \/ Wake \/ Deliver
  BY <1>6 DEF Attach, Pop, PopEmpty, Looks, Register, Enable, Wake, Deliver
<1>7. CASE UNCHANGED vars
  BY <1>7 DEF vars
<1> HIDE DEF Enabled
<1> QED BY <1>1, <1>2, <1>3, <1>4, <1>5, <1>6, <1>7 DEF Next, Step

LEMMA AwaitedStep ==
  ASSUME TypeOK, Enabled, Awaited, [Next]_vars
  PROVE  Awaited'
<1> USE ShMemConstantsOK
    DEF TypeOK, Awaited, Threads, Cores, Core, hsem, shared, history, Goes, SetIer
<1>1. ASSUME NEW c \in Cores, Broadcast(c) PROVE Awaited'
  BY <1>1 DEF Broadcast, Listening
<1>2. ASSUME NEW c \in Cores, ClearInterrupt(c) PROVE Awaited'
  BY <1>2 DEF ClearInterrupt
<1>3. ASSUME NEW t \in Threads, TryLock(t) PROVE Awaited'
  BY <1>3 DEF TryLock
<1>4. ASSUME NEW t \in Threads, WakeInLock(t) \/ Locked(t) \/ BeginLock(t) PROVE Awaited'
  BY <1>4 DEF WakeInLock, Locked, BeginLock
<1>5. ASSUME NEW t \in Threads, Reset(t) \/ Push(t) PROVE Awaited'
  BY <1>5 DEF Reset, Push
<1>6. ASSUME NEW t \in Threads, Unlock(t) PROVE Awaited'
  <2>1. /\ UNCHANGED <<cm7, handling, event, masked>>
        /\ \A u \in Threads : pc'[u] = "sleep" => pc[u] = "sleep"
    BY <1>6 DEF Unlock, Release
  <2>2. UNCHANGED <<lock, flag>> \/ \A c \in Cores : flag'[c]
    BY <1>6 DEF Unlock, Release
  <2> QED BY <2>1, <2>2
<1>7. ASSUME NEW t \in Threads, ClearFlag(t) PROVE Awaited'
  <2>1. /\ UNCHANGED <<cm7, lock, handling, event, masked>>
        /\ \A u \in Threads : pc'[u] = "sleep" => pc[u] = "sleep"
        /\ flag' = [flag EXCEPT ![Core(t)] = FALSE]
        /\ ~Pending(Core(t))
    BY <1>7 DEF ClearFlag
  <2> QED BY <2>1 DEF Enabled, Pending
<1>8. CASE Attach \/ Pop \/ PopEmpty \/ Register \/ Enable \/ Wake \/ Deliver
  BY <1>8 DEF Attach, Pop, PopEmpty, Looks, Register, Enable, Wake, Deliver
<1>9. CASE UNCHANGED vars
  BY <1>9 DEF vars
<1> HIDE DEF Awaited
<1> QED BY <1>1, <1>2, <1>3, <1>4, <1>5, <1>6, <1>7, <1>8, <1>9 DEF Next, Step

(* A thread of the CM7 that sleeps in the constructor, and that no other   *)
(* thread of its core masked, has its event, or an interrupt that will     *)
(* make it, or waits with the interrupt enabled for the release of the     *)
(* other core.                                                             *)
SleepersAreHeard ==
  \A t \in Threads \ masked :
    Core(t) = cm7 /\ pc[t] = "sleep" =>
      t \in event \/ Pending(Core(t)) \/ (lock \notin {"none", Core(t)} /\ ier[Core(t)])

(* No wake-up is lost between the refused try and the wait on the CM7,     *)
(* whenever the other core releases and whoever else runs the handler      *)
(* (DataIface_ShMem.cpp:152-167).                                          *)
THEOREM SleepersAlwaysHeard == Spec => []SleepersAreHeard
<1>1. Init => Enabled /\ Awaited
  <2> SUFFICES ASSUME Init PROVE Enabled /\ Awaited
    OBVIOUS
  <2>1. \A t \in Threads : pc[t] \in {"enter", "out"}
    BY DEF Init
  <2> QED BY <2>1 DEF Enabled, Awaited
<1>2. Inv /\ Enabled /\ Awaited /\ [Next]_vars => Enabled' /\ Awaited'
  BY EnabledStep, AwaitedStep DEF Inv
<1>3. Enabled /\ Awaited => SleepersAreHeard
  BY DEF Enabled, Awaited, SleepersAreHeard, Pending
<1> QED BY <1>1, <1>2, <1>3, Invariance, PTL DEF Spec

-----------------------------------------------------------------------------
(* The CM4, whose handler never runs. *)

Deaf == \A t \in event : Core(t) = cm7

LEMMA DeafStep ==
  ASSUME TypeOK, Deaf, [Next]_vars
  PROVE  Deaf'
<1> USE DEF Deaf, hsem, shared, history, Goes
<1>1. ASSUME NEW c \in Cores, Broadcast(c) \/ ClearInterrupt(c) PROVE Deaf'
  BY <1>1 DEF Broadcast, ClearInterrupt
<1>2. ASSUME NEW t \in Threads, Step(t) \/ BeginLock(t) PROVE event' \subseteq event /\ cm7' = cm7
  <2>1. ASSUME TryLock(t) \/ WakeInLock(t) \/ Locked(t) \/ BeginLock(t)
        PROVE  event' \subseteq event /\ cm7' = cm7
    BY <2>1 DEF TryLock, WakeInLock, Locked, BeginLock
  <2>2. ASSUME Reset(t) \/ Push(t) \/ Unlock(t) \/ ClearFlag(t)
        PROVE  event' \subseteq event /\ cm7' = cm7
    BY <2>2 DEF Reset, Push, Unlock, Release, ClearFlag
  <2>3. ASSUME Attach \/ Pop \/ PopEmpty \/ Register \/ Enable \/ Wake \/ Deliver
        PROVE  event' \subseteq event /\ cm7' = cm7
    BY <2>3 DEF Attach, Pop, PopEmpty, Looks, Register, Enable, Wake, Deliver
  <2> HIDE DEF Goes
  <2> QED BY <1>2, <2>1, <2>2, <2>3 DEF Step
<1>3. CASE UNCHANGED vars
  BY <1>3 DEF vars
<1>4. Senders \subseteq Threads
  BY DEF Threads
<1> QED BY <1>1, <1>2, <1>3, <1>4 DEF Next

(* A thread of the CM4 that once sleeps, for the semaphore or for frames,  *)
(* sleeps for ever: the branch of init() whose comment says "enable HSEM2  *)
(* interrupt" sets the priority of the vector and does not enable it       *)
(* (DataIface_ShMem.cpp:72-73; 52 for the CM7).                            *)
THEOREM CM4SleepsForEver ==
  Spec => [][\A t \in Threads :
               Core(t) # cm7 /\ pc[t] \in {"sleep", "wait"} => pc'[t] = pc[t]]_vars
<1> DEFINE Asleep(t) == Core(t) # cm7 /\ pc[t] \in {"sleep", "wait"}
<1>1. Init => Deaf
  BY DEF Init, Deaf
<1>2. TypeOK /\ Deaf /\ [Next]_vars => [\A t \in Threads : Asleep(t) => pc'[t] = pc[t]]_vars
  <2> SUFFICES ASSUME TypeOK, Deaf, Next, NEW t \in Threads, Asleep(t) PROVE pc'[t] = pc[t]
    OBVIOUS
  <2>1. t \notin event
    BY DEF Deaf
  <2> USE DEF TypeOK, hsem, shared, history, Goes
  <2>2. ASSUME NEW c \in Cores, Broadcast(c) \/ ClearInterrupt(c) PROVE pc'[t] = pc[t]
    BY <2>2 DEF Broadcast, ClearInterrupt
  <2>3. ASSUME NEW u \in Threads, Step(u) \/ BeginLock(u) PROVE pc'[t] = pc[t]
    <3>1. ASSUME TryLock(u) \/ Locked(u) \/ BeginLock(u) PROVE pc'[t] = pc[t]
      BY <3>1 DEF TryLock, Locked, BeginLock
    <3>2. ASSUME WakeInLock(u) \/ Wake PROVE pc'[t] = pc[t]
      BY <3>2, <2>1 DEF WakeInLock, Wake
    <3>3. ASSUME Reset(u) \/ Push(u) \/ Unlock(u) \/ ClearFlag(u) PROVE pc'[t] = pc[t]
      BY <3>3 DEF Reset, Push, Unlock, Release, ClearFlag
    <3>4. ASSUME Attach \/ Pop \/ PopEmpty \/ Register \/ Enable \/ Deliver PROVE pc'[t] = pc[t]
      BY <3>4 DEF Attach, Pop, PopEmpty, Looks, Register, Enable, Deliver
    <3> HIDE DEF Goes
    <3> QED BY <2>3, <3>1, <3>2, <3>3, <3>4 DEF Step
  <2>4. Senders \subseteq Threads
    BY DEF Threads
  <2> QED BY <2>2, <2>3, <2>4 DEF Next
<1> QED BY <1>1, <1>2, DeafStep, ShMemTypeCorrect, PTL DEF Spec
=============================================================================
