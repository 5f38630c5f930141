-------------------------------- MODULE ShMem --------------------------------
(***************************************************************************)
(* One direction of ShMemIface (DC_DataIface/DataIface_ShMem.cpp): threads *)
(* of one core send into a ring in shared memory, a thread of the other    *)
(* core receives.  Each takes the hardware semaphore of the ring, whose    *)
(* release raises a flag on both cores; an enabled flag interrupts its     *)
(* core, and the handler wakes all that listen there.  But only the CM7    *)
(* enables the vector of that interrupt: the CM4 sets its priority, and    *)
(* its handler never runs.  The two directions share only the handler: it  *)
(* may run on behalf of the other one.                                     *)
(*                                                                         *)
(* The ring is the number of frames in it; ByteRing has its bytes.         *)
(***************************************************************************)
EXTENDS Naturals

CONSTANTS
  Senders,      \* the threads of the sending core that call send()
  Rx,           \* the receiving thread of the other core
  Capacity      \* how many frames the ring takes

ASSUME ShMemConstantsOK ==
  /\ Capacity \in Nat \ {0}
  /\ Rx \notin Senders

Threads == Senders \cup {Rx}
Cores   == {"tx", "rx"}
Core(t) == IF t = Rx THEN "rx" ELSE "tx"

VARIABLES
  cm7,          \* the core that is the CM7; the other one is the CM4
  lock,         \* the core that has the hardware semaphore, or "none"
  flag,         \* HSEM ISR of each core: the semaphore was released
  ier,          \* HSEM IER of each core: the flag interrupts
  handling,     \* cores between the two statements of sem_free_it()
  event,        \* threads with an event pending
  pc,           \* where each thread is
  ring,         \* frames in the ring; before init() whatever memory holds
  ready,        \* "tx" once init() has reset the ring, "rx" once update_rx() listens
  exposed,      \* threads at the ring under a semaphore that their own core released
  masked,       \* threads in the constructor whose interrupt their own core masked
  sentSince,    \* a frame was sent since the receiver looked
  missed        \* and nothing that is left tells the receiver

hsem    == <<lock, flag, ier, handling>>
shared  == <<exposed, masked>>
history == <<sentSince, missed>>
vars    == <<cm7, hsem, event, pc, ring, ready, shared, history>>

Init ==
  /\ cm7 \in Cores
  /\ lock = "none"
  /\ flag = [c \in Cores |-> FALSE]
  /\ ier = [c \in Cores |-> FALSE]
  /\ handling = {} /\ event = {}
  /\ pc = [t \in Threads |-> IF t = Rx THEN "enter" ELSE "out"]
  /\ ring \in 0 .. Capacity /\ ready = {}
  /\ exposed = {} /\ masked = {}
  /\ sentSince = FALSE /\ missed = FALSE

-----------------------------------------------------------------------------
(* The interrupt comes before the next instruction of any thread there.    *)
Pending(c) == c = cm7 /\ ier[c] /\ flag[c]

Goes(t, from, to) ==
  /\ pc[t] = from
  /\ ~Pending(Core(t)) /\ Core(t) \notin handling
  /\ pc' = [pc EXCEPT ![t] = to]
  /\ UNCHANGED cm7

SetIer(t, b) == ier' = [ier EXCEPT ![Core(t)] = b]

\* A constructor of HWSemaphore listens, and update_rx() from the start.
Listening(t) == pc[t] \in {"try", "sleep", "mine"} \/ (t = Rx /\ "rx" \in ready)

\* sem_free_it(): for this ring's flag, or for another one.
Broadcast(c) ==
  /\ c = cm7 /\ c \notin handling
  /\ handling' = handling \cup {c}
  /\ event' = event \cup {t \in Threads : Core(t) = c /\ Listening(t)}
  /\ UNCHANGED <<cm7, lock, flag, ier, pc, ring, ready, shared, history>>

\* Nobody was told of the flag if the receiver does not listen yet.
ClearInterrupt(c) ==
  /\ c \in handling
  /\ handling' = handling \ {c}
  /\ flag' = [flag EXCEPT ![c] = FALSE]
  /\ missed' = (missed \/ (c = "rx" /\ flag[c] /\ sentSince /\ "rx" \notin ready))
  /\ UNCHANGED <<cm7, lock, ier, event, pc, ring, ready, shared, sentSince>>

-----------------------------------------------------------------------------
(* HWSemaphore: the constructor. *)

(* Mutant of BeginLock: the interrupt stays masked. *)
BeginLockMasked(t) ==
  /\ t = Rx \/ "tx" \in ready \/ \A u \in Senders : pc[u] = "out"
  /\ \/ Goes(t, "out", "try") \/ Goes(t, "enter", "try")
  /\ UNCHANGED <<hsem, event, ring, ready, shared, history>>

BeginLock(t) ==
  /\ t = Rx \/ "tx" \in ready \/ \A u \in Senders : pc[u] = "out"
  /\ \/ Goes(t, "out", "try") \/ Goes(t, "enter", "try")
  /\ SetIer(t, TRUE)
  /\ masked' = {u \in masked : Core(u) # Core(t) \/ pc[u] = "sleep"}
  /\ UNCHANGED <<lock, flag, handling, event, ring, ready, exposed, history>>

(* Mutant of TryLock: it does not look whose the semaphore is. *)
TryLockAnyCore(t) ==
  /\ Goes(t, "try", "mine")
  /\ lock' = IF lock = "none" THEN Core(t) ELSE lock
  /\ UNCHANGED <<flag, ier, handling, event, ring, ready, shared, history>>

\* Reading RLR locks the semaphore if it is free, and tells which core has it:
\* a thread passes where another thread of its core has it.
TryLock(t) ==
  /\ \/ /\ lock \in {"none", Core(t)}
        /\ Goes(t, "try", "mine")
        /\ lock' = Core(t)
        /\ masked' = masked \ {t}
     \/ /\ lock \notin {"none", Core(t)}
        /\ Goes(t, "try", "sleep")
        /\ UNCHANGED <<lock, masked>>
  /\ UNCHANGED <<flag, ier, handling, event, ring, ready, exposed, history>>

WakeInLock(t) ==
  /\ t \in event
  /\ Goes(t, "sleep", "try")
  /\ event' = event \ {t}
  /\ UNCHANGED <<hsem, ring, ready, shared, history>>

\* The interrupt is masked for other threads of the core as well.
Locked(t) ==
  /\ Goes(t, "mine", "in")
  /\ SetIer(t, FALSE)
  /\ masked' = masked \cup {u \in Threads : Core(u) = Core(t) /\ pc[u] \in {"try", "sleep"}}
  /\ UNCHANGED <<lock, flag, handling, event, ring, ready, exposed, history>>

-----------------------------------------------------------------------------
(* What is done with it, first of all in init(): the sending core resets   *)
(* the ring, the other one only notes where it is.  The ring is not thread *)
(* safe: an operation beside one of a sender leaves any number of frames.  *)

Reset(t) ==
  /\ t # Rx /\ "tx" \notin ready
  /\ Goes(t, "in", "unlock")
  /\ ring' = 0
  /\ ready' = ready \cup {"tx"}
  /\ UNCHANGED <<hsem, event, shared, history>>

Attach ==
  /\ "rx" \notin ready
  /\ Goes(Rx, "in", "leave")
  /\ UNCHANGED <<hsem, event, ring, ready, shared, history>>

Overlaps(t) == t \in exposed \/ \E s \in Senders \ {t} : pc[s] \in {"in", "unlock"}

(* Mutant of Push: it does not ask for room. *)
PushUnchecked(t) ==
  /\ t # Rx /\ "tx" \in ready
  /\ Goes(t, "in", "unlock")
  /\ ring' = ring + 1
  /\ UNCHANGED <<hsem, event, ready, shared, history>>

\* push(), which refuses the frame when the ring is full.
Push(t) ==
  /\ t # Rx /\ "tx" \in ready
  /\ Goes(t, "in", "unlock")
  /\ \/ Overlaps(t) /\ ring' \in 0 .. Capacity
     \/ ring < Capacity /\ ring' = ring + 1
     \/ ring = Capacity /\ ring' = ring
  /\ UNCHANGED <<hsem, event, ready, shared, history>>

Looks(to) ==
  /\ "rx" \in ready
  /\ Goes(Rx, "in", to)
  /\ sentSince' = FALSE /\ missed' = FALSE
  /\ UNCHANGED <<hsem, event, ready, shared>>

Pop ==
  /\ Looks("unlock")
  /\ \/ Overlaps(Rx) /\ ring' \in 0 .. Capacity
     \/ ring > 0 /\ ring' = ring - 1

PopEmpty ==
  /\ Looks("leave")
  /\ \/ Overlaps(Rx) /\ ring' \in 0 .. Capacity
     \/ ring = 0 /\ ring' = ring

-----------------------------------------------------------------------------
(* HWSemaphore: the destructor writes the key, which releases the          *)
(* semaphore if the core has it, then clears its core's flag.              *)

Inside == {t \in Threads : pc[t] \in {"mine", "in", "unlock", "leave"}}

Release(t, from, to) ==
  /\ Goes(t, from, to)
  /\ \/ /\ lock = Core(t)
        /\ lock' = "none"
        /\ flag' = [c \in Cores |-> TRUE]
        /\ exposed' = (exposed \cup {u \in Inside : Core(u) = Core(t)}) \ {t}
        /\ missed' = (missed /\ t = Rx)
     \/ /\ lock # Core(t)
        /\ exposed' = exposed \ {t}
        /\ missed' = (missed \/ t # Rx)
        /\ UNCHANGED <<lock, flag>>
  /\ sentSince' = (sentSince \/ t # Rx)
  /\ UNCHANGED <<ier, handling, event, ring, ready, masked>>

Unlock(t) == Release(t, "unlock", "clear") \/ Release(t, "leave", "clear_last")

\* To the next send, or to the callback, or back to waiting, or out of init().
ClearFlag(t) ==
  /\ \/ t # Rx /\ Goes(t, "clear", "out") /\ UNCHANGED missed
     \/ t = Rx /\ Goes(t, "clear", "deliver") /\ UNCHANGED missed
     \/ /\ Goes(t, "clear_last", IF "rx" \in ready THEN "enable" ELSE "register")
        /\ missed' = sentSince
  /\ flag' = [flag EXCEPT ![Core(t)] = FALSE]
  /\ UNCHANGED <<lock, ier, handling, event, ring, ready, shared, sentSince>>

-----------------------------------------------------------------------------
(* update_rx(). *)

\* A thread of its own, without an event that init() may have had pending.
Register ==
  /\ Goes(Rx, "register", "enable")
  /\ event' = event \ {Rx}
  /\ ready' = ready \cup {"rx"}
  /\ UNCHANGED <<hsem, ring, shared, history>>

(* Mutant of Enable: it begins with a clean flag. *)
EnableFresh ==
  /\ Goes(Rx, "enable", "wait")
  /\ SetIer(Rx, TRUE)
  /\ flag' = [flag EXCEPT !["rx"] = FALSE]
  /\ UNCHANGED <<lock, handling, event, ring, ready, shared, history>>

Enable ==
  /\ Goes(Rx, "enable", "wait")
  /\ SetIer(Rx, TRUE)
  /\ UNCHANGED <<lock, flag, handling, event, ring, ready, shared, history>>

Wake ==
  /\ Rx \in event
  /\ Goes(Rx, "wait", "enter")
  /\ event' = event \ {Rx}
  /\ SetIer(Rx, FALSE)
  /\ missed' = FALSE
  /\ UNCHANGED <<lock, flag, handling, ring, ready, shared, sentSince>>

Deliver ==
  /\ Goes(Rx, "deliver", "enter")
  /\ UNCHANGED <<hsem, event, ring, ready, shared, history>>

Step(t) == \/ TryLock(t) \/ WakeInLock(t) \/ Locked(t) \/ Reset(t) \/ Push(t) \/ Unlock(t) \/ ClearFlag(t)
           \/ t = Rx /\ (BeginLock(t) \/ Attach \/ Pop \/ PopEmpty \/ Register \/ Enable \/ Wake \/ Deliver)

Next ==
  \/ \E c \in Cores : Broadcast(c) \/ ClearInterrupt(c)
  \/ \E t \in Threads : Step(t)
  \/ \E t \in Senders : BeginLock(t)

\* Pending interrupts of the CM7 are handled, and do not keep threads from
\* running; those of the CM4 are not enabled.  Nobody has to send.
Fairness ==
  /\ \A t \in Threads : SF_vars(Step(t))
  /\ \A c \in Cores : WF_vars(Pending(c) /\ Broadcast(c)) /\ WF_vars(ClearInterrupt(c))

Spec     == Init /\ [][Next]_vars
FairSpec == Spec /\ Fairness

-----------------------------------------------------------------------------
(* Properties. *)

Places == {"out", "enter", "try", "sleep", "mine", "in", "unlock", "leave",
           "clear", "clear_last", "register", "deliver", "enable", "wait"}

(* Every variable has its type.                                            *)
TypeOK ==
  /\ cm7 \in Cores
  /\ lock \in Cores \cup {"none"}
  /\ flag \in [Cores -> BOOLEAN] /\ ier \in [Cores -> BOOLEAN]
  /\ handling \subseteq Cores /\ event \subseteq Threads
  /\ pc \in [Threads -> Places]
  /\ ring \in 0 .. Capacity /\ ready \subseteq Cores
  /\ exposed \subseteq Inside /\ masked \subseteq Threads
  /\ sentSince \in BOOLEAN /\ missed \in BOOLEAN

(* Of the two cores only one is at the ring at a time, but for a thread    *)
(* under whose feet another thread of its core released the semaphore: two *)
(* that send both pass the constructor, and the first to leave unlocks     *)
(* (DataIface_ShMem.cpp:164, 180).                                         *)
OneCoreAtRing == \A t, u \in Inside \ exposed : Core(t) = Core(u)

(* A receiver of the CM7 that sleeps while there are frames and no thread  *)
(* sends has an event or an interrupt that makes one, unless the flag that *)
(* the last sender raised was cleared where nobody looked at the ring      *)
(* afterwards: by the receiver's own destructor                            *)
(* (DataIface_ShMem.cpp:180-182), or by the handler before update_rx()     *)
(* listens (125); or unless that sender was exposed and raised none.       *)
SleepIsSafe ==
  /\ cm7 = "rx" /\ pc[Rx] = "wait"
  /\ "tx" \in ready /\ ring > 0 /\ ~missed /\ Inside \cap Senders = {}
  => Rx \in event \/ Pending("rx")

(* When the senders stop, or sleep in the constructor, for good, which     *)
(* leaves the semaphore to the receiver, the frames in the ring are        *)
(* received by the CM7, or fell in one of those windows.                   *)
Received ==
  cm7 = "rx" /\ <>[](\A t \in Senders : pc[t] \in {"out", "sleep"}) =>
    (("tx" \in ready /\ ring > 0) ~> (pc[Rx] = "deliver" \/ missed))

(* No wake-up is lost in the constructor on the CM7: a thread that sleeps  *)
(* for the semaphore tries again (DataIface_ShMem.cpp:160-167), or another *)
(* thread of its core masked its interrupt (171).                          *)
SleepersWake ==
  \A t \in Threads : (cm7 = Core(t) /\ pc[t] = "sleep") ~> (pc[t] = "try" \/ t \in masked)
=============================================================================
