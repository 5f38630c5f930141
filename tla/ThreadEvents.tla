---------------------------- MODULE ThreadEvents ----------------------------
(***************************************************************************)
(* The event operations of dronecan::posix::Thread                         *)
(* (DC_PAL_Posix/Threads.cpp): signal, register_evt, unregister_evt,       *)
(* wait_any and wait_all on ONE Thread object.  Only the thread the object *)
(* stands for waits on it (Threads::wait_any and Threads::wait_all go      *)
(* through Threads::current()); any thread may call the other operations.  *)
(*                                                                         *)
(* Each operation holds the object's semaphore from its first line to its  *)
(* return, except inside pthread_cond_timedwait, so one action models one  *)
(* critical section: a whole operation, or a wait up to its block, or a    *)
(* wait from a return of pthread_cond_timedwait to the next block or to    *)
(* the return.  An event_mask_t is the set of the bits that are set.       *)
(***************************************************************************)
EXTENDS Integers

CONSTANTS
  NumEvents,     \* bits of event_mask_t (32 in the code)
  UintRange,     \* number of values of the uint32_t timeout (2^32)
  NsecPerUsec,   \* 1000
  FreshMasks,    \* what an uninitialised event_mask_t may hold
  WaitOps        \* the waits the owner uses: a subset of {"any", "all"}

Event    == 0 .. NumEvents - 1
Timeouts == 0 .. UintRange - 1
Forever  == UintRange - 1          \* the caller's -1, converted to uint32_t

ASSUME ConstantsOK ==
  /\ NumEvents \in Nat
  /\ UintRange \in Nat \ {0}
  /\ NsecPerUsec \in Nat \ {0}
  /\ FreshMasks \subseteq SUBSET Event
  /\ WaitOps \subseteq {"any", "all"}

VARIABLES
  registered_events,  \* Thread::registered_events
  signalled_events,   \* Thread::signalled_events
  op,                 \* the wait blocked in pthread_cond_timedwait, or "none"
  evt_mask,           \* the owner's evt_mask: the argument, then the result
  timeout,            \* timeout_us of the last wait that blocked
  elapsed,            \* microseconds since it blocked, up to its deadline
  notified,           \* the condition variable was signalled since it blocked
  ret                 \* what the last wait returned

vars == <<registered_events, signalled_events, op, evt_mask, timeout, elapsed,
          notified, ret>>
evts == <<registered_events, signalled_events>>
call == <<op, timeout, elapsed, notified, ret>>

-----------------------------------------------------------------------------
(* The deadline.  timeout_us * 1000 is a product of uint32_t values: it    *)
(* wraps before it is added to tv_nsec.                                    *)

WaitNsec(t) == (t * NsecPerUsec) % UintRange

\* The same as whole microseconds of the clock, rounded up.
WaitUsec(t) == (WaitNsec(t) + NsecPerUsec - 1) \div NsecPerUsec
-----------------------------------------------------------------------------
(* The constructor leaves both masks uninitialised: allocate() takes the   *)
(* memory from malloc and nothing clears it.                               *)
Init ==
  /\ registered_events \in FreshMasks
  /\ signalled_events \in FreshMasks
  /\ op = "none"
  /\ evt_mask = {}
  /\ timeout = 0
  /\ elapsed = 0
  /\ notified = FALSE
  /\ ret = FALSE

(* Mutant of Signal: the condition variable is left alone. *)
SignalWithoutCond(events) ==
  /\ signalled_events' = IF events \cap registered_events # {}
                         THEN signalled_events \cup events
                         ELSE signalled_events
  /\ UNCHANGED <<registered_events, op, evt_mask, timeout, elapsed, notified, ret>>

Signal(events) ==
  \/ /\ events \cap registered_events # {}
     /\ signalled_events' = signalled_events \cup events
     /\ notified' = (op # "none")     \* pthread_cond_signal: lost when nobody waits
     /\ UNCHANGED <<registered_events, op, evt_mask, timeout, elapsed, ret>>
  \/ /\ events \cap registered_events = {}
     /\ UNCHANGED vars

(* Mutant of RegisterEvt: -1, for none left, is used as a bit. *)
RegisterEvtUnchecked(id) ==
  /\ \/ registered_events = Event /\ id = -1
     \/ /\ id \in Event \ registered_events
        /\ \A other \in Event \ registered_events : id <= other
  /\ registered_events' = registered_events \cup {id}
  /\ UNCHANGED <<signalled_events, evt_mask, call>>

\* register_evt() returns id: the lowest free bit, or -1 when there is none.
RegisterEvt(id) ==
  /\ \/ /\ registered_events = Event
        /\ id = -1
        /\ UNCHANGED registered_events
     \/ /\ id \in Event \ registered_events
        /\ \A other \in Event \ registered_events : id <= other
        /\ registered_events' = registered_events \cup {id}
  /\ UNCHANGED <<signalled_events, evt_mask, call>>

\* The bit is given back; a signal that was latched for it stays latched.
UnregisterEvt(id) ==
  /\ registered_events' = registered_events \ {id}
  /\ UNCHANGED <<signalled_events, evt_mask, call>>

-----------------------------------------------------------------------------
(* Waiting. *)

AnyArrived(mask) == signalled_events \cap mask # {}
AllArrived(mask) == mask \subseteq signalled_events /\ mask # {}

Arrived == \/ op = "any" /\ AnyArrived(evt_mask)
           \/ op = "all" /\ AllArrived(evt_mask)

\* The condition does not hold yet: block until a signal or the deadline.
Block(kind, mask, t) ==
  /\ op' = kind
  /\ evt_mask' = mask
  /\ timeout' = t
  /\ elapsed' = 0
  /\ notified' = FALSE
  /\ UNCHANGED <<evts, ret>>

\* The first test of a wait succeeds: only the events waited for are taken,
\* and the caller's mask is left as it was.
TakeAtOnce(mask) ==
  /\ signalled_events' = signalled_events \ mask
  /\ evt_mask' = mask
  /\ ret' = TRUE
  /\ UNCHANGED <<registered_events, op, timeout, elapsed, notified>>

(* Mutant of WaitAny: it blocks without looking at what is latched. *)
WaitAnyUnchecked(mask, t) == op = "none" /\ Block("any", mask, t)

WaitAny(mask, t) ==
  /\ op = "none"
  /\ \/ AnyArrived(mask) /\ TakeAtOnce(mask)
     \/ ~AnyArrived(mask) /\ Block("any", mask, t)

WaitAll(mask, t) ==
  /\ op = "none"
  /\ \/ AllArrived(mask) /\ TakeAtOnce(mask)
     \/ ~AllArrived(mask) /\ Block("all", mask, t)

(* Mutant of Return: wait_any does not hand the events back. *)
ReturnUnreported(result) ==
  /\ op' = "none"
  /\ signalled_events' = {}
  /\ notified' = FALSE
  /\ elapsed' = 0
  /\ ret' = result
  /\ UNCHANGED <<registered_events, evt_mask, timeout>>

\* A wait that blocked returns: every latched event is cleared, and wait_any
\* hands them all back (wait_all has its mask by value).
Return(result) ==
  /\ op' = "none"
  /\ evt_mask' = IF op = "any" THEN signalled_events ELSE evt_mask
  /\ signalled_events' = {}
  /\ notified' = FALSE
  /\ elapsed' = 0
  /\ ret' = result
  /\ UNCHANGED <<registered_events, timeout>>

\* pthread_cond_timedwait returns 0 and the condition is tested again.
Woken ==
  /\ op # "none"
  /\ \/ Arrived /\ Return(TRUE)
     \/ /\ ~Arrived
        /\ notified' = FALSE
        /\ UNCHANGED <<evts, op, evt_mask, timeout, elapsed, ret>>

WakeUp == notified /\ Woken
SpuriousWakeUp == ~notified /\ Woken

\* pthread_cond_timedwait returns ETIMEDOUT, whatever was signalled meanwhile.
TimeOut ==
  /\ op # "none"
  /\ elapsed = WaitUsec(timeout)
  /\ Return(FALSE)

\* One microsecond passes.
Tick ==
  /\ elapsed' = IF op # "none" /\ elapsed < WaitUsec(timeout)
                THEN elapsed + 1 ELSE elapsed
  /\ UNCHANGED <<evts, evt_mask, op, timeout, notified, ret>>

-----------------------------------------------------------------------------
(* The object with its owner and any number of other threads. *)

Next ==
  \/ \E S \in SUBSET Event : Signal(S)
  \/ \E id \in Event \cup {-1} : RegisterEvt(id)
  \/ \E id \in Event : UnregisterEvt(id)
  \/ \E mask \in SUBSET Event, t \in Timeouts :
       \/ "any" \in WaitOps /\ WaitAny(mask, t)
       \/ "all" \in WaitOps /\ WaitAll(mask, t)
  \/ WakeUp
  \/ SpuriousWakeUp
  \/ TimeOut
  \/ Tick

\* A thread that pthread_cond_signal released gets to run.  Nothing is
\* assumed of the clock, of the other threads or of spurious wake-ups.
Fairness == WF_vars(WakeUp)

Spec     == Init /\ [][Next]_vars
FairSpec == Spec /\ Fairness

-----------------------------------------------------------------------------
(* Properties. *)

(* Every variable has its type; a wait in progress is one the owner uses   *)
(* and has not run past its deadline.                                      *)
TypeOK ==
  /\ registered_events \in SUBSET Event
  /\ signalled_events \in SUBSET Event
  /\ op \in {"none"} \cup WaitOps
  /\ evt_mask \in SUBSET Event
  /\ timeout \in Timeouts
  /\ elapsed \in 0 .. WaitUsec(timeout)
  /\ notified \in BOOLEAN
  /\ ret \in BOOLEAN

(* No wake-up is missed: whenever what a blocked wait waits for has been   *)
(* signalled, the condition variable has been signalled too and the owner  *)
(* has not yet consumed that signal.  It takes signal() and the two halves *)
(* of a wait together: latching and waking in one critical section,        *)
(* testing and blocking in another.                                        *)
NoMissedWakeUp == Arrived => notified

(* Once what a blocked wait waits for has been signalled, the wait returns *)
(* without the help of its timeout, even if the clock stands still.        *)
SignalEndsWait == Arrived ~> op = "none"

(* The detailed object implements the abstract flags: events are latched,  *)
(* and leave the latch only by being reported to the owner, except that a  *)
(* wait_all that blocked discards all of them when it ends, whether it got *)
(* what it waited for or timed out.                                        *)
Flags == INSTANCE EventFlags
           WITH pending <- signalled_events, reported <- evt_mask, all <- (op = "all")
ImplementsFlags == Flags!Spec
=============================================================================
