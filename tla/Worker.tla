------------------------------- MODULE Worker -------------------------------
(***************************************************************************)
(* dronecan::Worker and its WorkerObjects (DC_PAL/Worker.cpp, Worker.h) on *)
(* top of the events of one posix Thread (ThreadEvents).  Three parties:   *)
(*                                                                         *)
(*   - the worker thread, in Worker::run(): walk the list of objects under *)
(*     the semaphore and call the ones that are due, plan the next         *)
(*     trigger, wait for an event or for that trigger;                     *)
(*   - clients, that register and unregister objects and signal events,    *)
(*     from threads of their own or from a callback: the semaphore is      *)
(*     recursive and the worker thread has it while it calls them;         *)
(*   - the owner, that starts the worker and destroys it once the other    *)
(*     threads are done with it.                                           *)
(*                                                                         *)
(* The list is the code's own: a head pointer and one next pointer per     *)
(* object.  A walk of the worker thread is a step per object, since        *)
(* callbacks take time; what a client does under the semaphore is one      *)
(* action.  A callback may unregister and destroy its own object, and the  *)
(* thread goes on from that object's next pointer, whatever it holds by    *)
(* then.  No callback destroys the Worker that calls it.  Times are        *)
(* relative to now: the next trigger of an object is the time left, or     *)
(* Overdue once it lies in the past.  The memory of the Worker starts out  *)
(* zeroed (worker_obj_head and thread have no initialiser).                *)
(***************************************************************************)
EXTENDS Integers, FiniteSets, FiniteSetsExt

CONSTANTS
  Objects,      \* the WorkerObjects
  Periodic,     \* those that are PeriodicWorkerObjects; the rest wait for events
  Period,       \* PeriodicWorkerObject::period_us
  Mask,         \* EventWorkerObject::evt_mask
  TriggerAny,   \* the event objects whose trigger_any is set
  NULL,         \* nullptr
  Careless,     \* clients re-register used objects, unregister unregistered ones
  NumEvents, UintRange, NsecPerUsec, FreshMasks, WaitOps

VARIABLES
  head,         \* Worker::worker_obj_head
  next,         \* WorkerObject::next
  attached,     \* the objects whose WorkerObject::worker is this Worker
  due,          \* next_trigger_time_us of the periodic objects
  sem,          \* who holds Worker::sem; "stuck": a loop that never ends
  pc,           \* where the worker thread is in run()
  curr,         \* run()'s curr_worker
  planned,      \* run()'s next_trigger_us
  wait_us,      \* the timeout run() is about to wait with
  thread,       \* Worker::thread is assigned
  phase,        \* of ~Worker(); "done": the Worker is gone
  doomed,       \* ~Worker()'s curr_worker
  next_worker,  \* ~Worker()'s next_worker
  strayed,      \* auxiliary: a callback destroyed its object and what came next
  late,         \* auxiliary: a callback used the list while ~Worker() ran
  registered_events, signalled_events, op, evt_mask, timeout, elapsed, notified, ret

Thread == INSTANCE ThreadEvents

events == <<registered_events, signalled_events>>
call  == <<op, timeout, elapsed, notified, ret>>
wait  == <<events, evt_mask, call>>
list  == <<head, next, attached>>
loop  == <<pc, curr, planned, wait_us>>
owner == <<thread, phase, doomed, next_worker>>
aux   == <<strayed, late>>
vars  == <<list, due, sem, loop, owner, wait, aux>>

EventObjects == Objects \ Periodic
NoTrigger == -2      \* next_trigger_us = 0: no periodic object is registered
Overdue   == -1

ASSUME WorkerConstantsOK ==
  /\ IsFiniteSet(Objects) /\ NULL \notin Objects
  /\ Periodic \subseteq Objects
  /\ TriggerAny \subseteq EventObjects
  /\ Period \in [Periodic -> Thread!Timeouts]
  /\ Mask \in [EventObjects -> SUBSET Thread!Event]
  /\ Careless \in BOOLEAN
  /\ WaitOps = {"any"}
  /\ Thread!ConstantsOK

-----------------------------------------------------------------------------
(* The list. *)

\* S holds the head and, with every object, the object its next points to.
Closed(S) == /\ head # NULL => head \in S
             /\ \A o \in S : next[o] # NULL => next[o] \in S

\* The objects a walk from the head meets.
Chain == {o \in Objects : \A S \in SUBSET Objects : Closed(S) => o \in S}

Tails == {o \in Chain : next[o] = NULL}

\* set_worker() also restarts the period, with nullptr just the same.
RestartPeriod(o) ==
  due' = IF o \in Periodic THEN [due EXCEPT ![o] = Period[o]] ELSE due

Init ==
  /\ head = NULL
  /\ next = [o \in Objects |-> NULL]
  /\ attached = {}
  /\ due = [o \in Periodic |-> Period[o]]
  /\ sem = "free"
  /\ pc = "none"
  /\ curr = NULL
  /\ planned = NoTrigger
  /\ wait_us = 0
  /\ thread = FALSE
  /\ phase = "none"
  /\ doomed = NULL
  /\ next_worker = NULL
  /\ strayed = FALSE
  /\ late = FALSE
  /\ Thread!Init

-----------------------------------------------------------------------------
(* Clients.  No other thread uses the Worker once it is being destroyed;   *)
(* a callback that still runs may.                                         *)

InUse == phase = "none"

\* The semaphore is free, or the caller is a callback, whose thread has it.
CanEnter == \/ InUse /\ sem = "free"
            \/ pc = "callback" /\ sem = "run"

(* Mutant of Append: the object becomes the head and the others are lost. *)
AppendAtHead(o) ==
  /\ head' = o
  /\ UNCHANGED next

Append(o) ==
  \/ /\ head = NULL
     /\ head' = o
     /\ UNCHANGED next
  \/ \E last \in Tails :
       /\ next' = [next EXCEPT ![last] = o]
       /\ UNCHANGED head

\* A new object is unlinked; a used one is whatever unregistering left of it.
\* Without a last element the search for one never ends.
Register(o) ==
  /\ CanEnter
  /\ Careless \/ (next[o] = NULL /\ o \notin attached)
  /\ attached' = attached \cup {o}
  /\ RestartPeriod(o)
  /\ \/ /\ Append(o)
        /\ UNCHANGED sem
     \/ /\ head # NULL /\ Tails = {}
        /\ sem' = "stuck"
        /\ UNCHANGED <<head, next>>
  /\ late' = (late \/ ~InUse)
  /\ UNCHANGED <<loop, owner, wait, strayed>>

\* The unlinked object keeps its next pointer.
Unlink(o) ==
  /\ attached' = attached \ {o}
  /\ RestartPeriod(o)
  /\ \/ /\ head = o
        /\ head' = next[o]
        /\ UNCHANGED next
     \/ /\ head # o
        /\ next[head] = o
        /\ next' = [next EXCEPT ![head] = next[o]]
        /\ UNCHANGED head

(* Mutant of UnregisterBody: the second object is missed as well. *)
UnregisterHeadOnly(o) ==
  \/ head = o /\ Unlink(o) /\ UNCHANGED sem
  \/ head # o /\ sem' = "stuck" /\ UNCHANGED <<list, due>>

\* The search compares the head's next again and again: it never gets to a
\* third object and never returns.
UnregisterBody(o) ==
  \/ /\ head = NULL
     /\ UNCHANGED <<list, due, sem>>
  \/ /\ head # NULL
     /\ Unlink(o)
     /\ UNCHANGED sem
  \/ /\ head # NULL /\ head # o /\ next[head] # o
     /\ sem' = "stuck"
     /\ UNCHANGED <<list, due>>

(* Mutant of Unregister: without the semaphore. *)
UnregisterUnlocked(o) ==
  /\ InUse
  /\ o \in attached
  /\ Unlink(o)
  /\ UNCHANGED <<sem, loop, owner, wait, aux>>

\* The callback that runs has unregistered its own object.
Orphaned == pc = "callback" /\ curr \notin attached

Unregister(o) ==
  /\ CanEnter
  /\ Careless \/ o \in attached
  /\ UnregisterBody(o)
  /\ strayed' = (strayed \/ (Orphaned /\ next[curr] \in attached \ attached'))
  /\ late' = (late \/ ~InUse)
  /\ UNCHANGED <<loop, owner, wait>>

\* An unregistered object is destroyed and another constructed in its place.
Construct(o) ==
  /\ o \notin attached
  /\ next' = [next EXCEPT ![o] = NULL]
  /\ strayed' = (strayed \/ (Orphaned /\ o = curr /\ next[curr] # NULL))
  /\ UNCHANGED <<head, attached, due, sem, loop, owner, wait, late>>

\* Worker::signal and Worker::register_evt go through the thread pointer.
Signal(S) ==
  /\ InUse \/ pc = "callback"
  /\ thread
  /\ Thread!Signal(S)
  /\ UNCHANGED <<list, due, sem, loop, owner, aux>>

RegisterEvt(id) ==
  /\ InUse \/ pc = "callback"
  /\ thread
  /\ Thread!RegisterEvt(id)
  /\ UNCHANGED <<list, due, sem, loop, owner, aux>>

-----------------------------------------------------------------------------
(* The owner: start(), and the destructor. *)

(* Mutant of StartCreate: without the semaphore. *)
StartCreateUnlocked ==
  /\ InUse
  /\ pc = "none"
  /\ sem = "free"
  /\ pc' = "lock"
  /\ UNCHANGED <<list, due, sem, curr, planned, wait_us, owner, wait, aux>>

\* start() takes the semaphore and creates the thread, which begins to run ...
StartCreate ==
  /\ InUse
  /\ pc = "none"
  /\ sem = "free"
  /\ sem' = "start"
  /\ pc' = "lock"
  /\ UNCHANGED <<list, due, curr, planned, wait_us, owner, wait, aux>>

\* ... before its pointer is assigned and the semaphore given back.
StartAssign ==
  /\ InUse
  /\ pc # "none" /\ ~thread
  /\ thread' = TRUE
  /\ sem' = IF sem = "start" THEN "free" ELSE sem
  /\ UNCHANGED <<list, due, loop, phase, doomed, next_worker, wait, aux>>

(* Mutant of DestroyBegin: the objects are not unregistered. *)
DestroyBeginNoWalk ==
  /\ InUse
  /\ phase' = IF thread THEN "cancel" ELSE "done"
  /\ UNCHANGED <<list, due, sem, loop, thread, doomed, next_worker, wait, aux>>

\* The owner destroys the Worker when no other thread's call on it is in
\* progress; the head is read without the semaphore.  A Worker that was never
\* started forgets its objects without telling them.
DestroyBegin ==
  /\ InUse
  /\ sem \in {"free", "run"} \/ pc = "callback"
  /\ \/ /\ thread
        /\ phase' = "walk"
        /\ doomed' = head
     \/ /\ ~thread
        /\ phase' = "done"
        /\ UNCHANGED doomed
  /\ UNCHANGED <<list, due, sem, loop, thread, next_worker, wait, aux>>

\* So is the next pointer, before the object is unregistered.
DestroyReadNext ==
  /\ phase = "walk"
  /\ doomed # NULL
  /\ next_worker' = next[doomed]
  /\ phase' = "unregister"
  /\ UNCHANGED <<list, due, sem, loop, thread, doomed, wait, aux>>

DestroyUnregister ==
  /\ phase = "unregister"
  /\ sem = "free"
  /\ UnregisterBody(doomed)
  /\ doomed' = next_worker
  /\ next_worker' = NULL
  /\ phase' = "walk"
  /\ UNCHANGED <<loop, thread, wait, aux>>

(* Mutant of DestroyCancel: objects are left registered. *)
DestroyCancelEarly ==
  /\ phase = "walk"
  /\ phase' = "cancel"
  /\ UNCHANGED <<list, due, sem, loop, thread, doomed, next_worker, wait, aux>>

\* ~Thread(): pthread_cancel, and pthread_join until the thread is gone.
DestroyCancel ==
  /\ phase = "walk"
  /\ doomed = NULL
  /\ phase' = "cancel"
  /\ UNCHANGED <<list, due, sem, loop, thread, doomed, next_worker, wait, aux>>

DestroyJoin ==
  /\ phase = "cancel"
  /\ pc = "gone"
  /\ phase' = "done"
  /\ UNCHANGED <<list, due, sem, loop, thread, doomed, next_worker, wait, aux>>

-----------------------------------------------------------------------------
(* The worker thread: run(). *)

(* Mutant of RunLock: the reported events are reset at the top of the loop. *)
RunLockForgets ==
  /\ pc = "lock"
  /\ sem = "free"
  /\ sem' = "run"
  /\ pc' = "walk"
  /\ curr' = head
  /\ evt_mask' = {}
  /\ strayed' = FALSE
  /\ UNCHANGED <<list, due, planned, wait_us, owner, events, call, late>>

\* The walk begins, with what the last wait reported in evt_mask.
RunLock ==
  /\ pc = "lock"
  /\ sem = "free"
  /\ sem' = "run"
  /\ pc' = "walk"
  /\ curr' = head
  /\ strayed' = FALSE
  /\ UNCHANGED <<list, due, planned, wait_us, owner, wait, late>>

\* The two operator() of an object: is its callback called?
Triggered(o) ==
  IF o \in Periodic
  THEN due[o] <= 0
  ELSE \/ Mask[o] \subseteq evt_mask
       \/ o \in TriggerAny /\ Mask[o] \cap evt_mask # {}

WalkCall ==
  /\ pc = "walk"
  /\ curr # NULL
  /\ Triggered(curr)
  /\ pc' = "callback"
  /\ UNCHANGED <<list, due, sem, curr, planned, wait_us, owner, wait, aux>>

\* The callback returned; the next trigger is a period from now.  Both are an
\* access to the object, even if the callback has unregistered it.
CallbackReturn ==
  /\ pc = "callback"
  /\ sem = "run"
  /\ pc' = "walk"
  /\ RestartPeriod(curr)
  /\ curr' = next[curr]
  /\ UNCHANGED <<list, sem, planned, wait_us, owner, wait, aux>>

WalkSkip ==
  /\ pc = "walk"
  /\ curr # NULL
  /\ ~Triggered(curr)
  /\ curr' = next[curr]
  /\ UNCHANGED <<list, due, sem, pc, planned, wait_us, owner, wait, aux>>

(* Mutant of WalkDone: the semaphore is not given back. *)
WalkDoneLocked ==
  /\ pc = "walk"
  /\ curr = NULL
  /\ pc' = "plan"
  /\ UNCHANGED <<list, due, sem, curr, planned, wait_us, owner, wait, aux>>

WalkDone ==
  /\ pc = "walk"
  /\ curr = NULL
  /\ sem' = "free"
  /\ pc' = "plan"
  /\ UNCHANGED <<list, due, curr, planned, wait_us, owner, wait, aux>>

NextTrigger == IF Chain \cap Periodic = {} THEN NoTrigger
               ELSE Min({due[o] : o \in Chain \cap Periodic})

\* get_next_trigger_us().  In a list without an end it never returns.
Plan ==
  /\ pc = "plan"
  /\ sem = "free"
  /\ \/ /\ head = NULL \/ Tails # {}
        /\ planned' = NextTrigger
        /\ pc' = "clock"
        /\ UNCHANGED sem
     \/ /\ head # NULL /\ Tails = {}
        /\ sem' = "stuck"
        /\ UNCHANGED <<pc, planned>>
  /\ UNCHANGED <<list, due, curr, wait_us, owner, wait, aux>>

\* The clock is read, and then the registered events, without their semaphore.
\* A next trigger in the past, and the 0 that means there is none, both are
\* less than the time.
ReadClockAndMask ==
  /\ pc = "clock"
  /\ wait_us' = IF planned < 0 THEN Thread!Forever ELSE planned
  /\ planned' = NoTrigger
  /\ evt_mask' = registered_events
  /\ pc' = "enter"
  /\ UNCHANGED <<list, due, sem, curr, owner, events, call, aux>>

EnterWait ==
  /\ pc = "enter"
  /\ Thread!WaitAny(evt_mask, wait_us)
  /\ pc' = IF op' = "none" THEN "lock" ELSE "wait"
  /\ wait_us' = 0
  /\ UNCHANGED <<list, due, sem, curr, planned, owner, aux>>

\* The wait goes on, or it returns and the next walk begins.
WaitStep ==
  /\ pc = "wait"
  /\ pc' = IF op' = "none" THEN "lock" ELSE "wait"
  /\ UNCHANGED <<list, due, sem, curr, planned, wait_us, owner, aux>>

WakeUp         == Thread!WakeUp /\ WaitStep
SpuriousWakeUp == Thread!SpuriousWakeUp /\ WaitStep
TimeOut        == Thread!TimeOut /\ WaitStep

(* Mutant of Cancelled: the thread is never blocked where it can be        *)
(* cancelled.                                                              *)
CancelledInCallback ==
  /\ phase = "cancel"
  /\ pc = "callback" /\ sem = "run"
  /\ pc' = "gone"
  /\ UNCHANGED <<list, due, sem, curr, planned, wait_us, owner, wait, aux>>

\* A cancelled thread goes at a cancellation point: pthread_cond_timedwait,
\* or one of a callback's own.  Semaphores are not cancellation points, nor is
\* a search that never ends.
Cancelled ==
  /\ phase = "cancel"
  /\ pc = "wait" \/ (pc = "callback" /\ sem = "run")
  /\ pc' = "gone"
  /\ UNCHANGED <<list, due, sem, curr, planned, wait_us, owner, wait, aux>>

-----------------------------------------------------------------------------
\* A microsecond later, t lies that much closer, or in the past.
Later(t) == IF t > Overdue THEN t - 1 ELSE t

Tick ==
  /\ due' = [o \in Periodic |-> Later(due[o])]
  /\ planned' = Later(planned)
  /\ Thread!Tick
  /\ UNCHANGED <<list, sem, pc, curr, wait_us, owner, aux>>

Client ==
  \/ \E o \in Objects : Register(o) \/ Unregister(o) \/ Construct(o)
  \/ \E S \in SUBSET Thread!Event : Signal(S)
  \/ \E id \in Thread!Event \cup {-1} : RegisterEvt(id)

Owner ==
  \/ StartCreate \/ StartAssign
  \/ DestroyBegin \/ DestroyReadNext \/ DestroyUnregister \/ DestroyCancel \/ DestroyJoin

Run ==
  \/ RunLock \/ WalkCall \/ CallbackReturn \/ WalkSkip \/ WalkDone
  \/ Plan \/ ReadClockAndMask \/ EnterWait
  \/ WakeUp \/ SpuriousWakeUp \/ TimeOut \/ Cancelled

Next == Client \/ Owner \/ Run \/ Tick

\* The scheduler runs the worker thread, callbacks return, time passes, a
\* call that was begun is carried on, and whoever waits for the semaphore
\* gets it at last, as often as others may get it first.  A cancellation
\* that is pending is acted on at a cancellation point: the thread does not
\* block and wake up there again and again.
Fairness ==
  /\ WF_vars(WalkCall \/ CallbackReturn \/ WalkSkip \/ WalkDone)
  /\ WF_vars(ReadClockAndMask \/ EnterWait)
  /\ WF_vars(WakeUp) /\ WF_vars(TimeOut)
  /\ WF_vars(Tick)
  /\ WF_vars(StartAssign \/ DestroyReadNext \/ DestroyCancel \/ DestroyJoin)
  /\ SF_vars(RunLock) /\ SF_vars(Plan) /\ SF_vars(DestroyUnregister)
  /\ SF_vars(Cancelled)

Spec     == Init /\ [][Next]_vars
FairSpec == Spec /\ Fairness
-----------------------------------------------------------------------------
(* Properties. *)

(* Every variable has its type. *)
TypeOK ==
  /\ head \in Objects \cup {NULL}
  /\ next \in [Objects -> Objects \cup {NULL}]
  /\ attached \subseteq Objects
  /\ due \in [Periodic -> Overdue .. Thread!Forever]
  /\ sem \in {"free", "start", "run", "stuck"}
  /\ pc \in {"none", "lock", "walk", "callback", "plan", "clock", "enter", "wait", "gone"}
  /\ curr \in Objects \cup {NULL}
  /\ planned \in NoTrigger .. Thread!Forever
  /\ wait_us \in Thread!Timeouts
  /\ thread \in BOOLEAN
  /\ phase \in {"none", "walk", "unregister", "cancel", "done"}
  /\ {doomed, next_worker} \subseteq Objects \cup {NULL}
  /\ {strayed, late} \subseteq BOOLEAN
  /\ Thread!TypeOK

(* The worker thread comes to no object that was unregistered: once        *)
(* unregister_worker has returned, the client may destroy the object, even *)
(* if the thread was in the middle of its walk and about to come to it.    *)
(* It still writes and reads the object of a callback that unregistered    *)
(* itself (Worker.h:120, Worker.cpp:79); from there it finds its way,      *)
(* unless that callback also unregistered the next object or had its own   *)
(* constructed anew.                                                       *)
NoUseAfterUnregister ==
  \/ strayed
  \/ /\ pc = "walk" /\ curr # NULL => curr \in attached
     /\ Orphaned => next[curr] \in attached \cup {NULL}

(* The pointers and the objects agree: the objects a walk meets are those  *)
(* that were registered and not unregistered since.  None is lost by the   *)
(* removal of another, none stays behind.  (Worker.cpp:93-135)             *)
RegisteredIsListed == Chain = attached

(* The thread that start() creates uses the Worker's thread pointer only   *)
(* after start() has assigned it, although it is created before.           *)
ThreadSetBeforeUse == pc \in {"clock", "enter", "wait"} => thread

(* After ~Worker() has cancelled the thread no callback begins, and no     *)
(* object holds a pointer to the Worker any more -- unless the Worker was  *)
(* never started, or callbacks go on registering objects meanwhile.  One   *)
(* callback may still run, whose object it has unregistered itself         *)
(* (Worker.cpp:25 finds the list empty and does not wait), but no longer   *)
(* than the Worker is there.                                               *)
QuietAfterDestroy ==
  /\ phase \in {"cancel", "done"} /\ thread /\ ~late
     => attached = {} /\ (pc = "walk" /\ curr # NULL => strayed)
  /\ phase = "done" => pc \in {"none", "gone"}

(* Every search of the list ends.  The comment of the code's own           *)
(* assertions, "Should be unreachable" (Worker.cpp:110, 134), says that a  *)
(* search finds what it looks for.  One of ~Worker() need not, when a      *)
(* callback has unregistered the object just before.                       *)
SearchEnds == sem = "stuck" => late

(* Seen from those whose callbacks it calls, the Worker is a registry that *)
(* calls one registered object at a time, and none once it is closed; its  *)
(* list, its semaphore and its thread only implement that.                 *)
Registry == INSTANCE CallbackRegistry
              WITH registered <- attached,
                   running <- IF pc = "callback" THEN curr ELSE NULL,
                   started <- thread,
                   open <- phase \notin {"cancel", "done"},
                   astray <- strayed
ImplementsRegistry == Registry!Spec

(* A periodic object that stays registered with a running Worker is called *)
(* again and again, whatever clients signal, register and unregister --    *)
(* until ~Worker() hangs because a callback used the list meanwhile.       *)
PeriodicRuns ==
  \A o \in Periodic :
    [](thread /\ o \in attached
       => <>(o \notin attached \/ (pc = "callback" /\ curr = o) \/ late))

(* An event that was signalled reaches every object that is registered for *)
(* it (with trigger_any, or for this event alone), even when the event was *)
(* registered only after the thread had begun to wait for others -- but    *)
(* not if a callback had its object constructed anew under the walk, which *)
(* ends there, or ~Worker() hangs as above.                                *)
EventDelivered ==
  \A o \in EventObjects, e \in Thread!Event :
    [](/\ thread /\ o \in attached
       /\ e \in signalled_events \cap registered_events
       /\ Mask[o] = {e} \/ (o \in TriggerAny /\ e \in Mask[o])
       => <>(o \notin attached \/ (pc = "callback" /\ curr = o) \/ strayed \/ late))

(* ~Worker() comes to its end: the objects are unregistered between the    *)
(* walks of a running thread, and the thread gets to a point where it can  *)
(* be cancelled.  A callback that uses the list meanwhile may break that.  *)
DestroyTerminates == phase # "none" ~> (phase = "done" \/ late)

(* A trigger that was planned bounds the wait: the periodic callbacks are  *)
(* called, test_worker.cpp:98 checks, at their period.                     *)
TriggerBoundsWait ==
  [][pc = "clock" /\ pc' = "enter" /\ planned # NoTrigger
     => wait_us' # Thread!Forever]_vars

(* The list has a last element, so that a search for it ends; the          *)
(* assertion at the end of register_worker's search (Worker.cpp:110) calls *)
(* what comes after "Should be unreachable".                               *)
ListHasEnd == head # NULL => Tails # {}
=============================================================================
