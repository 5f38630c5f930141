# libdronecan in TLA+

TLA+ models of libdronecan, TLC configurations that check them on small
instances, and TLAPS proofs of the theorems that matter most. Line numbers are
those of the sources; `PROJECT.json` maps every definition to its lines.

## 1. The system

libdronecan is a platform layer (`DC_PAL`, with POSIX, ChibiOS and ArduPilot
back ends) and, on top of it, DroneCAN data interfaces (`DC_DataIface`) and a
frame router (`DC_Router`).

| component | state | operations | interacts with |
|---|---|---|---|
| `posix::Thread` events (`DC_PAL_Posix/Threads.cpp:125-242`) | registered and signalled masks, condition variable, semaphore | signal, register_evt, unregister_evt, wait_any, wait_all | anyone signals; only the owning thread waits |
| thread life cycle (`Threads.cpp:32-123, 244-315`) | pthread, TLS pointer, the global list of threads | start, stop, current, register_main_thread, destructors | `List<Thread>`, cancellation, every wait goes through the TLS pointer |
| `Worker`, `WorkerObject`s (`DC_PAL/Worker.*`) | object list, semaphore, next triggers, thread pointer | start, run, register_worker, unregister_worker, signal, ~Worker | walks the list and calls back under its recursive semaphore, so callbacks use it too; waits with `Thread::wait_any` |
| `Semaphore` (`DC_PAL_Posix/Semaphore.cpp`) | recursive pthread mutex | take(forever / try / timed), give | everything |
| `List<T>` (`DC_PAL/List.h`) | head and next pointers, one semaphore | add, remove, get, iterators | threads, router interfaces |
| `Callback` chains (`DC_PAL/Callbacks.h`, `CAN.h`) | next pointers | register_cb, unregister_cb, call_all | CAN back ends |
| `RawIface::Buffer` (`DC_DataIface/DataIface_Raw.*`) | byte ring with head and tail | push, pop, reset | the shared-memory interface |
| `ShMemIface` (`DataIface_ShMem.*`) | two rings in memory shared by two cores, hardware semaphores | init handshake, send, receive | the other core |
| `LogFileIface` (`DataIface_LogFile.*`) | a file, CRC-framed packets | send, receive | `FileSystem` |
| `ArduPilotIface` (`DataIface_ArduPilot.*`) | queue of frames and the mask of interfaces still to send on | send, receive | ArduPilot's CAN |
| `Router` (`DC_Router/router.*`) | list of interfaces with their forwarding masks | add_interface, route_frame, run | data interfaces, List |
| `micros64` of ChibiOS (`DC_PAL_ChibiOS/Utils.cpp`) | last 32-bit time and an overflow count | micros64 | any thread |
| `FileSystem`, `Serial`, `Serial_UDP_Socket`, board files | handles | thin calls into the OS | — |

What is hard here, and what a test hardly reaches: wake-ups lost between a test
and a block; a timeout that races a signal; the worker thread's walk against
registrations, by other threads and by the callbacks it makes, and the destructor; the thread that starts before its pointer is
assigned; products of `uint32_t` that wrap; lists whose links outlive a removal;
rings at their limit. `PROJECT.json` lists these hazards at their lines with the
properties that cover them.

What makes each component correct:

* thread events: no wake-up is missed; a signalled wait ends without its
  timeout; no event leaves the latch unreported, but for the end of a wait for
  all;
* thread life cycle: a running thread's object is alive and is what `current()`
  gives it; nothing is destroyed twice; nothing survives `~Threads`; a stop ends;
* Worker: the walk comes to no unregistered object, even when callbacks change the
  list under it; the list holds exactly the registered objects; callbacks keep
  coming; every signalled event reaches its objects; destruction is quiet and ends;
* Semaphore: a recursive lock, whatever way it is taken; who waits for ever gets it;
* List: what is added is reached, what is removed is not, links end;
* callbacks: a chain holds what is registered, in order; a call goes on with what
  it owes, whoever comes and goes during it; links end;
* the ring: a FIFO of whole frames, never more than fits;
* shared memory: one core at a time at the ring; frames wake the receiver; a release
  wakes who sleeps for it;
* router: a frame goes once to every other interface that wants it.

## 2. Modules

| module | what it is |
|---|---|
| `EventFlags` | abstract: a set of latched event flags; an event leaves it only by being reported, or at the end of a wait for all of several |
| `ThreadEvents` | one `posix::Thread` object's events in detail; implements `EventFlags` |
| `ThreadEventsProofs` | its theorems |
| `MCThreadEvents` (1 cfg) | its TLC instance |
| `CallbackRegistry` | abstract: what a Worker promises to its clients; one registered object is called at a time, and none once it is closed |
| `Worker` | the Worker, its objects, clients and owner; uses `ThreadEvents` (INSTANCE) for the thread it waits on; implements `CallbackRegistry` |
| `WorkerProofs` | its theorems; those of `ThreadEvents` are used for the thread |
| `MCWorker` (4 cfg) | its TLC instances |
| `IntrusiveList` | `List<T>`: objects that join and leave a global list, and an iteration over it |
| `IntrusiveListProofs` | its theorems |
| `MCIntrusiveList` (1 cfg) | its TLC instance |
| `ThreadLifecycle` (1 cfg) | `Threads` and the life of threads and their objects; the objects' list is an INSTANCE of `IntrusiveList` |
| `ThreadLifecycleProofs` | its theorems; those of `IntrusiveList` are used for the list |
| `RecursiveLock` | abstract: one thread at a time has it, as often as it took it |
| `Semaphore` | `dronecan::Semaphore` system call by system call; implements `RecursiveLock` |
| `SemaphoreProofs` | its theorems |
| `MCSemaphore` (1 cfg) | its TLC instance |
| `ByteRing` | `RawIface::Buffer`: frames byte by byte in a ring |
| `ByteRingProofs` | its theorems |
| `MCByteRing` (2 cfg) | its TLC instances |
| `ShMem` (1 cfg) | one direction of `ShMemIface`: two cores, the hardware semaphore and its interrupt |
| `ShMemProofs` | its theorems |
| `CallbackChain` (1 cfg) | `Callback` and `CAN`: chains that change while they are called |
| `CallbackChainProofs` | its theorems |

### ThreadEvents

The variables are the fields of the class (`registered_events`,
`signalled_events`), the state of a wait in progress (`op`, `evt_mask`,
`timeout`, `elapsed`) and of its condition variable (`notified`: signalled since
the wait blocked). Every operation runs under the object's semaphore, released
only inside `pthread_cond_timedwait`, so one action is one critical section. A
wait is therefore `WaitAny` (test, then return or block) and later `WakeUp`,
`SpuriousWakeUp` or `TimeOut` (test again, then return or block on). `TimeOut`
is possible whenever the deadline has come, even if a signal came first. A mask
is the set of its bits. The deadline is what the code computes, `timeout_us *
1000` in `uint32_t`, scaled: `UintRange` values, `NsecPerUsec` nanoseconds per
microsecond.

### Worker

The variables are the list (`head`, `next`, `attached` for the
`WorkerObject::worker` pointers), the next trigger of each periodic object as
the time left (`due`), the holder of the semaphore (`sem`), the place and locals
of `run()` (`pc`, `curr`, `planned`, `wait_us`), the owner's side (`thread`,
`phase`, `doomed`, `next_worker`) and the variables of `ThreadEvents`. Clients on
other threads hold the semaphore only within one call, so a call is one action; the
worker thread holds it across a walk with callbacks of any length, so a walk is one
step per object. The semaphore is recursive (`Semaphore.cpp:26`), so a callback may
register and unregister in the middle of the walk, its own object as well
(`CanEnter`). `run()` then still writes that object's next trigger and reads its
next pointer (`Worker.h:120`, `Worker.cpp:79`): `CallbackReturn` does both,
whatever the object is by then. `start()` is two steps: the thread exists and runs
before `thread` is assigned. `~Worker` reads the head and the next pointers without
the semaphore and takes it only inside `unregister_worker`: `DestroyBegin`,
`DestroyReadNext`, `DestroyUnregister`, `DestroyCancel`, `DestroyJoin`.
`sem = "stuck"` is a search that never ends, with the semaphore held:
`unregister_worker` for the third object, or any search in a ring. An overdue
time is `Overdue`, however long ago; `NoTrigger` is the code's 0.

Two auxiliary variables mark the histories in which the code itself goes wrong, and
the properties except exactly those. `strayed`: a callback has unregistered its own
object, and then the one its link leads to, or had its own constructed anew, so that
the walk goes on to an unregistered object or ends early; it is reset when the next
walk begins. `late`: a callback has used the list while `~Worker` runs, whose `next_worker`
is then stale and whose search may hang. Neither is read by an action.

`Careless = FALSE`, as in every run, keeps clients clear of a defect of
`register_worker`: they register only an object whose link is clear (a new one)
and unregister only a registered one. `Careless = TRUE` lifts that; the theorems
that cover it as well are `WorkerTypeCorrect`, `ThreadIsSetBeforeUse`,
`StuckStaysStuck`, `WorkerMissesNoWakeUp` and `WorkerCollectsFlags`. In both, no other
thread uses the Worker once its destruction has begun, it is not destroyed while a
call of another thread is in progress, and no callback destroys the Worker that calls
it. The Worker's memory starts zeroed: its list head and thread pointer
have no initialiser, and a wild pointer cannot be modelled.

### IntrusiveList

`head` and `next` are the pointers; `there` the objects that are constructed,
`listed` those added and not removed since (by an explicit `remove` or the
destructor). `add` and `remove` hold the list's semaphore throughout and are one
action each. The iterator takes none: it reads a pointer (`Begin`, `Advance`),
then what that points to (`Load`), then visits. Anyone constructs, removes and
destroys at any moment in between. Memory of a destroyed object is read as it was
left. `pulled` records that the object whose pointer the iterator holds ahead was
removed: then the iteration goes on through an object that is not in the list,
and `IteratorOnList` and `VisitsAll` promise nothing for the rest of it. They
show that no other removal harms an iteration. A null dereference sets
`crashed`, and nothing follows it.

### ByteRing

`push` and `pop` are one action each, since the buffer's user holds a semaphore
around them. Every byte is there, because the defects are a matter of single
bytes: a stored frame is a header, four bytes of identifier, one of length and
the data, which is 6 bytes and the data where `FRAME_SIZE_WITHOUT_DATA` is 7.
`queue` is the history of what was accepted and `placed` of where it was written,
`received` what came out; `MaxPops` bounds it. After the first pop `tail` is one byte past the frame that follows,
so `UnreadIntact` speaks of the time before a second one. A pop that starts at a wrong
byte may read a length that exceeds the frame's array, which the code then overruns
(`DataIface_Raw.cpp:93-95`); the model returns that many bytes and overwrites nothing,
and no property depends on it.

### ThreadLifecycle

Each object (`life`) has a place in the list, a pthread (`thread`), a
thread-specific pointer (`tls`) and, once `pthread_cancel` was called, a pending
cancellation (`cancelled`). A call is in several steps where others may come
between: `start` is `Start` (the constructors, with the list) and `Create`; `stop`
is `Stop` (the destructor up to `pthread_join`) and `Freed` (from its return on).
`at` and `arg` say in which call each thread is. A thread runs (`Run`, which sets its
pointer), returns, or acts on a cancellation. `~Threads` is `DestroyThreads`, one
`LoadNext`, `Visit`, `Freed`, `Advance` per object, and `DeleteKey`; it takes no
semaphore, so the managed threads go on starting others meanwhile.

`CreateFails` and `CancelledInJoin` end the process (`halted`): the one in an
assertion or a `pthread_t` nobody wrote, the other by unwinding out of a
destructor. Clients stop a thread that `start` returned, once, never
themselves, and not during `~Threads`; two threads that stop each other are
within that.

### Semaphore

`owner` and `count` are the pthread mutex; `pc` and `left` the place and the time
to the deadline of each thread's `take`; `has` what the results of its calls told
each thread. A read of the clock and a call on the mutex are one action each, so
that others come between the iterations of the library's own
`pthread_mutex_timedlock`. That loop is modelled as it is written: it polls when
the deadline has passed and tries once when it has not.

### ShMem

One action is one access to the hardware semaphore's registers, one kernel call,
or the work on the ring under the semaphore. `cm7`, which never changes, says which of
the two cores is the CM7: only that one enables the vector of its interrupt
(`DataIface_ShMem.cpp:52`; the CM4 only sets its priority, 73). There an enabled flag
keeps the core's threads from their next instruction (`Goes`) until the handler has
run, in its two steps (`Broadcast`, `ClearInterrupt`); the handler may also run for the
other direction. On the CM4 the handler never runs.

Any number of threads send. The semaphore tells cores apart, not threads, so a second
sender passes the constructor while the first has it, and the first to leave releases
it: `exposed` holds those that are at the ring nevertheless. The ring is not thread
safe (`DataIface_Raw.h:24-25`): what an operation beside one of a sender leaves of it
is any number of frames (`Overlaps`). `masked` holds the threads in the constructor
whose interrupt another thread of their core has masked, by getting the semaphore.

The receiver is the thread that calls `init()` up to `Attach`, and from `Register` on the
one that `init()` creates, which begins without events; it listens from then on, and in
the constructor. `sentSince` and `missed` are history: a frame sent since the receiver
looked, and one that nothing tells the receiver of, because the flag of its release was
cleared by the receiver's own destructor, or by the handler before the receiver
listened, or because its sender was exposed and raised none. The ring is a
number of frames, any number before `init()`; its bytes are `ByteRing`. The two
directions share only the interrupt handler and the enable register, so one
direction is modelled, with the handler's work for the other one. Only the
interface's `init` and `update_rx` run on the receiving core, one after the other.

### CallbackChain

`next` holds the links of all objects, of the root as well; `rx_cbs` is `CAN`'s
pointer to its first callback. `registered`, `on_can` and `due` are history: what
is registered, in order, and what this `call_all` still owes a call. `call_all` is
one action per callback, and anything is registered and unregistered in
between, by the callback itself. `unregister_cb` leaves the link of what it
removes, and `call_all` goes on by it. In two histories that link is stale when it is
read (the callback has unregistered itself, and before it returns registers
again, or unregisters its successor); `strayed` marks them, and
`CallsWhatFollows` speaks of all others. `CAN`'s clients do not register the first
callback once more while it is first (see Known defects).

## 3. Runs

| run | instance | shows |
|---|---|---|
| `thread_events` | 3 events, 3-bit timeouts at 2 ns per µs, both waits, any initial masks | no wake-up is missed, a signalled wait ends, refinement of `EventFlags` |
| `worker_liveness` | 1 periodic object of period 2, 1 event object, 1 event, 3-bit timeouts, callbacks that register and unregister | callbacks, events and destruction come to pass; no search hangs but one of `~Worker` that a callback interferes with |
| `worker_list` | 2 periodic objects, 1 event object, 2-bit timeouts, callbacks that register and unregister | the safety of the list, the walk, start and destruction; refinement of `CallbackRegistry` |
| `worker_third_object` | 3 objects | **violation**: `unregister_worker` of the third never returns |
| `worker_late_trigger` | 1 periodic object | **violation**: an overdue trigger is waited for with -1 |
| `list` | 4 objects, constructed, removed and destroyed by anyone at any time | links match the list, the iteration reaches all that stayed unless what comes next is removed |
| `lifecycle` | the main thread and three objects | threads run only in live objects, nothing is destroyed twice or survives, stops end |
| `semaphore` | 3 threads, 2 levels, timeouts past and to come | results agree with the mutex, refinement of `RecursiveLock`, `take(-1)` gets it and timed takes return |
| `byte_ring` | 5 kinds of frames of 6 to 8 bytes, ring of 22, two pops | nothing unread is written over, first in is first out |
| `byte_ring_full` | 1 kind of frame, ring of 16 | **violation**: an empty ring refuses every frame |
| `shmem` | two sending threads, a ring of two frames, either core the CM7 | the cores exclude each other but for exposed senders; on the CM7 the receiver is woken but for three windows, and nobody sleeps for ever in the constructor unless masked |
| `callbacks` | 3 callbacks of a root, 3 of a CAN interface | chains in order, links end, a call goes on with what it owes |

Why the bounds are enough. Three events are one the wait names, one it does not
name but is registered, and one unregistered. Three bits of timeout with two
nanoseconds a microsecond put timeouts on both sides of the wrap, and make -1
wrap as it does in the code. Three objects are the head, its successor and one
beyond; `worker_liveness` has two because a third one can hang the Worker (that
is a finding of its own). Four list objects are a head, a tail and two between, so
that both neighbours of a removed one are inner. Three objects of the life
cycle are the main thread's and two threads that stop each other, or three
threads: one that stops one that stops a third. Three threads of the semaphore
are a holder and two that wait in different ways; two levels are one more than
once. The ring of 22 bytes holds three frames and makes the fourth wrap. Two
frames of shared memory are one to receive and one sent in between; the lock's
and the flags' states do not depend on more. Two senders are one that releases the
semaphore under the other, and one that masks the other. Three callbacks are the one called,
its successor and one more, before or behind. Time saturates: a trigger in the
past is `Overdue`, a wait's clock stops at its deadline; nothing else is counted.

`lifecycle` does not look for deadlock, since a process that has halted or ended
stops; nor do `list`, which stops at a null dereference, and the rings, which stop
at their bound of pops.

**The -1 that ends.** `PeriodicRuns` and `EventDelivered` hold although the
thread waits with -1 for overdue triggers and stale masks, only because that -1
ends: `timeout_us * 1000` wraps in 32 bits, and 4294966296 ns are 4.29 s
(`Threads.cpp:169`; test_threads.cpp:111 calls such a wait "wait forever").
Mending that product alone would turn two delays into two hangs.

### Fairness

* `ThreadEvents`: a thread released by `pthread_cond_signal` runs (weak). None of
  the clock, of the others, of spurious wake-ups.
* `Worker`: the worker thread runs, client callbacks return, time passes, the
  owner carries on what it began (weak). Strong fairness for the three waits for
  the semaphore (the walk, the plan, the destructor's unregistrations): clients
  on other threads may take it infinitely often but hold it for one call each time. Strong
  fairness for acting on a cancellation, since a pending one is acted on at the
  next cancellation point and the wait is one. Clients owe nothing.
* `ThreadLifecycle`: each thread goes on with the call it is in (weak) and acts on
  a cancellation (strong, as above). Nobody has to start or stop a thread.
* `Semaphore`: threads run (weak on reading the clock, on polling and on the last try); a
  thread blocked in `pthread_mutex_lock` gets the mutex if it is free again and
  again (strong). That holders give is a premise of `WaitersGetIt`, not assumed.
* `ShMem`: pending interrupts of the CM7 are handled (weak; those of the CM4 are not
  enabled, and nothing is assumed there), and do not keep threads from
  running (strong: each handler makes every step of its core impossible for a
  while). Nobody has to begin a send; that senders stop, or sleep in the constructor
  for good, as they do on the CM4, is a premise of `Received`.

## 4. Proofs

`ThreadEventsProofs`: `TypeCorrect`; `NoWakeUpIsMissed` (inductive as it stands);
`ImplementsEventFlags` (every step maps to `Post`, `Ask`, `Collect` or a stutter,
given the type invariant). For every `NumEvents`, `UintRange`, `NsecPerUsec` and
initial memory (`ConstantsOK`).

`WorkerProofs`, for every finite set of objects: the inductive invariant `Inv`
has three parts. `ListOK` says of the pointers that the registered objects are
closed under them, that no two links meet and none leads to the head, and that
whoever is closed under the links contains all registered objects. Only with "no
two links meet" does relinking around one object lose no other. `Locks` says
where the semaphore is held and that the object in the worker thread's hand is
registered, or has unregistered itself in its callback and still leads to a registered
one (`NoUseAfterUnregister`): only the callback can change the list then, and relinking
around any other object keeps that. `Ending` says that the destructor always unregisters
the head and holds its link, so the list is empty when it cancels, as long as no
callback changes the list meanwhile. From `Inv`: `UnregisteredIsLeftAlone`,
`ListIsRegistered`, `ListAlwaysEnds` (the links of a list without end would map
the finite set of its objects one to one to all but one of them),
`DestroyIsQuiet`, all for clients that are not `Careless`. `Sync`, the part of `Locks` that
says where the semaphore is held, is inductive for all clients; it gives
`ThreadIsSetBeforeUse` and `StuckStaysStuck`.

From `Inv` also follow four results about whole steps. `StuckExactlyBehindSecond`
gives the extent of the defect of `unregister_worker`: a step gets stuck if and only
if it unregisters an object behind the second, so that registering, planning and, until a
callback interferes, the destructor always find what they look for.
`WorkerIsARegistry` is the refinement of
`CallbackRegistry`: the pointers, the semaphore and the threads disappear, and a
callback runs while `pc = "callback"`; a cancelled callback is one that returns.
`WalkMissesNobody`: `From(curr)` is what the walk still meets, and whatever a callback
registers, unregisters or has constructed, an object that was in it and stays registered
is still in it, unless the walk strays; relinking around another object
keeps the rest of the way, also from an object that is not in the list any more.
`NoEventIsLost` is the safety half of `EventDelivered`: an event is `OnItsWay` to an
object while it is latched, or reported with the object in `From(curr)`;
every step keeps it so or calls the object. It needs the same about the walk, and that a
wait ends only by reporting. Of the reasons for which an event could stay undelivered
only one is left, that the thread does not get on, and that is what fairness is about.

What the Worker does to its thread's events is what `ThreadEvents` allows, but for one
step: `ReadClockAndMask` writes `evt_mask` before the wait is entered. So the theorems
of `ThreadEvents` do not carry over as they are: `WorkerMissesNoWakeUp` and
`WorkerCollectsFlags` prove them again through the Worker's steps, with that one as
an `Ask` of the abstract flags, from `BlocksInWait` (none is in progress where
`run()` writes the mask) and the lemmas of `ThreadEventsProofs` about its steps.

`IntrusiveListProofs`, for every finite set of objects: `Inv` has the same two
parts about the pointers as `ListOK` above (`Linked`, `Reached`), and for the
iteration `OnList` (what is ahead is listed) and `Remaining` (whoever follows the
links from what is ahead meets all that is still owed a visit). `Remaining` is
what makes `VisitsAll` inductive: relinking around one object must leave the rest
of the way intact. From `Inv`: `ListTypeCorrect`, `LinksAlwaysMatch`,
`IteratorStaysOnList`, `IterationVisitsAll`, and `OnlyMisuseCrashes`: a removal
dereferences null if and only if its object is not in a list that is not empty.

`ThreadLifecycleProofs`, for every set of objects: the inductive invariant `Inv`
is `TypeOK` and four parts over the invariant that `IntrusiveListProofs` proves for
the list. `ListUsed`: every object that is there is in the list, and the list has
one end. `ThreadsOK`: only threads that run make calls, and each has its own object
in its pointer. `CallsOK`: who starts or joins an object is the only one who does,
and an object under construction is behind the one of the thread that starts it.
`LoopOK`: `~Threads` always visits the head, since it frees what it visits. It is that
order that keeps the loop, which takes no semaphore, from coming to an object whose
`start()` has not finished: the thread that starts it comes first, and is joined
first. From `Inv`: `LifecycleTypeCorrect`, `ThreadsLiveInTheirObjects`,
`CurrentIsAlwaysAlive`, `EachIsDestroyedOnce`, `NothingSurvivesThreads`.
`LifecycleUsesList` shows that the life cycle implements the list's specification, and
`ThreadListIsSafe` that neither of the exceptions in the list's own properties
(`pulled`, `crashed`) happens to it. `LifeStep` says what one step does to one object
(lemma `ObjectsStep`, one case per action); from it follow the action property
`LifecycleKeepsOrder` and, with `Cancelling` (a dying object was cancelled, and its
thread exists), `StopsWaitForCancelled`, the safety half of `StopsEnd`.

`SemaphoreProofs`, for any threads, depth and timeouts: `Inv` adds to the two
invariants that the mutex has an owner exactly while its count is not 0 and that
a thread in `take` has room for another level. From it: `SemaphoreTypeCorrect`,
`AnswersAgree`, and `SemaphoreIsALock`, where every step maps to `Acquire`,
`Release` or a stutter. `SemaphoreExcludes` proves mutual exclusion of the abstract
lock (`LockExcludes`) and carries it over by that refinement. `PollsOnlyLate`: a
timed take polls only after its deadline.

`ShMemProofs`, for every capacity, any number of senders and either core the CM7:
`ShMemTypeCorrect`; `Inv` says in `Owner` that whoever is at the ring and not exposed has
the semaphore for its core, in `Unseen` that frames the receiver does not know of
were sent since it looked or are being sent, and in `WakeComes` that such a sending has
raised its flag or its event, or is `missed`. From it: `CoresExcludeEachOther`,
`ReceiverIsWoken`. For the constructor, `Enabled` (a core's interrupt is enabled
where a thread that is not masked tries or sleeps) and `Awaited` (the event is there, or
the flag is up, or the other core has the semaphore) give `SleepersAlwaysHeard`, the safety
half of `SleepersWake`. `CM4SleepsForEver` is what the missing vector comes to: a thread
of the CM4 has no event ever (`Deaf`), so one that sleeps there, for the semaphore
or for frames, never takes another step.

`CallbackChainProofs`, for every finite set of callbacks, in three layers.
`NoRing` says that every set of objects has one whose link leads out of it; that is
inductive by itself, since `register_cb` resets the link of what it appends, and gives
`LinksAlwaysEnd`. `Chains` adds the sequences: following the links from the root, or
from `rx_cbs`, is running through `registered`, or `on_can`; it gives
`ChainsAlwaysInOrder`. `Owed` says of a call in progress where in `registered` it
stands: what comes next, and that what is due is what follows there, new ones
apart; it gives `CallsAlwaysFollow` and, with the types, `ChainTypeCorrect`. Since
no callback is registered twice, what is called next is the head of what is due and
leaves its tail: that is the action property `CallAllInOrder`.

`ByteRingProofs`, for every size, every set of frames and every number of pops:
`RingTypeCorrect`, with lemmas on indices modulo the size; `FirstInFirstOut`
from `FirstFrame`: until the first pop the first frame lies at the beginning of the
ring with `head` behind it, because `Room` keeps every further push from wrapping
onto it; and `UnreadStaysIntact` from `InLine` (until the first pop all frames lie
one behind the other from the beginning on) and `Follow` (after it they lie between
the byte before `tail` and `head`, so that there is one byte more than `available`
counts: that `push` asks for one byte more than it stores makes up for it, once).
Two theorems give the extent of the defect of `byte_ring_full`. `CatchingUpFillsRing`:
whenever the reader takes the only frame in the ring, no frame has room any more.
`PlainLinkDeliversOne`: if no identifier begins with the header's byte and no frame
fills the ring by itself (`PlainFrames`), no frame after the first is ever delivered,
for the reader is one byte past the header of the next one, or finds what was never
written (`NoHeader`).

`WorkerProofs` also has `WorkerTypeCorrect`, for all clients, in which the steps of
the thread's events are those whose types `ThreadEventsProofs` proves; and
`TwoAreFound`: with at most two objects `SearchEnds` holds (`worker_third_object`
shows that three are too many; its counterexample needs no callback).

Where an argument needs the smallest element of a set of numbers (a place in a
chain), it comes from a lemma about well-founded relations; that takes the place
of induction.

The assumptions on constants, besides the types: `~Careless` (where named above),
`PlainFrames` and `TwoObjects` (one theorem each).

Only model-checked: everything with fairness (`SignalEndsWait`, `PeriodicRuns`,
`EventDelivered`, `DestroyTerminates`, `StopsEnd`, `WaitersGetIt`, `Received`,
`SleepersWake`): the prover cannot reason about fairness, which is stated with ENABLED.
For three of them the safety half is proved, that what must still happen is never
lost on the way: `NoEventIsLost`, `StopsWaitForCancelled`, `SleepersAlwaysHeard`; what
a wait must not miss is `NoWakeUpIsMissed` for `SignalEndsWait` and `ReceiverIsWoken`
for `Received`. Every other property of the passing runs is the statement of a theorem.

## 5. Plan

Modelled with their theorems: `ThreadEvents`, `Worker`, `IntrusiveList`,
`ThreadLifecycle`, `Semaphore`, `ByteRing`, `ShMem`, `CallbackChain`. Left, in this
order:

1. Both directions of `ShMemIface` at once, with `IER |=` as a load and a store.
2. `Micros64` of ChibiOS: two callers across an overflow of the 32-bit timer.
3. `Router`, `ArduPilotIface`, `LogFileIface`, should they come to compile:
   forwarding masks and retried sends; torn records and resynchronisation.

## 6. Known defects without a run

Met while modelling; the models' clients stay clear of them, as named.

* `Worker.cpp:105`: an object registered again keeps its old link, and the list
  becomes a ring or drags others in (`Careless`).
* `List.h:66`: removing an object that is not in the list, as the destructor does
  after an explicit `remove`, dereferences null unless the list is empty;
  `IntrusiveList` has it as `crashed`.
* `Worker.h:120`, `Worker.cpp:79`: after a callback that unregistered its own object
  `run()` writes and reads that object, which the client may have destroyed; if the
  callback also unregistered its successor or had the object constructed anew, the walk
  goes on to an unregistered object or ends early (`strayed`).
* `Worker.cpp:25-31`: `~Worker` reads the list without the semaphore. A callback that
  unregisters the last object lets it cancel the thread in that callback, which
  `QuietAfterDestroy` allows for; one that changes the list while `~Worker` runs makes
  its `next_worker` stale, and its search then hangs or leaves objects behind (`late`).
* `Semaphore.cpp:46`: the comparison is the wrong way round. The timed take gives up at
  once before its deadline and waits on after it, where `Semaphore.cpp:68` says "Block for
  a certain amount of time"; `Semaphore` models it as it is, `PollsOnlyLate` proves it, and
  `WaitersGetIt` asks of it only that it returns.
* `DataIface_ShMem.cpp:73`: the comment above it says "enable HSEM2 interrupt", but
  `NVIC_SetPriority` does not enable a vector as `nvicEnableVector` does for the CM7 (52). A
  receiver on the CM4 is never woken, and a sender there that finds the semaphore taken
  never returns: `CM4SleepsForEver`.
* `DataIface_ShMem.cpp:164, 180`: two sending threads of one core are both let in, and the
  first to leave lets the other core in on the second (`exposed`), although
  `DataIface_Raw.h:25` says "thread safety is to be implemented in the derived class using
  this"; the first to be let in masks the other's interrupt (171, `masked`).
* `DataIface_ShMem.cpp:125, 182`: a frame announced before `update_rx` has registered, or
  between the release and the clearing of the flag in the receiver's own destructor, waits
  for the next one (`missed`).
* `CAN.h:36`: the first callback registered once more while it is first is put
  behind the last, and the others are lost (guard of `CanRegister`).

## 7. Not modelled

* `Router`, `ArduPilotIface` and `LogFileIface` do not compile in the present tree
  (`CallbackList` and `DataIface_Abstract.h` do not exist, `txf` is declared nowhere), so
  that what they do is not determined. `RawIface` and `ShMemIface` include the same
  missing header, but what is modelled of them needs nothing from it: `Buffer`, and
  the semaphore around it.
* ChibiOS's `micros64`: in the plan; its hazard is listed. The models' clocks are
  correct ones.
* Board and ChibiOS configuration files (`chconf.h`, `halconf.h`, `mcuconf.h`,
  `usbcfg.c`, `board.c`): data and driver tables, no behaviour of the library, and
  more than half of the repository's lines of C and C++.
* `FileSystem`, `Serial` and the UDP socket (thin OS calls without state of their
  own), the commented-out `Serial_Termio`, the empty back end, thread priorities and
  stack sizes.
