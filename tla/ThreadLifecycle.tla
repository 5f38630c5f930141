--------------------------- MODULE ThreadLifecycle ---------------------------
(***************************************************************************)
(* The life of posix::Thread objects and their pthreads                    *)
(* (DC_PAL_Posix/Threads.cpp): Threads::start, stop, current,              *)
(* register_main_thread and ~Threads, called by the main thread and by the *)
(* managed threads, over the list that the objects are members of.         *)
(*                                                                         *)
(* Clients stop a thread that start returned, once, and never themselves;  *)
(* nobody stops a thread while ~Threads runs.  They may start threads then.*)
(***************************************************************************)
CONSTANTS
  Objects,      \* the memory that Thread objects may occupy
  NULL,         \* nullptr
  Main          \* the thread that runs main()

ASSUME LifecycleConstantsOK == NULL \notin Objects /\ Main \notin Objects

\* A managed thread has the name of the object that it was created with.
Agents == Objects \cup {Main}

VARIABLES
  head, next, there, listed, crashed, pc, ptr, saved, owed, visited, pulled,
                \* the variables of IntrusiveList
  life,         \* an object: "none", "made" (in start()), "live" or "dying"
  managed,      \* the objects whose thread_func is not null
  thread,       \* Thread::thread: "none", "new" (not run yet), "runs", "ended"
  cancelled,    \* the threads that pthread_cancel was called for
  tls,          \* what pthread_getspecific(key) gives to each thread
  at,           \* where each is: "free", "start", "join", "visit"
  arg,          \* the object of that call
  phase,        \* of Threads: "up", "destroying", "down"
  halted        \* the process aborted, or its behaviour is not defined any more

listvars == <<head, next, there, listed, crashed, pc, ptr, saved, owed, visited, pulled>>
objects  == <<life, managed, thread, cancelled>>
calls    == <<at, arg>>
vars == <<listvars, objects, tls, calls, phase, halted>>

List == INSTANCE IntrusiveList

Init ==
  /\ List!Init
  /\ life = [o \in Objects |-> "none"]
  /\ managed = {} /\ cancelled = {}
  /\ thread = [o \in Objects |-> "none"]
  /\ tls = [a \in Agents |-> NULL]
  /\ at = [a \in Agents |-> "free"]
  /\ arg = [a \in Agents |-> NULL]
  /\ phase = "up"
  /\ halted = FALSE

\* The process goes on: it exits once its static Threads object is destroyed.
Up == ~halted /\ phase # "down"

\* a executes code of its own, and is in none of the calls modelled here.
Idle(a) == /\ Up /\ at[a] = "free"
           /\ IF a = Main THEN phase = "up" ELSE thread[a] = "runs"

-----------------------------------------------------------------------------
(* Threads::start.  The object is in the list from the first of its        *)
(* constructors on, before it has a thread.                                *)
Start(a, o) ==
  /\ Idle(a)
  /\ List!Construct(o)
  /\ life' = [life EXCEPT ![o] = "made"]
  /\ managed' = managed \cup {o}
  /\ at' = [at EXCEPT ![a] = "start"]
  /\ arg' = [arg EXCEPT ![a] = o]
  /\ UNCHANGED <<thread, cancelled, tls, phase, halted>>

Create(a) ==
  /\ Up /\ at[a] = "start"
  /\ life' = [life EXCEPT ![arg[a]] = "live"]
  /\ thread' = [thread EXCEPT ![arg[a]] = "new"]
  /\ at' = [at EXCEPT ![a] = "free"]
  /\ arg' = [arg EXCEPT ![a] = NULL]
  /\ UNCHANGED <<listvars, managed, cancelled, tls, phase, halted>>

\* dronecan_assert ends the program, or without it the destructor cancels and
\* joins a pthread_t that nobody wrote.
CreateFails(a) ==
  /\ Up /\ at[a] = "start"
  /\ halted' = TRUE
  /\ UNCHANGED <<listvars, objects, tls, calls, phase>>

(* Mutant of Run: the thread does not record its object. *)
RunUnset(o) ==
  /\ Up /\ thread[o] = "new"
  /\ thread' = [thread EXCEPT ![o] = "runs"]
  /\ UNCHANGED <<listvars, life, managed, cancelled, tls, calls, phase, halted>>

Run(o) ==
  /\ Up /\ thread[o] = "new"
  /\ tls' = [tls EXCEPT ![o] = o]
  /\ thread' = [thread EXCEPT ![o] = "runs"]
  /\ UNCHANGED <<listvars, life, managed, cancelled, calls, phase, halted>>

Ends(o) ==
  /\ Idle(o)
  /\ thread' = [thread EXCEPT ![o] = "ended"]
  /\ UNCHANGED <<listvars, life, managed, cancelled, tls, calls, phase, halted>>

\* Its function returns, or it comes to a cancellation point.
FuncReturns(o) == o \notin cancelled /\ Ends(o)
ActOnCancel(o) == o \in cancelled /\ Ends(o)

\* register_main_thread() makes a new object each time; it never has a thread.
RegisterMain(o) ==
  /\ Idle(Main)
  /\ List!Construct(o)
  /\ life' = [life EXCEPT ![o] = "live"]
  /\ tls' = [tls EXCEPT ![Main] = o]
  /\ UNCHANGED <<managed, thread, cancelled, calls, phase, halted>>

-----------------------------------------------------------------------------
(* deallocate(): the destructor cancels and joins, then leaves the list.   *)
(* Mutant of Deallocate: the thread is not cancelled. *)
DeallocateRunning(a, o) ==
  /\ life' = [life EXCEPT ![o] = "dying"]
  /\ at' = [at EXCEPT ![a] = "join"]
  /\ arg' = [arg EXCEPT ![a] = o]
  /\ UNCHANGED <<managed, cancelled, thread, tls, phase, halted>>

Deallocate(a, o) ==
  /\ life' = [life EXCEPT ![o] = "dying"]
  /\ cancelled' = cancelled \cup ({o} \cap managed)
  /\ at' = [at EXCEPT ![a] = "join"]
  /\ arg' = [arg EXCEPT ![a] = o]
  /\ UNCHANGED <<managed, thread, tls, phase, halted>>

Stop(a, o) ==
  /\ Idle(a) /\ phase = "up"
  /\ a # o /\ o \in managed /\ life[o] = "live"
  /\ Deallocate(a, o)
  /\ UNCHANGED listvars

(* Mutant of Gone: the destructor cancels and does not join. *)
GoneOnceCancelled(o) == o \in managed => o \in cancelled

\* pthread_join returns; an object without a thread_func is not joined.
Gone(o) == o \in managed => thread[o] = "ended"

(* Mutant of Freed: the object stays in the list. *)
FreedListed(a) ==
  /\ Up /\ at[a] = "join"
  /\ Gone(arg[a])
  /\ life' = [life EXCEPT ![arg[a]] = "none"]
  /\ managed' = managed \ {arg[a]}
  /\ cancelled' = cancelled \ {arg[a]}
  /\ thread' = [thread EXCEPT ![arg[a]] = "none"]
  /\ tls' = [tls EXCEPT ![arg[a]] = NULL]
  /\ at' = [at EXCEPT ![a] = "free"]
  /\ arg' = [arg EXCEPT ![a] = NULL]
  /\ UNCHANGED <<listvars, phase, halted>>

Freed(a) ==
  /\ Up /\ at[a] = "join"
  /\ Gone(arg[a])
  /\ List!Destroy(arg[a])
  /\ life' = [life EXCEPT ![arg[a]] = "none"]
  /\ managed' = managed \ {arg[a]}
  /\ cancelled' = cancelled \ {arg[a]}
  /\ thread' = [thread EXCEPT ![arg[a]] = "none"]
  /\ tls' = [tls EXCEPT ![arg[a]] = NULL]
  /\ at' = [at EXCEPT ![a] = "free"]
  /\ arg' = [arg EXCEPT ![a] = NULL]
  /\ UNCHANGED <<phase, halted>>

\* pthread_join is a cancellation point, and unwinding cannot leave ~Thread.
CancelledInJoin(a) ==
  /\ Up /\ at[a] = "join" /\ a \in cancelled
  /\ halted' = TRUE
  /\ UNCHANGED <<listvars, objects, tls, calls, phase>>

-----------------------------------------------------------------------------
(* ~Threads, on the main thread.                                           *)
DestroyThreads ==
  /\ Idle(Main)
  /\ \A a \in Agents : at[a] # "join"
  /\ phase' = "destroying"
  /\ IF head = NULL THEN UNCHANGED listvars ELSE List!Begin
  /\ UNCHANGED <<objects, tls, calls, halted>>

LoadNext ==
  /\ Up /\ phase = "destroying" /\ at[Main] = "free"
  /\ List!Load
  /\ at' = [at EXCEPT ![Main] = "visit"]
  /\ UNCHANGED <<objects, tls, arg, phase, halted>>

Visit ==
  /\ Up /\ at[Main] = "visit"
  /\ Deallocate(Main, ptr)
  /\ UNCHANGED listvars

(* Mutant of Advance: the loop ends after the first object. *)
AdvanceToEnd ==
  /\ Up /\ phase = "destroying" /\ at[Main] = "free" /\ pc = "visit"
  /\ pc' = "idle"
  /\ UNCHANGED <<head, next, there, listed, crashed, ptr, saved, owed, visited, pulled>>
  /\ UNCHANGED <<objects, tls, calls, phase, halted>>

Advance ==
  /\ Up /\ phase = "destroying" /\ at[Main] = "free"
  /\ List!Advance
  /\ UNCHANGED <<objects, tls, calls, phase, halted>>

DeleteKey ==
  /\ Up /\ phase = "destroying" /\ pc = "idle"
  /\ phase' = "down"
  /\ UNCHANGED <<listvars, objects, tls, calls, halted>>

Next ==
  \/ \E a \in Agents :
       \/ \E o \in Objects : Start(a, o) \/ Stop(a, o)
       \/ Create(a) \/ CreateFails(a) \/ Freed(a) \/ CancelledInJoin(a)
  \/ \E o \in Objects : Run(o) \/ FuncReturns(o) \/ ActOnCancel(o) \/ RegisterMain(o)
  \/ DestroyThreads \/ LoadNext \/ Visit \/ Advance \/ DeleteKey

\* Every thread runs, and comes to a cancellation point again and again: each
\* of the library's own waits is one.
Fairness ==
  /\ \A a \in Agents : WF_vars(Create(a)) /\ WF_vars(Freed(a)) /\ WF_vars(CancelledInJoin(a))
  /\ \A o \in Objects : WF_vars(Run(o)) /\ SF_vars(ActOnCancel(o))
  /\ WF_vars(LoadNext) /\ WF_vars(Visit) /\ WF_vars(Advance) /\ WF_vars(DeleteKey)

Spec     == Init /\ [][Next]_vars
FairSpec == Spec /\ Fairness

-----------------------------------------------------------------------------
(* Properties. *)

(* Every variable has its type, and the objects are those that are there.  *)
TypeOK ==
  /\ life \in [Objects -> {"none", "made", "live", "dying"}]
  /\ there = {o \in Objects : life[o] # "none"}
  /\ managed \subseteq there /\ cancelled \subseteq managed
  /\ thread \in [Objects -> {"none", "new", "runs", "ended"}]
  /\ tls \in [Agents -> Objects \cup {NULL}]
  /\ at \in [Agents -> {"free", "start", "join", "visit"}]
  /\ arg \in [Agents -> Objects \cup {NULL}]
  /\ phase \in {"up", "destroying", "down"} /\ halted \in BOOLEAN

(* As long as a managed thread has not ended, whoever stops it and whatever *)
(* that one is stopped by, its object is there: the destructor joins before *)
(* it frees (Threads.cpp:37-46).                                           *)
RunnersAlive ==
  \A o \in Objects : thread[o] \in {"new", "runs"} => o \in there /\ o \in managed

(* Threads::current(), through which every wait goes, gives a managed      *)
(* thread its own object, and the main thread, until ~Threads, an object   *)
(* that nobody frees (Threads.cpp:110, 282-315).                           *)
CurrentIsAlive ==
  /\ \A o \in Objects : thread[o] = "runs" => tls[o] = o /\ o \in there
  /\ phase = "up" /\ tls[Main] # NULL => tls[Main] \in there /\ tls[Main] \notin managed

(* No two threads are in the destructor of one object, and ~Threads, which *)
(* takes no semaphore for its loop, comes only to objects that start() has *)
(* finished and nobody has begun to destroy, though managed threads go on  *)
(* starting others meanwhile (Threads.cpp:255-257).                        *)
DestroyedOnce ==
  /\ \A a, b \in Agents : at[a] = "join" /\ at[b] = "join" /\ arg[a] = arg[b] => a = b
  /\ phase = "destroying" /\ (pc = "load" \/ at[Main] = "visit") => life[ptr] = "live"

(* When ~Threads returns, every object that was there when it began is     *)
(* freed and every thread of theirs has ended.  (A thread that one of them *)
(* starts meanwhile may survive: the loop may have passed the end by then.)*)
NothingSurvives == phase = "down" => owed = {}

(* A stop ends, unless the process does, whatever else threads start and   *)
(* stop meanwhile; so does the whole of ~Threads, once no thread starts    *)
(* another.                                                                *)
StopsEnd ==
  /\ \A a \in Agents : at[a] = "join" ~> (halted \/ at[a] # "join")
  /\ phase = "destroying" ~> (halted \/ phase = "down" \/ \E a \in Agents : at[a] = "start")
=============================================================================
