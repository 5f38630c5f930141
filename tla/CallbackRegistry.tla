-------------------------- MODULE CallbackRegistry --------------------------
(***************************************************************************)
(* What a Worker promises to those whose callbacks it calls: it calls them *)
(* one at a time, only while they are registered, and none any more once   *)
(* it is closed.  A callback may register and unregister too.  One that    *)
(* has unregistered its own object may lead the registry astray, by        *)
(* destroying what comes next; one that does either while the registry is  *)
(* being closed may leave objects behind.  Neither the list, the semaphore *)
(* nor the thread of DC_PAL/Worker.cpp appear here.                        *)
(***************************************************************************)
CONSTANTS Objects, NULL

VARIABLES
  registered,    \* the objects that were registered and not unregistered since
  running,       \* the object whose callback runs, or NULL
  started,       \* the Worker has a thread
  open,          \* the Worker is there, and has not cancelled its thread
  astray,        \* what is called next need not be registered
  late           \* a callback has changed what is registered during the closing

vars == <<registered, running, started, open, astray, late>>

Init ==
  /\ registered = {} /\ running = NULL
  /\ started = FALSE /\ open = TRUE
  /\ astray = FALSE /\ late = FALSE

\* The callback of an object that is not registered any more runs.
Orphaned == running # NULL /\ running \notin registered

\* Another thread, while it is open, or the callback that runs.
Use ==
  /\ open \/ running # NULL
  /\ late' \in {late, late \/ running # NULL}
  /\ ~open => late'

Register(o) ==
  /\ Use
  /\ registered' = registered \cup {o}
  /\ UNCHANGED <<running, started, open, astray>>

Unregister(o) ==
  /\ Use
  /\ registered' = registered \ {o}
  /\ astray' \in {astray, astray \/ Orphaned}
  /\ UNCHANGED <<running, started, open>>

Start ==
  /\ open /\ ~started
  /\ started' = TRUE
  /\ UNCHANGED <<registered, running, open, astray, late>>

Call(o) ==
  /\ started /\ running = NULL
  /\ astray \/ (o \in registered /\ (open \/ late))
  /\ running' = o
  /\ UNCHANGED <<registered, started, open, astray, late>>

Return ==
  /\ running # NULL
  /\ running' = NULL
  /\ UNCHANGED <<registered, started, open, astray, late>>

Stray ==
  /\ Orphaned
  /\ astray' = TRUE
  /\ UNCHANGED <<registered, running, started, open, late>>

\* The next round of calls begins with what is registered then.
Recover ==
  /\ running = NULL
  /\ astray' = FALSE
  /\ UNCHANGED <<registered, running, started, open, late>>

\* One that never started forgets its objects without telling them; a callback
\* that has unregistered the last object may still run.
Close ==
  /\ open
  /\ started => late \/ registered = {}
  /\ open' = FALSE
  /\ UNCHANGED <<registered, running, started, astray, late>>

Next ==
  \/ \E o \in Objects : Register(o) \/ Unregister(o) \/ Call(o)
  \/ Start \/ Return \/ Stray \/ Recover \/ Close

Spec == Init /\ [][Next]_vars
=============================================================================
