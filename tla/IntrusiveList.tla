---------------------------- MODULE IntrusiveList ----------------------------
(***************************************************************************)
(* dronecan::List<T> (DC_PAL/List.h): objects that put themselves into a   *)
(* global list when they are constructed and take themselves out when they *)
(* are destroyed, and one thread that iterates over the list.  add and     *)
(* remove hold the list's semaphore from end to end and are one action;    *)
(* the iterator takes no semaphore and is one action per load of a         *)
(* pointer.                                                                *)
(***************************************************************************)
CONSTANTS
  Objects,      \* the memory that objects of the class may occupy
  NULL          \* nullptr

ASSUME ListConstantsOK == NULL \notin Objects

VARIABLES
  head,         \* List<T>::head
  next,         \* List<T>::next
  there,        \* the objects that are constructed
  listed,       \* the objects that were added and not removed since
  crashed,      \* a null pointer was dereferenced
  pc,           \* the iterating thread: "idle", "load" (next) or "visit"
  ptr,          \* iterator::ptr
  saved,        \* iterator::next
  owed,         \* listed when the iteration began, and not removed since
  visited,      \* visited by this iteration
  pulled        \* the object that the iteration goes to next was removed

iterator == <<pc, ptr, saved>>
history  == <<owed, visited, pulled>>
vars == <<head, next, there, listed, crashed, iterator, history>>

-----------------------------------------------------------------------------
Closed(S) == /\ head # NULL => head \in S
             /\ \A o \in S : next[o] # NULL => next[o] \in S

\* The objects that the links from the head lead to.
Chain == {o \in Objects : \A S \in SUBSET Objects : Closed(S) => o \in S}

Init ==
  /\ head = NULL
  /\ next = [o \in Objects |-> NULL]
  /\ there = {} /\ listed = {}
  /\ crashed = FALSE
  /\ pc = "idle"
  /\ ptr = NULL
  /\ saved = NULL
  /\ owed = {} /\ visited = {} /\ pulled = FALSE

(* Mutant of Add: the others are lost. *)
AddAtHead(o) ==
  /\ head' = o
  /\ next' = [next EXCEPT ![o] = NULL]

\* List(), which resets next, and add().
Add(o) ==
  \/ /\ head = NULL
     /\ head' = o
     /\ next' = [next EXCEPT ![o] = NULL]
  \/ \E last \in Chain :
       /\ next[last] = NULL
       /\ next' = [next EXCEPT ![last] = o, ![o] = NULL]
       /\ UNCHANGED head

Construct(o) ==
  /\ ~crashed /\ o \notin there
  /\ Add(o)
  /\ there' = there \cup {o}
  /\ listed' = listed \cup {o}
  /\ UNCHANGED <<crashed, iterator, history>>

(* Mutant of Unlink: the object before it is not linked to the one after. *)
UnlinkOne(o) ==
  /\ o \in Chain
  /\ head' = IF head = o THEN next[o] ELSE head
  /\ next' = [next EXCEPT ![o] = NULL]

Unlink(o) ==
  \/ /\ head = o
     /\ head' = next[o]
     /\ next' = [next EXCEPT ![o] = NULL]
  \/ /\ head # o
     /\ \E before \in Chain :
          /\ next[before] = o
          /\ next' = [next EXCEPT ![before] = next[o], ![o] = NULL]
     /\ UNCHANGED head

\* The object whose pointer the iterator holds and has not followed yet.
Ahead == IF pc = "load" THEN ptr ELSE IF pc = "visit" THEN saved ELSE NULL

\* remove().  The search for an object that is not in the list runs off its end.
Remove(o) ==
  /\ \/ /\ head = NULL
        /\ UNCHANGED <<head, next, crashed>>
     \/ /\ head # NULL
        /\ Unlink(o)
        /\ UNCHANGED crashed
     \/ /\ head # NULL /\ o \notin Chain
        /\ crashed' = TRUE
        /\ UNCHANGED <<head, next>>
  /\ listed' = listed \ {o}
  /\ owed' = owed \ {o}
  /\ pulled' = (pulled \/ o = Ahead)

RemoveExplicitly(o) ==
  /\ ~crashed /\ o \in there
  /\ Remove(o)
  /\ UNCHANGED <<there, iterator, visited>>

(* Mutant of Destroy: ~List() does not remove the object. *)
DestroyForgets(o) ==
  /\ ~crashed /\ o \in there
  /\ there' = there \ {o}
  /\ UNCHANGED <<head, next, listed, crashed, iterator, history>>

Destroy(o) ==
  /\ ~crashed /\ o \in there
  /\ Remove(o)
  /\ there' = there \ {o}
  /\ visited' = visited \ {o}
  /\ UNCHANGED iterator

-----------------------------------------------------------------------------
(* for (auto obj : *list): the iterator reads the head, then the next of   *)
(* what it points to, and only then is the object visited.                 *)
Begin ==
  /\ ~crashed /\ pc = "idle"
  /\ head # NULL
  /\ ptr' = head
  /\ pc' = "load"
  /\ owed' = listed
  /\ visited' = {}
  /\ pulled' = FALSE
  /\ UNCHANGED <<head, next, there, listed, crashed, saved>>

Load ==
  /\ ~crashed /\ pc = "load"
  /\ saved' = next[ptr]
  /\ visited' = visited \cup {ptr}
  /\ pc' = "visit"
  /\ UNCHANGED <<head, next, there, listed, crashed, ptr, owed, pulled>>

(* Mutant of Advance: next is not recorded before the visit. *)
AdvanceLate ==
  /\ ~crashed /\ pc = "visit"
  /\ ptr' = next[ptr]
  /\ pc' = IF next[ptr] = NULL THEN "idle" ELSE "load"
  /\ UNCHANGED <<head, next, there, listed, crashed, saved, history>>

Advance ==
  /\ ~crashed /\ pc = "visit"
  /\ ptr' = saved
  /\ pc' = IF saved = NULL THEN "idle" ELSE "load"
  /\ UNCHANGED <<head, next, there, listed, crashed, saved, history>>

Next ==
  \/ \E o \in Objects : Construct(o) \/ RemoveExplicitly(o) \/ Destroy(o)
  \/ Begin \/ Load \/ Advance

Spec == Init /\ [][Next]_vars

-----------------------------------------------------------------------------
(* Properties. *)

(* Every variable has its type, and an object is in the list only while    *)
(* its memory is an object.                                                *)
TypeOK ==
  /\ head \in Objects \cup {NULL}
  /\ next \in [Objects -> Objects \cup {NULL}]
  /\ listed \subseteq there /\ there \subseteq Objects
  /\ crashed \in BOOLEAN
  /\ pc \in {"idle", "load", "visit"}
  /\ ptr \in Objects \cup {NULL} /\ saved \in Objects \cup {NULL}
  /\ owed \subseteq listed /\ visited \subseteq Objects /\ pulled \in BOOLEAN

(* The links lead to exactly the objects that were added and not removed:  *)
(* removing one loses no other and leaves nothing behind (List.h:41-72).   *)
LinksMatch == Chain = listed

(* Whatever is removed during an iteration, by the visits or by others, the *)
(* iterator stays on the list, unless the very object it goes to next is   *)
(* removed (List.h:97-112 saves that pointer, and takes no semaphore).     *)
IteratorOnList == pc = "load" /\ ~pulled => ptr \in listed

(* An iteration visits every object that was in the list when it began     *)
(* and stayed there, whatever others were removed behind or before it ("if *)
(* we remove the current element we can still continue iterating"), with   *)
(* the same exception.                                                     *)
VisitsAll == pc = "idle" /\ ~pulled => owed \subseteq visited
=============================================================================
