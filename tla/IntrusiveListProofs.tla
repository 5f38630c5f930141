------------------------- MODULE IntrusiveListProofs -------------------------
(***************************************************************************)
(* What List<T> guarantees for every set of objects: the links lead to     *)
(* exactly the listed objects, and an iteration that no removal strikes    *)
(* right ahead stays on the list and misses nothing.                       *)
(***************************************************************************)
EXTENDS IntrusiveList, TLAPS

(* The listed objects are closed under the links, and no two links meet:   *)
(* none leads to the head, no two lead to the same object.                 *)
Linked ==
  /\ Closed(listed)
  /\ \A a \in Objects \ listed : next[a] = NULL
  /\ \A a \in listed : next[a] # NULL => next[a] # head
  /\ \A a, b \in listed : next[a] = next[b] /\ next[a] # NULL => a = b

(* Whoever follows the links from the head meets all of them. *)
Reached == \A S \in SUBSET Objects : Closed(S) => listed \subseteq S

ListOK == TypeOK /\ Linked /\ Reached

(* S contains what the iterator has ahead of it, and is closed under the links. *)
From(S) ==
  /\ Ahead # NULL => Ahead \in S
  /\ \A o \in S : next[o] # NULL => next[o] \in S

(* The iterator has something listed ahead of it, or nothing, and whoever  *)
(* follows the links from there meets all that is still to be visited.     *)
OnList == Ahead # NULL /\ ~pulled => Ahead \in listed

Remaining ==
  pc # "idle" /\ ~pulled =>
    \A S \in SUBSET Objects : From(S) => owed \ visited \subseteq S

Inv == ListOK /\ (pc = "load" => ptr # NULL) /\ OnList /\ Remaining /\ VisitsAll

-----------------------------------------------------------------------------
(* The list. *)

LEMMA ChainIsListed == ListOK => Chain = listed
  BY DEF ListOK, TypeOK, Linked, Reached, Chain

LEMMA EmptyListEmpty == ListOK /\ head = NULL => listed = {}
<1> SUFFICES ASSUME ListOK, head = NULL PROVE listed = {}
  OBVIOUS
<1>1. Closed({})
  BY DEF Closed
<1> QED BY <1>1 DEF ListOK, Reached

(* Adding a new object at the end keeps the list. *)
LEMMA ConstructKeepsList ==
  ASSUME ListOK, NEW o \in Objects, Construct(o)
  PROVE  Linked' /\ Reached'
<1> USE ListConstantsOK DEF ListOK, TypeOK
<1>0. o \notin listed /\ o \notin there /\ listed' = listed \cup {o} /\ o # NULL
  BY DEF Construct
<1>1. CASE head = NULL /\ head' = o /\ next' = [next EXCEPT ![o] = NULL]
  <2>1. listed = {}
    BY <1>1, EmptyListEmpty
  <2>2. \A x \in Objects : next'[x] = NULL
    BY <1>1, <2>1 DEF Linked
  <2> QED BY <1>0, <1>1, <2>1, <2>2 DEF Linked, Closed, Reached
<1>2. ASSUME NEW last \in Chain, next[last] = NULL, UNCHANGED head,
             next' = [next EXCEPT ![last] = o, ![o] = NULL]
      PROVE Linked' /\ Reached'
  <2>1. last \in listed /\ last # o
    BY <1>0, <1>2, ChainIsListed
  <2>2. /\ next'[last] = o /\ next'[o] = NULL
        /\ \A x \in Objects \ {last, o} : next'[x] = next[x]
    BY <1>2, <2>1
  <2>3. o # head /\ next[o] = NULL /\ \A x \in listed : next[x] # o
    BY <1>0 DEF Linked, Closed
  <2>4. Closed(listed)'
    BY <1>0, <1>2, <2>1, <2>2 DEF Linked, Closed
  <2>5. \A a \in Objects \ listed' : next'[a] = NULL
    BY <1>0, <2>1, <2>2 DEF Linked
  <2>6. \A a \in listed' : next'[a] # NULL => next'[a] # head'
    BY <1>0, <1>2, <2>1, <2>2, <2>3 DEF Linked
  <2>7. \A a, b \in listed' : next'[a] = next'[b] /\ next'[a] # NULL => a = b
    BY <1>0, <2>1, <2>2, <2>3 DEF Linked
  <2>8. Reached'
    <3> SUFFICES ASSUME NEW S \in SUBSET Objects, Closed(S)' PROVE listed' \subseteq S
      BY DEF Reached
    <3>1. Closed(S)
      BY <1>2, <2>1, <2>2, <2>3 DEF Closed
    <3>2. listed \subseteq S
      BY <3>1 DEF Reached
    <3>3. o \in S
      BY <1>0, <2>1, <2>2, <3>2 DEF Closed
    <3> QED BY <1>0, <3>2, <3>3
  <2> QED BY <2>4, <2>5, <2>6, <2>7, <2>8 DEF Linked
<1> QED BY <1>1, <1>2 DEF Construct, Add

(* Relinking around an object keeps the list: as no two links meet, no     *)
(* other object depended on the link that is redirected.                   *)
LEMMA UnlinkKeepsList ==
  ASSUME ListOK, NEW o \in listed, Unlink(o), listed' = listed \ {o}
  PROVE  Linked' /\ Reached'
<1> USE ListConstantsOK DEF ListOK, TypeOK
<1>0. o \in Objects /\ o # NULL
  OBVIOUS
<1>1. CASE head = o /\ head' = next[o] /\ next' = [next EXCEPT ![o] = NULL]
  <2>1. next'[o] = NULL /\ \A x \in Objects \ {o} : next'[x] = next[x]
    BY <1>0, <1>1
  <2>2. \A x \in listed : next[x] # o
    BY <1>0, <1>1 DEF Linked
  <2>3. Linked'
    BY <1>0, <1>1, <2>1, <2>2 DEF Linked, Closed
  <2>4. Reached'
    <3> SUFFICES ASSUME NEW S \in SUBSET Objects, Closed(S)' PROVE listed' \subseteq S
      BY DEF Reached
    <3>1. S \cup {o} \in SUBSET Objects /\ Closed(S \cup {o})
      BY <1>0, <1>1, <2>1 DEF Closed
    <3> QED BY <3>1 DEF Reached
  <2> QED BY <2>3, <2>4
<1>2. ASSUME NEW before \in Chain, head # o, next[before] = o, UNCHANGED head,
             next' = [next EXCEPT ![before] = next[o], ![o] = NULL]
      PROVE Linked' /\ Reached'
  <2>1. before \in listed
    BY ChainIsListed
  <2>2. /\ next'[o] = NULL
        /\ before # o => next'[before] = next[o]
        /\ \A x \in Objects \ {before, o} : next'[x] = next[x]
    BY <1>0, <1>2, <2>1
  <2>3. before # o
    <3> SUFFICES ASSUME before = o PROVE FALSE
      OBVIOUS
    <3>1. \A x \in listed \ {o} : next[x] # o
      BY <1>0, <1>2, <2>1 DEF Linked
    <3>2. Closed(listed \ {o}) /\ listed \ {o} \in SUBSET Objects
      BY <1>2, <3>1 DEF Linked, Closed
    <3> QED BY <3>2 DEF Reached
  <2>4. \A x \in listed : x # before => next[x] # o
    BY <1>0, <1>2, <2>1 DEF Linked
  <2>5. Linked'
    <3>1. Closed(listed)'
      <4>1. next[o] # NULL => next[o] \in listed' /\ next[o] # o
        BY <2>3, <2>4 DEF Linked, Closed
      <4> QED BY <1>2, <2>2, <2>3, <2>4, <4>1 DEF Linked, Closed
    <3>2. \A a \in Objects \ listed' : next'[a] = NULL
      BY <2>1, <2>2 DEF Linked
    <3>3. \A a \in listed' : next'[a] # NULL => next'[a] # head'
      BY <1>2, <2>1, <2>2, <2>3 DEF Linked
    <3>4. \A a, b \in listed' : next'[a] = next'[b] /\ next'[a] # NULL => a = b
      BY <1>2, <2>1, <2>2, <2>3 DEF Linked
    <3> QED BY <3>1, <3>2, <3>3, <3>4 DEF Linked
  <2>6. Reached'
    <3> SUFFICES ASSUME NEW S \in SUBSET Objects, Closed(S)' PROVE listed' \subseteq S
      BY DEF Reached
    <3>1. CASE before \in S
      <4>1. S \cup {o} \in SUBSET Objects /\ Closed(S \cup {o})
        BY <1>0, <1>2, <2>2, <2>3, <3>1 DEF Closed
      <4> QED BY <4>1 DEF Reached
    <3>2. CASE before \notin S
      <4> DEFINE R == (S \cap listed) \ {o}
      <4>1. R \in SUBSET Objects
        OBVIOUS
      <4>2. \A x \in R : next[x] = next'[x] /\ next[x] # o
        BY <2>2, <2>4, <3>2
      <4>3. Closed(R)
        BY <1>0, <1>2, <4>2 DEF Closed, Linked
      <4> QED BY <2>1, <3>2, <4>1, <4>3 DEF Reached
    <3> QED BY <3>1, <3>2
  <2> QED BY <2>5, <2>6
<1> QED BY <1>1, <1>2 DEF Unlink

-----------------------------------------------------------------------------
(* The invariant. *)

LEMMA InitInv == Init => Inv
<1> SUFFICES ASSUME Init PROVE Inv
  OBVIOUS
<1>1. ListOK
  BY DEF Init, ListOK, TypeOK, Linked, Reached, Closed
<1>2. OnList /\ Remaining /\ VisitsAll /\ pc # "load"
  BY DEF Init, OnList, Remaining, VisitsAll, Ahead
<1> QED BY <1>1, <1>2 DEF Inv

LEMMA ConstructKeepsInv == \A o \in Objects : Inv /\ Construct(o) => Inv'
<1> SUFFICES ASSUME NEW o \in Objects, Inv, Construct(o) PROVE Inv'
  OBVIOUS
<1> USE ListConstantsOK
<1>1. /\ UNCHANGED <<crashed, pc, ptr, saved, owed, visited, pulled>>
      /\ o \notin listed /\ listed' = listed \cup {o} /\ o # NULL
  BY DEF Construct, iterator, history, Inv, ListOK, TypeOK
<1>2. TypeOK'
  BY DEF Inv, ListOK, TypeOK, Construct, Add, iterator, history
<1>3. ListOK'
  BY <1>2, ConstructKeepsList DEF Inv, ListOK
<1>4. OnList' /\ VisitsAll' /\ (pc = "load" => ptr # NULL)'
  BY <1>1 DEF Inv, OnList, VisitsAll, Ahead
<1>5. Remaining'
  <2>1. \A x \in Objects : next[x] # NULL => next'[x] = next[x]
    BY <1>1 DEF Construct, Add, Inv, ListOK, TypeOK, Linked
  <2> SUFFICES ASSUME pc # "idle", ~pulled, NEW S \in SUBSET Objects, From(S)'
               PROVE  owed \ visited \subseteq S
    BY <1>1 DEF Remaining
  <2>2. From(S)
    BY <1>1, <2>1 DEF From, Ahead
  <2> QED BY <2>2 DEF Inv, Remaining
<1> QED BY <1>3, <1>4, <1>5 DEF Inv

(* What removal does, whether or not the object was listed. *)
LEMMA RemoveKeepsList ==
  ASSUME ListOK, TypeOK', NEW o \in Objects, Remove(o)
  PROVE  /\ Linked' /\ Reached'
         /\ o \notin listed => UNCHANGED <<head, next, listed>>
<1>1. listed' = listed \ {o}
  BY DEF Remove
<1>2. ASSUME o \notin listed PROVE UNCHANGED <<head, next, listed>>
  <2>1. ~Unlink(o) \/ head = NULL
    <3> SUFFICES ASSUME Unlink(o), head # NULL PROVE FALSE
      OBVIOUS
    <3>1. head # o
      BY <1>2 DEF ListOK, Linked, Closed
    <3> QED BY <1>2, <3>1, ChainIsListed, ListConstantsOK DEF Unlink, ListOK, Linked, Closed
  <2> QED BY <1>1, <1>2, <2>1 DEF Remove
<1>3. CASE UNCHANGED <<head, next, listed>>
  BY <1>3 DEF ListOK, Linked, Reached, Closed
<1>4. CASE o \in listed
  <2>1. head # NULL
    BY <1>4, EmptyListEmpty
  <2>2. Unlink(o)
    BY <1>4, <2>1, ChainIsListed DEF Remove
  <2> QED BY <1>1, <1>4, <2>2, UnlinkKeepsList
<1> QED BY <1>2, <1>3, <1>4

(* A removal that is not right ahead of the iterator leaves it something   *)
(* listed ahead, from which it still meets all that it has to.             *)
LEMMA RemoveKeepsIteration ==
  ASSUME Inv, NEW o \in Objects, Remove(o), UNCHANGED iterator,
         visited' \in {visited, visited \ {o}}
  PROVE  OnList' /\ Remaining' /\ VisitsAll' /\ (pc = "load" => ptr # NULL)'
<1> USE ListConstantsOK
<1>1. /\ listed' = listed \ {o} /\ owed' = owed \ {o}
      /\ pulled' = (pulled \/ o = Ahead)
      /\ UNCHANGED <<pc, ptr, saved>> /\ Ahead' = Ahead
  BY DEF Remove, iterator, Ahead
<1>2. OnList' /\ VisitsAll' /\ (pc = "load" => ptr # NULL)'
  BY <1>1 DEF Inv, OnList, VisitsAll
<1>3. Remaining'
  <2> SUFFICES ASSUME pc # "idle", ~pulled, o # Ahead,
                      NEW S \in SUBSET Objects, From(S)'
               PROVE  owed' \ visited' \subseteq S
    BY <1>1 DEF Remaining
  <2>1. CASE UNCHANGED next
    <3>1. From(S)
      BY <1>1, <2>1 DEF From
    <3> QED BY <1>1, <3>1 DEF Inv, Remaining
  <2>2. CASE Unlink(o)
    <3> DEFINE Redirected ==
          /\ next'[o] = NULL
          /\ \A x \in Objects \ {o} :
               next'[x] = IF next[x] = o THEN next[o] ELSE next[x]
    <3>1. Redirected
      <4>1. CASE head = o /\ next' = [next EXCEPT ![o] = NULL]
        <5>1. \A x \in Objects : next[x] # o
          BY <4>1 DEF Inv, ListOK, TypeOK, Linked
        <5> QED BY <4>1, <5>1 DEF Inv, ListOK, TypeOK
      <4>2. ASSUME NEW before \in Chain, next[before] = o,
                   next' = [next EXCEPT ![before] = next[o], ![o] = NULL]
            PROVE Redirected
        <5>1. before \in listed
          BY ChainIsListed DEF Inv
        <5>2. \A x \in Objects : next[x] = o => x = before
          BY <4>2, <5>1 DEF Inv, ListOK, TypeOK, Linked
        <5> QED BY <4>2, <5>1, <5>2 DEF Inv, ListOK, TypeOK
      <4> QED BY <2>2, <4>1, <4>2 DEF Unlink
    <3>2. CASE \E x \in S \ {o} : next[x] = o
      <4>1. PICK x \in S \ {o} : next[x] = o
        BY <3>2
      <4>2. next[o] # NULL => next[o] \in S
        BY <3>1, <4>1 DEF From
      <4>3. From(S \cup {o}) /\ S \cup {o} \in SUBSET Objects
        BY <1>1, <3>1, <4>2 DEF From
      <4> QED BY <1>1, <4>3 DEF Inv, Remaining
    <3>3. CASE \A x \in S \ {o} : next[x] # o
      <4>1. From(S \ {o}) /\ S \ {o} \in SUBSET Objects
        BY <1>1, <3>1, <3>3 DEF From
      <4> QED BY <1>1, <4>1 DEF Inv, Remaining
    <3> QED BY <3>2, <3>3
  <2> QED BY <2>1, <2>2 DEF Remove
<1> QED BY <1>2, <1>3

LEMMA RemovalKeepsInv ==
  \A o \in Objects : Inv /\ (RemoveExplicitly(o) \/ Destroy(o)) => Inv'
<1> SUFFICES ASSUME NEW o \in Objects, Inv, RemoveExplicitly(o) \/ Destroy(o)
             PROVE  Inv'
  OBVIOUS
<1>1. /\ Remove(o) /\ UNCHANGED iterator
      /\ visited' \in {visited, visited \ {o}}
      /\ there' \in {there, there \ {o}}
  BY DEF RemoveExplicitly, Destroy
<1>2. TypeOK'
  <2>1. head' \in Objects \cup {NULL} /\ next' \in [Objects -> Objects \cup {NULL}]
    BY <1>1 DEF Remove, Unlink, Inv, ListOK, TypeOK
  <2> QED BY <1>1, <2>1 DEF Remove, Inv, ListOK, TypeOK, iterator
<1> QED BY <1>1, <1>2, RemoveKeepsList, RemoveKeepsIteration DEF Inv, ListOK

(* The iterator's own steps. *)
LEMMA BeginKeepsInv == Inv /\ Begin => Inv'
<1> SUFFICES ASSUME Inv, Begin PROVE Inv'
  OBVIOUS
<1> USE ListConstantsOK
<1>1. /\ UNCHANGED <<head, next, there, listed, crashed, saved>>
      /\ ptr' = head /\ head # NULL /\ pc' = "load"
      /\ owed' = listed /\ visited' = {} /\ pulled' = FALSE
  BY DEF Begin
<1>2. ListOK'
  BY <1>1 DEF Inv, ListOK, TypeOK, Linked, Reached, Closed
<1>3. OnList' /\ VisitsAll'
  BY <1>1 DEF Inv, ListOK, Linked, Closed, OnList, VisitsAll, Ahead
<1>4. Remaining'
  BY <1>1 DEF Inv, ListOK, Reached, Closed, Remaining, From, Ahead
<1> QED BY <1>1, <1>2, <1>3, <1>4 DEF Inv

LEMMA LoadKeepsInv == Inv /\ Load => Inv'
<1> SUFFICES ASSUME Inv, Load PROVE Inv'
  OBVIOUS
<1> USE ListConstantsOK
<1>1. /\ UNCHANGED <<head, next, there, listed, crashed, ptr, owed, pulled>>
      /\ pc = "load" /\ pc' = "visit" /\ ptr # NULL
      /\ saved' = next[ptr] /\ visited' = visited \cup {ptr}
      /\ Ahead = ptr /\ Ahead' = next[ptr]
  BY DEF Load, Inv, Ahead
<1>2. ListOK'
  <2>1. ptr \in Objects /\ next[ptr] \in Objects \cup {NULL}
    BY <1>1 DEF Inv, ListOK, TypeOK
  <2>2. TypeOK'
    BY <1>1, <2>1 DEF Inv, ListOK, TypeOK
  <2>3. Linked' /\ Reached'
    BY <1>1 DEF Inv, ListOK, Linked, Reached, Closed
  <2> QED BY <2>2, <2>3 DEF ListOK
<1>3. OnList' /\ VisitsAll'
  BY <1>1 DEF Inv, ListOK, Linked, Closed, OnList, VisitsAll
<1>4. Remaining'
  <2> SUFFICES ASSUME ~pulled, NEW S \in SUBSET Objects, From(S)'
               PROVE  owed \ visited' \subseteq S
    BY <1>1 DEF Remaining
  <2>1. S \cup {ptr} \in SUBSET Objects /\ From(S \cup {ptr})
    BY <1>1 DEF From, Inv, ListOK, TypeOK
  <2> QED BY <1>1, <2>1 DEF Inv, Remaining
<1> QED BY <1>1, <1>2, <1>3, <1>4 DEF Inv

LEMMA AdvanceKeepsInv == Inv /\ Advance => Inv'
<1> SUFFICES ASSUME Inv, Advance PROVE Inv'
  OBVIOUS
<1> USE ListConstantsOK
<1>1. /\ UNCHANGED <<head, next, there, listed, crashed, saved, owed, visited, pulled>>
      /\ pc = "visit" /\ ptr' = saved
      /\ pc' = IF saved = NULL THEN "idle" ELSE "load"
      /\ Ahead = saved /\ Ahead' = saved
  BY DEF Advance, history, Ahead
<1>2. ListOK'
  <2>1. TypeOK'
    BY <1>1 DEF Inv, ListOK, TypeOK
  <2>2. Linked' /\ Reached'
    BY <1>1 DEF Inv, ListOK, Linked, Reached, Closed
  <2> QED BY <2>1, <2>2 DEF ListOK
<1>3. OnList' /\ (pc = "load" => ptr # NULL)'
  BY <1>1 DEF Inv, OnList
<1>4. Remaining'
  BY <1>1 DEF Inv, Remaining, From
<1>5. VisitsAll'
  <2>1. CASE saved = NULL
    <3>1. From({})
      BY <1>1, <2>1 DEF From
    <3> QED BY <1>1, <3>1 DEF Inv, Remaining, VisitsAll
  <2>2. CASE saved # NULL
    BY <1>1, <2>2 DEF VisitsAll
  <2> QED BY <2>1, <2>2
<1> QED BY <1>2, <1>3, <1>4, <1>5 DEF Inv

LEMMA InvInductive == Inv /\ [Next]_vars => Inv'
<1> SUFFICES ASSUME Inv, [Next]_vars PROVE Inv'
  OBVIOUS
<1>1. CASE UNCHANGED vars
  BY <1>1 DEF vars, iterator, history, Inv, ListOK, TypeOK, Linked, Reached, Closed,
              OnList, Remaining, From, VisitsAll, Ahead
<1> QED BY <1>1, ConstructKeepsInv, RemovalKeepsInv, BeginKeepsInv, LoadKeepsInv,
           AdvanceKeepsInv DEF Next

LEMMA Invariance == Spec => []Inv
  BY InitInv, InvInductive, PTL DEF Spec

-----------------------------------------------------------------------------
(* Types, whatever the number of objects: a listed object is always one    *)
(* that is constructed (List.h:31-39).                                     *)
THEOREM ListTypeCorrect == Spec => []TypeOK
<1>1. Inv => TypeOK
  BY DEF Inv, ListOK
<1> QED BY <1>1, Invariance, PTL

(* The links lead to exactly the objects that were added and not removed   *)
(* since, in whatever order they come and go (List.h:41-72).               *)
THEOREM LinksAlwaysMatch == Spec => []LinksMatch
<1>1. Inv => LinksMatch
  BY ChainIsListed DEF Inv, LinksMatch
<1> QED BY <1>1, Invariance, PTL

(* Only the removal of the object right ahead leads the iterator off the   *)
(* list (List.h:95-112).                                                   *)
THEOREM IteratorStaysOnList == Spec => []IteratorOnList
<1>1. Inv => IteratorOnList
  BY DEF Inv, OnList, IteratorOnList, Ahead
<1> QED BY <1>1, Invariance, PTL

(* With that exception an iteration visits all objects that stay in the    *)
(* list while it lasts, although it takes no semaphore.                    *)
THEOREM IterationVisitsAll == Spec => []VisitsAll
<1>1. Inv => VisitsAll
  BY DEF Inv
<1> QED BY <1>1, Invariance, PTL
-----------------------------------------------------------------------------
(* Removal dereferences a null pointer exactly if the object is not in the *)
(* list and the list is not empty: the search does not stop at the end     *)
(* (List.h:65-68).                                                         *)
RemovalCrashesExactly ==
  [][\A o \in Objects : RemoveExplicitly(o) \/ Destroy(o) =>
       (crashed' <=> o \notin listed /\ listed # {})]_vars

LEMMA RemovalStep ==
  ASSUME Inv, NEW o \in Objects, RemoveExplicitly(o) \/ Destroy(o)
  PROVE  crashed' <=> o \notin listed /\ listed # {}
<1>1. ~crashed /\ Remove(o) /\ Chain = listed
  BY ChainIsListed DEF RemoveExplicitly, Destroy, Inv
<1>2. head = NULL <=> listed = {}
  BY EmptyListEmpty DEF Inv, ListOK, Linked, Closed
<1>3. CASE o \in listed
  BY <1>1, <1>2, <1>3 DEF Remove
<1>4. CASE o \notin listed
  <2>1. head # NULL => ~Unlink(o)
    <3> SUFFICES ASSUME head # NULL, Unlink(o) PROVE FALSE
      OBVIOUS
    <3>1. head # o
      BY <1>4 DEF Inv, ListOK, Linked, Closed
    <3>2. PICK before \in listed : next[before] = o
      BY <1>1, <3>1 DEF Unlink
    <3> QED BY <1>4, <3>2, ListConstantsOK DEF Inv, ListOK, Linked, Closed
  <2> QED BY <1>1, <1>2, <1>4, <2>1 DEF Remove
<1> QED BY <1>3, <1>4

(* An object whose destructor or remove() comes a second time is harmless  *)
(* only while the list is empty, and any other removal is harmless.        *)
THEOREM OnlyMisuseCrashes == Spec => RemovalCrashesExactly
<1>1. Inv /\ [Next]_vars =>
        [\A o \in Objects : RemoveExplicitly(o) \/ Destroy(o) =>
           (crashed' <=> o \notin listed /\ listed # {})]_vars
  BY RemovalStep
<1> QED BY <1>1, Invariance, PTL DEF Spec, RemovalCrashesExactly
=============================================================================
