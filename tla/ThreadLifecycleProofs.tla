------------------------- MODULE ThreadLifecycleProofs -------------------------
(***************************************************************************)
(* What posix::Threads guarantees for any number of thread objects.        *)
(***************************************************************************)
EXTENDS ThreadLifecycle, TLAPS

ListProofs == INSTANCE IntrusiveListProofs

\* S contains what its members link to.
Follows(S) == \A o \in S : next[o] # NULL => next[o] \in S

\* Whoever follows the links from a comes to o.
Leads(a, o) == \A S \in SUBSET Objects : a \in S /\ Follows(S) => o \in S

(* The list has one end, and every object in it leads there: an object     *)
(* that is added is added behind all others.                               *)
OneEnd ==
  /\ \A x, y \in listed : next[x] = NULL /\ next[y] = NULL => x = y
  /\ \A S \in SUBSET listed : S # {} /\ Follows(S) => \E e \in S : next[e] = NULL

(* The list as the threads use it: nobody removes an object that goes on   *)
(* living, or the one that the iteration goes to next.                     *)
ListUsed ==
  /\ ListProofs!Inv /\ OneEnd
  /\ listed = there /\ ~crashed /\ ~pulled

(* An object without a thread_func has no pthread; a thread that runs has  *)
(* its own object, and only a thread that runs makes calls.                *)
ThreadsOK ==
  /\ \A o \in Objects \ managed : thread[o] = "none"
  /\ \A o \in Objects : thread[o] \in {"runs", "ended"} => tls[o] = o
  /\ \A a \in Objects : at[a] # "free" => thread[a] = "runs"

(* Who starts an object has made it and put it behind its own; who joins   *)
(* it is the only one, and in ~Threads that can only be the main thread.   *)
CallsOK ==
  /\ \A a \in Agents : at[a] = "start" =>
       arg[a] \in managed /\ life[arg[a]] = "made" /\ thread[arg[a]] = "none"
  /\ \A a \in Agents : at[a] = "join" => arg[a] \in Objects /\ life[arg[a]] = "dying"
  /\ \A a, b \in Agents :
       at[a] \in {"start", "join"} /\ at[b] \in {"start", "join"} /\ arg[a] = arg[b] => a = b
  /\ \A o \in Objects :
       /\ life[o] = "made" => \E a \in Agents : at[a] = "start" /\ arg[a] = o
       /\ life[o] = "dying" => \E a \in Agents : at[a] = "join" /\ arg[a] = o
  /\ \A a \in Objects : at[a] = "start" => Leads(a, arg[a])
  /\ \A a \in Objects : at[a] # "visit" /\ (at[a] = "join" => phase = "up")
  /\ phase = "up" /\ tls[Main] # NULL => tls[Main] \in there /\ tls[Main] \notin managed
                                          /\ life[tls[Main]] = "live"

(* ~Threads frees the object it visits before it goes on, so that it is    *)
(* always the head of the list that it visits.                             *)
LoopOK ==
  /\ phase = "up" => pc = "idle" /\ owed = {} /\ at[Main] # "visit"
  /\ phase = "down" => owed = {}
  /\ phase = "destroying" =>
       /\ at[Main] # "start"
       /\ pc = "load" => ptr = head /\ at[Main] = "free" /\ visited = {}
       /\ pc = "visit" /\ at[Main] = "free" => (saved # NULL => saved = head) /\ visited = {}
       /\ at[Main] \in {"visit", "join"} =>
            /\ pc = "visit" /\ ptr = head /\ visited = {ptr} /\ saved # ptr
            /\ saved # NULL => next[ptr] = saved
       /\ at[Main] = "visit" => life[ptr] = "live"
       /\ at[Main] = "join" => arg[Main] = ptr
       /\ pc = "idle" => owed = {} /\ at[Main] = "free"

Inv == TypeOK /\ ListUsed /\ ThreadsOK /\ CallsOK /\ LoopOK

-----------------------------------------------------------------------------
(* The list. *)

(* Whatever List<T> does on behalf of the threads keeps its invariant.     *)
LEMMA ListStep ==
  ASSUME ListProofs!Inv, NEW o \in Objects, List!Construct(o) \/ List!Destroy(o)
  PROVE  ListProofs!Inv'
<1>1. CASE List!Construct(o)
  <2>1. ListProofs!Construct(o)
    BY <1>1 DEF List!Construct, ListProofs!Construct, List!Add, ListProofs!Add, List!Chain,
                ListProofs!Chain, List!Closed, ListProofs!Closed, List!iterator,
                ListProofs!iterator, List!history, ListProofs!history
  <2> QED BY <2>1, ListProofs!ConstructKeepsInv, LifecycleConstantsOK
<1>2. CASE List!Destroy(o)
  <2>1. ListProofs!Destroy(o)
    BY <1>2 DEF List!Destroy, ListProofs!Destroy, List!Remove, ListProofs!Remove, List!Unlink,
                ListProofs!Unlink, List!Ahead, ListProofs!Ahead, List!Chain,
                ListProofs!Chain, List!Closed, ListProofs!Closed, List!iterator,
                ListProofs!iterator
  <2> QED BY <2>1, ListProofs!RemovalKeepsInv, LifecycleConstantsOK
<1> QED BY <1>1, <1>2

LEMMA IterationStep ==
  ASSUME ListProofs!Inv, List!Begin \/ List!Load \/ List!Advance
  PROVE  ListProofs!Inv'
<1>1. CASE List!Begin
  BY <1>1, ListProofs!BeginKeepsInv, LifecycleConstantsOK DEF List!Begin, ListProofs!Begin
<1>2. CASE List!Load
  BY <1>2, ListProofs!LoadKeepsInv, LifecycleConstantsOK DEF List!Load, ListProofs!Load
<1>3. CASE List!Advance
  BY <1>3, ListProofs!AdvanceKeepsInv, LifecycleConstantsOK
     DEF List!Advance, ListProofs!Advance, List!history, ListProofs!history
<1> QED BY <1>1, <1>2, <1>3

(* What the invariant says of the pointers. *)
LEMMA ListFacts ==
  ASSUME ListUsed
  PROVE  /\ head \in Objects \cup {NULL} /\ next \in [Objects -> Objects \cup {NULL}]
         /\ ptr \in Objects \cup {NULL} /\ saved \in Objects \cup {NULL}
         /\ listed \subseteq Objects /\ owed \subseteq listed /\ visited \subseteq Objects
         /\ pc \in {"idle", "load", "visit"}
         /\ head # NULL => head \in listed
         /\ head = NULL => listed = {}
         /\ Follows(listed)
         /\ \A a \in listed : next[a] # NULL => next[a] # head
         /\ \A a, b \in listed : next[a] = next[b] /\ next[a] # NULL => a = b
         /\ List!Chain = listed
         /\ pc = "load" => ptr \in listed
         /\ pc = "visit" /\ saved # NULL => saved \in listed
         /\ pc = "idle" => owed \subseteq visited
<1>1. ListProofs!ListOK /\ ListProofs!TypeOK /\ ListProofs!Linked /\ ListProofs!Reached
  BY DEF ListUsed, ListProofs!Inv, ListProofs!ListOK
<1>2. ListProofs!Chain = listed
  BY <1>1, ListProofs!ChainIsListed, LifecycleConstantsOK
<1>3. List!Chain = listed
  BY <1>2 DEF List!Chain, ListProofs!Chain, List!Closed, ListProofs!Closed
<1>4. head = NULL => listed = {}
  BY <1>1, ListProofs!EmptyListEmpty, LifecycleConstantsOK
<1>5. /\ pc = "load" => ptr # NULL
      /\ ListProofs!OnList /\ ListProofs!VisitsAll
  BY DEF ListUsed, ListProofs!Inv
<1>6. /\ pc = "load" => ptr \in listed
      /\ pc = "visit" /\ saved # NULL => saved \in listed
      /\ pc = "idle" => owed \subseteq visited
  BY <1>5 DEF ListUsed, ListProofs!OnList, ListProofs!Ahead, ListProofs!VisitsAll
<1> QED BY <1>1, <1>3, <1>4, <1>6
        DEF ListProofs!TypeOK, ListProofs!Linked, ListProofs!Closed, Follows

\* o is put behind the last object, if there is one.
Appended(o) ==
  /\ o \in Objects \ listed /\ listed' = listed \cup {o}
  /\ next[o] = NULL
  /\ \/ listed = {} /\ head' = o /\ next' = [next EXCEPT ![o] = NULL]
     \/ \E last \in listed :
          /\ next[last] = NULL
          /\ next' = [next EXCEPT ![last] = o, ![o] = NULL]
          /\ head' = head

\* The object before it is linked to the one behind it.
Removed(o) ==
  /\ o \in listed /\ listed' = listed \ {o}
  /\ \/ head = o /\ head' = next[o] /\ next' = [next EXCEPT ![o] = NULL]
     \/ \E before \in listed :
          /\ head # o /\ next[before] = o
          /\ next' = [next EXCEPT ![before] = next[o], ![o] = NULL]
          /\ head' = head

LEMMA ConstructAppends ==
  ASSUME ListUsed, NEW o \in Objects, List!Construct(o)
  PROVE  /\ Appended(o) /\ o \notin there /\ there' = there \cup {o}
         /\ UNCHANGED <<crashed, pc, ptr, saved, owed, visited, pulled>>
<1>1. o \notin there /\ there' = there \cup {o} /\ listed' = listed \cup {o} /\ List!Add(o)
      /\ UNCHANGED <<crashed, pc, ptr, saved, owed, visited, pulled>>
  BY DEF List!Construct, List!iterator, List!history
<1>2. o \notin listed
  BY <1>1 DEF ListUsed
<1>3. next[o] = NULL
  BY <1>2 DEF ListUsed, ListProofs!Inv, ListProofs!ListOK, ListProofs!Linked
<1> QED BY <1>1, <1>2, <1>3, ListFacts DEF List!Add, Appended

LEMMA DestroyRemoves ==
  ASSUME ListUsed, NEW o \in Objects, List!Destroy(o), o # List!Ahead
  PROVE  /\ Removed(o) /\ there' = there \ {o} /\ owed' = owed \ {o} /\ visited' = visited \ {o}
         /\ UNCHANGED <<crashed, pc, ptr, saved, pulled>>
<1>1. /\ o \in there /\ there' = there \ {o} /\ visited' = visited \ {o}
      /\ UNCHANGED <<pc, ptr, saved>> /\ List!Remove(o)
  BY DEF List!Destroy, List!iterator
<1>2. o \in listed /\ o \in List!Chain /\ head # NULL
  BY <1>1, ListFacts DEF ListUsed
<1>3. List!Unlink(o) /\ UNCHANGED crashed /\ listed' = listed \ {o} /\ owed' = owed \ {o}
  BY <1>1, <1>2 DEF List!Remove
<1>4. pulled' = pulled
  <2>1. pulled = FALSE
    BY DEF ListUsed, ListProofs!Inv, ListProofs!ListOK, ListProofs!TypeOK
  <2>2. pulled' = (pulled \/ o = List!Ahead)
    BY <1>1 DEF List!Remove
  <2> QED BY <2>1, <2>2
<1> QED BY <1>1, <1>2, <1>3, <1>4, ListFacts DEF List!Unlink, Removed

(* Adding an object behind the last one leaves it the only end.            *)
LEMMA AppendKeepsOneEnd ==
  ASSUME ListUsed, NEW o \in Objects, Appended(o)
  PROVE  OneEnd'
<1> USE LifecycleConstantsOK, ListFacts
<1>0. o \in Objects \ listed /\ listed' = listed \cup {o} /\ next[o] = NULL /\ o # NULL
  BY DEF Appended
<1>1. CASE listed = {} /\ next' = [next EXCEPT ![o] = NULL]
  BY <1>0, <1>1 DEF OneEnd
<1>2. ASSUME NEW last \in listed, next[last] = NULL,
             next' = [next EXCEPT ![last] = o, ![o] = NULL]
      PROVE  OneEnd'
  <2>1. next'[last] = o /\ next'[o] = NULL /\ \A x \in listed \ {last} : next'[x] = next[x]
    BY <1>0, <1>2
  <2>2. \A x \in listed' : next'[x] = NULL => x = o
    BY <1>0, <1>2, <2>1 DEF OneEnd, ListUsed
  <2>3. ASSUME NEW S \in SUBSET listed', S # {}, Follows(S)'
        PROVE  \E e \in S : next'[e] = NULL
    <3>1. CASE o \in S
      BY <2>1, <3>1
    <3>2. CASE o \notin S
      <4>1. S \in SUBSET listed /\ last \notin S
        BY <1>0, <2>1, <2>3, <3>2 DEF Follows
      <4>2. Follows(S)
        BY <2>1, <2>3, <4>1 DEF Follows
      <4>3. PICK e \in S : next[e] = NULL
        BY <2>3, <4>1, <4>2 DEF OneEnd, ListUsed
      <4> QED BY <2>1, <4>1, <4>3
    <3> QED BY <3>1, <3>2
  <2> QED BY <2>2, <2>3 DEF OneEnd
<1> QED BY <1>1, <1>2 DEF Appended

(* Removing an object keeps the ways of all others to the end.             *)
LEMMA RemoveKeepsOneEnd ==
  ASSUME ListUsed, NEW o \in Objects, Removed(o)
  PROVE  OneEnd'
<1> USE LifecycleConstantsOK, ListFacts
<1>0. o \in listed /\ listed' = listed \ {o} /\ o # NULL
  BY DEF Removed
<1>1. CASE head = o /\ next' = [next EXCEPT ![o] = NULL]
  <2>1. \A x \in listed' : next'[x] = next[x]
    BY <1>0, <1>1
  <2>2. ASSUME NEW S \in SUBSET listed', S # {}, Follows(S)'
        PROVE  \E e \in S : next'[e] = NULL
    <3>1. S \in SUBSET listed /\ Follows(S)
      BY <1>0, <2>1, <2>2 DEF Follows
    <3> QED BY <2>1, <2>2, <3>1 DEF OneEnd, ListUsed
  <2>3. \A x, y \in listed' : next'[x] = NULL /\ next'[y] = NULL => x = y
    BY <1>0, <2>1 DEF OneEnd, ListUsed
  <2> QED BY <2>2, <2>3 DEF OneEnd
<1>2. ASSUME NEW before \in listed, next[before] = o,
             next' = [next EXCEPT ![before] = next[o], ![o] = NULL]
      PROVE  OneEnd'
  <2>0. before # o
    <3> SUFFICES ASSUME before = o PROVE FALSE
      OBVIOUS
    <3>1. next[o] = o
      BY <1>2
    <3>2. {o} \in SUBSET listed /\ Follows({o})
      BY <1>0, <3>1 DEF Follows
    <3> QED BY <1>0, <3>1, <3>2 DEF OneEnd, ListUsed
  <2>1. next'[before] = next[o] /\ \A x \in listed' \ {before} : next'[x] = next[x]
    BY <1>0, <1>2, <2>0
  <2>2. ASSUME NEW S \in SUBSET listed', S # {}, Follows(S)'
        PROVE  \E e \in S : next'[e] = NULL
    <3>1. CASE before \in S
      <4>1. S \cup {o} \in SUBSET listed /\ Follows(S \cup {o})
        BY <1>0, <1>2, <2>1, <2>2, <3>1 DEF Follows
      <4>2. PICK e \in S \cup {o} : next[e] = NULL
        BY <4>1 DEF OneEnd, ListUsed
      <4> QED BY <1>0, <1>2, <2>1, <2>2, <3>1, <4>2
    <3>2. CASE before \notin S
      <4>1. S \in SUBSET listed /\ Follows(S)
        BY <1>0, <2>1, <2>2, <3>2 DEF Follows
      <4> QED BY <2>1, <2>2, <3>2, <4>1 DEF OneEnd, ListUsed
    <3> QED BY <3>1, <3>2
  <2>3. \A x, y \in listed' : next'[x] = NULL /\ next'[y] = NULL => x = y
    BY <1>0, <2>0, <2>1 DEF OneEnd, ListUsed
  <2> QED BY <2>2, <2>3 DEF OneEnd
<1> QED BY <1>1, <1>2 DEF Removed

(* What is behind an object stays behind it, and what is added is behind   *)
(* all that is there.                                                      *)
LEMMA AppendKeepsOrder ==
  ASSUME ListUsed, NEW o \in Objects, Appended(o), NEW a \in listed
  PROVE  /\ Leads(a, o)'
         /\ \A b \in listed : Leads(a, b) => Leads(a, b)'
<1> USE LifecycleConstantsOK, ListFacts
<1>0. o \in Objects \ listed /\ o # NULL
  BY DEF Appended
<1>1. PICK last \in listed : next[last] = NULL /\ next' = [next EXCEPT ![last] = o, ![o] = NULL]
  BY DEF Appended
<1>2. next'[last] = o /\ next'[o] = NULL /\ \A x \in Objects \ {o, last} : next'[x] = next[x]
  BY <1>0, <1>1
<1>3. ASSUME NEW S \in SUBSET Objects, a \in S, Follows(S)'
      PROVE  o \in S /\ Follows(S)
  <2>1. last \in S
    <3> DEFINE T == S \cap listed
    <3>1. T \in SUBSET listed /\ T # {}
      BY <1>3
    <3>2. last \notin S => Follows(T)
      BY <1>2, <1>0, <1>3 DEF Follows
    <3> HIDE DEF T
    <3>3. last \notin S => \E e \in T : next[e] = NULL
      BY <3>1, <3>2 DEF OneEnd, ListUsed
    <3> QED BY <1>1, <3>1, <3>3 DEF OneEnd, ListUsed, T
  <2>2. o \in S
    BY <1>0, <1>2, <1>3, <2>1 DEF Follows
  <2>3. Follows(S)
    BY <1>0, <1>1, <1>2, <1>3 DEF Follows, Appended
  <2> QED BY <2>2, <2>3
<1> QED BY <1>3 DEF Leads

LEMMA RemoveKeepsOrder ==
  ASSUME ListUsed, NEW o \in Objects, Removed(o),
         NEW a \in listed \ {o}, NEW b \in Objects \ {o}, Leads(a, b)
  PROVE  Leads(a, b)'
<1> USE LifecycleConstantsOK, ListFacts
<1>0. o \in listed /\ o # NULL
  BY DEF Removed
<1> SUFFICES ASSUME NEW S \in SUBSET Objects, a \in S, Follows(S)' PROVE b \in S
  BY DEF Leads
<1> DEFINE T == (S \ {o}) \cap listed
<1>1. CASE head = o /\ next' = [next EXCEPT ![o] = NULL]
  <2>1. \A x \in Objects \ {o} : next'[x] = next[x]
    BY <1>0, <1>1
  <2>2. Follows(T)
    BY <1>0, <1>1, <2>1 DEF Follows
  <2> QED BY <2>2 DEF Leads
<1>2. ASSUME NEW before \in listed, next[before] = o,
             next' = [next EXCEPT ![before] = next[o], ![o] = NULL]
      PROVE  b \in S
  <2>1. \A x \in Objects \ {o, before} : next'[x] = next[x]
    BY <1>0, <1>2
  <2>2. before # o => next'[before] = next[o]
    BY <1>0, <1>2
  <2>3. \A x \in listed : next[x] = o => x = before
    BY <1>0, <1>2
  <2>4. CASE before \in T
    <3>1. Follows(T \cup {o})
      BY <1>0, <1>2, <2>1, <2>2, <2>4 DEF Follows
    <3>2. a \in T \cup {o} /\ T \cup {o} \in SUBSET Objects
      BY <1>0
    <3>3. b \in T \cup {o}
      BY <3>1, <3>2 DEF Leads
    <3> QED BY <3>3
  <2>5. CASE before \notin T
    <3>1. Follows(T)
      BY <1>0, <2>1, <2>3, <2>5 DEF Follows
    <3> QED BY <3>1 DEF Leads
  <2> QED BY <2>4, <2>5
<1> QED BY <1>1, <1>2 DEF Removed

(* The head is behind no other object.                                     *)
LEMMA HeadIsFirst ==
  ASSUME ListUsed, NEW a \in listed, Leads(a, head)
  PROVE  a = head
<1> USE LifecycleConstantsOK, ListFacts
<1> SUFFICES ASSUME a # head PROVE FALSE
  OBVIOUS
<1>1. Follows(listed \ {head})
  BY DEF Follows
<1> QED BY <1>1 DEF Leads

(* No object in the list is linked to itself.                              *)
LEMMA NoSelfLink ==
  ASSUME ListUsed, NEW a \in listed
  PROVE  next[a] # a
<1> USE LifecycleConstantsOK, ListFacts
<1> SUFFICES ASSUME next[a] = a PROVE FALSE
  OBVIOUS
<1>1. {a} \in SUBSET listed /\ Follows({a})
  BY DEF Follows
<1> QED BY <1>1 DEF OneEnd, ListUsed

LEMMA ConstructKeepsListUsed ==
  ASSUME ListUsed, NEW o \in Objects, List!Construct(o)
  PROVE  ListUsed'
BY ConstructAppends, AppendKeepsOneEnd, ListStep DEF ListUsed, Appended

LEMMA DestroyKeepsListUsed ==
  ASSUME ListUsed, NEW o \in Objects, List!Destroy(o), o # List!Ahead
  PROVE  ListUsed'
BY DestroyRemoves, RemoveKeepsOneEnd, ListStep DEF ListUsed, Removed

LEMMA IterationKeepsListUsed ==
  ASSUME ListUsed, List!Begin \/ List!Load \/ List!Advance
  PROVE  ListUsed' /\ UNCHANGED <<head, next, there, listed>>
<1>1. UNCHANGED <<head, next, there, listed, crashed>> /\ ~pulled'
  BY DEF List!Begin, List!Load, List!Advance, List!history, ListUsed
<1>2. OneEnd'
  BY <1>1 DEF OneEnd, Follows, ListUsed
<1>3. ListProofs!Inv'
  BY IterationStep DEF ListUsed
<1> QED BY <1>1, <1>2, <1>3 DEF ListUsed

LEMMA ListUnchanged ==
  ASSUME ListUsed, UNCHANGED listvars
  PROVE  ListUsed' /\ \A a, b \in Objects : Leads(a, b) => Leads(a, b)'
<1>1. ListProofs!Inv'
  <2>1. UNCHANGED ListProofs!vars
    BY DEF listvars, ListProofs!vars, ListProofs!iterator, ListProofs!history
  <2> QED BY <2>1, ListProofs!InvInductive, LifecycleConstantsOK DEF ListUsed
<1>2. OneEnd'
  BY DEF OneEnd, Follows, ListUsed, listvars
<1>3. \A a, b \in Objects : Leads(a, b) => Leads(a, b)'
  BY DEF Leads, Follows, listvars
<1> QED BY <1>1, <1>2, <1>3 DEF ListUsed, listvars

-----------------------------------------------------------------------------
(* The actions.                                                            *)

LEMMA StartKeepsInv ==
  ASSUME Inv, NEW a \in Agents, NEW o \in Objects, Start(a, o)
  PROVE  Inv'
<1> USE LifecycleConstantsOK
<1>1. /\ ListUsed /\ ListUsed' /\ Appended(o) /\ o \notin there /\ there' = there \cup {o}
      /\ UNCHANGED <<crashed, pc, ptr, saved, owed, visited, pulled>>
  BY ConstructAppends, ConstructKeepsListUsed DEF Inv, Start
<1>2. /\ Up /\ at[a] = "free" /\ (a = Main => phase = "up") /\ (a # Main => thread[a] = "runs")
  BY DEF Start, Idle
<1>3. /\ life' = [life EXCEPT ![o] = "made"] /\ managed' = managed \cup {o}
      /\ at' = [at EXCEPT ![a] = "start"] /\ arg' = [arg EXCEPT ![a] = o]
      /\ UNCHANGED <<thread, cancelled, tls, phase, halted>>
  BY DEF Start
<1>4. life[o] = "none" /\ o \notin managed /\ thread[o] = "none"
  BY <1>1 DEF Inv, TypeOK, ThreadsOK
<1>5. TypeOK'
  BY <1>1, <1>3, <1>4 DEF Inv, TypeOK, Agents
<1>6. ThreadsOK'
  BY <1>2, <1>3, <1>4 DEF Inv, TypeOK, ThreadsOK, Agents
<1>7. CallsOK'
  <2> USE DEF Inv, TypeOK, Agents
  <2>1. \A b \in Agents : b # a => at'[b] = at[b] /\ arg'[b] = arg[b]
    BY <1>3
  <2>2. at'[a] = "start" /\ arg'[a] = o
    BY <1>3
  <2>3. \A b \in Agents : at[b] \in {"start", "join"} => arg[b] # o
    BY <1>4 DEF CallsOK
  <2>4. \A b \in Objects : at'[b] = "start" => Leads(b, arg[b])'
    <3>1. ASSUME NEW b \in Objects, b # a, at[b] = "start"
          PROVE  Leads(b, arg[b])'
      <4>1. b \in listed /\ Leads(b, arg[b]) /\ arg[b] \in listed /\ arg'[b] = arg[b]
        BY <2>1, <3>1, <1>1 DEF CallsOK, ThreadsOK, ListUsed
      <4>2. Leads(b, arg[b])' <=> (\A S \in SUBSET Objects : b \in S /\ Follows(S)' => arg[b] \in S)
        BY <4>1 DEF Leads
      <4> QED BY <1>1, <4>1, <4>2, AppendKeepsOrder DEF Leads
    <3>2. ASSUME a \in Objects PROVE Leads(a, arg[a])'
      <4>1. a \in listed
        BY <1>1, <1>2, <3>2 DEF ThreadsOK, ListUsed
      <4> QED BY <1>1, <2>2, <4>1, AppendKeepsOrder DEF Leads
    <3> QED BY <2>1, <3>1, <3>2
  <2>5. \A x \in Objects :
          /\ life'[x] = "made" => \E b \in Agents : at'[b] = "start" /\ arg'[b] = x
          /\ life'[x] = "dying" => \E b \in Agents : at'[b] = "join" /\ arg'[b] = x
    BY <1>2, <1>3, <2>1, <2>2 DEF CallsOK
  <2>6. phase' = "up" /\ tls'[Main] # NULL =>
          tls'[Main] \in there' /\ tls'[Main] \notin managed' /\ life'[tls'[Main]] = "live"
    BY <1>1, <1>3, <1>4 DEF CallsOK
  <2>7. \A b \in Agents : at'[b] = "start" =>
          arg'[b] \in managed' /\ life'[arg'[b]] = "made" /\ thread'[arg'[b]] = "none"
    BY <1>3, <1>4, <2>1, <2>2, <2>3 DEF CallsOK
  <2>8. \A b \in Agents : at'[b] = "join" => arg'[b] \in Objects /\ life'[arg'[b]] = "dying"
    BY <1>3, <2>1, <2>2, <2>3 DEF CallsOK
  <2>9. \A b, c \in Agents :
          at'[b] \in {"start", "join"} /\ at'[c] \in {"start", "join"} /\ arg'[b] = arg'[c] => b = c
    BY <2>1, <2>2, <2>3 DEF CallsOK
  <2>10. \A b \in Objects : at'[b] # "visit" /\ (at'[b] = "join" => phase' = "up")
    BY <1>3, <2>1, <2>2 DEF CallsOK
  <2> QED BY <2>4, <2>5, <2>6, <2>7, <2>8, <2>9, <2>10 DEF CallsOK
<1>8. LoopOK'
  <2> USE DEF Inv, TypeOK, Agents
  <2>1. phase = "destroying" => a # Main /\ at'[Main] = at[Main] /\ arg'[Main] = arg[Main]
    BY <1>2, <1>3
  <2>2. listed # {} => head' = head /\ \A x \in listed : next[x] # NULL => next'[x] = next[x]
    BY <1>1, ListFacts DEF Appended
  <2>3. phase = "destroying" /\ pc # "idle" /\ at[Main] = "free" /\ (pc = "load" \/ saved # NULL) =>
          listed # {}
    BY <1>1, ListFacts
  <2>4. phase = "destroying" /\ at[Main] \in {"visit", "join"} => ptr \in listed
    BY <1>1, ListFacts DEF LoopOK, CallsOK, ListUsed
  <2>5. phase = "up" => at'[Main] # "visit"
    BY <1>3 DEF LoopOK
  <2> QED BY <1>1, <1>2, <1>3, <1>4, <2>1, <2>2, <2>3, <2>4, <2>5 DEF LoopOK
<1> QED BY <1>1, <1>5, <1>6, <1>7, <1>8 DEF Inv

LEMMA RegisterMainKeepsInv ==
  ASSUME Inv, NEW o \in Objects, RegisterMain(o)
  PROVE  Inv'
<1> USE LifecycleConstantsOK
<1>1. /\ ListUsed /\ ListUsed' /\ Appended(o) /\ o \notin there /\ there' = there \cup {o}
      /\ UNCHANGED <<crashed, pc, ptr, saved, owed, visited, pulled>>
  BY ConstructAppends, ConstructKeepsListUsed DEF Inv, RegisterMain
<1>2. /\ phase = "up" /\ life' = [life EXCEPT ![o] = "live"] /\ tls' = [tls EXCEPT ![Main] = o]
      /\ UNCHANGED <<managed, thread, cancelled, at, arg, phase, halted>>
  BY DEF RegisterMain, Idle, calls
<1>3. life[o] = "none" /\ o \notin managed
  BY <1>1 DEF Inv, TypeOK
<1>4. TypeOK'
  BY <1>1, <1>2, <1>3 DEF Inv, TypeOK, Agents
<1>5. ThreadsOK'
  BY <1>2 DEF Inv, TypeOK, ThreadsOK, Agents
<1>6. CallsOK'
  <2> USE DEF Inv, TypeOK, Agents
  <2>1. ASSUME NEW b \in Objects, at[b] = "start"
        PROVE  Leads(b, arg[b])'
    <3>1. b \in listed /\ Leads(b, arg[b]) /\ arg[b] \in listed /\ arg'[b] = arg[b]
      BY <1>1, <1>2, <2>1 DEF CallsOK, ThreadsOK, ListUsed
    <3>2. Leads(b, arg[b])' <=> (\A S \in SUBSET Objects : b \in S /\ Follows(S)' => arg[b] \in S)
      BY <3>1 DEF Leads
    <3> QED BY <1>1, <3>1, <3>2, AppendKeepsOrder DEF Leads
  <2>2. \A b \in Agents : at[b] \in {"start", "join"} => arg[b] # o
    BY <1>3 DEF CallsOK
  <2>3. \A b \in Objects : at'[b] = "start" => Leads(b, arg[b])'
    BY <1>2, <2>1
  <2> HIDE DEF Leads
  <2> QED BY <1>1, <1>2, <1>3, <2>2, <2>3 DEF CallsOK
<1>7. LoopOK'
  BY <1>1, <1>2 DEF Inv, LoopOK
<1> QED BY <1>1, <1>4, <1>5, <1>6, <1>7 DEF Inv

LEMMA CreateKeepsInv ==
  ASSUME Inv, NEW a \in Agents, Create(a)
  PROVE  Inv'
<1> USE LifecycleConstantsOK
<1>1. ListUsed' /\ \A x, y \in Objects : Leads(x, y) => Leads(x, y)'
  BY ListUnchanged DEF Inv, Create
<1> DEFINE o == arg[a]
<1>2. /\ at[a] = "start" /\ Up
      /\ life' = [life EXCEPT ![o] = "live"] /\ thread' = [thread EXCEPT ![o] = "new"]
      /\ at' = [at EXCEPT ![a] = "free"] /\ arg' = [arg EXCEPT ![a] = NULL]
      /\ UNCHANGED <<head, next, there, listed, crashed, pc, ptr, saved, owed, visited, pulled,
                     managed, cancelled, tls, phase, halted>>
  BY DEF Create, listvars
<1>3. o \in managed /\ o \in there /\ o \in Objects /\ life[o] = "made" /\ thread[o] = "none"
  BY <1>2 DEF Inv, TypeOK, CallsOK
<1> HIDE DEF o
<1>4. TypeOK'
  BY <1>2, <1>3 DEF Inv, TypeOK, Agents
<1>5. ThreadsOK'
  BY <1>2, <1>3 DEF Inv, TypeOK, ThreadsOK, Agents
<1>6. CallsOK'
  <2> USE DEF Inv, TypeOK, Agents
  <2>1. \A b \in Agents : b # a => at'[b] = at[b] /\ arg'[b] = arg[b]
    BY <1>2
  <2>2. at'[a] = "free"
    BY <1>2
  <2>3. \A b \in Agents : at[b] \in {"start", "join"} /\ arg[b] = o => b = a
    BY <1>2 DEF CallsOK, o
  <2>4. \A b \in Objects : at'[b] = "start" => Leads(b, arg[b])'
    <3>1. ASSUME NEW b \in Objects, at'[b] = "start"
          PROVE  Leads(b, arg[b])'
      <4>1. arg'[b] = arg[b] /\ Leads(b, arg[b]) /\ arg[b] \in Objects
        BY <2>1, <2>2, <3>1 DEF CallsOK
      <4>2. \A y \in Objects : Leads(b, y) => \A S \in SUBSET Objects : b \in S /\ Follows(S)' => y \in S
        BY <1>1 DEF Leads
      <4> QED BY <4>1, <4>2 DEF Leads
    <3> QED BY <3>1
  <2>5. \A x \in Objects :
          /\ life'[x] = "made" => \E b \in Agents : at'[b] = "start" /\ arg'[b] = x
          /\ life'[x] = "dying" => \E b \in Agents : at'[b] = "join" /\ arg'[b] = x
    <3> SUFFICES ASSUME NEW x \in Objects, x # o
                 PROVE /\ life[x] = "made" => \E b \in Agents : at'[b] = "start" /\ arg'[b] = x
                       /\ life[x] = "dying" => \E b \in Agents : at'[b] = "join" /\ arg'[b] = x
      BY <1>2, <1>3
    <3> QED BY <1>2, <2>1 DEF CallsOK, o
  <2>6. \A b \in Agents : at'[b] = "start" =>
          arg'[b] \in managed' /\ life'[arg'[b]] = "made" /\ thread'[arg'[b]] = "none"
    BY <1>2, <2>1, <2>2, <2>3 DEF CallsOK
  <2>7. \A b \in Agents : at'[b] = "join" => arg'[b] \in Objects /\ life'[arg'[b]] = "dying"
    BY <1>2, <2>1, <2>2, <2>3 DEF CallsOK
  <2> QED BY <1>2, <1>3, <2>1, <2>2, <2>4, <2>5, <2>6, <2>7 DEF CallsOK
<1>7. LoopOK'
  <2>1. phase = "destroying" => a # Main
    BY <1>2 DEF Inv, LoopOK
  <2> QED BY <1>2, <1>3, <2>1 DEF Inv, TypeOK, LoopOK, Agents
<1> QED BY <1>1, <1>4, <1>5, <1>6, <1>7 DEF Inv

(* The process stops where it is: nothing but halted changes.              *)
LEMMA HaltKeepsInv ==
  ASSUME Inv, UNCHANGED <<listvars, objects, tls, calls, phase>>, halted' \in BOOLEAN
  PROVE  Inv'
<1>1. ListUsed' /\ \A x, y \in Objects : Leads(x, y) => Leads(x, y)'
  BY ListUnchanged DEF Inv
<1>2. /\ TypeOK' /\ ThreadsOK' /\ LoopOK'
  BY DEF Inv, TypeOK, ThreadsOK, LoopOK, listvars, objects, calls
<1>3. CallsOK'
  BY DEF Inv, CallsOK, Leads, Follows, listvars, objects, calls
<1> QED BY <1>1, <1>2, <1>3 DEF Inv

(* A thread begins to run, or ends.                                        *)
LEMMA RunKeepsInv ==
  ASSUME Inv, NEW o \in Objects,
         \/ Run(o)
         \/ FuncReturns(o) \/ ActOnCancel(o)
  PROVE  Inv'
<1> USE LifecycleConstantsOK
<1>1. ListUsed' /\ UNCHANGED <<head, next, there, listed, pc, ptr, saved, owed, visited>>
  BY ListUnchanged DEF Inv, Run, FuncReturns, ActOnCancel, Ends, listvars
<1>2. /\ at[o] = "free" \/ thread[o] = "new"
      /\ thread[o] # "none"
      /\ \E t \in {"runs", "ended"} : thread' = [thread EXCEPT ![o] = t]
      /\ tls' = [tls EXCEPT ![o] = o]
      /\ UNCHANGED <<life, managed, cancelled, at, arg, phase, halted>>
  <2>1. CASE Run(o)
    BY <2>1 DEF Run, calls
  <2>2. CASE Ends(o)
    <3>1. tls[o] = o /\ tls \in [Agents -> Objects \cup {NULL}]
      BY <2>2 DEF Ends, Idle, Inv, ThreadsOK, TypeOK
    <3>2. tls = [tls EXCEPT ![o] = o]
      BY <3>1
    <3> QED BY <2>2, <3>2 DEF Ends, Idle, calls
  <2> QED BY <2>1, <2>2 DEF FuncReturns, ActOnCancel
<1>3. TypeOK'
  BY <1>1, <1>2 DEF Inv, TypeOK, Agents
<1>4. at[o] = "free"
  BY <1>2 DEF Inv, ThreadsOK
<1>5. ThreadsOK'
  BY <1>2, <1>4 DEF Inv, TypeOK, ThreadsOK, Agents
<1>6. CallsOK'
  BY <1>1, <1>2 DEF Inv, TypeOK, CallsOK, Agents, Leads, Follows
<1>7. LoopOK'
  BY <1>1, <1>2 DEF Inv, LoopOK
<1> QED BY <1>1, <1>3, <1>5, <1>6, <1>7 DEF Inv

(* A destructor begins, of a managed object that somebody stops or of the  *)
(* one that the loop of ~Threads is at.                                    *)
LEMMA DeallocateKeepsInv ==
  ASSUME Inv, NEW a \in Agents, NEW o \in Objects,
         Deallocate(a, o), UNCHANGED listvars, at[a] \in {"free", "visit"}, life[o] = "live",
         \/ phase = "up" /\ o \in managed /\ (a # Main => thread[a] = "runs")
         \/ phase = "destroying" /\ a = Main /\ at[Main] = "visit" /\ o = ptr
  PROVE  Inv'
<1> USE LifecycleConstantsOK
<1>1. ListUsed' /\ UNCHANGED <<head, next, there, listed, pc, ptr, saved, owed, visited>>
  BY ListUnchanged DEF Inv, listvars
<1>2. /\ life' = [life EXCEPT ![o] = "dying"]
      /\ cancelled' = cancelled \cup ({o} \cap managed)
      /\ at' = [at EXCEPT ![a] = "join"]
      /\ arg' = [arg EXCEPT ![a] = o]
      /\ UNCHANGED <<managed, thread, tls, phase, halted>>
  BY DEF Deallocate
<1>3. TypeOK'
  BY <1>1, <1>2 DEF Inv, TypeOK, Agents
<1>4. ThreadsOK'
  BY <1>2 DEF Inv, TypeOK, ThreadsOK, CallsOK, LoopOK, Agents
<1>5. CallsOK'
  <2> USE DEF Inv, TypeOK, Agents
  <2>1. \A b \in Agents : b # a => at'[b] = at[b] /\ arg'[b] = arg[b]
    BY <1>2
  <2>2. at'[a] = "join" /\ arg'[a] = o
    BY <1>2
  <2>3. \A b \in Agents : at[b] \in {"start", "join"} => arg[b] # o
    BY DEF CallsOK
  <2>4. \A b \in Objects : at'[b] = "start" => Leads(b, arg[b])'
    BY <1>1, <2>1, <2>2 DEF CallsOK, Leads, Follows
  <2>5. \A x \in Objects :
          /\ life'[x] = "made" => \E b \in Agents : at'[b] = "start" /\ arg'[b] = x
          /\ life'[x] = "dying" => \E b \in Agents : at'[b] = "join" /\ arg'[b] = x
    BY <1>2, <2>1, <2>2 DEF CallsOK
  <2>6. phase' = "up" /\ tls'[Main] # NULL =>
          tls'[Main] \in there' /\ tls'[Main] \notin managed' /\ life'[tls'[Main]] = "live"
    BY <1>1, <1>2 DEF CallsOK
  <2>7. \A b \in Agents : at'[b] = "start" =>
          arg'[b] \in managed' /\ life'[arg'[b]] = "made" /\ thread'[arg'[b]] = "none"
    BY <1>2, <2>1, <2>2, <2>3 DEF CallsOK
  <2>8. \A b \in Agents : at'[b] = "join" => arg'[b] \in Objects /\ life'[arg'[b]] = "dying"
    BY <1>2, <2>1, <2>2 DEF CallsOK
  <2>9. \A b, c \in Agents :
          at'[b] \in {"start", "join"} /\ at'[c] \in {"start", "join"} /\ arg'[b] = arg'[c] => b = c
    BY <2>1, <2>2, <2>3 DEF CallsOK
  <2>10. \A b \in Objects : at'[b] # "visit" /\ (at'[b] = "join" => phase' = "up")
    BY <1>2, <2>1, <2>2 DEF CallsOK
  <2> QED BY <2>4, <2>5, <2>6, <2>7, <2>8, <2>9, <2>10 DEF CallsOK
<1>6. LoopOK'
  BY <1>1, <1>2 DEF Inv, TypeOK, LoopOK, Agents
<1> QED BY <1>1, <1>3, <1>4, <1>5, <1>6 DEF Inv

LEMMA FreedKeepsInv ==
  ASSUME Inv, NEW a \in Agents, Freed(a)
  PROVE  Inv'
<1> USE LifecycleConstantsOK
<1> DEFINE o == arg[a]
<1>1. /\ Up /\ at[a] = "join" /\ (o \in managed => thread[o] = "ended") /\ List!Destroy(o)
      /\ life' = [life EXCEPT ![o] = "none"] /\ managed' = managed \ {o}
      /\ cancelled' = cancelled \ {o} /\ thread' = [thread EXCEPT ![o] = "none"]
      /\ tls' = [tls EXCEPT ![o] = NULL]
      /\ at' = [at EXCEPT ![a] = "free"] /\ arg' = [arg EXCEPT ![a] = NULL]
      /\ UNCHANGED <<phase, halted>>
  BY DEF Freed, Gone
<1>2. /\ o \in Objects /\ life[o] = "dying"
      /\ phase = "up" \/ (phase = "destroying" /\ a = Main)
  <2>1. o \in Objects /\ life[o] = "dying"
    BY <1>1 DEF Inv, CallsOK
  <2>2. phase \in {"up", "destroying"}
    BY <1>1 DEF Inv, TypeOK, Up
  <2>3. a # Main => phase = "up"
    BY <1>1 DEF Inv, CallsOK, Agents
  <2> QED BY <2>1, <2>2, <2>3
<1>3. phase = "destroying" => o = ptr /\ pc = "visit" /\ saved # ptr /\ ptr = head
  BY <1>1, <1>2 DEF Inv, LoopOK
<1>4. o # List!Ahead
  BY <1>2, <1>3 DEF Inv, LoopOK, List!Ahead
<1>5. /\ ListUsed /\ ListUsed' /\ Removed(o) /\ there' = there \ {o} /\ owed' = owed \ {o}
      /\ visited' = visited \ {o}
      /\ UNCHANGED <<crashed, pc, ptr, saved, pulled>>
  BY <1>1, <1>2, <1>4, DestroyRemoves, DestroyKeepsListUsed DEF Inv
<1> HIDE DEF o
<1>6. TypeOK'
  BY <1>1, <1>2, <1>5 DEF Inv, TypeOK, Agents
<1>7. a # o /\ (\A b \in Agents : at[b] = "start" => b # o /\ arg[b] # o)
  <2>1. \A b \in Objects : at[b] # "free" => thread[b] = "runs" /\ b \in managed
    BY DEF Inv, ThreadsOK
  <2> QED BY <1>1, <1>2, <2>1 DEF Inv, CallsOK
<1>8. ThreadsOK'
  BY <1>1, <1>2, <1>7 DEF Inv, TypeOK, ThreadsOK, Agents
<1>9. CallsOK'
  <2> USE DEF Inv, TypeOK, Agents
  <2>1. \A b \in Agents : b # a => at'[b] = at[b] /\ arg'[b] = arg[b]
    BY <1>1
  <2>2. at'[a] = "free"
    BY <1>1
  <2>3. \A b \in Agents : at[b] \in {"start", "join"} /\ arg[b] = o => b = a
    BY <1>1 DEF CallsOK, o
  <2>4. ASSUME NEW b \in Objects, at'[b] = "start" PROVE Leads(b, arg[b])'
    <3>1. /\ at[b] = "start" /\ arg'[b] = arg[b] /\ Leads(b, arg[b]) /\ b # o /\ arg[b] # o
          /\ arg[b] \in Objects
      BY <1>7, <2>1, <2>2, <2>4 DEF CallsOK
    <3>2. b \in listed
      BY <3>1, <1>5 DEF ThreadsOK, ListUsed
    <3>3. Leads(b, arg[b])' <=> (\A S \in SUBSET Objects : b \in S /\ Follows(S)' => arg[b] \in S)
      BY <3>1 DEF Leads
    <3>4. \A y \in Objects \ {o} :
            Leads(b, y) => \A S \in SUBSET Objects : b \in S /\ Follows(S)' => y \in S
      <4>1. ASSUME NEW y \in Objects \ {o}, Leads(b, y) PROVE Leads(b, y)'
        BY <1>2, <1>5, <3>1, <3>2, <4>1, RemoveKeepsOrder
      <4> QED BY <4>1 DEF Leads
    <3> QED BY <3>1, <3>3, <3>4
  <2>5. \A x \in Objects :
          /\ life'[x] = "made" => \E b \in Agents : at'[b] = "start" /\ arg'[b] = x
          /\ life'[x] = "dying" => \E b \in Agents : at'[b] = "join" /\ arg'[b] = x
    <3> SUFFICES ASSUME NEW x \in Objects, x # o
                 PROVE /\ life[x] = "made" => \E b \in Agents : at'[b] = "start" /\ arg'[b] = x
                       /\ life[x] = "dying" => \E b \in Agents : at'[b] = "join" /\ arg'[b] = x
      BY <1>1, <1>2
    <3> QED BY <1>1, <2>1 DEF CallsOK, o
  <2>6. phase' = "up" /\ tls'[Main] # NULL =>
          tls'[Main] \in there' /\ tls'[Main] \notin managed' /\ life'[tls'[Main]] = "live"
    BY <1>1, <1>2, <1>5 DEF CallsOK
  <2>7. \A b \in Agents : at'[b] = "start" =>
          arg'[b] \in managed' /\ life'[arg'[b]] = "made" /\ thread'[arg'[b]] = "none"
    BY <1>1, <1>7, <2>1, <2>2 DEF CallsOK
  <2>8. \A b \in Agents : at'[b] = "join" => arg'[b] \in Objects /\ life'[arg'[b]] = "dying"
    BY <1>1, <2>1, <2>2, <2>3 DEF CallsOK
  <2>9. \A b, c \in Agents :
          at'[b] \in {"start", "join"} /\ at'[c] \in {"start", "join"} /\ arg'[b] = arg'[c] => b = c
    BY <2>1, <2>2 DEF CallsOK
  <2>10. \A b \in Objects : at'[b] # "visit" /\ (at'[b] = "join" => phase' = "up")
    BY <1>1, <2>1, <2>2 DEF CallsOK
  <2> QED BY <2>4, <2>5, <2>6, <2>7, <2>8, <2>9, <2>10 DEF CallsOK
<1>10. LoopOK'
  <2>1. CASE phase = "up"
    BY <1>1, <1>2, <1>5, <2>1 DEF Inv, TypeOK, LoopOK, Agents
  <2>2. CASE phase = "destroying"
    <3>1. at'[Main] = "free" /\ visited' = {} /\ head' = next[o]
      BY <1>1, <1>2, <1>3, <1>5, <2>2 DEF Inv, TypeOK, LoopOK, Agents, Removed
    <3>2. saved # NULL => saved = head'
      BY <1>1, <1>2, <1>3, <2>2, <3>1 DEF Inv, LoopOK
    <3> QED BY <1>1, <1>3, <1>5, <2>2, <3>1, <3>2 DEF LoopOK
  <2> QED BY <1>2, <2>1, <2>2
<1> QED BY <1>5, <1>6, <1>8, <1>9, <1>10 DEF Inv

(* ~Threads begins, ends, or goes to the next object: only the iterator and *)
(* the main thread's place change.  What it comes to is the head of the     *)
(* list, which no start() in progress has made, because whoever makes an    *)
(* object is in the list before it.                                         *)
LEMMA HeadIsLive ==
  ASSUME Inv, phase = "destroying", at[Main] = "free", head # NULL
  PROVE  life[head] = "live"
<1> USE LifecycleConstantsOK
<1>1. head \in listed /\ head \in Objects /\ head \in there
  BY ListFacts DEF Inv, ListUsed
<1>2. life[head] # "none"
  BY <1>1 DEF Inv, TypeOK
<1>3. \A a \in Agents : at[a] # "join"
  BY DEF Inv, CallsOK, Agents
<1>4. life[head] # "dying"
  BY <1>1, <1>3 DEF Inv, CallsOK
<1>5. life[head] # "made"
  <2> SUFFICES ASSUME life[head] = "made" PROVE FALSE
    OBVIOUS
  <2>1. PICK a \in Agents : at[a] = "start" /\ arg[a] = head
    BY <1>1 DEF Inv, CallsOK
  <2>2. a \in Objects /\ Leads(a, head)
    BY <2>1 DEF Inv, CallsOK, Agents
  <2>3. thread[a] = "runs" /\ a \in listed /\ thread[head] = "none"
    BY <2>1, <2>2 DEF Inv, TypeOK, ThreadsOK, CallsOK, ListUsed
  <2>4. a = head
    BY <2>2, <2>3, HeadIsFirst DEF Inv
  <2> QED BY <2>3, <2>4
<1> QED BY <1>1, <1>2, <1>4, <1>5 DEF Inv, TypeOK

LEMMA LoopKeepsInv ==
  ASSUME Inv, DestroyThreads \/ LoadNext \/ Advance \/ DeleteKey
  PROVE  Inv'
<1> USE LifecycleConstantsOK
<1>1. ListUsed' /\ UNCHANGED <<head, next, there, listed>>
  <2>1. CASE UNCHANGED listvars
    BY <2>1, ListUnchanged DEF Inv, listvars
  <2>2. CASE List!Begin \/ List!Load \/ List!Advance
    BY <2>2, IterationKeepsListUsed DEF Inv
  <2> QED BY <2>1, <2>2 DEF DestroyThreads, LoadNext, Advance, DeleteKey
<1>2. /\ UNCHANGED <<life, managed, cancelled, thread, tls, arg, halted>>
      /\ \A a \in Objects : at'[a] = at[a]
      /\ at' = at \/ (at[Main] = "free" /\ at' = [at EXCEPT ![Main] = "visit"])
      /\ phase' \in {"up", "destroying", "down"}
      /\ phase = "up" => \A a \in Agents : at[a] # "join"
      /\ phase' # "up"
  <2>1. phase = "destroying" \/ DestroyThreads
    BY DEF LoadNext, Advance, DeleteKey
  <2>2. phase = "up" => \A a \in Agents : at[a] # "join"
    BY <2>1 DEF DestroyThreads
  <2>3. at' = at \/ (at[Main] = "free" /\ at' = [at EXCEPT ![Main] = "visit"])
    BY DEF DestroyThreads, LoadNext, Advance, DeleteKey, calls
  <2>4. \A a \in Objects : at'[a] = at[a]
    BY <2>3 DEF Inv, TypeOK, Agents
  <2>5. phase' \in {"destroying", "down"}
    BY <2>1 DEF DestroyThreads, LoadNext, Advance, DeleteKey
  <2> QED BY <2>2, <2>3, <2>4, <2>5 DEF DestroyThreads, LoadNext, Advance, DeleteKey, objects, calls
<1>3. TypeOK'
  BY <1>1, <1>2 DEF Inv, TypeOK, Agents
<1>4. ThreadsOK'
  BY <1>2 DEF Inv, ThreadsOK, TypeOK, Agents
<1>5. CallsOK'
  <2> USE DEF Inv, TypeOK, Agents
  <2>1. \A a \in Agents : (at'[a] = "start" <=> at[a] = "start") /\ (at'[a] = "join" <=> at[a] = "join")
    BY <1>2
  <2>2. \A a \in Objects : at'[a] = "start" => Leads(a, arg[a])'
    BY <1>1, <1>2 DEF CallsOK, Leads, Follows
  <2> HIDE DEF Leads
  <2> QED BY <1>1, <1>2, <2>1, <2>2 DEF CallsOK
<1>6. LoopOK'
  <2>1. CASE DestroyThreads
    <3>1. /\ phase = "up" /\ phase' = "destroying" /\ at[Main] = "free" /\ UNCHANGED <<at, arg>>
          /\ pc = "idle" /\ owed = {}
      BY <2>1 DEF DestroyThreads, Idle, calls, Inv, LoopOK
    <3>2. CASE head = NULL
      BY <2>1, <3>1, <3>2 DEF DestroyThreads, listvars, LoopOK
    <3>3. CASE head # NULL
      BY <2>1, <3>1, <3>3 DEF DestroyThreads, List!Begin, LoopOK
    <3> QED BY <3>2, <3>3
  <2>2. CASE LoadNext
    <3>1. /\ phase = "destroying" /\ phase' = phase /\ at[Main] = "free" /\ at'[Main] = "visit"
          /\ pc = "load" /\ pc' = "visit" /\ saved' = next[ptr] /\ ptr' = ptr
          /\ visited' = visited \cup {ptr} /\ owed' = owed /\ life' = life /\ head' = head
          /\ next' = next
      BY <2>2 DEF LoadNext, List!Load, Inv, TypeOK, Agents, objects
    <3>2. ptr = head /\ visited = {} /\ ptr \in listed /\ ptr # NULL
      BY <3>1, ListFacts DEF Inv, LoopOK
    <3>3. life[ptr] = "live" /\ next[ptr] # ptr
      BY <3>1, <3>2, HeadIsLive, NoSelfLink DEF Inv
    <3> QED BY <3>1, <3>2, <3>3 DEF LoopOK
  <2>3. CASE Advance
    <3>1. /\ phase = "destroying" /\ phase' = phase /\ at[Main] = "free" /\ at' = at
          /\ pc = "visit" /\ ptr' = saved /\ pc' = (IF saved = NULL THEN "idle" ELSE "load")
          /\ UNCHANGED <<head, saved, owed, visited>>
      BY <2>3 DEF Advance, List!Advance, calls, List!history
    <3>2. visited = {} /\ (saved # NULL => saved = head)
      BY <3>1 DEF Inv, LoopOK
    <3>3. pc' = "idle" => owed' \subseteq visited'
      BY <1>1, ListFacts, <3>1 DEF ListUsed, ListProofs!Inv, ListProofs!VisitsAll
    <3> QED BY <3>1, <3>2, <3>3 DEF LoopOK
  <2>4. CASE DeleteKey
    BY <2>4 DEF DeleteKey, listvars, calls, objects, Inv, LoopOK
  <2> QED BY <2>1, <2>2, <2>3, <2>4
<1> QED BY <1>1, <1>3, <1>4, <1>5, <1>6 DEF Inv

LEMMA InitInv == Init => Inv
<1> SUFFICES ASSUME Init PROVE Inv
  OBVIOUS
<1> USE LifecycleConstantsOK
<1>1. ListUsed
  <2>1. ListProofs!Init
    BY DEF Init, List!Init, ListProofs!Init
  <2>2. ListProofs!Inv
    BY <2>1, ListProofs!InitInv
  <2> QED BY <2>2 DEF Init, List!Init, ListUsed, OneEnd
<1>2. TypeOK /\ ThreadsOK /\ CallsOK /\ LoopOK
  BY DEF Init, List!Init, TypeOK, ThreadsOK, CallsOK, LoopOK, Agents
<1> QED BY <1>1, <1>2 DEF Inv

LEMMA InvInductive == Inv /\ [Next]_vars => Inv'
<1> SUFFICES ASSUME Inv, [Next]_vars PROVE Inv'
  OBVIOUS
<1>1. ASSUME NEW a \in Agents, NEW o \in Objects, Start(a, o) PROVE Inv'
  BY <1>1, StartKeepsInv
<1>2. ASSUME NEW a \in Agents, NEW o \in Objects, Stop(a, o) PROVE Inv'
  BY <1>2, DeallocateKeepsInv DEF Stop, Idle
<1>3. ASSUME NEW a \in Agents, Create(a) PROVE Inv'
  BY <1>3, CreateKeepsInv
<1>4. ASSUME NEW a \in Agents, CreateFails(a) \/ CancelledInJoin(a) PROVE Inv'
  BY <1>4, HaltKeepsInv DEF CreateFails, CancelledInJoin
<1>5. ASSUME NEW a \in Agents, Freed(a) PROVE Inv'
  BY <1>5, FreedKeepsInv
<1>6. ASSUME NEW o \in Objects, Run(o) \/ FuncReturns(o) \/ ActOnCancel(o) PROVE Inv'
  BY <1>6, RunKeepsInv
<1>7. ASSUME NEW o \in Objects, RegisterMain(o) PROVE Inv'
  BY <1>7, RegisterMainKeepsInv
<1>8. CASE DestroyThreads \/ LoadNext \/ Advance \/ DeleteKey
  BY <1>8, LoopKeepsInv
<1>9. CASE Visit
  <2>1. phase = "destroying" /\ at[Main] = "visit" /\ life[ptr] = "live" /\ ptr \in Objects
    <3>1. at[Main] = "visit" /\ phase = "destroying"
      BY <1>9 DEF Visit, Up, Inv, TypeOK, LoopOK
    <3>2. life[ptr] = "live" /\ ptr = head /\ visited = {ptr}
      BY <3>1 DEF Inv, LoopOK
    <3> QED BY <3>1, <3>2, ListFacts DEF Inv
  <2> QED BY <1>9, <2>1, DeallocateKeepsInv DEF Visit, Agents
<1>10. CASE UNCHANGED vars
  <2>1. halted' \in BOOLEAN
    BY <1>10 DEF vars, Inv, TypeOK
  <2> QED BY <1>10, <2>1, HaltKeepsInv DEF vars
<1> QED BY <1>1, <1>2, <1>3, <1>4, <1>5, <1>6, <1>7, <1>8, <1>9, <1>10 DEF Next

LEMMA InvHolds == Spec => []Inv
BY InitInv, InvInductive, PTL DEF Spec

-----------------------------------------------------------------------------
(* Every variable has its type, and exactly the objects in memory are      *)
(* known as such, whoever starts and stops whom.                           *)
THEOREM LifecycleTypeCorrect == Spec => []TypeOK
<1>1. Inv => TypeOK
  BY DEF Inv
<1> QED BY <1>1, InvHolds, PTL

(* A managed thread never outlives its object: the destructor joins before *)
(* the memory goes (Threads.cpp:35-47).                                    *)
THEOREM ThreadsLiveInTheirObjects == Spec => []RunnersAlive
<1>1. Inv => RunnersAlive
  BY DEF Inv, TypeOK, ThreadsOK, RunnersAlive
<1> QED BY <1>1, InvHolds, PTL

(* Threads::current() gives a managed thread its own object, and the main  *)
(* thread one that nobody frees before ~Threads (Threads.cpp:282-315).     *)
THEOREM CurrentIsAlwaysAlive == Spec => []CurrentIsAlive
<1>1. Inv => CurrentIsAlive
  BY DEF Inv, TypeOK, ThreadsOK, CallsOK, CurrentIsAlive
<1> QED BY <1>1, InvHolds, PTL

(* No object is destroyed twice, and ~Threads comes to no object that      *)
(* start() is still making, although other threads go on starting threads  *)
(* during its loop: they are in the list before what they make, and the    *)
(* loop stops them first (Threads.cpp:255-257).                            *)
THEOREM EachIsDestroyedOnce == Spec => []DestroyedOnce
<1>1. Inv => DestroyedOnce
  <2> SUFFICES ASSUME Inv PROVE DestroyedOnce
    OBVIOUS
  <2>1. phase = "destroying" /\ pc = "load" => life[ptr] = "live"
    BY HeadIsLive, ListFacts, LifecycleConstantsOK DEF Inv, LoopOK
  <2> QED BY <2>1 DEF Inv, CallsOK, LoopOK, DestroyedOnce
<1> QED BY <1>1, InvHolds, PTL

(* When ~Threads returns, nothing that was there when it began is left.    *)
THEOREM NothingSurvivesThreads == Spec => []NothingSurvives
<1>1. Inv => NothingSurvives
  BY DEF Inv, LoopOK, NothingSurvives
<1> QED BY <1>1, InvHolds, PTL
-----------------------------------------------------------------------------
(* Threads uses its list as List<T> is specified: every step of a thread   *)
(* is a step of the list, or leaves the list alone.                        *)
THEOREM LifecycleUsesList == Spec => List!Spec
<1>1. Init => List!Init
  BY DEF Init
<1>2. Inv /\ [Next]_vars => [List!Next]_List!vars
  <2> SUFFICES ASSUME Inv, [Next]_vars PROVE List!Next \/ UNCHANGED listvars
    BY DEF List!vars, List!iterator, List!history, listvars
  <2>1. ASSUME NEW a \in Agents,
               (\E o \in Objects : Start(a, o) \/ Stop(a, o)) \/ Create(a) \/ CreateFails(a)
                 \/ CancelledInJoin(a)
        PROVE  List!Next \/ UNCHANGED listvars
    BY <2>1 DEF Start, Stop, Create, CreateFails, CancelledInJoin, List!Next
  <2>2. ASSUME NEW a \in Agents, Freed(a) PROVE List!Next
    BY <2>2 DEF Freed, Inv, CallsOK, List!Next
  <2>3. ASSUME NEW o \in Objects, Run(o) \/ FuncReturns(o) \/ ActOnCancel(o) \/ RegisterMain(o)
        PROVE  List!Next \/ UNCHANGED listvars
    BY <2>3 DEF Run, FuncReturns, ActOnCancel, Ends, RegisterMain, List!Next
  <2>4. CASE DestroyThreads \/ LoadNext \/ Visit \/ Advance \/ DeleteKey
    BY <2>4 DEF DestroyThreads, LoadNext, Visit, Advance, DeleteKey, List!Next
  <2>5. CASE UNCHANGED vars
    BY <2>5 DEF vars
  <2> QED BY <2>1, <2>2, <2>3, <2>4, <2>5 DEF Next
<1> QED BY <1>1, <1>2, InvHolds, PTL DEF Spec, List!Spec

(* The list is never misused: no null pointer is dereferenced and nobody   *)
(* removes the object that the loop of ~Threads goes to next.              *)
ListNeverMisused ==
  /\ ~crashed /\ ~pulled
  /\ List!LinksMatch /\ List!IteratorOnList /\ List!VisitsAll

(* The exception that List<T> makes for its iterator does not occur here,  *)
(* so that its links, its iterator and its iterations are always right     *)
(* (Threads.cpp:255-257 over List.h:97-112).                               *)
THEOREM ThreadListIsSafe == Spec => []ListNeverMisused
<1>1. Inv => ListNeverMisused
  BY ListFacts DEF Inv, ListUsed, ListNeverMisused, List!LinksMatch, List!IteratorOnList,
                   List!VisitsAll
<1> QED BY <1>1, InvHolds, PTL

-----------------------------------------------------------------------------
(* An object that is being destroyed has its thread cancelled, and the     *)
(* thread of an object that start() has finished exists until then.        *)
Cancelling ==
  /\ \A o \in managed : life[o] = "dying" => o \in cancelled
  /\ \A o \in managed : life[o] \in {"live", "dying"} => thread[o] # "none"

(* What the step of any one object does to it.                             *)
LifeStep(o) ==
  \/ /\ UNCHANGED <<life[o], thread[o]>>
     /\ (o \in managed' <=> o \in managed) /\ (o \in cancelled' <=> o \in cancelled)
  \/ /\ life[o] = "none" /\ life'[o] \in {"made", "live"} /\ thread'[o] = thread[o]
     /\ (o \in managed' <=> life'[o] = "made")
  \/ /\ life[o] = "made" /\ life'[o] = "live" /\ o \in managed'
     /\ thread[o] = "none" /\ thread'[o] = "new"
  \/ /\ <<thread[o], thread'[o]>> \in {<<"new", "runs">>, <<"runs", "ended">>}
     /\ UNCHANGED life[o]
     /\ (o \in managed' <=> o \in managed) /\ (o \in cancelled' <=> o \in cancelled)
  \/ /\ life[o] = "live" /\ life'[o] = "dying" /\ (o \in managed => o \in cancelled')
     /\ UNCHANGED thread[o] /\ (o \in managed' <=> o \in managed)
  \/ /\ life[o] = "dying" /\ life'[o] = "none" /\ o \notin managed'
     /\ thread[o] = (IF o \in managed THEN "ended" ELSE "none") /\ thread'[o] = "none"

LEMMA ObjectsStep ==
  ASSUME Inv, [Next]_vars, NEW o \in Objects
  PROVE  LifeStep(o)
<1> USE LifecycleConstantsOK DEF Inv, TypeOK
<1>1. ASSUME NEW a \in Agents, NEW x \in Objects, Start(a, x) PROVE LifeStep(o)
  <2>1. x \notin there
    BY <1>1 DEF Start, List!Construct
  <2> QED BY <1>1, <2>1 DEF Start, LifeStep
<1>2. ASSUME NEW a \in Agents, NEW x \in Objects, Stop(a, x) PROVE LifeStep(o)
  BY <1>2 DEF Stop, Deallocate, LifeStep
<1>3. ASSUME NEW a \in Agents, Create(a) PROVE LifeStep(o)
  BY <1>3 DEF Create, LifeStep, CallsOK
<1>4. ASSUME NEW a \in Agents, CreateFails(a) \/ CancelledInJoin(a) PROVE LifeStep(o)
  BY <1>4 DEF CreateFails, CancelledInJoin, objects, LifeStep
<1>5. ASSUME NEW a \in Agents, Freed(a) PROVE LifeStep(o)
  BY <1>5 DEF Freed, Gone, LifeStep, CallsOK, ThreadsOK
<1>6. ASSUME NEW x \in Objects, Run(x) \/ FuncReturns(x) \/ ActOnCancel(x) PROVE LifeStep(o)
  <2>1. x # Main
    OBVIOUS
  <2> QED BY <1>6, <2>1 DEF Run, FuncReturns, ActOnCancel, Ends, Idle, LifeStep
<1>7. ASSUME NEW x \in Objects, RegisterMain(x) PROVE LifeStep(o)
  <2>1. x \notin there
    BY <1>7 DEF RegisterMain, List!Construct
  <2> QED BY <1>7, <2>1 DEF RegisterMain, LifeStep
<1>8. CASE DestroyThreads \/ LoadNext \/ Advance \/ DeleteKey
  BY <1>8 DEF DestroyThreads, LoadNext, Advance, DeleteKey, objects, LifeStep
<1>9. CASE Visit
  <2>1. life[ptr] = "live" /\ ptr \in Objects
    <3>1. phase = "destroying" /\ at[Main] = "visit"
      BY <1>9 DEF Visit, Up, LoopOK
    <3>2. life[ptr] = "live" /\ ptr = head /\ visited = {ptr}
      BY <3>1 DEF LoopOK
    <3> QED BY <3>2, ListFacts
  <2> QED BY <1>9, <2>1 DEF Visit, Deallocate, LifeStep
<1>10. CASE UNCHANGED vars
  BY <1>10 DEF vars, objects, LifeStep
<1> QED BY <1>1, <1>2, <1>3, <1>4, <1>5, <1>6, <1>7, <1>8, <1>9, <1>10 DEF Next

LEMMA CancellingHolds == Spec => []Cancelling
<1>1. Init => Cancelling
  BY DEF Init, Cancelling
<1>2. Inv /\ Inv' /\ Cancelling /\ [Next]_vars => Cancelling'
  <2> SUFFICES ASSUME Inv, Inv', Cancelling, [Next]_vars, NEW o \in managed'
               PROVE  /\ life'[o] = "dying" => o \in cancelled'
                      /\ life'[o] \in {"live", "dying"} => thread'[o] # "none"
    BY DEF Cancelling
  <2>1. o \in Objects
    BY DEF Inv, TypeOK
  <2>2. LifeStep(o)
    BY <2>1, ObjectsStep
  <2> QED BY <2>1, <2>2 DEF LifeStep, Cancelling
<1> QED BY <1>1, <1>2, InvHolds, PTL DEF Spec

(* Whoever waits in a destructor for a thread to end waits for one that    *)
(* runs, or is about to, and that is cancelled.                            *)
JoinsTheCancelled ==
  \A a \in Agents : at[a] = "join" /\ ~Gone(arg[a]) =>
    arg[a] \in cancelled /\ thread[arg[a]] \in {"new", "runs"}

(* No stop waits for a thread that nobody told to end, and none joins a    *)
(* pthread that was never created (Threads.cpp:35-47, 270-280).            *)
THEOREM StopsWaitForCancelled == Spec => []JoinsTheCancelled
<1>1. Inv /\ Cancelling => JoinsTheCancelled
  BY DEF Inv, TypeOK, CallsOK, Cancelling, JoinsTheCancelled, Gone
<1> QED BY <1>1, InvHolds, CancellingHolds, PTL

(* An object is made, gets its thread, dies once and is free again only    *)
(* when the thread has ended; a thread is created, runs and ends once.     *)
InOrder(o) ==
  /\ life'[o] # life[o] =>
       <<life[o], life'[o]>> \in {<<"none", "made">>, <<"none", "live">>, <<"made", "live">>,
                                  <<"live", "dying">>, <<"dying", "none">>}
  /\ thread'[o] # thread[o] =>
       <<thread[o], thread'[o]>> \in {<<"none", "new">>, <<"new", "runs">>,
                                      <<"runs", "ended">>, <<"ended", "none">>}
  /\ life'[o] = "none" => thread'[o] = "none" /\ thread[o] \in {"none", "ended"}

LifecycleInOrder == [][\A o \in Objects : InOrder(o)]_vars

(* No step of anybody takes an object or its thread out of that order,     *)
(* although start(), stop() and ~Threads interleave (Threads.cpp:251-286). *)
THEOREM LifecycleKeepsOrder == Spec => LifecycleInOrder
<1>1. ASSUME Inv, [Next]_vars, NEW o \in Objects PROVE InOrder(o)
  <2>1. LifeStep(o)
    BY <1>1, ObjectsStep
  <2>2. life[o] = "none" => thread[o] = "none"
    BY <1>1 DEF Inv, TypeOK, ThreadsOK
  <2> QED BY <2>1, <2>2 DEF LifeStep, InOrder
<1>2. Inv /\ [Next]_vars => [\A o \in Objects : InOrder(o)]_vars
  BY <1>1
<1> QED BY <1>2, InvHolds, PTL DEF Spec, LifecycleInOrder
=============================================================================
