---------------------------- MODULE WorkerProofs ----------------------------
(***************************************************************************)
(* What Worker guarantees for every set of objects, whatever their periods *)
(* and masks, to clients that construct an object anew before they         *)
(* register it again (~Careless).  An invariant on the pointers is needed  *)
(* because unregistering relinks around an object: that nothing is lost    *)
(* depends on no two links meeting.                                        *)
(***************************************************************************)
EXTENDS Worker, FiniteSetTheorems, TLAPS

(* The types of the list. *)
ListTypes ==
  /\ head \in Objects \cup {NULL}
  /\ next \in [Objects -> Objects \cup {NULL}]
  /\ attached \in SUBSET Objects

(* The registered objects are closed under the links, and no two links of  *)
(* theirs meet: none leads to the head, no two lead to the same object.    *)
Linked ==
  /\ Closed(attached)
  /\ \A a \in attached : next[a] # NULL => next[a] # head
  /\ \A a, b \in attached : next[a] = next[b] /\ next[a] # NULL => a = b

(* Whoever follows the links from the head meets all of them. *)
Reached == \A S \in SUBSET Objects : Closed(S) => attached \subseteq S

ListOK == ListTypes /\ Linked /\ Reached

(* Who holds the semaphore where; this does not depend on what is listed.  *)
Sync ==
  /\ sem = "start" <=> pc # "none" /\ ~thread
  /\ pc = "none" => ~thread
  /\ pc \in {"walk", "callback", "plan", "clock", "enter", "wait", "gone"} => thread
  /\ pc = "walk" => sem = "run"
  /\ pc = "callback" => sem \in {"run", "stuck"}

(* ... and what the worker thread has in hand. *)
Locks ==
  /\ Sync
  /\ curr \in Objects \cup {NULL}
  /\ pc = "callback" => curr # NULL
  /\ strayed \in BOOLEAN
  /\ NoUseAfterUnregister

(* ~Worker() unregisters the head each time, until there is none -- unless *)
(* a callback changes the list meanwhile.                                  *)
Ending ==
  /\ phase \in {"none", "walk", "unregister", "cancel", "done"}
  /\ phase # "none" /\ ~thread => phase = "done" /\ pc = "none"
  /\ phase = "done" => pc \in {"none", "gone"}
  /\ phase = "unregister" => doomed # NULL
  /\ doomed \in Objects \cup {NULL} /\ next_worker \in Objects \cup {NULL}
  /\ late \in BOOLEAN
  /\ ~late => /\ phase \in {"walk", "unregister"} => doomed = head
              /\ phase = "unregister" => next_worker = next[head]
              /\ phase \in {"cancel", "done"} /\ thread => head = NULL

Inv == ListOK /\ Locks /\ Ending

-----------------------------------------------------------------------------
(* The list operations keep the list. *)

LEMMA ChainIsAttached == ListOK => Chain = attached
  BY DEF ListOK, ListTypes, Linked, Reached, Chain

LEMMA EmptyListEmpty == ListOK /\ head = NULL => attached = {}
<1> SUFFICES ASSUME ListOK, head = NULL PROVE attached = {}
  OBVIOUS
<1>1. Closed({})
  BY DEF Closed
<1> QED BY <1>1 DEF ListOK, Reached

\* A finite list whose links never meet has an end: otherwise the links would
\* lead from all its objects, one to one, to all but the first of them.
LEMMA ListEnds == ListOK => ListHasEnd
<1> SUFFICES ASSUME ListOK, head # NULL, Tails = {} PROVE FALSE
  BY DEF ListHasEnd
<1> DEFINE rest == attached \ {head}
           link == [a \in attached |-> next[a]]
<1>1. IsFiniteSet(attached)
  BY FS_Subset, WorkerConstantsOK DEF ListOK, ListTypes
<1>2. head \in attached
  BY DEF ListOK, Linked, Closed
<1>3. IsFiniteSet(rest) /\ Cardinality(rest) = Cardinality(attached) - 1
  BY <1>1, <1>2, FS_RemoveElement
<1>4. Cardinality(rest) < Cardinality(attached)
  BY <1>1, <1>3, FS_CardinalityType
<1>5. \A a \in attached : next[a] # NULL
  BY ChainIsAttached DEF Tails
<1>6. link \in [attached -> rest]
  BY <1>5 DEF ListOK, Linked, Closed
<1>7. PICK a, b \in attached : a # b /\ link[a] = link[b]
  <2> HIDE DEF link, rest
  <2> QED BY <1>1, <1>3, <1>4, <1>6, FS_PigeonHole
<1> QED BY <1>5, <1>7 DEF ListOK, Linked

LEMMA AppendKeepsList ==
  ASSUME ListOK, NEW o \in Objects, o \notin attached, next[o] = NULL,
         Append(o), attached' = attached \cup {o}
  PROVE  ListOK'
<1> USE WorkerConstantsOK DEF ListOK, ListTypes
<1>1. CASE head = NULL /\ head' = o /\ UNCHANGED next
  <2>1. attached = {}
    BY <1>1, EmptyListEmpty
  <2>2. Linked'
    BY <1>1, <2>1 DEF Linked, Closed
  <2>3. Reached'
    BY <1>1, <2>1 DEF Reached, Closed
  <2> QED BY <1>1, <2>2, <2>3
<1>2. ASSUME NEW last \in Tails, next' = [next EXCEPT ![last] = o], UNCHANGED head
      PROVE ListOK'
  <2>1. last \in attached /\ next[last] = NULL
    BY ChainIsAttached DEF Tails
  <2>2. /\ next'[last] = o
        /\ \A x \in Objects \ {last} : next'[x] = next[x]
    BY <1>2, <2>1
  <2>3. next' \in [Objects -> Objects \cup {NULL}] /\ attached' \in SUBSET Objects
    BY <1>2, <2>1
  <2>4. o # last /\ o # head
    BY <2>1 DEF Linked, Closed
  <2>5. \A x \in attached : next[x] # o
    BY DEF Linked, Closed
  <2>6. Linked'
    <3>1. Closed(attached)'
      BY <1>2, <2>1, <2>2, <2>4 DEF Linked, Closed
    <3>2. \A a \in attached' : next'[a] # NULL => next'[a] # head'
      BY <1>2, <2>1, <2>2, <2>4 DEF Linked
    <3>3. \A a, b \in attached' : next'[a] = next'[b] /\ next'[a] # NULL => a = b
      BY <1>2, <2>1, <2>2, <2>4, <2>5 DEF Linked
    <3> QED BY <3>1, <3>2, <3>3 DEF Linked
  <2>7. Reached'
    <3> SUFFICES ASSUME NEW S \in SUBSET Objects, Closed(S)' PROVE attached' \subseteq S
      BY DEF Reached
    <3>1. Closed(S)
      BY <1>2, <2>1, <2>2 DEF Closed
    <3>2. attached \subseteq S
      BY <3>1 DEF Reached
    <3>3. o \in S
      BY <2>1, <2>2, <3>2 DEF Closed
    <3> QED BY <3>2, <3>3
  <2> QED BY <1>2, <2>3, <2>6, <2>7
<1> QED BY <1>1, <1>2 DEF Append

LEMMA UnlinkKeepsList ==
  ASSUME ListOK, NEW o \in attached, head # NULL, Unlink(o)
  PROVE  ListOK'
<1> USE WorkerConstantsOK DEF ListOK, ListTypes
<1>0. attached' = attached \ {o}
  BY DEF Unlink
<1>1. CASE head = o /\ head' = next[o] /\ UNCHANGED next
  <2>1. Linked'
    BY <1>0, <1>1 DEF Linked, Closed
  <2>2. Reached'
    <3> SUFFICES ASSUME NEW S \in SUBSET Objects, Closed(S)' PROVE attached' \subseteq S
      BY DEF Reached
    <3>1. S \cup {o} \in SUBSET Objects /\ Closed(S \cup {o})
      BY <1>1 DEF Closed
    <3> QED BY <1>0, <3>1 DEF Reached
  <2> QED BY <1>0, <1>1, <2>1, <2>2
<1>2. CASE /\ head # o /\ next[head] = o
           /\ next' = [next EXCEPT ![head] = next[o]]
           /\ UNCHANGED head
  <2>1. head \in attached /\ head \in Objects
    BY DEF Linked, Closed
  <2>2. /\ next'[head] = next[o]
        /\ \A x \in Objects \ {head} : next'[x] = next[x]
    BY <1>2, <2>1
  <2>3. next' \in [Objects -> Objects \cup {NULL}]
    BY <1>2, <2>1
  <2>4. \A x \in attached : x # head => next[x] # o
    BY <1>2, <2>1 DEF Linked
  <2>5. Linked'
    <3>1. Closed(attached)'
      <4>1. next[o] # NULL => next[o] \in attached /\ next[o] # o
        <5>1. next[o] # o
          BY <1>2, <2>4
        <5> QED BY <5>1 DEF Linked, Closed
      <4> QED BY <1>0, <1>2, <2>1, <2>2, <2>4, <4>1 DEF Linked, Closed
    <3>2. \A a \in attached' : next'[a] # NULL => next'[a] # head'
      BY <1>0, <1>2, <2>1, <2>2 DEF Linked
    <3>3. \A a, b \in attached' : next'[a] = next'[b] /\ next'[a] # NULL => a = b
      BY <1>0, <1>2, <2>1, <2>2 DEF Linked
    <3> QED BY <3>1, <3>2, <3>3 DEF Linked
  <2>6. Reached'
    <3> SUFFICES ASSUME NEW S \in SUBSET Objects, Closed(S)' PROVE attached' \subseteq S
      BY DEF Reached
    <3>1. S \cup {o} \in SUBSET Objects /\ Closed(S \cup {o})
      BY <1>2, <2>1, <2>2 DEF Closed
    <3> QED BY <1>0, <3>1 DEF Reached
  <2> QED BY <1>0, <1>2, <2>3, <2>5, <2>6
<1> QED BY <1>1, <1>2 DEF Unlink

LEMMA ConstructKeepsList ==
  ASSUME ListOK, NEW o \in Objects, Construct(o)
  PROVE  ListOK'
<1> USE WorkerConstantsOK DEF ListOK, ListTypes
<1>1. o \notin attached /\ UNCHANGED <<head, attached>>
  BY DEF Construct
<1>2. \A x \in Objects \ {o} : next'[x] = next[x]
  BY DEF Construct
<1>3. next' \in [Objects -> Objects \cup {NULL}]
  BY DEF Construct
<1>4. Linked'
  BY <1>1, <1>2 DEF Linked, Closed
<1>5. Reached'
  <2> SUFFICES ASSUME NEW S \in SUBSET Objects, Closed(S)' PROVE attached' \subseteq S
    BY DEF Reached
  <2>1. S \cap attached \in SUBSET Objects /\ Closed(S \cap attached)
    BY <1>1, <1>2 DEF Linked, Closed
  <2> QED BY <1>1, <2>1 DEF Reached
<1> QED BY <1>1, <1>3, <1>4, <1>5

LEMMA SameList ==
  ASSUME ListOK, UNCHANGED <<head, next, attached>>
  PROVE  ListOK'
  BY DEF ListOK, ListTypes, Linked, Reached, Closed

\* Unregistering an object that is not in the list changes nothing.
LEMMA UnregisterKeepsList ==
  ASSUME ListOK, NEW o \in Objects, UnregisterBody(o)
  PROVE  ListOK'
<1>1. CASE Unlink(o) /\ head # NULL
  <2>1. o \in attached
    BY <1>1, WorkerConstantsOK DEF Unlink, ListOK, Linked, Closed
  <2> QED BY <1>1, <2>1, UnlinkKeepsList
<1>2. CASE UNCHANGED list
  BY <1>2, SameList DEF list
<1> QED BY <1>1, <1>2 DEF UnregisterBody

\* What follows a removed object is another one, and still listed.
LEMMA UnlinkKeepsNext ==
  ASSUME ListOK, NEW o \in attached, Unlink(o)
  PROVE  /\ next'[o] = next[o]
         /\ next[o] \in attached' \cup {NULL}
         /\ \A x \in Objects \ attached : next'[x] = next[x]
<1> USE DEF ListOK, ListTypes, Linked, Closed
<1>1. attached' = attached \ {o}
  BY DEF Unlink
<1>2. CASE head = o /\ UNCHANGED next
  BY <1>1, <1>2
<1>3. CASE head # o /\ next[head] = o /\ next' = [next EXCEPT ![head] = next[o]]
  <2>1. head # NULL /\ head \in attached
    <3>1. head = NULL => attached = {}
      BY EmptyListEmpty
    <3> QED BY <3>1
  <2>2. next[o] # o
    BY <1>3, <2>1, WorkerConstantsOK
  <2> QED BY <1>1, <1>3, <2>1, <2>2
<1> QED BY <1>2, <1>3 DEF Unlink

-----------------------------------------------------------------------------
(* The invariant. *)

LEMMA InitInv == Init => Inv
<1> SUFFICES ASSUME Init PROVE Inv
  OBVIOUS
<1>1. ListOK
  BY DEF Init, ListOK, ListTypes, Linked, Reached, Closed
<1>2. Locks /\ Ending
  BY DEF Init, Locks, Sync, Ending, NoUseAfterUnregister, Orphaned
<1> QED BY <1>1, <1>2 DEF Inv

(* Steps that leave the list alone. *)
LEMMA RunKeepsInv == Inv /\ Run => Inv'
<1> SUFFICES ASSUME Inv, Run PROVE Inv'
  OBVIOUS
<1>1. UNCHANGED <<head, next, attached, thread, phase, doomed, next_worker, late>>
  BY DEF Run, RunLock, WalkCall, CallbackReturn, WalkSkip, WalkDone, Plan,
         ReadClockAndMask, EnterWait, WakeUp, SpuriousWakeUp, TimeOut, WaitStep,
         Cancelled, list, owner, aux
<1>2. ListOK'
  BY <1>1, SameList DEF Inv
<1>3. pc \notin {"none", "gone"} /\ pc' # "none"
  BY DEF Run, RunLock, WalkCall, CallbackReturn, WalkSkip, WalkDone, Plan,
         ReadClockAndMask, EnterWait, WakeUp, SpuriousWakeUp, TimeOut, WaitStep,
         Cancelled
<1>4. Ending'
  BY <1>1, <1>3 DEF Inv, Ending
<1>5. Locks'
  <2> USE DEF Inv, Locks, Sync, NoUseAfterUnregister, Orphaned
  <2>1. CASE RunLock
    BY <1>1, <2>1 DEF RunLock, ListOK, ListTypes, Linked, Closed
  <2>2. CASE WalkCall
    BY <1>1, <2>2 DEF WalkCall, aux
  <2>3. CASE CallbackReturn \/ WalkSkip
    <3>1. /\ curr' = next[curr] /\ sem' = sem /\ sem = "run" /\ pc' = "walk"
          /\ pc \in {"walk", "callback"} /\ curr \in Objects /\ strayed' = strayed
      BY <2>3 DEF CallbackReturn, WalkSkip, aux
    <3>2. next[curr] \in Objects \cup {NULL}
      BY <3>1 DEF ListOK, ListTypes
    <3>3. strayed \/ next[curr] \in attached \cup {NULL}
      <4>1. curr \in attached => next[curr] \in attached \cup {NULL}
        BY DEF ListOK, Linked, Closed
      <4>2. strayed \/ curr \in attached \/ Orphaned
        BY <3>1, WorkerConstantsOK
      <4> QED BY <4>1, <4>2
    <3>4. thread
      BY <3>1
    <3> QED BY <1>1, <3>1, <3>2, <3>3, <3>4
  <2>4. CASE WalkDone
    BY <1>1, <2>4 DEF WalkDone, aux
  <2>5. CASE Plan
    BY <1>1, <2>5 DEF Plan, aux
  <2>6. CASE ReadClockAndMask
    BY <1>1, <2>6 DEF ReadClockAndMask, aux
  <2>7. CASE EnterWait
    BY <1>1, <2>7 DEF EnterWait, aux
  <2>8. CASE WaitStep
    BY <1>1, <2>8 DEF WaitStep, aux
  <2>9. CASE Cancelled
    BY <1>1, <2>9 DEF Cancelled, aux
  <2> QED BY <2>1, <2>2, <2>3, <2>4, <2>5, <2>6, <2>7, <2>8, <2>9
          DEF Run, WakeUp, SpuriousWakeUp, TimeOut
<1> QED BY <1>2, <1>4, <1>5 DEF Inv

LEMMA OwnerKeepsInv == Inv /\ Owner => Inv'
<1> SUFFICES ASSUME Inv, Owner PROVE Inv'
  OBVIOUS
<1>1. CASE \/ StartCreate \/ StartAssign \/ DestroyBegin \/ DestroyReadNext
           \/ DestroyCancel \/ DestroyJoin
  <2>1. UNCHANGED <<head, next, attached, curr, strayed, late>>
    BY <1>1 DEF StartCreate, StartAssign, DestroyBegin, DestroyReadNext, DestroyCancel,
                DestroyJoin, list, loop, aux
  <2>2. ListOK'
    BY <2>1, SameList DEF Inv
  <2>3. NoUseAfterUnregister' /\ (pc' = "callback" => pc = "callback")
    BY <1>1, <2>1 DEF StartCreate, StartAssign, DestroyBegin, DestroyReadNext, DestroyCancel,
                DestroyJoin, loop, Inv, Locks, NoUseAfterUnregister, Orphaned
  <2> USE DEF Inv, Locks, Sync, Ending
  <2>4. CASE StartCreate
    BY <2>1, <2>2, <2>3, <2>4 DEF StartCreate, InUse, owner
  <2>5. CASE StartAssign
    BY <2>1, <2>2, <2>3, <2>5 DEF StartAssign, InUse, loop
  <2>6. CASE DestroyBegin
    BY <2>1, <2>2, <2>3, <2>6 DEF DestroyBegin, InUse, loop, ListOK, ListTypes
  <2>7. CASE DestroyReadNext
    BY <2>1, <2>2, <2>3, <2>7 DEF DestroyReadNext, loop, ListOK, ListTypes
  <2>8. CASE DestroyCancel
    BY <2>1, <2>2, <2>3, <2>8 DEF DestroyCancel, loop
  <2>9. CASE DestroyJoin
    BY <2>1, <2>2, <2>3, <2>9 DEF DestroyJoin, loop
  <2> QED BY <1>1, <2>4, <2>5, <2>6, <2>7, <2>8, <2>9
<1>2. CASE DestroyUnregister
  <2>1. /\ phase = "unregister" /\ sem = "free" /\ thread /\ phase' = "walk"
        /\ doomed \in Objects /\ UnregisterBody(doomed)
        /\ doomed' = next_worker /\ next_worker' = NULL
        /\ UNCHANGED <<pc, curr, thread, strayed, late>>
    BY <1>2 DEF DestroyUnregister, Inv, Ending, loop, aux
  <2>2. ListOK'
    BY <2>1, UnregisterKeepsList DEF Inv
  <2>3. sem' \in {"free", "stuck"} /\ pc \notin {"walk", "callback"}
    BY <2>1 DEF UnregisterBody, Inv, Locks, Sync
  <2>4. Locks'
    BY <2>1, <2>3 DEF Inv, Locks, Sync, NoUseAfterUnregister, Orphaned
  <2>5. ~late => doomed' = head'
    BY <2>1 DEF Inv, Ending, UnregisterBody, Unlink
  <2>6. Ending'
    BY <2>1, <2>5 DEF Inv, Ending
  <2> QED BY <2>2, <2>4, <2>6 DEF Inv
<1> QED BY <1>1, <1>2 DEF Owner

\* What a call on the list leaves alone.
LEMMA CallKeepsInv ==
  ASSUME Inv, CanEnter, ListOK', NoUseAfterUnregister', strayed' \in BOOLEAN,
         sem' \in {sem, "stuck"}, late' = (late \/ ~InUse), UNCHANGED <<loop, owner>>
  PROVE  Inv'
<1>1. Locks'
  BY DEF CanEnter, Inv, Locks, Sync, loop, owner
<1>2. Ending'
  <2>1. late' \in BOOLEAN
    OBVIOUS
  <2>2. InUse => phase = "none"
    BY DEF InUse
  <2> QED BY <2>1, <2>2 DEF Inv, Ending, loop, owner
<1> QED BY <1>1, <1>2 DEF Inv

LEMMA RegisterKeepsInv ==
  ASSUME ~Careless, Inv, NEW o \in Objects, Register(o)
  PROVE  Inv'
<1>1. /\ next[o] = NULL /\ o \notin attached /\ CanEnter
      /\ attached' = attached \cup {o} /\ UNCHANGED <<loop, owner, strayed>>
  BY DEF Register
<1>2. Append(o) /\ sem' = sem
  BY ListEnds DEF Register, Inv, ListHasEnd
<1>3. ListOK'
  BY <1>1, <1>2, AppendKeepsList DEF Inv
<1>4. NoUseAfterUnregister'
  <2>1. \A x \in Objects \ attached : next'[x] = next[x]
    BY <1>2, ChainIsAttached DEF Append, Tails, Inv, ListOK, ListTypes
  <2> QED BY <1>1, <2>1 DEF NoUseAfterUnregister, Orphaned, CanEnter, loop, Inv, Locks, Sync
<1> QED BY <1>1, <1>2, <1>3, <1>4, CallKeepsInv DEF Register, Inv, Locks

LEMMA UnregisterKeepsInv ==
  ASSUME ~Careless, Inv, NEW o \in Objects, Unregister(o)
  PROVE  Inv'
<1>1. /\ o \in attached /\ CanEnter /\ UnregisterBody(o) /\ UNCHANGED <<loop, owner>>
      /\ strayed' = (strayed \/ (Orphaned /\ next[curr] \in attached \ attached'))
      /\ late' = (late \/ ~InUse)
  BY DEF Unregister
<1>2. ListOK'
  BY <1>1, UnregisterKeepsList DEF Inv
<1>3. sem' \in {sem, "stuck"}
  BY <1>1 DEF UnregisterBody
<1>4. NoUseAfterUnregister'
  <2> USE DEF NoUseAfterUnregister, Orphaned, CanEnter, loop, Inv, Locks, Sync
  <2>1. CASE UNCHANGED list
    BY <1>1, <2>1 DEF list
  <2>2. CASE Unlink(o)
    <3>1. /\ next'[o] = next[o] /\ next[o] \in attached' \cup {NULL}
          /\ \A x \in Objects \ attached : next'[x] = next[x]
      BY <1>1, <2>2, UnlinkKeepsNext
    <3>2. attached' = attached \ {o}
      BY <2>2 DEF Unlink
    <3> QED BY <1>1, <3>1, <3>2
  <2> QED BY <1>1, <2>1, <2>2 DEF UnregisterBody
<1> QED BY <1>1, <1>2, <1>3, <1>4, CallKeepsInv

LEMMA ConstructKeepsInv ==
  ASSUME Inv, NEW o \in Objects, Construct(o)
  PROVE  Inv'
<1>1. /\ UNCHANGED <<head, attached, sem, loop, owner, late>>
      /\ strayed' \in BOOLEAN /\ (strayed => strayed')
      /\ \A x \in Objects : next'[x] \in {next[x], NULL}
      /\ \A x \in attached : next'[x] = next[x]
  BY DEF Construct, Inv, ListOK, ListTypes
<1>2. ListOK'
  BY ConstructKeepsList DEF Inv
<1>3. Locks'
  BY <1>1 DEF Inv, Locks, Sync, NoUseAfterUnregister, Orphaned, loop, owner
<1>4. Ending'
  <2>1. head \in attached \cup {NULL}
    BY DEF Inv, ListOK, Linked, Closed
  <2>2. ~late /\ phase = "unregister" => next'[head] = next[head]
    BY <1>1, <2>1 DEF Inv, Ending
  <2> QED BY <1>1, <2>2 DEF Inv, Ending, loop, owner
<1> QED BY <1>2, <1>3, <1>4 DEF Inv

LEMMA SameInv ==
  ASSUME Inv, UNCHANGED <<head, next, attached, sem, pc, curr, owner, aux>>
  PROVE  Inv'
<1>1. ListOK'
  BY SameList DEF Inv
<1> QED BY <1>1 DEF Inv, Locks, Sync, Ending, NoUseAfterUnregister, Orphaned, owner, aux

LEMMA ClientKeepsInv == ~Careless /\ Inv /\ Client => Inv'
<1> SUFFICES ASSUME ~Careless, Inv, Client PROVE Inv'
  OBVIOUS
<1>1. ASSUME (\E S : Signal(S)) \/ (\E id : RegisterEvt(id)) PROVE Inv'
  BY <1>1, SameInv DEF Signal, RegisterEvt, list, loop
<1> QED BY <1>1, RegisterKeepsInv, UnregisterKeepsInv, ConstructKeepsInv DEF Client

LEMMA InvInductive == ~Careless /\ Inv /\ [Next]_vars => Inv'
<1>1. Inv /\ (Tick \/ UNCHANGED vars) => Inv'
  BY SameInv DEF Tick, vars, list, loop
<1> QED BY <1>1, ClientKeepsInv, OwnerKeepsInv, RunKeepsInv DEF Next

-----------------------------------------------------------------------------
(* The theorems. *)

LEMMA Invariance == ~Careless => (Spec => []Inv)
<1> SUFFICES ASSUME ~Careless PROVE Spec => []Inv
  OBVIOUS
<1>1. Inv /\ [Next]_vars => Inv'
  BY InvInductive
<1> QED BY <1>1, InitInv, PTL DEF Spec

(* No use after unregister (Worker.cpp:68-135): unregister_worker waits    *)
(* for the walk, and relinks, so that no later walk gets to the object; a  *)
(* callback that calls it does not wait, and the walk still meets no       *)
(* unregistered object unless that callback lets it stray.                 *)
THEOREM UnregisteredIsLeftAlone == ~Careless => (Spec => []NoUseAfterUnregister)
<1> SUFFICES ASSUME ~Careless PROVE Spec => []NoUseAfterUnregister
  OBVIOUS
<1>1. Inv => NoUseAfterUnregister
  BY DEF Inv, Locks
<1> QED BY <1>1, Invariance, PTL

(* The list always holds exactly the registered objects, however many      *)
(* there are and in whatever order they come and go.                       *)
THEOREM ListIsRegistered == ~Careless => (Spec => []RegisteredIsListed)
<1> SUFFICES ASSUME ~Careless PROVE Spec => []RegisteredIsListed
  OBVIOUS
<1>1. Inv => RegisteredIsListed
  BY ChainIsAttached DEF Inv, RegisteredIsListed
<1> QED BY <1>1, Invariance, PTL

(* The list always has an end: registering an object never loops.          *)
THEOREM ListAlwaysEnds == ~Careless => (Spec => []ListHasEnd)
<1> SUFFICES ASSUME ~Careless PROVE Spec => []ListHasEnd
  OBVIOUS
<1>1. Inv => ListHasEnd
  BY ListEnds DEF Inv
<1> QED BY <1>1, Invariance, PTL

(* Once ~Worker() cancels the thread, no callback begins, and no object    *)
(* points to the Worker (Worker.cpp:21-33), unless callbacks use the list  *)
(* while it runs; the thread does not outlive the Worker.                  *)
THEOREM DestroyIsQuiet == ~Careless => (Spec => []QuietAfterDestroy)
<1> SUFFICES ASSUME ~Careless PROVE Spec => []QuietAfterDestroy
  OBVIOUS
<1>1. Inv => QuietAfterDestroy
  <2> SUFFICES ASSUME Inv, phase \in {"cancel", "done"}, thread, ~late
               PROVE  attached = {} /\ (pc = "walk" /\ curr # NULL => strayed)
    BY DEF QuietAfterDestroy, Inv, Ending
  <2>1. attached = {}
    BY EmptyListEmpty DEF Inv, Ending
  <2> QED BY <2>1 DEF Inv, Locks, NoUseAfterUnregister
<1> QED BY <1>1, Invariance, PTL

LEMMA SyncHolds == Spec => []Sync
<1>1. Init => Sync
  BY DEF Init, Sync
<1>2. Sync /\ [Next]_vars => Sync'
  <2> SUFFICES ASSUME Sync, [Next]_vars PROVE Sync'
    OBVIOUS
  <2> USE DEF Sync
  <2>1. ASSUME NEW o \in Objects, Register(o) \/ Unregister(o) PROVE Sync'
    <3>1. CanEnter /\ sem' \in {sem, "stuck"} /\ UNCHANGED <<pc, thread>>
      BY <2>1 DEF Register, Unregister, UnregisterBody, loop, owner
    <3> QED BY <3>1 DEF CanEnter
  <2>2. ASSUME UNCHANGED <<sem, pc, thread>> PROVE Sync'
    BY <2>2
  <2>3. CASE StartCreate \/ StartAssign
    BY <2>3 DEF StartCreate, StartAssign, owner, loop
  <2>4. CASE DestroyBegin \/ DestroyReadNext \/ DestroyCancel \/ DestroyJoin
    BY <2>2, <2>4 DEF DestroyBegin, DestroyReadNext, DestroyCancel, DestroyJoin, loop
  <2>5. CASE DestroyUnregister
    <3>1. sem = "free" /\ sem' \in {"free", "stuck"} /\ UNCHANGED <<pc, thread>>
      BY <2>5 DEF DestroyUnregister, UnregisterBody, loop
    <3> QED BY <3>1
  <2>6. CASE RunLock \/ WalkCall \/ CallbackReturn \/ WalkSkip \/ WalkDone
    BY <2>6 DEF RunLock, WalkCall, CallbackReturn, WalkSkip, WalkDone, owner
  <2>7. CASE Plan \/ ReadClockAndMask \/ EnterWait \/ WaitStep \/ Cancelled
    BY <2>7 DEF Plan, ReadClockAndMask, EnterWait, WaitStep, Cancelled, owner
  <2>8. ASSUME NEW o \in Objects, Construct(o) PROVE Sync'
    BY <2>2, <2>8 DEF Construct, loop, owner
  <2>9. (\E S : Signal(S)) \/ (\E id : RegisterEvt(id)) \/ Tick \/ UNCHANGED vars
        => UNCHANGED <<sem, pc, thread>>
    BY DEF Signal, RegisterEvt, Tick, vars, loop, owner
  <2> QED BY <2>1, <2>2, <2>3, <2>4, <2>5, <2>6, <2>7, <2>8, <2>9
          DEF Next, Client, Owner, Run, WakeUp, SpuriousWakeUp, TimeOut
<1> QED BY <1>1, <1>2, PTL DEF Spec

(* The created thread finds its pointer assigned (Worker.cpp:35-45, 84),   *)
(* because start() holds the semaphore across the creation, whatever       *)
(* careless clients do to the list.                                        *)
THEOREM ThreadIsSetBeforeUse == Spec => []ThreadSetBeforeUse
<1>1. Sync => ThreadSetBeforeUse
  BY DEF Sync, ThreadSetBeforeUse
<1> QED BY <1>1, SyncHolds, PTL

(* A search that does not end keeps the semaphore for good: the thread     *)
(* never gets back to its walk, and no callback is called any more         *)
(* (Worker.cpp:59-135), whether a client, a callback or the thread itself  *)
(* is in it.  A callback that is in it never returns.                      *)
StuckForGood ==
  [][sem = "stuck" => /\ sem' = "stuck"
                      /\ pc' \in {"walk", "callback"} => pc = "callback" /\ pc' = pc]_vars

(* A hanging search is the end of the Worker: the semaphore is never given *)
(* back (Worker.cpp:114-135, 70-75), whatever clients do.                  *)
THEOREM StuckStaysStuck == Spec => StuckForGood
<1>1. Sync /\ [Next]_vars
      => [sem = "stuck" => /\ sem' = "stuck"
                           /\ pc' \in {"walk", "callback"} => pc = "callback" /\ pc' = pc]_vars
  <2> SUFFICES ASSUME Sync, Next, sem = "stuck"
               PROVE  /\ sem' = "stuck"
                      /\ pc' \in {"walk", "callback"} => pc = "callback" /\ pc' = pc
    OBVIOUS
  <2>1. pc # "walk" /\ (pc = "none" \/ thread)
    BY DEF Sync
  <2>2. \A o \in Objects : ~Register(o) /\ ~Unregister(o)
    BY DEF Register, Unregister, CanEnter
  <2>3. ~RunLock /\ ~Plan /\ ~StartCreate /\ ~DestroyUnregister
    BY DEF RunLock, Plan, StartCreate, DestroyUnregister
  <2>4. ~WalkCall /\ ~CallbackReturn /\ ~WalkSkip /\ ~WalkDone /\ ~StartAssign
    BY <2>1 DEF WalkCall, CallbackReturn, WalkSkip, WalkDone, StartAssign
  <2>5. CASE DestroyBegin \/ DestroyReadNext \/ DestroyCancel \/ DestroyJoin
    BY <2>1, <2>5 DEF DestroyBegin, DestroyReadNext, DestroyCancel, DestroyJoin, loop
  <2>6. CASE ReadClockAndMask \/ EnterWait \/ WaitStep \/ Cancelled \/ Tick
    BY <2>1, <2>6 DEF ReadClockAndMask, EnterWait, WaitStep, Cancelled, Tick
  <2>7. CASE \E o \in Objects : Construct(o)
    BY <2>1, <2>7 DEF Construct, loop
  <2>8. CASE (\E S : Signal(S)) \/ (\E id : RegisterEvt(id))
    BY <2>1, <2>8 DEF Signal, RegisterEvt, loop
  <2> QED BY <2>2, <2>3, <2>4, <2>5, <2>6, <2>7, <2>8
          DEF Next, Client, Owner, Run, WakeUp, SpuriousWakeUp, TimeOut
<1> QED BY <1>1, SyncHolds, PTL DEF Spec, StuckForGood

(* With clients that construct objects anew, a search does not end exactly *)
(* when an object behind the second one is unregistered (Worker.cpp:126-134: *)
(* the loop never moves on), and in no other case: registering, planning   *)
(* and ~Worker() always find what they look for -- the last, as long as no *)
(* callback changes the list meanwhile.                                    *)
StuckBehindSecond ==
  [][~late => (sem # "stuck" /\ sem' = "stuck"
               <=> \E o \in attached \ {head, next[head]} : Unregister(o))]_vars

LEMMA StuckStep ==
  ASSUME ~Careless, Inv, Next, ~late
  PROVE  sem # "stuck" /\ sem' = "stuck"
         <=> \E o \in attached \ {head, next[head]} : Unregister(o)
<1>1. ~(head # NULL /\ Tails = {})
  BY ListEnds DEF Inv, ListHasEnd
<1>2. ASSUME NEW o \in attached \ {head, next[head]}, Unregister(o)
      PROVE  sem # "stuck" /\ sem' = "stuck"
  <2>1. head # NULL
    BY EmptyListEmpty DEF Inv
  <2> QED BY <1>2, <2>1 DEF Unregister, UnregisterBody, Unlink, CanEnter
<1>3. ASSUME sem # "stuck", sem' = "stuck"
      PROVE  \E o \in attached \ {head, next[head]} : Unregister(o)
  <2>1. ASSUME NEW o \in Objects, Register(o) \/ Construct(o) PROVE FALSE
    BY <1>1, <1>3, <2>1 DEF Register, Construct
  <2>2. ASSUME NEW o \in Objects, Unregister(o)
        PROVE  o \in attached \ {head, next[head]}
    BY <1>3, <2>2 DEF Unregister, UnregisterBody
  <2>3. ~DestroyUnregister
    <3> SUFFICES ASSUME DestroyUnregister PROVE FALSE
      OBVIOUS
    <3>1. doomed = head /\ head # NULL
      BY DEF DestroyUnregister, Inv, Ending
    <3> QED BY <1>3, <3>1 DEF DestroyUnregister, UnregisterBody
  <2>4. ~(StartCreate \/ StartAssign \/ DestroyBegin \/ DestroyReadNext \/ DestroyCancel
          \/ DestroyJoin)
    BY <1>3 DEF StartCreate, StartAssign, DestroyBegin, DestroyReadNext, DestroyCancel, DestroyJoin
  <2>5. ~Run
    BY <1>1, <1>3 DEF Run, RunLock, WalkCall, CallbackReturn, WalkSkip, WalkDone, Plan,
                      ReadClockAndMask, EnterWait, WakeUp, SpuriousWakeUp, TimeOut, WaitStep,
                      Cancelled
  <2>6. ~Tick /\ (\A S : ~Signal(S)) /\ (\A id : ~RegisterEvt(id))
    BY <1>3 DEF Tick, Signal, RegisterEvt
  <2> QED BY <2>1, <2>2, <2>3, <2>4, <2>5, <2>6 DEF Next, Client, Owner
<1> QED BY <1>2, <1>3

(* The defect of unregister_worker's search (Worker.cpp:126-134) has this  *)
(* extent and no other, for any number of objects.                         *)
THEOREM StuckExactlyBehindSecond == ~Careless => (Spec => StuckBehindSecond)
<1> SUFFICES ASSUME ~Careless PROVE Spec => StuckBehindSecond
  OBVIOUS
<1>1. Inv /\ [Next]_vars
      => [~late => (sem # "stuck" /\ sem' = "stuck"
                    <=> \E o \in attached \ {head, next[head]} : Unregister(o))]_vars
  BY StuckStep
<1> QED BY <1>1, Invariance, PTL DEF Spec, StuckBehindSecond

TwoObjects == \E a, b : Objects \subseteq {a, b}

LEMMA LateForGood == late /\ Next => late'
<1>1. late /\ (Run \/ Owner \/ Tick) => late'
  BY DEF Run, RunLock, WalkCall, CallbackReturn, WalkSkip, WalkDone, Plan,
         ReadClockAndMask, EnterWait, WakeUp, SpuriousWakeUp, TimeOut, WaitStep, Cancelled,
         Owner, StartCreate, StartAssign, DestroyBegin, DestroyReadNext, DestroyUnregister,
         DestroyCancel, DestroyJoin, Tick, aux
<1>2. late /\ Client => late'
  BY DEF Client, Register, Unregister, Construct, Signal, RegisterEvt, aux
<1> QED BY <1>1, <1>2 DEF Next

(* With up to two objects every search of the list ends                    *)
(* (Worker.cpp:50-135): none of them is behind the second one.  Only       *)
(* ~Worker()'s may not, when a callback unregistered its object before.    *)
THEOREM TwoAreFound == ~Careless /\ TwoObjects => (Spec => []SearchEnds)
<1> SUFFICES ASSUME ~Careless, TwoObjects PROVE Spec => []SearchEnds
  OBVIOUS
<1>1. ASSUME Inv PROVE attached \ {head, next[head]} = {}
  <2> USE DEF Inv, ListOK, ListTypes, Linked
  <2> SUFFICES ASSUME NEW o \in attached, head # o PROVE next[head] = o
    BY <1>1
  <2>1. head # NULL /\ head \in attached
    BY <1>1, EmptyListEmpty DEF Closed
  <2>2. next[head] # NULL
    <3> SUFFICES ASSUME next[head] = NULL PROVE FALSE
      OBVIOUS
    <3>1. Closed({head})
      BY DEF Closed
    <3> QED BY <1>1, <2>1, <3>1 DEF Reached
  <2>3. next[head] \in attached /\ next[head] # head
    BY <1>1, <2>1, <2>2 DEF Closed
  <2> QED BY <1>1, <2>1, <2>3 DEF TwoObjects
<1>2. Inv /\ SearchEnds /\ [Next]_vars => SearchEnds'
  <2>1. Inv /\ SearchEnds /\ Next => SearchEnds'
    BY <1>1, StuckStep, LateForGood DEF SearchEnds
  <2>2. SearchEnds /\ UNCHANGED vars => SearchEnds'
    BY DEF SearchEnds, vars, aux
  <2> QED BY <2>1, <2>2
<1>3. Init => SearchEnds
  BY DEF Init, SearchEnds
<1> QED BY <1>2, <1>3, Invariance, PTL DEF Spec

-----------------------------------------------------------------------------
(* The Worker as a registry: every step of a client, the owner or the      *)
(* thread is one step of CallbackRegistry or leaves all of it alone.       *)

LEMMA ClientStepsRegistry ==
  ASSUME ~Careless, Inv, NEW o \in Objects, Register(o) \/ Unregister(o)
  PROVE  [Registry!Next]_(Registry!vars)
<1>1. /\ UNCHANGED <<pc, curr, thread, phase>> /\ late' = (late \/ ~InUse)
      /\ CanEnter /\ late \in BOOLEAN /\ strayed \in BOOLEAN
      /\ pc = "callback" => curr # NULL
  BY DEF Register, Unregister, loop, owner, Inv, Ending, Locks
<1>2. Registry!Use
  BY <1>1 DEF Registry!Use, CanEnter, InUse
<1>3. CASE Register(o)
  <2>1. attached' = attached \cup {o} /\ strayed' = strayed
    BY <1>3 DEF Register
  <2> QED BY <1>1, <1>2, <2>1 DEF Registry!Next, Registry!Register
<1>4. CASE Unregister(o)
  <2>1. /\ o \in attached /\ (attached' = attached \ {o} \/ attached' = attached)
        /\ strayed' = (strayed \/ (Orphaned /\ next[curr] \in attached \ attached'))
    BY <1>4 DEF Unregister, UnregisterBody, Unlink, list
  <2>2. Orphaned <=> Registry!Orphaned
    BY <1>1 DEF Orphaned, Registry!Orphaned
  <2>3. CASE attached' = attached \ {o}
    <3>1. strayed' \in {strayed, strayed \/ Registry!Orphaned}
      BY <1>1, <2>1, <2>2
    <3> QED BY <1>1, <1>2, <2>3, <3>1 DEF Registry!Next, Registry!Unregister
  <2>4. CASE attached' = attached
    <3>1. attached' = attached \cup {o} /\ strayed' = strayed
      BY <1>1, <2>1, <2>4
    <3> QED BY <1>1, <1>2, <3>1 DEF Registry!Next, Registry!Register
  <2> QED BY <2>1, <2>3, <2>4
<1> QED BY <1>3, <1>4

LEMMA ConstructStepsRegistry ==
  ASSUME Inv, NEW o \in Objects, Construct(o)
  PROVE  [Registry!Next]_(Registry!vars)
<1>1. /\ UNCHANGED <<attached, pc, curr, thread, phase, late>> /\ strayed \in BOOLEAN
      /\ strayed' = (strayed \/ (Orphaned /\ o = curr /\ next[curr] # NULL))
      /\ pc = "callback" => curr # NULL
  BY DEF Construct, loop, owner, Inv, Locks
<1>2. CASE strayed' = strayed
  BY <1>1, <1>2 DEF Registry!vars
<1>3. CASE Orphaned /\ strayed' = TRUE
  BY <1>1, <1>3 DEF Registry!Next, Registry!Stray, Registry!Orphaned, Orphaned
<1> QED BY <1>1, <1>2, <1>3

LEMMA OwnerStepsRegistry ==
  ASSUME Inv, Owner
  PROVE  [Registry!Next]_(Registry!vars)
<1>0. UNCHANGED <<pc, curr>> \/ StartCreate
  BY DEF Owner, StartCreate, StartAssign, DestroyBegin, DestroyReadNext, DestroyUnregister,
         DestroyCancel, DestroyJoin, loop
<1>a. UNCHANGED <<strayed, late>>
  BY DEF Owner, StartCreate, StartAssign, DestroyBegin, DestroyReadNext, DestroyUnregister,
         DestroyCancel, DestroyJoin, aux
<1>1. CASE StartCreate
  <2>1. pc # "callback" /\ pc' # "callback" /\ UNCHANGED <<attached, thread, phase>>
    BY <1>1 DEF StartCreate, list, owner
  <2> QED BY <1>a, <2>1 DEF Registry!vars
<1>2. CASE StartAssign
  <2>1. phase = "none" /\ ~thread /\ thread' = TRUE
        /\ UNCHANGED <<pc, curr, attached, phase>>
    BY <1>2 DEF StartAssign, InUse, loop, list
  <2> QED BY <1>a, <2>1 DEF Registry!Next, Registry!Start
<1>3. CASE (DestroyBegin /\ thread) \/ DestroyReadNext \/ DestroyJoin
  BY <1>a, <1>3 DEF DestroyBegin, DestroyReadNext, DestroyJoin, InUse, Registry!vars, list, loop
<1>4. CASE DestroyBegin /\ ~thread
  <2>1. phase = "none" /\ phase' = "done" /\ UNCHANGED <<pc, curr, attached, thread>>
    BY <1>4 DEF DestroyBegin, InUse, loop, list
  <2> QED BY <1>a, <1>4, <2>1 DEF Registry!Next, Registry!Close
<1>5. CASE DestroyUnregister
  <2>1. /\ phase = "unregister" /\ phase' = "walk" /\ doomed \in Objects /\ late \in BOOLEAN
        /\ UNCHANGED <<pc, curr, thread>> /\ strayed \in BOOLEAN
    BY <1>5 DEF DestroyUnregister, loop, Inv, Ending, Locks
  <2>2. attached' = attached \ {doomed} \/ attached' = attached
    BY <1>5 DEF DestroyUnregister, UnregisterBody, Unlink, list
  <2>3. CASE attached' = attached \ {doomed}
    BY <1>a, <2>1, <2>3 DEF Registry!Next, Registry!Unregister, Registry!Use
  <2>4. CASE attached' = attached
    BY <1>a, <2>1, <2>4 DEF Registry!vars
  <2> QED BY <2>2, <2>3, <2>4
<1>6. CASE DestroyCancel
  <2>1. /\ phase = "walk" /\ phase' = "cancel" /\ (late \/ head = NULL)
        /\ UNCHANGED <<pc, curr, attached, thread>>
    BY <1>6 DEF DestroyCancel, loop, list, Inv, Ending
  <2>2. late \/ attached = {}
    BY <2>1, EmptyListEmpty DEF Inv
  <2> QED BY <1>a, <2>1, <2>2 DEF Registry!Next, Registry!Close
<1> QED BY <1>1, <1>2, <1>3, <1>4, <1>5, <1>6 DEF Owner, DestroyBegin

LEMMA RunStepsRegistry ==
  ASSUME Inv, Run
  PROVE  [Registry!Next]_(Registry!vars)
<1>1. UNCHANGED <<attached, thread, phase, late>> /\ (UNCHANGED strayed \/ RunLock)
  BY DEF Run, RunLock, WalkCall, CallbackReturn, WalkSkip, WalkDone, Plan,
         ReadClockAndMask, EnterWait, WakeUp, SpuriousWakeUp, TimeOut, WaitStep,
         Cancelled, list, owner, aux
<1>2. CASE WalkCall
  <2>1. /\ pc = "walk" /\ pc' = "callback" /\ curr' = curr /\ curr \in Objects /\ thread
        /\ curr \in attached \/ strayed
    BY <1>2 DEF WalkCall, Inv, Locks, Sync, NoUseAfterUnregister
  <2>2. curr \in attached => phase \notin {"cancel", "done"} \/ late
    <3>1. phase \in {"cancel", "done"} => head = NULL \/ late
      BY <2>1 DEF Inv, Ending
    <3> QED BY <2>1, <3>1, EmptyListEmpty DEF Inv, Ending
  <2>3. UNCHANGED strayed /\ curr # NULL
    BY <1>2, <2>1, WorkerConstantsOK DEF WalkCall, aux
  <2> QED BY <1>1, <2>1, <2>2, <2>3 DEF Registry!Next, Registry!Call
<1>3. CASE RunLock
  <2>1. pc # "callback" /\ pc' # "callback" /\ strayed' = FALSE
    BY <1>3 DEF RunLock
  <2> QED BY <1>1, <2>1 DEF Registry!Next, Registry!Recover
<1>4. CASE UNCHANGED strayed /\ pc = "callback" /\ pc' # "callback"
  <2>1. curr # NULL
    BY <1>4 DEF Inv, Locks
  <2> QED BY <1>1, <1>4, <2>1 DEF Registry!Next, Registry!Return
<1>5. CASE UNCHANGED strayed /\ pc # "callback" /\ pc' # "callback"
  BY <1>1, <1>5 DEF Registry!vars
<1> QED
  BY <1>1, <1>2, <1>3, <1>4, <1>5
     DEF Run, RunLock, WalkCall, CallbackReturn, WalkSkip, WalkDone, Plan,
         ReadClockAndMask, EnterWait, WakeUp, SpuriousWakeUp, TimeOut, WaitStep, Cancelled

(* To those whose callbacks it calls the Worker is a registry              *)
(* (DC_PAL/Worker.cpp:21-135): it calls one registered object at a time,   *)
(* and none any more once ~Worker() cancels the thread, whatever callbacks *)
(* register and unregister -- unless one lets the walk stray, or goes on   *)
(* registering while ~Worker() runs.                                       *)
THEOREM WorkerIsARegistry == ~Careless => (Spec => ImplementsRegistry)
<1> SUFFICES ASSUME ~Careless PROVE Spec => Registry!Spec
  BY DEF ImplementsRegistry
<1>1. Init => Registry!Init
  BY DEF Init, Registry!Init
<1>2. Inv /\ [Next]_vars => [Registry!Next]_(Registry!vars)
  <2> SUFFICES ASSUME Inv, [Next]_vars PROVE [Registry!Next]_(Registry!vars)
    OBVIOUS
  <2>1. ASSUME UNCHANGED <<attached, pc, curr, thread, phase, aux>> PROVE UNCHANGED Registry!vars
    BY <2>1 DEF Registry!vars, aux
  <2>2. (\E S : Signal(S)) \/ (\E id : RegisterEvt(id)) \/ Tick \/ UNCHANGED vars
        => UNCHANGED <<attached, pc, curr, thread, phase, aux>>
    BY DEF Signal, RegisterEvt, Tick, vars, list, loop, owner
  <2> QED BY <2>1, <2>2, ClientStepsRegistry, ConstructStepsRegistry, OwnerStepsRegistry,
             RunStepsRegistry DEF Next, Client
<1> QED BY <1>1, <1>2, Invariance, PTL DEF Spec, Registry!Spec

-----------------------------------------------------------------------------
(* Types, with those of the Thread that the Worker waits on. *)

ThreadProofs == INSTANCE ThreadEventsProofs

ThreadStep ==
  \/ \E S \in SUBSET Thread!Event : Thread!Signal(S)
  \/ \E id \in Thread!Event \cup {-1} : Thread!RegisterEvt(id)
  \/ \E mask \in SUBSET Thread!Event, t \in Thread!Timeouts : Thread!WaitAny(mask, t)
  \/ Thread!WakeUp \/ Thread!SpuriousWakeUp \/ Thread!TimeOut \/ Thread!Tick
  \/ UNCHANGED wait

LEMMA ThreadStepIsNext ==
  ASSUME ThreadStep
  PROVE  [ThreadProofs!Next]_(ThreadProofs!vars)
<1> USE DEF Thread!Event, Thread!Timeouts, Thread!evts, Thread!call, ThreadProofs!Event,
            ThreadProofs!Timeouts, ThreadProofs!evts, ThreadProofs!call
<1>0. "any" \in WaitOps
  BY WorkerConstantsOK
<1>1. ASSUME NEW S \in SUBSET Thread!Event, Thread!Signal(S) PROVE ThreadProofs!Next
  <2>1. ThreadProofs!Signal(S)
    BY <1>1 DEF Thread!Signal, ThreadProofs!Signal, Thread!vars, ThreadProofs!vars
  <2> QED BY <2>1 DEF ThreadProofs!Next
<1>2. ASSUME NEW id \in Thread!Event \cup {-1}, Thread!RegisterEvt(id) PROVE ThreadProofs!Next
  <2>1. ThreadProofs!RegisterEvt(id)
    BY <1>2 DEF Thread!RegisterEvt, ThreadProofs!RegisterEvt
  <2> QED BY <2>1 DEF ThreadProofs!Next
<1>3. ASSUME NEW mask \in SUBSET Thread!Event, NEW t \in Thread!Timeouts,
             Thread!WaitAny(mask, t)
      PROVE  ThreadProofs!Next
  <2>1. ThreadProofs!WaitAny(mask, t)
    BY <1>3 DEF Thread!WaitAny, ThreadProofs!WaitAny, Thread!AnyArrived,
                ThreadProofs!AnyArrived, Thread!TakeAtOnce, ThreadProofs!TakeAtOnce,
                Thread!Block, ThreadProofs!Block
  <2> QED BY <1>0, <2>1 DEF ThreadProofs!Next
<1>4. ASSUME Thread!WakeUp \/ Thread!SpuriousWakeUp PROVE ThreadProofs!Next
  <2>1. ThreadProofs!WakeUp \/ ThreadProofs!SpuriousWakeUp
    BY <1>4 DEF Thread!WakeUp, ThreadProofs!WakeUp, Thread!SpuriousWakeUp,
                ThreadProofs!SpuriousWakeUp, Thread!Woken, ThreadProofs!Woken,
                Thread!Arrived, ThreadProofs!Arrived, Thread!AnyArrived,
                ThreadProofs!AnyArrived, Thread!AllArrived, ThreadProofs!AllArrived,
                Thread!Return, ThreadProofs!Return
  <2> QED BY <2>1 DEF ThreadProofs!Next
<1>5. ASSUME Thread!TimeOut PROVE ThreadProofs!Next
  <2>1. ThreadProofs!TimeOut
    BY <1>5 DEF Thread!TimeOut, ThreadProofs!TimeOut, Thread!Return, ThreadProofs!Return,
                Thread!WaitUsec, ThreadProofs!WaitUsec, Thread!WaitNsec, ThreadProofs!WaitNsec
  <2> QED BY <2>1 DEF ThreadProofs!Next
<1>6. ASSUME Thread!Tick PROVE ThreadProofs!Next
  <2>1. ThreadProofs!Tick
    BY <1>6 DEF Thread!Tick, ThreadProofs!Tick, Thread!WaitUsec, ThreadProofs!WaitUsec,
                Thread!WaitNsec, ThreadProofs!WaitNsec
  <2> QED BY <2>1 DEF ThreadProofs!Next
<1>7. ASSUME UNCHANGED wait PROVE UNCHANGED ThreadProofs!vars
  BY <1>7 DEF wait, events, call, ThreadProofs!vars
<1> QED BY <1>1, <1>2, <1>3, <1>4, <1>5, <1>6, <1>7 DEF ThreadStep

LEMMA ThreadTyped == Thread!TypeOK /\ ThreadStep => Thread!TypeOK'
<1> SUFFICES ASSUME Thread!TypeOK, ThreadStep PROVE Thread!TypeOK'
  OBVIOUS
<1> USE DEF Thread!Event, Thread!Timeouts, Thread!evts, Thread!call, ThreadProofs!Event,
            ThreadProofs!Timeouts, ThreadProofs!evts, ThreadProofs!call
<1>1. ThreadProofs!ConstantsOK
  BY WorkerConstantsOK DEF Thread!ConstantsOK, ThreadProofs!ConstantsOK
<1>2. ThreadProofs!TypeOK
  BY DEF Thread!TypeOK, ThreadProofs!TypeOK, Thread!WaitUsec, ThreadProofs!WaitUsec,
         Thread!WaitNsec, ThreadProofs!WaitNsec
<1>3. [ThreadProofs!Next]_(ThreadProofs!vars)
  BY ThreadStepIsNext
<1>4. ThreadProofs!TypeOK'
  BY <1>1, <1>2, <1>3, ThreadProofs!TypeStep
<1> QED
  BY <1>4 DEF Thread!TypeOK, ThreadProofs!TypeOK, Thread!WaitUsec, ThreadProofs!WaitUsec,
         Thread!WaitNsec, ThreadProofs!WaitNsec

(* A set of natural numbers has a smallest one. *)
LEMMA SmallestExists ==
  ASSUME NEW T \in SUBSET Nat, T # {}
  PROVE  \E x \in T : \A y \in T : x <= y
<1> DEFINE Less == {p \in Nat \X Nat : p[1] < p[2]}
<1>1. IsWellFoundedOn(Less, Nat)
  BY NatLessThanWellFounded, Zenon DEF OpToRel
<1>2. \A x, y \in Nat : <<y, x>> \in Less <=> y < x
  OBVIOUS
<1> HIDE DEF Less
<1>3. PICK x \in T : \A y \in T : ~ (<<y, x>> \in Less)
  BY <1>1, WFMin
<1>4. \A y \in T : x \in Nat /\ y \in Nat /\ ~ (y < x)
  BY <1>2, <1>3, Zenon
<1>5. \A y \in T : x <= y
  BY <1>4
<1> QED BY <1>5

LEMMA MinInSet ==
  ASSUME NEW S, S \subseteq {i \in Int : Overdue <= i}, S # {}
  PROVE  Min(S) \in S
<1> DEFINE T == {i + 1 : i \in S}
<1>1. T \in SUBSET Nat /\ T # {}
  <2>1. \A i \in S : i + 1 \in Nat
    BY DEF Overdue
  <2> QED BY <2>1
<1> HIDE DEF T
<1>2. PICK x \in T : \A y \in T : x <= y
  BY <1>1, SmallestExists
<1>3. PICK m \in S : x = m + 1
  BY <1>2 DEF T
<1>4. \A i \in S : i + 1 \in T
  BY DEF T
<1>5. \A i \in S : m <= i
  BY <1>2, <1>3, <1>4
<1>6. \E i \in S : \A j \in S : i <= j
  BY <1>3, <1>5
<1> QED BY <1>6 DEF Min

(* Typed, and the worker thread has an object in hand when it calls one,    *)
(* ~Worker() when it unregisters one.                                       *)
TypeInv ==
  /\ TypeOK
  /\ pc = "callback" => curr # NULL
  /\ phase = "unregister" => doomed # NULL

LEMMA TypeInvInit == Init => TypeInv
<1> SUFFICES ASSUME Init PROVE TypeInv
  OBVIOUS
<1>1. ThreadProofs!ConstantsOK /\ Thread!ConstantsOK
  BY WorkerConstantsOK DEF Thread!ConstantsOK, ThreadProofs!ConstantsOK, Thread!Event,
                           ThreadProofs!Event
<1>2. Thread!Init
  BY DEF Init
<1>3. ThreadProofs!Init
  BY <1>2 DEF Thread!Init, ThreadProofs!Init
<1>4. ThreadProofs!TypeOK
  BY <1>1, <1>3, ThreadProofs!TypeInit
<1>5. Thread!TypeOK
  BY <1>4 DEF Thread!TypeOK, ThreadProofs!TypeOK, Thread!WaitUsec, ThreadProofs!WaitUsec,
         Thread!WaitNsec, ThreadProofs!WaitNsec, Thread!Event, Thread!Timeouts,
         ThreadProofs!Event, ThreadProofs!Timeouts
<1>6. /\ Thread!Forever \in Nat /\ 0 \in Thread!Timeouts
      /\ Thread!Timeouts \subseteq Overdue .. Thread!Forever
  BY <1>1 DEF Thread!ConstantsOK, Thread!Timeouts, Thread!Forever, Overdue
<1>7. due \in [Periodic -> Overdue .. Thread!Forever]
  BY <1>6, WorkerConstantsOK DEF Init
<1>8. planned \in NoTrigger .. Thread!Forever
  BY <1>6 DEF Init, NoTrigger
<1>9. /\ head \in Objects \cup {NULL} /\ next \in [Objects -> Objects \cup {NULL}]
      /\ attached \subseteq Objects /\ curr \in Objects \cup {NULL}
      /\ {doomed, next_worker} \subseteq Objects \cup {NULL} /\ wait_us \in Thread!Timeouts
  BY <1>6 DEF Init
<1> QED BY <1>5, <1>7, <1>8, <1>9 DEF Init, TypeInv, TypeOK

LEMMA RestartTyped ==
  ASSUME TypeOK, NEW o, RestartPeriod(o)
  PROVE  due' \in [Periodic -> Overdue .. Thread!Forever]
<1>1. Period \in [Periodic -> Overdue .. Thread!Forever]
  <2>1. Thread!Timeouts \subseteq Overdue .. Thread!Forever
    BY WorkerConstantsOK DEF Thread!ConstantsOK, Thread!Timeouts, Thread!Forever, Overdue
  <2> QED BY <2>1, WorkerConstantsOK
<1> QED BY <1>1 DEF RestartPeriod, TypeOK

LEMMA NextTriggerTyped ==
  ASSUME TypeOK
  PROVE  NextTrigger \in NoTrigger .. Thread!Forever
<1>1. Thread!Forever \in Nat
  BY WorkerConstantsOK DEF Thread!ConstantsOK, Thread!Forever
<1>2. CASE Chain \cap Periodic = {}
  BY <1>1, <1>2 DEF NextTrigger, NoTrigger
<1>3. CASE Chain \cap Periodic # {}
  <2> DEFINE S == {due[o] : o \in Chain \cap Periodic}
  <2>1. S \subseteq Overdue .. Thread!Forever /\ S # {}
    BY <1>3 DEF TypeOK
  <2>2. NextTrigger = Min(S)
    BY <1>3 DEF NextTrigger
  <2> HIDE DEF S
  <2>3. S \subseteq {i \in Int : Overdue <= i}
    BY <1>1, <2>1 DEF Overdue
  <2>4. NextTrigger \in Overdue .. Thread!Forever
    BY <2>1, <2>2, <2>3, MinInSet
  <2> QED BY <1>1, <2>4 DEF Overdue, NoTrigger
<1> QED BY <1>2, <1>3

\* What no operation on the list touches.
LEMMA ListOpTyped ==
  ASSUME TypeInv, UNCHANGED <<loop, thread, wait>>,
         head' \in Objects \cup {NULL}, next' \in [Objects -> Objects \cup {NULL}],
         attached' \subseteq Objects, due' \in [Periodic -> Overdue .. Thread!Forever],
         sem' \in {"free", "start", "run", "stuck"},
         phase' \in {"none", "walk", "unregister", "cancel", "done"},
         {doomed', next_worker'} \subseteq Objects \cup {NULL},
         phase' = "unregister" => doomed' # NULL,
         strayed' \in BOOLEAN, late' \in BOOLEAN
  PROVE  TypeInv'
<1>1. Thread!TypeOK'
  BY ThreadTyped DEF ThreadStep, TypeInv, TypeOK
<1> QED BY <1>1 DEF TypeInv, TypeOK, loop

LEMMA UnregisterTyped ==
  ASSUME TypeOK, NEW o \in Objects, UnregisterBody(o)
  PROVE  /\ head' \in Objects \cup {NULL} /\ next' \in [Objects -> Objects \cup {NULL}]
         /\ attached' \subseteq Objects /\ due' \in [Periodic -> Overdue .. Thread!Forever]
         /\ sem' \in {"free", "start", "run", "stuck"}
<1>1. CASE Unlink(o) /\ UNCHANGED sem
  <2>1. due' \in [Periodic -> Overdue .. Thread!Forever]
    BY <1>1, RestartTyped DEF Unlink
  <2> QED BY <1>1, <2>1 DEF Unlink, TypeOK
<1>2. CASE UNCHANGED <<list, due>> /\ sem' \in {"stuck", sem}
  BY <1>2 DEF list, TypeOK
<1> QED BY <1>1, <1>2 DEF UnregisterBody

LEMMA ClientTyped == TypeInv /\ Client => TypeInv'
<1> SUFFICES ASSUME TypeInv, Client PROVE TypeInv'
  OBVIOUS
<1>1. TypeOK
  BY DEF TypeInv
<1>2. ASSUME NEW o \in Objects, Register(o) PROVE TypeInv'
  <2>1. /\ UNCHANGED <<loop, thread, phase, doomed, next_worker, wait>>
        /\ sem' \in {"stuck", sem} /\ attached' = attached \cup {o}
        /\ strayed' \in BOOLEAN /\ late' \in BOOLEAN
    BY <1>1, <1>2 DEF Register, owner, TypeOK
  <2>2. due' \in [Periodic -> Overdue .. Thread!Forever]
    BY <1>1, <1>2, RestartTyped DEF Register
  <2>3. head' \in Objects \cup {NULL} /\ next' \in [Objects -> Objects \cup {NULL}]
    BY <1>1, <1>2 DEF Register, Append, Tails, Chain, TypeOK
  <2> QED BY <1>1, <2>1, <2>2, <2>3, ListOpTyped DEF TypeInv, TypeOK
<1>3. ASSUME NEW o \in Objects, Unregister(o) PROVE TypeInv'
  <2>1. /\ UNCHANGED <<loop, thread, phase, doomed, next_worker, wait>> /\ UnregisterBody(o)
        /\ strayed' \in BOOLEAN /\ late' \in BOOLEAN
    BY <1>1, <1>3 DEF Unregister, owner, TypeOK
  <2> QED BY <1>1, <2>1, UnregisterTyped, ListOpTyped DEF TypeInv, TypeOK
<1>4. ASSUME NEW o \in Objects, Construct(o) PROVE TypeInv'
  <2>1. /\ UNCHANGED <<loop, thread, phase, doomed, next_worker, wait, head, attached, due, sem>>
        /\ strayed' \in BOOLEAN /\ late' \in BOOLEAN
    BY <1>1, <1>4 DEF Construct, owner, TypeOK
  <2>2. next' \in [Objects -> Objects \cup {NULL}]
    BY <1>1, <1>4 DEF Construct, TypeOK
  <2> QED BY <1>1, <2>1, <2>2, ListOpTyped DEF TypeInv, TypeOK
<1>5. ASSUME ThreadStep, UNCHANGED <<list, due, sem, loop, owner, aux>> PROVE TypeInv'
  <2>1. Thread!TypeOK'
    BY <1>1, <1>5, ThreadTyped DEF TypeOK
  <2> QED BY <1>5, <2>1 DEF TypeInv, TypeOK, list, loop, owner, aux
<1>6. ASSUME NEW S \in SUBSET Thread!Event, Signal(S) PROVE TypeInv'
  BY <1>5, <1>6 DEF Signal, ThreadStep
<1>7. ASSUME NEW id \in Thread!Event \cup {-1}, RegisterEvt(id) PROVE TypeInv'
  BY <1>5, <1>7 DEF RegisterEvt, ThreadStep
<1> QED BY <1>2, <1>3, <1>4, <1>6, <1>7 DEF Client

LEMMA OwnerTyped == TypeInv /\ Owner => TypeInv'
<1> SUFFICES ASSUME TypeInv, Owner PROVE TypeInv'
  OBVIOUS
<1>1. TypeOK
  BY DEF TypeInv
<1>2. CASE DestroyUnregister /\ doomed # NULL
  <2>1. /\ doomed \in Objects /\ UnregisterBody(doomed) /\ phase' = "walk"
        /\ doomed' = next_worker /\ next_worker' = NULL
    BY <1>1, <1>2 DEF DestroyUnregister, TypeOK
  <2>2. UNCHANGED <<loop, thread, wait>> /\ strayed' \in BOOLEAN /\ late' \in BOOLEAN
    BY <1>1, <1>2 DEF DestroyUnregister, aux, TypeOK
  <2>3. {doomed', next_worker'} \subseteq Objects \cup {NULL}
    BY <1>1, <2>1 DEF TypeOK
  <2> QED BY <1>1, <2>1, <2>2, <2>3, UnregisterTyped, ListOpTyped
<1>3. CASE StartCreate \/ StartAssign \/ DestroyBegin \/ DestroyReadNext \/ DestroyCancel \/ DestroyJoin
  <2>1. UNCHANGED <<list, due, curr, planned, wait_us, wait, strayed, late>>
    BY <1>3 DEF StartCreate, StartAssign, DestroyBegin, DestroyReadNext, DestroyCancel, DestroyJoin,
                loop, aux
  <2>2. Thread!TypeOK'
    BY <1>1, <2>1, ThreadTyped DEF ThreadStep, TypeOK
  <2>3. /\ pc' \in {"lock", pc} /\ sem' \in {"start", "free", sem}
        /\ thread' \in {TRUE, thread} /\ phase' \in {"walk", "unregister", "cancel", "done", phase}
        /\ doomed' \in {head, doomed}
    BY <1>3 DEF StartCreate, StartAssign, DestroyBegin, DestroyReadNext, DestroyCancel, DestroyJoin,
                loop, owner
  <2>4. /\ head' \in Objects \cup {NULL} /\ next' \in [Objects -> Objects \cup {NULL}]
        /\ attached' \subseteq Objects /\ due' \in [Periodic -> Overdue .. Thread!Forever]
        /\ curr' \in Objects \cup {NULL} /\ planned' \in NoTrigger .. Thread!Forever
        /\ wait_us' \in Thread!Timeouts /\ {strayed', late'} \subseteq BOOLEAN
    BY <1>1, <2>1 DEF TypeOK, list
  <2>5. next_worker' \in Objects \cup {NULL}
    <3>1. CASE DestroyReadNext
      <4>1. doomed \in Objects /\ next_worker' = next[doomed]
        BY <1>1, <3>1 DEF DestroyReadNext, TypeOK
      <4> QED BY <1>1, <4>1 DEF TypeOK
    <3>2. CASE UNCHANGED next_worker
      BY <1>1, <3>2 DEF TypeOK
    <3> QED BY <1>3, <3>1, <3>2
            DEF StartCreate, StartAssign, DestroyBegin, DestroyCancel, DestroyJoin, owner
  <2>6. /\ {doomed', next_worker'} \subseteq Objects \cup {NULL} /\ thread' \in BOOLEAN
        /\ phase' \in {"none", "walk", "unregister", "cancel", "done"}
        /\ sem' \in {"free", "start", "run", "stuck"}
    BY <1>1, <2>3, <2>5 DEF TypeOK
  <2>7. /\ pc' \in {"none", "lock", "walk", "callback", "plan", "clock", "enter", "wait", "gone"}
        /\ pc' = "callback" => curr' # NULL
        /\ phase' = "unregister" => doomed' # NULL
    <3>1. phase' = "unregister" => doomed' # NULL
      BY <1>1, <1>3 DEF StartCreate, StartAssign, DestroyBegin, DestroyReadNext, DestroyCancel,
                        DestroyJoin, owner, TypeInv
    <3> QED BY <1>1, <2>1, <2>3, <3>1 DEF TypeInv, TypeOK
  <2> QED BY <2>2, <2>4, <2>6, <2>7 DEF TypeInv, TypeOK
<1> QED BY <1>2, <1>3 DEF Owner, DestroyUnregister, TypeInv

LEMMA RunTyped == TypeInv /\ Run => TypeInv'
<1> SUFFICES ASSUME TypeInv, Run PROVE TypeInv'
  OBVIOUS
<1>1. TypeOK
  BY DEF TypeInv
<1>2. ASSUME UNCHANGED <<list, owner>>, Thread!TypeOK', strayed' \in BOOLEAN, late' \in BOOLEAN,
             due' \in [Periodic -> Overdue .. Thread!Forever],
             sem' \in {"free", "run", "stuck", sem},
             pc' \in {"lock", "walk", "plan", "clock", "enter", "wait", "gone", pc},
             pc' = "callback" => curr' # NULL,
             curr' \in Objects \cup {NULL},
             planned' \in NoTrigger .. Thread!Forever, wait_us' \in Thread!Timeouts
      PROVE  TypeInv'
  BY <1>1, <1>2 DEF TypeInv, TypeOK, list, owner
<1>3. UNCHANGED wait => Thread!TypeOK'
  BY <1>1, ThreadTyped DEF ThreadStep, TypeOK
<1>a. strayed' \in BOOLEAN /\ late' \in BOOLEAN
  <2>1. strayed' \in {strayed, FALSE} /\ late' = late
    BY DEF Run, RunLock, WalkCall, CallbackReturn, WalkSkip, WalkDone, Plan,
           ReadClockAndMask, EnterWait, WakeUp, SpuriousWakeUp, TimeOut, WaitStep, Cancelled, aux
  <2> QED BY <1>1, <2>1 DEF TypeOK
<1>4. CASE RunLock
  BY <1>1, <1>a, <1>2, <1>3, <1>4 DEF RunLock, TypeOK
<1>5. CASE WalkCall
  BY <1>1, <1>a, <1>3, <1>5 DEF WalkCall, TypeOK, TypeInv, list, owner
<1>6. CASE CallbackReturn
  <2>1. curr \in Objects /\ curr' = next[curr]
    BY <1>1, <1>6 DEF CallbackReturn, TypeOK, TypeInv
  <2>2. curr' \in Objects \cup {NULL}
    BY <1>1, <2>1 DEF TypeOK
  <2>3. due' \in [Periodic -> Overdue .. Thread!Forever]
    BY <1>1, <1>6, RestartTyped DEF CallbackReturn
  <2> QED BY <1>1, <1>a, <1>2, <1>3, <1>6, <2>2, <2>3 DEF CallbackReturn, TypeOK
<1>7. CASE WalkSkip
  <2>1. curr \in Objects /\ curr' = next[curr]
    BY <1>1, <1>7 DEF WalkSkip, TypeOK
  <2>2. curr' \in Objects \cup {NULL}
    BY <1>1, <2>1 DEF TypeOK
  <2> QED BY <1>1, <1>a, <1>2, <1>3, <1>7, <2>2 DEF WalkSkip, TypeOK
<1>8. CASE WalkDone
  BY <1>1, <1>a, <1>2, <1>3, <1>8 DEF WalkDone, TypeOK
<1>9. CASE Plan
  <2>1. planned' \in NoTrigger .. Thread!Forever
    BY <1>1, <1>9, NextTriggerTyped DEF Plan, TypeOK
  <2> QED BY <1>1, <1>a, <1>2, <1>3, <1>9, <2>1 DEF Plan, TypeOK, TypeInv
<1>10. CASE ReadClockAndMask
  <2>1. Thread!Forever \in Nat /\ Thread!Forever \in Thread!Timeouts
    BY WorkerConstantsOK DEF Thread!ConstantsOK, Thread!Forever, Thread!Timeouts
  <2>2. planned \in Int /\ planned <= Thread!Forever
    BY <1>1, <2>1 DEF TypeOK, NoTrigger
  <2>3. planned >= 0 => planned \in Thread!Timeouts
    BY <2>2, WorkerConstantsOK DEF Thread!ConstantsOK, Thread!Forever, Thread!Timeouts
  <2>4. wait_us' \in Thread!Timeouts
    BY <1>10, <2>1, <2>2, <2>3 DEF ReadClockAndMask
  <2>5. planned' \in NoTrigger .. Thread!Forever
    BY <1>10, <2>1 DEF ReadClockAndMask, NoTrigger
  <2>6. Thread!TypeOK'
    BY <1>1, <1>10 DEF ReadClockAndMask, TypeOK, Thread!TypeOK, events, call
  <2> QED BY <1>1, <1>a, <1>2, <1>10, <2>4, <2>5, <2>6 DEF ReadClockAndMask, TypeOK
<1>11. CASE EnterWait
  <2>1. evt_mask \in SUBSET Thread!Event /\ wait_us \in Thread!Timeouts
    BY <1>1 DEF TypeOK, Thread!TypeOK
  <2>2. Thread!TypeOK'
    BY <1>1, <1>11, <2>1, ThreadTyped DEF EnterWait, ThreadStep, TypeOK
  <2>3. 0 \in Thread!Timeouts
    BY WorkerConstantsOK DEF Thread!ConstantsOK, Thread!Timeouts
  <2> QED BY <1>1, <1>a, <1>2, <1>11, <2>2, <2>3 DEF EnterWait, TypeOK
<1>12. CASE WakeUp \/ SpuriousWakeUp \/ TimeOut
  <2>1. Thread!TypeOK'
    BY <1>1, <1>12, ThreadTyped DEF WakeUp, SpuriousWakeUp, TimeOut, ThreadStep, TypeOK
  <2>2. WaitStep
    BY <1>12 DEF WakeUp, SpuriousWakeUp, TimeOut
  <2> QED BY <1>1, <1>a, <1>2, <2>1, <2>2 DEF WaitStep, TypeOK
<1>13. CASE Cancelled
  BY <1>1, <1>a, <1>2, <1>3, <1>13 DEF Cancelled, TypeOK
<1> QED BY <1>4, <1>5, <1>6, <1>7, <1>8, <1>9, <1>10, <1>11, <1>12, <1>13 DEF Run

LEMMA TickTyped == TypeInv /\ Tick => TypeInv'
<1> SUFFICES ASSUME TypeInv, Tick PROVE TypeInv'
  OBVIOUS
<1>1. Thread!Forever \in Nat
  BY WorkerConstantsOK DEF Thread!ConstantsOK, Thread!Forever
<1>2. Thread!TypeOK'
  BY ThreadTyped DEF Tick, ThreadStep, TypeInv, TypeOK
<1>3. ASSUME NEW t \in Overdue .. Thread!Forever PROVE Later(t) \in Overdue .. Thread!Forever
  BY <1>1 DEF Later, Overdue
<1>4. ASSUME NEW t \in NoTrigger .. Thread!Forever PROVE Later(t) \in NoTrigger .. Thread!Forever
  BY <1>1 DEF Later, Overdue, NoTrigger
<1>5. due' \in [Periodic -> Overdue .. Thread!Forever]
  BY <1>3 DEF Tick, TypeInv, TypeOK
<1>6. planned' \in NoTrigger .. Thread!Forever
  BY <1>4 DEF Tick, TypeInv, TypeOK
<1> QED BY <1>2, <1>5, <1>6 DEF Tick, TypeInv, TypeOK, list, owner, aux

(* Every variable keeps its type, whatever clients do, those of the Thread  *)
(* included: what run() waits with is a timeout, and what it plans is a     *)
(* time or none (Worker.cpp:47-91).                                         *)
THEOREM WorkerTypeCorrect == Spec => []TypeOK
<1>1. TypeInv /\ [Next]_vars => TypeInv'
  <2> SUFFICES ASSUME TypeInv, UNCHANGED vars PROVE TypeInv'
    BY ClientTyped, OwnerTyped, RunTyped, TickTyped DEF Next
  <2>1. Thread!TypeOK'
    BY ThreadTyped DEF vars, ThreadStep, TypeInv, TypeOK
  <2> QED BY <2>1 DEF vars, TypeInv, TypeOK, list, loop, owner, aux
<1>2. TypeInv => TypeOK
  BY DEF TypeInv
<1> QED BY <1>1, <1>2, TypeInvInit, PTL DEF Spec

-----------------------------------------------------------------------------
(* What the Thread guarantees, the Worker's own thread has: every step of  *)
(* the Worker is one of the Thread, except that run() writes its evt_mask  *)
(* between two waits.                                                      *)

LEMMA WorkerStepsThread == TypeOK /\ [Next]_vars => ThreadStep \/ ReadClockAndMask
<1> SUFFICES ASSUME TypeOK, [Next]_vars PROVE ThreadStep \/ ReadClockAndMask
  OBVIOUS
<1>1. ASSUME NEW o \in Objects, Register(o) \/ Unregister(o) \/ Construct(o) PROVE UNCHANGED wait
  BY <1>1 DEF Register, Unregister, Construct
<1>2. Owner => UNCHANGED wait
  BY DEF Owner, StartCreate, StartAssign, DestroyBegin, DestroyReadNext, DestroyUnregister,
         DestroyCancel, DestroyJoin
<1>3. ASSUME RunLock \/ WalkCall \/ CallbackReturn \/ WalkSkip \/ WalkDone \/ Plan \/ Cancelled
      PROVE  UNCHANGED wait
  BY <1>3 DEF RunLock, WalkCall, CallbackReturn, WalkSkip, WalkDone, Plan, Cancelled
<1>4. ASSUME EnterWait PROVE ThreadStep
  BY <1>4 DEF EnterWait, ThreadStep, TypeOK, Thread!TypeOK
<1>5. ASSUME WakeUp \/ SpuriousWakeUp \/ TimeOut \/ Tick PROVE ThreadStep
  BY <1>5 DEF WakeUp, SpuriousWakeUp, TimeOut, Tick, ThreadStep
<1>6. ASSUME \/ \E S \in SUBSET Thread!Event : Signal(S)
             \/ \E id \in Thread!Event \cup {-1} : RegisterEvt(id)
      PROVE  ThreadStep
  BY <1>6 DEF Signal, RegisterEvt, ThreadStep
<1>7. UNCHANGED vars => UNCHANGED wait
  BY DEF vars
<1> QED BY <1>1, <1>2, <1>3, <1>4, <1>5, <1>6, <1>7 DEF Next, Client, Run, ThreadStep

\* Nothing of the wait is in progress when run() writes evt_mask.
BlocksInWait == op # "none" => pc \in {"wait", "gone"}

LEMMA BlocksInWaitHolds == Spec => []BlocksInWait
<1>1. Init => BlocksInWait
  BY DEF Init, BlocksInWait, Thread!Init
<1>2. BlocksInWait /\ [Next]_vars => BlocksInWait'
  <2> SUFFICES ASSUME BlocksInWait, [Next]_vars PROVE BlocksInWait'
    OBVIOUS
  <2> USE DEF BlocksInWait
  <2>1. ASSUME UNCHANGED <<op, pc>> PROVE BlocksInWait'
    BY <2>1
  <2>2. CASE EnterWait \/ WaitStep
    BY <2>2 DEF EnterWait, WaitStep
  <2>3. CASE Cancelled
    BY <2>3 DEF Cancelled
  <2>4. CASE \/ StartCreate \/ RunLock \/ WalkCall \/ CallbackReturn \/ WalkSkip \/ WalkDone
             \/ Plan \/ ReadClockAndMask
    BY <2>4 DEF StartCreate, RunLock, WalkCall, CallbackReturn, WalkSkip, WalkDone, Plan,
                ReadClockAndMask, wait, call
  <2>5. CASE \/ StartAssign \/ DestroyBegin \/ DestroyReadNext \/ DestroyUnregister
             \/ DestroyCancel \/ DestroyJoin
    BY <2>1, <2>5 DEF StartAssign, DestroyBegin, DestroyReadNext, DestroyUnregister, DestroyCancel,
                      DestroyJoin, loop, wait, call
  <2>6. CASE \E o \in Objects : Register(o) \/ Unregister(o) \/ Construct(o)
    BY <2>1, <2>6 DEF Register, Unregister, Construct, loop, wait, call
  <2>7. CASE Tick \/ (\E S : Signal(S)) \/ (\E id : RegisterEvt(id)) \/ UNCHANGED vars
    BY <2>1, <2>7 DEF Tick, Signal, RegisterEvt, Thread!Tick, Thread!Signal, Thread!RegisterEvt,
                      Thread!vars, Thread!call, vars, loop, wait, call
  <2> QED BY <2>2, <2>3, <2>4, <2>5, <2>6, <2>7
          DEF Next, Client, Owner, Run, WakeUp, SpuriousWakeUp, TimeOut
<1> QED BY <1>1, <1>2, PTL DEF Spec

(* The thread of a Worker misses no wake-up: an event of its mask that is  *)
(* signalled while it blocks in run() wakes it (Worker.cpp:84,             *)
(* Threads.cpp:125-188), whatever clients do to the list meanwhile.        *)
THEOREM WorkerMissesNoWakeUp == Spec => []Thread!NoMissedWakeUp
<1> USE DEF Thread!NoMissedWakeUp, Thread!Arrived, Thread!AnyArrived, Thread!AllArrived,
            ThreadProofs!NoMissedWakeUp, ThreadProofs!Arrived, ThreadProofs!AnyArrived,
            ThreadProofs!AllArrived
<1>1. Init => Thread!NoMissedWakeUp
  BY DEF Init, Thread!Init
<1>2. Thread!NoMissedWakeUp /\ ThreadStep => Thread!NoMissedWakeUp'
  <2>1. ThreadProofs!ConstantsOK
    BY WorkerConstantsOK DEF Thread!ConstantsOK, ThreadProofs!ConstantsOK, Thread!Event,
                             ThreadProofs!Event
  <2> QED BY <2>1, ThreadStepIsNext, ThreadProofs!NoMissedStep
<1>3. BlocksInWait /\ ReadClockAndMask => Thread!NoMissedWakeUp'
  BY DEF BlocksInWait, ReadClockAndMask, call
<1>4. TypeOK /\ BlocksInWait /\ Thread!NoMissedWakeUp /\ [Next]_vars => Thread!NoMissedWakeUp'
  BY <1>2, <1>3, WorkerStepsThread
<1> QED BY <1>1, <1>4, WorkerTypeCorrect, BlocksInWaitHolds, PTL DEF Spec

(* To the Worker its Thread is a set of event flags (Worker.cpp:68-91):    *)
(* an event leaves the latch only into the mask that the next walk uses.   *)
THEOREM WorkerCollectsFlags == Spec => Thread!ImplementsFlags
<1> SUFFICES Spec => Thread!Flags!Spec
  BY DEF Thread!ImplementsFlags
<1>1. Init /\ TypeOK => Thread!Flags!Init
  BY DEF Init, Thread!Init, TypeOK, Thread!TypeOK, Thread!Flags!Init, Thread!Flags!TypeOK
<1>2. TypeOK /\ TypeOK' /\ ThreadStep => [Thread!Flags!Next]_(Thread!Flags!vars)
  <2> SUFFICES ASSUME TypeOK, TypeOK', ThreadStep
               PROVE  [Thread!Flags!Next]_(Thread!Flags!vars)
    OBVIOUS
  <2>1. ThreadProofs!ConstantsOK
    BY WorkerConstantsOK DEF Thread!ConstantsOK, ThreadProofs!ConstantsOK, Thread!Event,
                             ThreadProofs!Event
  <2>2. ThreadProofs!TypeOK /\ ThreadProofs!TypeOK'
    BY DEF TypeOK, Thread!TypeOK, ThreadProofs!TypeOK, Thread!WaitUsec, ThreadProofs!WaitUsec,
           Thread!WaitNsec, ThreadProofs!WaitNsec, Thread!Event, ThreadProofs!Event,
           Thread!Timeouts, ThreadProofs!Timeouts
  <2>3. [ThreadProofs!Flags!Next]_(ThreadProofs!Flags!vars)
    BY <2>1, <2>2, ThreadStepIsNext, ThreadProofs!FlagsStep
  <2> QED BY <2>3 DEF Thread!Flags!Next, ThreadProofs!Flags!Next, Thread!Flags!vars,
                      ThreadProofs!Flags!vars, Thread!Flags!Post, ThreadProofs!Flags!Post,
                      Thread!Flags!Ask, ThreadProofs!Flags!Ask, Thread!Flags!Collect,
                      ThreadProofs!Flags!Collect, Thread!Flags!Discard,
                      ThreadProofs!Flags!Discard, Thread!Event, ThreadProofs!Event
<1>3. TypeOK /\ BlocksInWait /\ ReadClockAndMask => Thread!Flags!Ask
  BY DEF TypeOK, Thread!TypeOK, BlocksInWait, ReadClockAndMask, Thread!Flags!Ask, events, call
<1>4. TypeOK /\ TypeOK' /\ BlocksInWait /\ [Next]_vars => [Thread!Flags!Next]_(Thread!Flags!vars)
  BY <1>2, <1>3, WorkerStepsThread DEF Thread!Flags!Next
<1> QED BY <1>1, <1>4, WorkerTypeCorrect, BlocksInWaitHolds, PTL DEF Spec, Thread!Flags!Spec

-----------------------------------------------------------------------------
(* Events on their way to an object.                                       *)

\* What a walk from c still meets.
From(c) ==
  {o \in Objects : \A S \in SUBSET Objects :
     /\ c # NULL => c \in S
     /\ \A x \in S : next[x] # NULL => next[x] \in S
     => o \in S}

\* e alone triggers o.
Wakes(e, o) == Mask[o] = {e} \/ (o \in TriggerAny /\ e \in Mask[o])

\* e is latched, or the last wait reported it and the walk has not come to o yet.
OnItsWay(e, o) ==
  \/ e \in signalled_events
  \/ /\ e \in evt_mask
     /\ \/ pc = "lock"
        \/ pc = "walk" /\ o \in From(curr)
        \/ pc = "callback" /\ o # curr /\ o \in From(curr)

(* An event that is on its way to a registered object stays so until that  *)
(* object's callback is called, or the object is unregistered -- or a      *)
(* callback lets the walk stray, or ~Worker() cancels the thread.          *)
EventStaysOnItsWay ==
  [][\A o \in EventObjects, e \in Thread!Event :
       o \in attached /\ Wakes(e, o) /\ OnItsWay(e, o)
       => \/ OnItsWay(e, o)' \/ (pc' = "callback" /\ curr' = o) \/ o \notin attached'
          \/ strayed' \/ pc' = "gone"]_vars

(* Whatever is registered, unregistered and constructed meanwhile, from    *)
(* other threads or from the callbacks themselves, a walk meets every      *)
(* object that was before it and stays registered -- with the same         *)
(* exceptions.                                                             *)
WalkMeetsTheRest ==
  [][\A o \in attached \ {curr} :
       pc \in {"walk", "callback"} /\ o \in From(curr)
       => o \in From(curr)' \/ o \notin attached' \/ strayed' \/ pc' = "gone"]_vars

LEMMA WalkFromHead == ListOK => From(head) = attached
<1>1. From(head) = Chain
  BY DEF From, Chain, Closed
<1> QED BY <1>1, ChainIsAttached

LEMMA WalkFromNext ==
  ASSUME NEW c \in Objects, NEW o \in From(c), o # c
  PROVE  o \in From(next[c])
<1> SUFFICES ASSUME NEW S \in SUBSET Objects,
                    next[c] # NULL => next[c] \in S,
                    \A x \in S : next[x] # NULL => next[x] \in S
             PROVE  o \in S
  BY DEF From
<1>1. \A x \in S \cup {c} : next[x] # NULL => next[x] \in S \cup {c}
  OBVIOUS
<1>2. S \cup {c} \in SUBSET Objects
  OBVIOUS
<1>3. o \in S \cup {c}
  BY <1>1, <1>2 DEF From
<1> QED BY <1>3

LEMMA WalkEnds == From(NULL) = {}
<1> SUFFICES ASSUME NEW o \in From(NULL) PROVE FALSE
  OBVIOUS
<1>1. {} \in SUBSET Objects
  OBVIOUS
<1> QED BY <1>1 DEF From

\* The primed set in full, since From is not a constant operator.
LEMMA FromNext ==
  \A o : o \in From(curr)' <=>
    /\ o \in Objects
    /\ \A S \in SUBSET Objects :
         (curr' # NULL => curr' \in S) /\ (\A x \in S : next'[x] # NULL => next'[x] \in S) => o \in S
  BY DEF From

\* Appending an object behind the last one takes nothing from a walk ...
LEMMA AppendKeepsWalk ==
  ASSUME ListOK, NEW n \in Objects, Append(n), UNCHANGED curr, NEW o \in From(curr)
  PROVE  o \in From(curr)'
<1> SUFFICES ASSUME NEW S \in SUBSET Objects, curr # NULL => curr \in S,
                    \A x \in S : next'[x] # NULL => next'[x] \in S
             PROVE  o \in S
  BY FromNext DEF From
<1>1. \A x \in Objects : next[x] # NULL => next'[x] = next[x]
  BY DEF Append, Tails, ListOK, ListTypes
<1>2. \A x \in S : next[x] # NULL => next[x] \in S
  BY <1>1
<1> QED BY <1>2 DEF From

\* ... and unlinking one takes no other.
LEMMA UnlinkKeepsWalk ==
  ASSUME ListOK, NEW n \in attached, Unlink(n), UNCHANGED curr,
         NEW o \in From(curr), o # n
  PROVE  o \in From(curr)'
<1> USE WorkerConstantsOK DEF ListOK, ListTypes
<1> SUFFICES ASSUME NEW S \in SUBSET Objects, curr # NULL => curr \in S,
                    \A x \in S : next'[x] # NULL => next'[x] \in S
             PROVE  o \in S
  BY FromNext DEF From
<1>1. CASE UNCHANGED next
  BY <1>1 DEF From
<1>2. CASE next[head] = n /\ next' = [next EXCEPT ![head] = next[n]]
  <2>1. CASE head \in S
    <3>1. \A x \in S \cup {n} : next[x] # NULL => next[x] \in S \cup {n}
      BY <1>2, <2>1
    <3>2. S \cup {n} \in SUBSET Objects
      OBVIOUS
    <3>3. o \in S \cup {n}
      BY <3>1, <3>2 DEF From
    <3> QED BY <3>3
  <2>2. CASE head \notin S
    <3>1. \A x \in S : next[x] # NULL => next[x] \in S
      BY <1>2, <2>2
    <3> QED BY <3>1 DEF From
  <2> QED BY <2>1, <2>2
<1> QED BY <1>1, <1>2 DEF Unlink

\* Nor does constructing an object, except the one whose callback runs.
LEMMA ConstructKeepsWalk ==
  ASSUME Inv, NEW n \in Objects, Construct(n), pc \in {"walk", "callback"},
         NEW o \in From(curr), o # curr, ~strayed'
  PROVE  o \in From(curr)'
<1> USE WorkerConstantsOK DEF Inv, ListOK, ListTypes
<1>1. /\ UNCHANGED <<curr, pc, attached>> /\ n \notin attached
      /\ ~strayed /\ ~(Orphaned /\ n = curr /\ next[curr] # NULL)
      /\ next'[n] = NULL /\ \A x \in Objects \ {n} : next'[x] = next[x]
  BY DEF Construct, loop
<1>2. curr \in Objects
  BY WalkEnds DEF Locks
<1>3. curr \in attached \/ (Orphaned /\ next[curr] \in attached \cup {NULL})
  BY <1>1, <1>2 DEF Locks, NoUseAfterUnregister, Orphaned
<1> SUFFICES ASSUME NEW S \in SUBSET Objects, curr \in S,
                    \A x \in S : next'[x] # NULL => next'[x] \in S
             PROVE  o \in S
  BY <1>1, <1>2, FromNext DEF From
<1> DEFINE R == (S \cap attached) \cup {curr}
<1>4. \A x \in S \cap attached : next[x] # NULL => next[x] \in S \cap attached
  BY <1>1 DEF Linked, Closed
<1>5. next[curr] # NULL => next[curr] \in S \cap attached
  <2>1. CASE curr \in attached
    BY <1>4, <2>1
  <2>2. CASE Orphaned /\ next[curr] \in attached \cup {NULL}
    <3>1. next[curr] # NULL => n # curr
      BY <1>1, <2>2
    <3> QED BY <1>1, <1>2, <2>2, <3>1
  <2> QED BY <1>3, <2>1, <2>2
<1>6. R \in SUBSET Objects /\ curr \in R
  OBVIOUS
<1>7. \A x \in R : next[x] # NULL => next[x] \in R
  BY <1>4, <1>5
<1> HIDE DEF R
<1>8. o \in R
  BY <1>6, <1>7 DEF From
<1> QED BY <1>8 DEF R

\* What others, and callbacks, do to the objects.
LEMMA ObjectsKeepWalk ==
  ASSUME ~Careless, Inv, NEW n \in Objects, Register(n) \/ Unregister(n) \/ Construct(n),
         pc \in {"walk", "callback"}, NEW o \in From(curr), o # curr
  PROVE  o \in From(curr)' \/ o \notin attached' \/ strayed'
<1>1. CASE Register(n)
  <2>1. Append(n) /\ UNCHANGED curr
    BY <1>1, ListEnds DEF Register, Inv, ListHasEnd, loop
  <2> QED BY <2>1, AppendKeepsWalk DEF Inv
<1>2. CASE Unregister(n)
  <2>1. n \in attached /\ UnregisterBody(n) /\ UNCHANGED curr
    BY <1>2 DEF Unregister, loop
  <2>2. CASE Unlink(n)
    <3>1. n \notin attached'
      BY <2>2 DEF Unlink
    <3> QED BY <2>1, <2>2, <3>1, UnlinkKeepsWalk DEF Inv
  <2>3. CASE UNCHANGED list
    BY <2>1, <2>3, FromNext DEF list, From
  <2> QED BY <2>1, <2>2, <2>3 DEF UnregisterBody
<1>3. CASE Construct(n)
  BY <1>3, ConstructKeepsWalk
<1> QED BY <1>1, <1>2, <1>3

LEMMA SameWalk ==
  ASSUME UNCHANGED <<next, curr>>, NEW o \in From(curr)
  PROVE  o \in From(curr)'
  BY FromNext DEF From

\* A step of the walk goes on to the next object.
LEMMA StepKeepsWalk ==
  ASSUME Inv, CallbackReturn \/ WalkSkip, NEW o \in From(curr), o # curr
  PROVE  o \in From(curr)'
<1>1. next' = next /\ curr' = next[curr] /\ curr \in Objects
  BY WalkEnds DEF CallbackReturn, WalkSkip, list, Inv, Locks
<1>2. o \in From(next[curr])
  BY <1>1, WalkFromNext
<1> QED BY <1>1, <1>2, FromNext DEF From

(* The walk misses nobody (Worker.cpp:74-81): callbacks may change the     *)
(* list under it, since the semaphore is recursive, but it still comes to  *)
(* every object that stays registered, for any number of objects -- unless *)
(* a callback that unregistered its own object lets it stray.              *)
THEOREM WalkMissesNobody == ~Careless => (Spec => WalkMeetsTheRest)
<1> SUFFICES ASSUME ~Careless PROVE Spec => WalkMeetsTheRest
  OBVIOUS
<1>1. Inv /\ [Next]_vars
      => [\A o \in attached \ {curr} :
            pc \in {"walk", "callback"} /\ o \in From(curr)
            => o \in From(curr)' \/ o \notin attached' \/ strayed' \/ pc' = "gone"]_vars
  <2> SUFFICES ASSUME Inv, Next, NEW o \in attached \ {curr},
                      pc \in {"walk", "callback"}, o \in From(curr)
               PROVE  o \in From(curr)' \/ o \notin attached' \/ strayed' \/ pc' = "gone"
    OBVIOUS
  <2>1. CASE \E n \in Objects : Register(n) \/ Unregister(n) \/ Construct(n)
    BY <2>1, ObjectsKeepWalk
  <2>2. CASE (\E S : Signal(S)) \/ (\E id : RegisterEvt(id)) \/ Tick
    BY <2>2, SameWalk DEF Signal, RegisterEvt, Tick, list, loop
  <2>3. CASE Owner
    <3>1. ~StartCreate /\ ~DestroyUnregister
      BY DEF StartCreate, DestroyUnregister, Inv, Locks, Sync
    <3> QED BY <2>3, <3>1, SameWalk
            DEF Owner, StartAssign, DestroyBegin, DestroyReadNext, DestroyCancel, DestroyJoin,
                list, loop
  <2>4. CASE CallbackReturn \/ WalkSkip
    BY <2>4, StepKeepsWalk
  <2>5. CASE WalkDone
    BY <2>5, WalkEnds DEF WalkDone
  <2>6. CASE WalkCall
    BY <2>6, SameWalk DEF WalkCall, list
  <2>7. CASE RunLock \/ Plan \/ ReadClockAndMask \/ EnterWait \/ WaitStep \/ Cancelled
    BY <2>7 DEF RunLock, Plan, ReadClockAndMask, EnterWait, WaitStep, Cancelled
  <2> QED BY <2>1, <2>2, <2>3, <2>4, <2>5, <2>6, <2>7
          DEF Next, Client, Run, WakeUp, SpuriousWakeUp, TimeOut
<1> QED BY <1>1, Invariance, PTL DEF Spec, WalkMeetsTheRest

\* Steps of others: the walk, and what was reported to it, stay as they are.
LEMMA StaysOnItsWay ==
  ASSUME NEW o \in EventObjects, NEW e \in Thread!Event, OnItsWay(e, o),
         UNCHANGED <<pc, curr, evt_mask>>, signalled_events \subseteq signalled_events',
         pc \in {"walk", "callback"} /\ o \in From(curr) /\ (pc = "callback" => o # curr)
         => o \in From(curr)'
  PROVE  OnItsWay(e, o)'
  BY DEF OnItsWay, From

\* Steps of the walk itself.
LEMMA WalkBringsEvent ==
  ASSUME Inv, NEW o \in EventObjects, NEW e \in Thread!Event,
         o \in attached, Wakes(e, o), OnItsWay(e, o),
         RunLock \/ WalkCall \/ CallbackReturn \/ WalkSkip \/ WalkDone
  PROVE  OnItsWay(e, o)' \/ (pc' = "callback" /\ curr' = o)
<1>1. UNCHANGED <<next, evt_mask, signalled_events>>
  BY DEF RunLock, WalkCall, CallbackReturn, WalkSkip, WalkDone, list, wait, events
<1>2. SUFFICES ASSUME e \notin signalled_events PROVE OnItsWay(e, o)' \/ (pc' = "callback" /\ curr' = o)
  BY <1>1 DEF OnItsWay
<1>3. e \in evt_mask
  BY <1>2 DEF OnItsWay
<1>5. CASE RunLock
  <2>1. curr' = head /\ pc' = "walk"
    BY <1>5 DEF RunLock
  <2>2. o \in From(head)
    BY WalkFromHead DEF Inv
  <2> QED BY <1>1, <1>3, <2>1, <2>2 DEF OnItsWay, From
<1>6. CASE WalkCall
  <2>1. pc = "walk" /\ pc' = "callback" /\ curr' = curr
    BY <1>6 DEF WalkCall
  <2>2. o \in From(curr)
    BY <1>2, <2>1 DEF OnItsWay
  <2> QED BY <1>1, <1>3, <2>1, <2>2 DEF OnItsWay, From
<1>7. CASE CallbackReturn \/ WalkSkip
  <2>1. pc \in {"walk", "callback"} /\ pc' = "walk"
    BY <1>7 DEF CallbackReturn, WalkSkip
  <2>2. o \in From(curr)
    BY <1>2, <2>1 DEF OnItsWay
  <2>3. o # curr
    <3>1. CASE CallbackReturn
      BY <1>2, <3>1 DEF CallbackReturn, OnItsWay
    <3>2. CASE WalkSkip
      <4>1. Triggered(o)
        BY <1>3 DEF Wakes, Triggered, EventObjects
      <4> QED BY <3>2, <4>1 DEF WalkSkip
    <3> QED BY <1>7, <3>1, <3>2
  <2>4. o \in From(curr)'
    BY <1>7, <2>2, <2>3, StepKeepsWalk
  <2> QED BY <1>1, <1>3, <2>1, <2>4 DEF OnItsWay, From
<1>8. CASE WalkDone
  BY <1>2, <1>8, WalkEnds DEF WalkDone, OnItsWay
<1> QED BY <1>5, <1>6, <1>7, <1>8

\* A wait leaves an event latched, or it ends and reports it.
LEMMA WaitReportsEvent ==
  ASSUME Thread!TypeOK, NEW e \in signalled_events,
         EnterWait \/ WakeUp \/ SpuriousWakeUp \/ TimeOut
  PROVE  e \in signalled_events' \/ (e \in evt_mask' /\ pc' = "lock")
<1>1. op \in {"none", "any"}
  BY WorkerConstantsOK DEF Thread!TypeOK
<1>2. CASE EnterWait
  BY <1>2 DEF EnterWait, Thread!WaitAny, Thread!TakeAtOnce, Thread!Block, Thread!evts
<1>3. ASSUME NEW r, Thread!Return(r), WaitStep, op # "none" PROVE e \in evt_mask' /\ pc' = "lock"
  BY <1>1, <1>3 DEF Thread!Return, WaitStep
<1>4. CASE TimeOut
  BY <1>3, <1>4 DEF TimeOut, Thread!TimeOut
<1>5. CASE WakeUp \/ SpuriousWakeUp
  BY <1>3, <1>5 DEF WakeUp, SpuriousWakeUp, Thread!WakeUp, Thread!SpuriousWakeUp,
                    Thread!Woken, Thread!evts
<1> QED BY <1>2, <1>4, <1>5

(* No event gets lost between signal() and the callback: an event that is  *)
(* signalled stays latched or is reported to a walk that has not come to   *)
(* the object yet (Worker.cpp:68-91, Worker.h:149, Threads.cpp:154-188),   *)
(* whatever is registered, unregistered and signalled meanwhile, by        *)
(* callbacks too -- except by one that lets the walk stray.                *)
THEOREM NoEventIsLost == ~Careless => (Spec => EventStaysOnItsWay)
<1> SUFFICES ASSUME ~Careless PROVE Spec => EventStaysOnItsWay
  OBVIOUS
<1> DEFINE Kept == \A o \in EventObjects, e \in Thread!Event :
              o \in attached /\ Wakes(e, o) /\ OnItsWay(e, o)
              => \/ OnItsWay(e, o)' \/ (pc' = "callback" /\ curr' = o) \/ o \notin attached'
                 \/ strayed' \/ pc' = "gone"
<1>1. Inv /\ TypeOK /\ [Next]_vars => [Kept]_vars
  <2> SUFFICES ASSUME Inv, TypeOK, Next,
                      NEW o \in EventObjects, NEW e \in Thread!Event,
                      o \in attached, Wakes(e, o), OnItsWay(e, o)
               PROVE  \/ OnItsWay(e, o)' \/ (pc' = "callback" /\ curr' = o) \/ o \notin attached'
                      \/ strayed' \/ pc' = "gone"
    OBVIOUS
  <2>1. CASE RunLock \/ WalkCall \/ CallbackReturn \/ WalkSkip \/ WalkDone
    BY <2>1, WalkBringsEvent
  <2>2. CASE EnterWait \/ WakeUp \/ SpuriousWakeUp \/ TimeOut
    <3>1. e \in signalled_events
      BY <2>2 DEF OnItsWay, EnterWait, WakeUp, SpuriousWakeUp, TimeOut, WaitStep
    <3> QED BY <2>2, <3>1, WaitReportsEvent DEF OnItsWay, TypeOK
  <2>3. CASE Plan \/ ReadClockAndMask \/ StartCreate
    <3>1. pc \notin {"lock", "walk", "callback"} /\ UNCHANGED signalled_events
      BY <2>3 DEF Plan, ReadClockAndMask, StartCreate, wait, events
    <3> QED BY <3>1 DEF OnItsWay
  <2>4. CASE Cancelled
    BY <2>4 DEF Cancelled
  <2>5. CASE StartAssign \/ DestroyBegin \/ DestroyReadNext \/ DestroyCancel \/ DestroyJoin
    <3>1. UNCHANGED <<next, pc, curr, evt_mask, signalled_events>>
      BY <2>5 DEF StartAssign, DestroyBegin, DestroyReadNext, DestroyCancel, DestroyJoin, list,
                  loop, wait, events
    <3> QED BY <3>1, SameWalk, StaysOnItsWay
  <2>6. CASE DestroyUnregister
    <3>1. sem = "free" /\ UNCHANGED <<pc, curr, evt_mask, signalled_events>>
      BY <2>6 DEF DestroyUnregister, loop, wait, events
    <3>2. pc \notin {"walk", "callback"}
      BY <3>1 DEF Inv, Locks, Sync
    <3> QED BY <3>1, <3>2, StaysOnItsWay
  <2>7. ASSUME NEW n \in Objects, Register(n) \/ Unregister(n) \/ Construct(n)
        PROVE  OnItsWay(e, o)' \/ o \notin attached' \/ strayed'
    <3>1. UNCHANGED <<pc, curr, evt_mask, signalled_events>>
      BY <2>7 DEF Register, Unregister, Construct, loop, wait, events
    <3>2. CASE pc \in {"walk", "callback"} /\ o \in From(curr) /\ o # curr
      <4>1. o \in From(curr)' \/ o \notin attached' \/ strayed'
        BY <2>7, <3>2, ObjectsKeepWalk
      <4> QED BY <3>1, <4>1, StaysOnItsWay
    <3>3. CASE ~(pc \in {"walk", "callback"} /\ o \in From(curr))
      BY <3>1, <3>3, StaysOnItsWay
    <3>4. CASE o = curr /\ o \in From(curr)
      <4>1. o \in From(curr)'
        BY <3>1, <3>4, FromNext, WorkerConstantsOK DEF EventObjects
      <4> QED BY <3>1, <4>1, StaysOnItsWay
    <3> QED BY <3>2, <3>3, <3>4
  <2>8. CASE Tick \/ (\E S : Signal(S)) \/ (\E id : RegisterEvt(id))
    <3>1. UNCHANGED <<next, pc, curr, evt_mask>> /\ signalled_events \subseteq signalled_events'
      BY <2>8 DEF Tick, Signal, RegisterEvt, Thread!Tick, Thread!Signal, Thread!RegisterEvt,
                  Thread!evts, Thread!vars, list, loop
    <3> QED BY <3>1, SameWalk, StaysOnItsWay
  <2> QED BY <2>1, <2>2, <2>3, <2>4, <2>5, <2>6, <2>7, <2>8 DEF Next, Client, Owner, Run
<1> QED BY <1>1, Invariance, WorkerTypeCorrect, PTL DEF Spec, EventStaysOnItsWay
=============================================================================
