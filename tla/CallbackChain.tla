---------------------------- MODULE CallbackChain ----------------------------
(***************************************************************************)
(* The chains of callbacks of DC_PAL/Callbacks.h: an interface is the root *)
(* of a chain (rx_cbs of DC_DataIface/DataIface_Backend.h, or any Callback *)
(* object), and calls all that are registered, which may register and      *)
(* unregister callbacks, themselves included, while they are called.       *)
(* CAN (DC_PAL/CAN.h) has no root: it points at the first callback, and    *)
(* that one is the root of the others.                                     *)
(*                                                                         *)
(* No operation takes a semaphore: one thread does everything.             *)
(***************************************************************************)
EXTENDS Integers, FiniteSets, SequencesExt

CONSTANTS
  Root,          \* the object whose register_cb and call_all are used
  OfRoot,        \* the callbacks registered with the root
  OfCAN,         \* the callbacks registered with a CAN interface
  NULL           \* nullptr

Callbacks == OfRoot \cup OfCAN
Nodes     == Callbacks \cup {Root}

ASSUME ChainConstantsOK ==
  /\ IsFiniteSet(Callbacks)
  /\ OfRoot \cap OfCAN = {}
  /\ Root \notin Callbacks
  /\ NULL \notin Nodes

VARIABLES
  next,          \* Callback::next
  rx_cbs,        \* CAN::rx_cbs
  cur,           \* the callback that call_all is calling, or NULL
  registered,    \* those registered with the root, first to last
  on_can,        \* those registered with the CAN interface, first to last
  due,           \* still to be called by this call_all, unless unregistered
  strayed        \* what is called next is no longer what follows in the chain

vars == <<next, rx_cbs, cur, registered, on_can, due, strayed>>

-----------------------------------------------------------------------------
(* Following the links. *)

\* No callback is twice in s.
Without(s, c) ==
  IF c \in ToSet(s) THEN RemoveAt(s, CHOOSE i \in 1 .. Len(s) : s[i] = c) ELSE s
With(s, c) == IF c \in ToSet(s) THEN s ELSE Append(s, c)

Closed(S) == \A o \in S : next[o] # NULL => next[o] \in S

\* The objects that the links lead to from o, with o.
From(o) == {p \in Nodes : \A S \in SUBSET Nodes : o \in S /\ Closed(S) => p \in S}

(* Mutant of Link: a callback keeps the link of its last registration. *)
LinkKept(root, c) ==
  IF \E p \in From(root) : next[p] = c THEN UNCHANGED next
  ELSE \E p \in From(root) : next[p] = NULL /\ next' = [next EXCEPT ![p] = c]

\* root.register_cb(c): at the end of the chain, unless it is met on the way.
Link(root, c) ==
  IF \E p \in From(root) : next[p] = c THEN UNCHANGED next
  ELSE \E p \in From(root) :
         /\ next[p] = NULL
         /\ next' = [next EXCEPT ![p] = c, ![c] = NULL]

(* Mutant of Unlink: the link of what is unregistered is reset. *)
UnlinkReset(root, c) ==
  IF \E p \in From(root) : next[p] = c
  THEN \E p \in From(root) :
         /\ next[p] = c
         /\ next' = [next EXCEPT ![p] = next[c], ![c] = NULL]
  ELSE UNCHANGED next

\* root.unregister_cb(c): c keeps its own link.
Unlink(root, c) ==
  IF \E p \in From(root) : next[p] = c
  THEN \E p \in From(root) : next[p] = c /\ next' = [next EXCEPT ![p] = next[c]]
  ELSE UNCHANGED next

-----------------------------------------------------------------------------
Init ==
  /\ next = [o \in Nodes |-> NULL]
  /\ rx_cbs = NULL
  /\ cur = NULL
  /\ registered = <<>> /\ on_can = <<>>
  /\ due = <<>> /\ strayed = FALSE

-----------------------------------------------------------------------------
(* The root: anybody registers and unregisters while nothing is called, and *)
(* what is being called does so during its call.                            *)

\* The callback that is being called has left the chain.
Outside == cur # NULL /\ cur \notin ToSet(registered)

Register(c) ==
  /\ Link(Root, c)
  /\ registered' = With(registered, c)
  /\ strayed' = (strayed \/ (Outside /\ c = cur /\ next[cur] # NULL))
  /\ UNCHANGED <<rx_cbs, cur, on_can, due>>

Unregister(c) ==
  /\ Unlink(Root, c)
  /\ registered' = Without(registered, c)
  /\ due' = Without(due, c)
  /\ strayed' = (strayed \/ (Outside /\ c = next[cur]))
  /\ UNCHANGED <<rx_cbs, cur, on_can>>

(* Mutant of CallAll: it begins with the root itself. *)
CallAllFromRoot ==
  /\ cur = NULL
  /\ next[Root] # NULL
  /\ cur' = Root
  /\ due' = registered
  /\ strayed' = FALSE
  /\ UNCHANGED <<next, rx_cbs, registered, on_can>>

\* call_all: the first is called.
CallAll ==
  /\ cur = NULL
  /\ next[Root] # NULL
  /\ cur' = next[Root]
  /\ due' = Tail(registered)
  /\ strayed' = FALSE
  /\ UNCHANGED <<next, rx_cbs, registered, on_can>>

\* It returns: its link is read now, and what it leads to is called.
CallNext ==
  /\ cur # NULL
  /\ cur' = next[cur]
  /\ due' = IF cur' = NULL THEN <<>> ELSE Without(due, cur')
  /\ strayed' = (strayed /\ cur' # NULL)
  /\ UNCHANGED <<next, rx_cbs, registered, on_can>>

-----------------------------------------------------------------------------
(* CAN. *)

\* Whoever uses a CAN interface does not register its first callback again:
\* that would put it behind the last and cut the chain behind it.
CanRegister(c) ==
  /\ c # rx_cbs
  /\ rx_cbs' = IF rx_cbs = NULL THEN c ELSE rx_cbs
  /\ Link(rx_cbs', c)
  /\ on_can' = With(on_can, c)
  /\ UNCHANGED <<cur, registered, due, strayed>>

CanUnregister(c) ==
  /\ on_can' = Without(on_can, c)
  /\ \/ rx_cbs = NULL /\ UNCHANGED <<next, rx_cbs>>
     \/ rx_cbs = c /\ rx_cbs' = next[c] /\ UNCHANGED next
     \/ rx_cbs \notin {NULL, c} /\ Unlink(rx_cbs, c) /\ UNCHANGED rx_cbs
  /\ UNCHANGED <<cur, registered, due, strayed>>

-----------------------------------------------------------------------------
Next ==
  \/ \E c \in OfRoot : Register(c) \/ Unregister(c)
  \/ CallAll
  \/ CallNext
  \/ \E c \in OfCAN : CanRegister(c) \/ CanUnregister(c)

Spec == Init /\ [][Next]_vars
-----------------------------------------------------------------------------
(* Properties. *)

(* Every variable has its type. *)
TypeOK ==
  /\ next \in [Nodes -> Callbacks \cup {NULL}]
  /\ rx_cbs \in OfCAN \cup {NULL}
  /\ cur \in OfRoot \cup {NULL}
  /\ registered \in Seq(OfRoot) /\ on_can \in Seq(OfCAN) /\ due \in Seq(OfRoot)
  /\ strayed \in BOOLEAN

\* The links from first on lead through s and end there.
Runs(first, s) ==
  IF s = <<>> THEN first = NULL
  ELSE /\ first = s[1]
       /\ \A i \in 1 .. Len(s) : next[s[i]] = IF i = Len(s) THEN NULL ELSE s[i + 1]

(* However often callbacks come and go, with whatever links they kept, the  *)
(* root's chain holds the registered ones in the order of registration, and *)
(* so does the chain of a CAN interface, whose first callback is searched   *)
(* from its own, possibly stale, link when the interface had none.          *)
ChainsInOrder == Runs(next[Root], registered) /\ Runs(rx_cbs, on_can)

(* No search for the last of a chain runs for ever, not even one that begins *)
(* at the stale link of a callback: from everywhere the links end.           *)
LinksEnd == \A o \in Nodes : \E p \in From(o) : next[p] = NULL

(* Callbacks may come and go during call_all, the one being called included: *)
(* what it calls next is the first that it still owes a call, and never an   *)
(* unregistered one.  The one exception: a callback that unregistered itself *)
(* and, before it returns, registers again or unregisters its successor.     *)
CallsWhatFollows ==
  cur # NULL /\ ~strayed =>
    IF due # <<>> THEN next[cur] = Head(due)
    ELSE next[cur] \in ToSet(registered) \cup {NULL}
=============================================================================
