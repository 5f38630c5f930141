----------------------------- MODULE EventFlags -----------------------------
(***************************************************************************)
(* What an event-driven thread relies on: a set of latched event flags.    *)
(* Anybody may post events; the owner collects them.  Posting is           *)
(* idempotent (flags, not counters), and an event leaves the set of        *)
(* pending ones only by being named in the mask the owner gets back, or by *)
(* the end of a wait for all of several events.  Neither the time nor the  *)
(* wake-ups of DC_PAL_Posix/Threads.cpp appear here.                       *)
(***************************************************************************)
CONSTANT Event   \* the events there are

VARIABLES
  pending,       \* events posted and not yet collected
  reported,      \* the mask the owner holds: what it asks for, then what it got
  all            \* the owner is blocked until all of that mask is pending

vars == <<pending, reported, all>>

TypeOK == pending \subseteq Event /\ reported \subseteq Event /\ all \in BOOLEAN

Init == TypeOK /\ ~all

Post == /\ \E S \in SUBSET Event : pending' = pending \cup S
        /\ UNCHANGED <<reported, all>>

\* The owner names the events it is about to ask for.
Ask == /\ ~all
       /\ reported' \in SUBSET Event
       /\ all' \in BOOLEAN
       /\ UNCHANGED pending

\* The owner takes some pending events, all of which its mask then names.
Collect == /\ ~all
           /\ reported' \in SUBSET Event
           /\ \E S \in SUBSET pending :
                /\ S # {}
                /\ S \subseteq reported'
                /\ pending' = pending \ S
           /\ UNCHANGED all

\* The owner blocked for all of its mask: whatever was pending is gone then.
Discard == /\ all
           /\ pending' = {}
           /\ all' = FALSE
           /\ UNCHANGED reported

Next == Post \/ Ask \/ Collect \/ Discard

Spec == Init /\ [][Next]_vars
=============================================================================
