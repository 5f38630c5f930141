------------------------------ MODULE MCWorker ------------------------------
(* Values for the constants of Worker that a .cfg cannot write. *)
EXTENDS Worker

CONSTANTS p1, p2, e1     \* two periodic objects and one for events

EveryMicrosecond == [o \in Periodic |-> 1]
EveryTwo         == [o \in Periodic |-> 2]
AllEvents        == [o \in EventObjects |-> Thread!Event]
ZeroedMemory     == {{}}
=============================================================================
