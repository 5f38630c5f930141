--------------------------- MODULE MCThreadEvents ---------------------------
(* Values for the constants of ThreadEvents that a .cfg cannot write. *)
EXTENDS ThreadEvents

\* Memory from malloc that was used before, and memory fresh from the system.
RecycledMemory == SUBSET Event
ZeroedMemory   == {{}}
=============================================================================
