----------------------------- MODULE MCSemaphore -----------------------------
(* Timeouts for the instances of Semaphore: one already over, one short. *)
EXTENDS Semaphore

SomeTimeouts == {-2, 1}
=============================================================================
