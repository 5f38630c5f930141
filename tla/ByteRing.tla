------------------------------- MODULE ByteRing -------------------------------
(***************************************************************************)
(* RawIface::Buffer (DC_DataIface/DataIface_Raw.cpp): frames stored byte   *)
(* by byte in a ring.  Its user holds a semaphore around push and pop, so  *)
(* each is one action.  push stores a header byte, four of the identifier, *)
(* one of the length and the data.  FRAME_SIZE_WITHOUT_DATA is one more    *)
(* than that: push asks for it, and pop advances by it.  A pop that starts *)
(* at a wrong byte may so read a length that the frame has no room for; it *)
(* returns that many bytes here, where the code writes beyond the frame's  *)
(* array.                                                                  *)
(***************************************************************************)
EXTENDS Naturals, Sequences

CONSTANTS
  size,         \* bytes of the ring
  Frame,        \* what may be sent: an identifier of four bytes, and data
  MaxByte,      \* the largest byte (255)
  MaxPops       \* bound: frames that a run receives

HEADER1 == 52                     \* 0x34
FRAME_SIZE_WITHOUT_DATA == 7
Byte == 0 .. MaxByte

ASSUME RingConstantsOK ==
  /\ size \in Nat \ {0}
  /\ MaxPops \in Nat
  /\ MaxByte \in Nat /\ HEADER1 \in Byte
  /\ Frame \subseteq [id : Seq(Byte), data : Seq(Byte)]
  /\ \A f \in Frame : Len(f.id) = 4 /\ Len(f.data) \in Byte

VARIABLES
  buffer, head, tail,
  queue,        \* the frames that push accepted and no pop was for
  placed,       \* where push wrote each of them
  received      \* the frames that pop returned

vars == <<buffer, head, tail, queue, placed, received>>

-----------------------------------------------------------------------------
available == IF head >= tail THEN head - tail ELSE size - tail + head

txspace == size - available

(* Mutant of Room: it forgets the bytes around the data. *)
RoomForData(f) == txspace >= Len(f.data)

Room(f) == txspace >= Len(f.data) + FRAME_SIZE_WITHOUT_DATA

(* Mutant of Stored: the length goes before the identifier. *)
StoredLengthFirst(f) == <<HEADER1, Len(f.data)>> \o f.id \o f.data

Stored(f) == <<HEADER1>> \o f.id \o <<Len(f.data)>> \o f.data

peekbyte(n) == buffer[(tail + n) % size]

\* reset(), and the memset of the interface's init.
Init ==
  /\ buffer = [i \in 0 .. size - 1 |-> 0]
  /\ head = 0
  /\ tail = 0
  /\ queue = <<>> /\ placed = <<>>
  /\ received = <<>>

\* pushbyte() of each of the bytes.
Write(bytes) ==
  /\ buffer' = [i \in 0 .. size - 1 |->
                  LET n == ((i + size - head) % size) + 1
                  IN IF n <= Len(bytes) THEN bytes[n] ELSE buffer[i]]
  /\ head' = (head + Len(bytes)) % size

Push(f) ==
  /\ Room(f)
  /\ Write(Stored(f))
  /\ queue' = Append(queue, f) /\ placed' = Append(placed, head)
  /\ UNCHANGED <<tail, received>>

Peeked ==
  [id   |-> [n \in 1 .. 4 |-> peekbyte(n)],
   data |-> [n \in 1 .. peekbyte(5) |-> peekbyte(5 + n)]]

(* Mutant of advance: it does not wrap. *)
advanceUnwrapped(bytes) == tail' = tail + bytes

advance(bytes) == tail' = (bytes + tail) % size

Pop ==
  /\ Len(received) < MaxPops
  /\ available # 0
  /\ peekbyte(0) = HEADER1
  /\ received' = Append(received, Peeked)
  /\ advance(peekbyte(5) + FRAME_SIZE_WITHOUT_DATA)
  /\ IF queue = <<>> THEN UNCHANGED <<queue, placed>>
     ELSE queue' = Tail(queue) /\ placed' = Tail(placed)
  /\ UNCHANGED <<buffer, head>>

Next == Pop \/ \E f \in Frame : Push(f)

Spec == Init /\ [][Next]_vars

-----------------------------------------------------------------------------
(* Properties. *)

(* Every variable has its type; in particular no index leaves the ring,    *)
(* whatever length a misplaced pop reads.                                  *)
TypeOK ==
  /\ buffer \in [0 .. size - 1 -> Byte]
  /\ head \in 0 .. size - 1 /\ tail \in 0 .. size - 1
  /\ queue \in Seq(Frame) /\ placed \in Seq(0 .. size - 1)
  /\ Len(received) <= MaxPops

(* What push accepted is in the ring, byte for byte, where it was written: *)
(* no later push writes over it (DataIface_Raw.cpp:51-70), wherever the    *)
(* ring wraps.  The reader is at the first of these frames, or one byte    *)
(* into it once a pop has advanced by that much too far.  A second pop     *)
(* starts at the wrong byte, and makes room that is not there.             *)
UnreadIntact ==
  Len(received) < 2 =>
    /\ \A i \in 1 .. Len(queue) : \A n \in 1 .. Len(Stored(queue[i])) :
         buffer[(placed[i] + n - 1) % size] = Stored(queue[i])[n]
    /\ queue # <<>> => tail = (placed[1] + Len(received)) % size

(* The first frame that is popped is the first that was pushed.            *)
FirstIsFirst ==
  [][received = <<>> /\ received' # <<>> => received'[1] = Head(queue)]_vars

(* "buffer is full" (DataIface_Raw.cpp:54), the reason for which push      *)
(* returns false, is not given while there is nothing to read.             *)
EmptyHasRoom == queue = <<>> => \A f \in Frame : Room(f)
=============================================================================
