---------------------------- MODULE ByteRingProofs ----------------------------
(***************************************************************************)
(* What the ring guarantees for every size and all frames: no index leaves *)
(* it, the first frame to come out is the first that went in, and what is   *)
(* unread stays intact until a second pop.                                 *)
(***************************************************************************)
EXTENDS ByteRing, Integers, SequenceTheorems, TLAPS

(* What a pop can return. *)
AnyFrame == [id : [1 .. 4 -> Byte], data : UNION {[1 .. n -> Byte] : n \in Byte}]

TypeInv == TypeOK /\ received \in Seq(AnyFrame) /\ Len(placed) = Len(queue)

-----------------------------------------------------------------------------
LEMMA ModInRange ==
  ASSUME NEW a \in Nat
  PROVE  a % size \in 0 .. size - 1
  BY RingConstantsOK

LEMMA ModSmall ==
  ASSUME NEW a \in Nat, a < size
  PROVE  a % size = a
  BY RingConstantsOK

LEMMA StoredFacts ==
  ASSUME NEW f \in Frame
  PROVE  /\ Stored(f) \in Seq(Byte)
         /\ Len(f.data) \in Nat
         /\ Len(Stored(f)) = Len(f.data) + 6
         /\ Stored(f)[1] = HEADER1
         /\ \A n \in 1 .. 4 : Stored(f)[n + 1] = f.id[n]
         /\ Stored(f)[6] = Len(f.data)
         /\ \A n \in 1 .. Len(f.data) : Stored(f)[n + 6] = f.data[n]
<1>1. /\ f.id \in Seq(Byte) /\ f.data \in Seq(Byte) /\ Len(f.data) \in Byte
      /\ HEADER1 \in Byte
  BY RingConstantsOK
<1> DEFINE a == <<HEADER1>>
           b == a \o f.id
           c == b \o <<Len(f.data)>>
<1>2. a \in Seq(Byte) /\ Len(a) = 1 /\ a[1] = HEADER1
  BY <1>1
<1>3. f.id \in Seq(Byte) /\ Len(f.id) = 4
  BY RingConstantsOK
<1>4. <<Len(f.data)>> \in Seq(Byte) /\ Len(<<Len(f.data)>>) = 1 /\ <<Len(f.data)>>[1] = Len(f.data)
  BY <1>1
<1>5. Len(f.data) \in Nat
  BY <1>1, LenProperties
<1> HIDE DEF a
<1>6. /\ b \in Seq(Byte) /\ Len(b) = 1 + 4
      /\ \A i \in 1 .. 1 + 4 : b[i] = IF i <= 1 THEN a[i] ELSE f.id[i - 1]
  <2>1. /\ b \in Seq(Byte) /\ Len(b) = Len(a) + Len(f.id)
        /\ \A i \in 1 .. Len(a) + Len(f.id) : b[i] = IF i <= Len(a) THEN a[i] ELSE f.id[i - Len(a)]
    BY <1>2, <1>3, ConcatProperties
  <2> HIDE DEF b
  <2> QED BY <1>2, <1>3, <2>1, Zenon
<1> HIDE DEF b
<1>7. /\ c \in Seq(Byte) /\ Len(c) = 5 + 1
      /\ \A i \in 1 .. 5 + 1 : c[i] = IF i <= 5 THEN b[i] ELSE <<Len(f.data)>>[i - 5]
  <2> DEFINE e == <<Len(f.data)>>
  <2>1. e \in Seq(Byte) /\ Len(e) = 1 /\ Len(b) = 5
    BY <1>4, <1>6
  <2> HIDE DEF e
  <2>2. /\ c \in Seq(Byte) /\ Len(c) = Len(b) + Len(e)
        /\ \A i \in 1 .. Len(b) + Len(e) : c[i] = IF i <= Len(b) THEN b[i] ELSE e[i - Len(b)]
    BY <1>6, <2>1, ConcatProperties DEF e
  <2> HIDE DEF c
  <2> QED BY <2>1, <2>2, Zenon DEF e
<1> DEFINE d == c \o f.data
<1>8. Stored(f) = d
  BY DEF Stored, c, b, a
<1> HIDE DEF c
<1>9. /\ d \in Seq(Byte) /\ Len(d) = 6 + Len(f.data)
      /\ \A i \in 1 .. 6 + Len(f.data) : d[i] = IF i <= 6 THEN c[i] ELSE f.data[i - 6]
  <2>1. Len(c) = 6
    BY <1>7
  <2>2. /\ d \in Seq(Byte) /\ Len(d) = Len(c) + Len(f.data)
        /\ \A i \in 1 .. Len(c) + Len(f.data) : d[i] = IF i <= Len(c) THEN c[i] ELSE f.data[i - Len(c)]
    BY <1>1, <1>7, ConcatProperties
  <2> HIDE DEF d
  <2> QED BY <2>1, <2>2, Zenon
<1> HIDE DEF d
<1>10. d[1] = HEADER1
  <2>1. /\ 1 \in 1 .. 6 + Len(f.data) /\ 1 \in 1 .. 5 + 1 /\ 1 \in 1 .. 1 + 4
        /\ 1 <= 6 /\ 1 <= 5 /\ 1 <= 1
    BY <1>5
  <2>2. d[1] = c[1] /\ c[1] = b[1] /\ b[1] = a[1]
    BY <1>6, <1>7, <1>9, <2>1, Zenon
  <2> QED BY <1>2, <2>2
<1>11. ASSUME NEW n \in 1 .. 4 PROVE d[n + 1] = f.id[n]
  <2>1. n + 1 \in 1 .. 5 /\ n + 1 \in 1 .. 6 /\ n + 1 \in 1 .. 6 + Len(f.data) /\ (n + 1) - 1 = n
    BY <1>5
  <2>2. d[n + 1] = c[n + 1] /\ c[n + 1] = b[n + 1] /\ b[n + 1] = f.id[(n + 1) - 1]
    BY <1>6, <1>7, <1>9, <2>1
  <2> QED BY <2>1, <2>2
<1>12. d[6] = Len(f.data)
  <2>1. 6 \in 1 .. 6 + Len(f.data) /\ 6 - 5 = 1
    BY <1>5
  <2>2. d[6] = c[6] /\ c[6] = <<Len(f.data)>>[6 - 5]
    BY <1>7, <1>9, <2>1
  <2> QED BY <1>4, <2>1, <2>2
<1>13. ASSUME NEW n \in 1 .. Len(f.data) PROVE d[n + 6] = f.data[n]
  <2>1. n + 6 \in 1 .. 6 + Len(f.data) /\ ~ (n + 6 <= 6) /\ (n + 6) - 6 = n
    BY <1>5
  <2>2. d[n + 6] = f.data[(n + 6) - 6]
    BY <1>9, <2>1
  <2> QED BY <2>1, <2>2
<1>14. Len(d) = Len(f.data) + 6
  BY <1>5, <1>9
<1> QED BY <1>5, <1>8, <1>9, <1>10, <1>11, <1>12, <1>13, <1>14

-----------------------------------------------------------------------------
(* Types. *)

LEMMA PeekTyped ==
  ASSUME TypeInv, NEW n \in Nat
  PROVE  peekbyte(n) \in Byte
<1>1. tail + n \in Nat
  BY DEF TypeInv, TypeOK
<1>2. (tail + n) % size \in 0 .. size - 1
  BY <1>1, ModInRange
<1> QED BY <1>2 DEF TypeInv, TypeOK, peekbyte

LEMMA PushTyped ==
  ASSUME TypeInv, NEW f \in Frame, Push(f)
  PROVE  TypeInv'
<1>1. Stored(f) \in Seq(Byte) /\ Len(Stored(f)) \in Nat
  BY StoredFacts, LenProperties
<1>2. size \in Nat \ {0} /\ head \in 0 .. size - 1 /\ head \in Nat
  BY RingConstantsOK DEF TypeInv, TypeOK
<1>3. head' \in 0 .. size - 1
  <2>1. head + Len(Stored(f)) \in Nat
    BY <1>1, <1>2
  <2> QED BY <2>1, ModInRange DEF Push, Write
<1>4. buffer' \in [0 .. size - 1 -> Byte]
  <2>1. ASSUME NEW i \in 0 .. size - 1, NEW n, n = ((i + size - head) % size) + 1
        PROVE  (IF n <= Len(Stored(f)) THEN Stored(f)[n] ELSE buffer[i]) \in Byte
    <3>1. i + size - head \in Nat
      BY <1>2
    <3>2. n \in Nat /\ 1 <= n
      BY <1>2, <2>1, <3>1, ModInRange
    <3>3. CASE n <= Len(Stored(f))
      <4>1. n \in 1 .. Len(Stored(f))
        BY <1>1, <3>2, <3>3
      <4> QED BY <1>1, <3>3, <4>1, LenProperties
    <3>4. CASE ~ (n <= Len(Stored(f)))
      BY <3>4 DEF TypeInv, TypeOK
    <3> QED BY <3>3, <3>4
  <2>2. buffer' = [i \in 0 .. size - 1 |->
                     LET n == ((i + size - head) % size) + 1
                     IN IF n <= Len(Stored(f)) THEN Stored(f)[n] ELSE buffer[i]]
    BY DEF Push, Write
  <2> QED BY <2>1, <2>2, Zenon
<1>5. /\ queue' \in Seq(Frame) /\ Len(queue') = Len(queue) + 1
      /\ placed' \in Seq(0 .. size - 1) /\ Len(placed') = Len(placed) + 1
  BY AppendProperties, <1>2 DEF Push, TypeInv, TypeOK
<1> QED BY <1>3, <1>4, <1>5 DEF Push, TypeInv, TypeOK

LEMMA PopTyped ==
  ASSUME TypeInv, Pop
  PROVE  TypeInv'
<1>1. \A n \in Nat : peekbyte(n) \in Byte
  BY PeekTyped
<1>2. \A n \in Byte : n \in Nat
  BY RingConstantsOK DEF Byte
<1>3. Peeked \in AnyFrame
  <2>1. [n \in 1 .. 4 |-> peekbyte(n)] \in [1 .. 4 -> Byte]
    BY <1>1
  <2>2. peekbyte(5) \in Byte
    BY <1>1
  <2>3. \A n \in 1 .. peekbyte(5) : peekbyte(5 + n) \in Byte
    <3>1. \A n \in 1 .. peekbyte(5) : 5 + n \in Nat
      BY <1>2, <2>2
    <3> QED BY <1>1, <3>1
  <2>4. [n \in 1 .. peekbyte(5) |-> peekbyte(5 + n)] \in [1 .. peekbyte(5) -> Byte]
    BY <2>3
  <2> QED BY <2>1, <2>2, <2>4 DEF Peeked, AnyFrame
<1>4. /\ received' \in Seq(AnyFrame) /\ Len(received') = Len(received) + 1
      /\ Len(received) \in Nat /\ Len(received) < MaxPops
  BY <1>3, AppendProperties, LenProperties DEF Pop, TypeInv
<1>5. Len(received') <= MaxPops
  BY <1>4, RingConstantsOK
<1>6. tail' \in 0 .. size - 1
  <2>1. peekbyte(5) \in Nat /\ tail \in Nat
    BY <1>1, <1>2 DEF TypeInv, TypeOK
  <2>2. peekbyte(5) + FRAME_SIZE_WITHOUT_DATA + tail \in Nat
    BY <2>1 DEF FRAME_SIZE_WITHOUT_DATA
  <2> QED BY <2>2, ModInRange DEF Pop, advance
<1>7. queue' \in Seq(Frame) /\ placed' \in Seq(0 .. size - 1) /\ Len(placed') = Len(queue')
  <2>1. /\ queue \in Seq(Frame) /\ placed \in Seq(0 .. size - 1) /\ Len(placed) = Len(queue)
    BY DEF TypeInv, TypeOK
  <2>2. CASE queue = <<>>
    BY <2>1, <2>2 DEF Pop
  <2>3. CASE queue # <<>>
    <3>1. placed # <<>>
      BY <2>1, <2>3, EmptySeq
    <3>2. queue' = Tail(queue) /\ placed' = Tail(placed)
      BY <2>3 DEF Pop
    <3> QED BY <2>1, <2>3, <3>1, <3>2, HeadTailProperties
  <2> QED BY <2>2, <2>3
<1> QED BY <1>4, <1>5, <1>6, <1>7 DEF Pop, TypeInv, TypeOK

LEMMA TypeInvInit == Init => TypeInv
<1> SUFFICES ASSUME Init PROVE TypeInv
  OBVIOUS
<1>1. 0 \in 0 .. size - 1 /\ 0 \in Byte /\ 0 <= MaxPops
  BY RingConstantsOK DEF Byte
<1>2. buffer \in [0 .. size - 1 -> Byte]
  BY <1>1 DEF Init
<1>3. <<>> \in Seq(Frame) /\ <<>> \in Seq(0 .. size - 1) /\ <<>> \in Seq(AnyFrame) /\ Len(<<>>) = 0
  BY EmptySeq
<1> QED BY <1>1, <1>2, <1>3 DEF Init, TypeInv, TypeOK

LEMMA TypeInvStep == TypeInv /\ [Next]_vars => TypeInv'
<1>1. TypeInv /\ UNCHANGED vars => TypeInv'
  BY DEF vars, TypeInv, TypeOK
<1> QED BY <1>1, PushTyped, PopTyped DEF Next

(* No index leaves the ring (DataIface_Raw.cpp:21-99), whatever its size,   *)
(* whatever the frames, and whatever a misplaced pop takes for a length.   *)
THEOREM RingTypeCorrect == Spec => []TypeOK
<1>1. TypeInv => TypeOK
  BY DEF TypeInv
<1> QED BY <1>1, TypeInvInit, TypeInvStep, PTL DEF Spec

-----------------------------------------------------------------------------
(* Until the first pop nothing has wrapped: the frame that was pushed first *)
(* lies at the beginning of the ring, and head is behind it.               *)
FirstFrame ==
  received = <<>> =>
    /\ tail = 0
    /\ queue = <<>> => head = 0
    /\ queue # <<>> =>
         /\ Len(Stored(queue[1])) <= head
         /\ \A n \in 1 .. Len(Stored(queue[1])) : buffer[n - 1] = Stored(queue[1])[n]

FirstInv == TypeInv /\ FirstFrame

(* What a push writes lies between the old head and the new one. *)
LEMMA PushInOrder ==
  ASSUME TypeInv, tail = 0, NEW f \in Frame, Push(f)
  PROVE  /\ head' = head + Len(Stored(f))
         /\ \A i \in 0 .. size - 1 : i < head => buffer'[i] = buffer[i]
         /\ \A n \in 1 .. Len(Stored(f)) : buffer'[head + n - 1] = Stored(f)[n]
<1> DEFINE L == Len(Stored(f))
<1>1. size \in Nat /\ size > 0 /\ head \in 0 .. size - 1 /\ head \in Nat
  BY RingConstantsOK DEF TypeInv, TypeOK
<1>2. L \in Nat /\ L = Len(f.data) + 6 /\ Len(f.data) \in Nat
  BY StoredFacts, LenProperties
<1>3. txspace = size - head
  BY <1>1 DEF txspace, available
<1>4. size - head >= Len(f.data) + 7
  BY <1>3 DEF Push, Room, FRAME_SIZE_WITHOUT_DATA
<1>5. head + L < size /\ head + L \in Nat
  BY <1>1, <1>2, <1>4
<1>6. head' = head + L
  BY <1>5, ModSmall DEF Push, Write
<1>7. buffer' = [i \in 0 .. size - 1 |->
                   LET n == ((i + size - head) % size) + 1
                   IN IF n <= L THEN Stored(f)[n] ELSE buffer[i]]
  BY DEF Push, Write
<1> HIDE DEF L
<1>8. ASSUME NEW i \in 0 .. size - 1, i < head PROVE buffer'[i] = buffer[i]
  <2>1. i + size - head \in Nat /\ i + size - head < size
    BY <1>1, <1>8
  <2>2. (i + size - head) % size = i + size - head
    BY <2>1, ModSmall
  <2>3. ~ ((i + size - head) + 1 <= L)
    BY <1>1, <1>2, <1>4
  <2> QED BY <1>7, <2>2, <2>3
<1>9. ASSUME NEW n \in 1 .. L PROVE buffer'[head + n - 1] = Stored(f)[n]
  <2>1. PICK i \in 0 .. size - 1 : i = head + n - 1
    <3>1. head + n - 1 \in 0 .. size - 1
      BY <1>1, <1>2, <1>5
    <3> QED BY <3>1
  <2>2. i + size - head = size + (n - 1) /\ n - 1 \in Nat /\ n - 1 < size
    BY <1>1, <1>2, <1>5, <2>1
  <2>3. (size + (n - 1)) % size = n - 1
    BY <1>1, <2>2
  <2>4. ((i + size - head) % size) + 1 = n /\ n <= L
    BY <1>2, <2>2, <2>3
  <2> QED BY <1>7, <2>1, <2>4
<1> QED BY <1>6, <1>8, <1>9 DEF L

LEMMA PushFirst ==
  ASSUME FirstInv, NEW f \in Frame, Push(f)
  PROVE  FirstFrame'
<1> SUFFICES ASSUME received = <<>> PROVE FirstFrame'
  BY DEF FirstFrame, Push
<1>1. TypeInv /\ tail = 0 /\ tail' = 0 /\ received' = received /\ queue' = Append(queue, f)
  BY DEF FirstInv, FirstFrame, Push
<1>2. size \in Nat /\ size > 0 /\ head \in 0 .. size - 1 /\ head \in Nat /\ queue \in Seq(Frame)
  BY RingConstantsOK DEF FirstInv, TypeInv, TypeOK
<1>3. /\ head' = head + Len(Stored(f))
      /\ \A i \in 0 .. size - 1 : i < head => buffer'[i] = buffer[i]
      /\ \A n \in 1 .. Len(Stored(f)) : buffer'[head + n - 1] = Stored(f)[n]
  BY <1>1, PushInOrder
<1>4. Len(Stored(f)) \in Nat
  BY StoredFacts, LenProperties
<1>5. queue' # <<>>
  BY <1>1, <1>2, AppendProperties
<1>6. CASE queue = <<>>
  <2>1. head = 0 /\ queue'[1] = f
    BY <1>1, <1>6 DEF FirstInv, FirstFrame
  <2>2. \A n \in 1 .. Len(Stored(f)) : buffer'[n - 1] = Stored(f)[n]
    <3>1. \A n \in 1 .. Len(Stored(f)) : 0 + n - 1 = n - 1
      BY <1>4
    <3> QED BY <1>3, <2>1, <3>1
  <2>3. Len(Stored(f)) <= head'
    BY <1>3, <1>4, <2>1
  <2> QED BY <1>1, <1>5, <2>1, <2>2, <2>3 DEF FirstFrame, Stored
<1>7. CASE queue # <<>>
  <2> DEFINE first == queue[1]
  <2>1. first \in Frame /\ queue'[1] = first
    <3>1. 1 \in 1 .. Len(queue)
      BY <1>2, <1>7, LenProperties, EmptySeq
    <3> QED BY <1>1, <1>2, <3>1, AppendProperties, LenProperties
  <2>2. /\ Len(Stored(first)) <= head
        /\ \A n \in 1 .. Len(Stored(first)) : buffer[n - 1] = Stored(first)[n]
    BY <1>7 DEF FirstInv, FirstFrame
  <2>3. Len(Stored(first)) \in Nat
    BY <2>1, StoredFacts, LenProperties
  <2> HIDE DEF first
  <2>4. ASSUME NEW n \in 1 .. Len(Stored(first)) PROVE buffer'[n - 1] = Stored(first)[n]
    <3>1. n - 1 \in 0 .. size - 1 /\ n - 1 < head
      BY <1>2, <2>2, <2>3
    <3> QED BY <1>3, <2>2, <3>1
  <2>5. Len(Stored(first)) <= head'
    BY <1>2, <1>3, <1>4, <2>2, <2>3
  <2> QED BY <1>1, <1>5, <2>1, <2>4, <2>5 DEF FirstFrame, Stored
<1> QED BY <1>6, <1>7

LEMMA FirstPopped ==
  ASSUME FirstInv, received = <<>>, Pop
  PROVE  received'[1] = Head(queue)
<1>1. tail = 0 /\ size \in Nat /\ size > 0 /\ head \in 0 .. size - 1 /\ queue \in Seq(Frame)
  BY RingConstantsOK DEF FirstInv, FirstFrame, TypeInv, TypeOK
<1>2. head # 0
  BY <1>1 DEF Pop, available
<1>3. queue # <<>>
  BY <1>2 DEF FirstInv, FirstFrame
<1> DEFINE f == queue[1]
<1>4. f \in Frame /\ Head(queue) = f
  <2>1. 1 \in 1 .. Len(queue)
    BY <1>1, <1>3, LenProperties, EmptySeq
  <2> QED BY <1>1, <1>3, <2>1, LenProperties
<1>5. /\ Len(Stored(f)) <= head
      /\ \A n \in 1 .. Len(Stored(f)) : buffer[n - 1] = Stored(f)[n]
  BY <1>3 DEF FirstInv, FirstFrame
<1> HIDE DEF f
<1>6. /\ Len(f.data) \in Nat /\ Len(Stored(f)) = Len(f.data) + 6
      /\ \A n \in 1 .. 4 : Stored(f)[n + 1] = f.id[n]
      /\ Stored(f)[6] = Len(f.data)
      /\ \A n \in 1 .. Len(f.data) : Stored(f)[n + 6] = f.data[n]
  BY <1>4, StoredFacts
<1>7. ASSUME NEW n \in 0 .. Len(f.data) + 5 PROVE peekbyte(n) = Stored(f)[n + 1]
  <2>1. n \in Nat /\ n < size /\ n + 1 \in 1 .. Len(Stored(f)) /\ (n + 1) - 1 = n
    BY <1>1, <1>5, <1>6
  <2>2. (tail + n) % size = n
    BY <1>1, <2>1, ModSmall
  <2>3. buffer[(n + 1) - 1] = Stored(f)[n + 1]
    BY <1>5, <2>1
  <2> QED BY <2>1, <2>2, <2>3 DEF peekbyte
<1>8. peekbyte(5) = Len(f.data)
  <2>1. 5 \in 0 .. Len(f.data) + 5 /\ 5 + 1 = 6
    BY <1>6
  <2> QED BY <1>6, <1>7, <2>1
<1>9. ASSUME NEW n \in 1 .. 4 PROVE peekbyte(n) = f.id[n]
  <2>1. n \in 0 .. Len(f.data) + 5
    BY <1>6
  <2> QED BY <1>6, <1>7, <2>1
<1>10. ASSUME NEW n \in 1 .. Len(f.data) PROVE peekbyte(5 + n) = f.data[n]
  <2>1. 5 + n \in 0 .. Len(f.data) + 5 /\ (5 + n) + 1 = n + 6
    BY <1>6
  <2>2. peekbyte(5 + n) = Stored(f)[(5 + n) + 1]
    BY <1>7, <2>1
  <2> QED BY <1>6, <2>1, <2>2
<1>11. /\ f \in [id : Seq(Byte), data : Seq(Byte)]
       /\ f.id \in [1 .. 4 -> Byte] /\ f.data \in [1 .. Len(f.data) -> Byte]
  <2>1. f \in [id : Seq(Byte), data : Seq(Byte)] /\ Len(f.id) = 4
    BY <1>4, RingConstantsOK
  <2> QED BY <2>1, LenProperties
<1>12. [n \in 1 .. 4 |-> peekbyte(n)] = f.id
  BY <1>9, <1>11
<1>13. [n \in 1 .. peekbyte(5) |-> peekbyte(5 + n)] = f.data
  BY <1>8, <1>10, <1>11
<1>14. Peeked = f
  BY <1>11, <1>12, <1>13 DEF Peeked
<1>15. received'[1] = Peeked
  BY DEF Pop
<1> QED BY <1>4, <1>14, <1>15

LEMMA FirstInvStep == FirstInv /\ [Next]_vars => FirstInv'
<1> SUFFICES ASSUME FirstInv, [Next]_vars PROVE FirstInv'
  OBVIOUS
<1>1. TypeInv'
  BY TypeInvStep DEF FirstInv
<1>2. ASSUME Pop PROVE FirstFrame'
  <2>1. received' # <<>>
    <3>1. received \in Seq(AnyFrame) /\ received' \in Seq(AnyFrame)
      BY <1>1 DEF FirstInv, TypeInv
    <3>2. Len(received') = Len(received) + 1 /\ Len(received) \in Nat
      BY <1>2, <3>1, LenProperties DEF Pop
    <3> QED BY <3>1, <3>2, EmptySeq
  <2> QED BY <2>1 DEF FirstFrame
<1>3. ASSUME UNCHANGED vars PROVE FirstFrame'
  BY <1>3 DEF FirstInv, FirstFrame, vars, Stored
<1> QED BY <1>1, <1>2, <1>3, PushFirst DEF Next, FirstInv

LEMMA FirstInvInit == Init => FirstInv
  BY TypeInvInit DEF Init, FirstInv, FirstFrame

(* The first frame that pop returns is the first that push accepted, byte   *)
(* for byte (DataIface_Raw.cpp:51-99), for every size and all frames.       *)
THEOREM FirstInFirstOut == Spec => FirstIsFirst
<1>1. FirstInv /\ [Next]_vars
        => (received = <<>> /\ received' # <<>> => received'[1] = Head(queue))
  <2> SUFFICES ASSUME FirstInv, [Next]_vars, received = <<>>, received' # <<>>
               PROVE  received'[1] = Head(queue)
    OBVIOUS
  <2>1. Pop
    BY DEF Next, Push, vars
  <2> QED BY <2>1, FirstPopped
<1> QED BY <1>1, FirstInvInit, FirstInvStep, PTL DEF Spec, FirstIsFirst

-----------------------------------------------------------------------------
(* The unread frames. *)

\* How far p is behind b, going round the ring.
Offset(b, p) == IF p >= b THEN p - b ELSE p - b + size

Intact ==
  \A i \in 1 .. Len(queue) : \A n \in 1 .. Len(Stored(queue[i])) :
    buffer[(placed[i] + n - 1) % size] = Stored(queue[i])[n]

(* Until the first pop the frames lie in line from the beginning on. *)
InLine ==
  received = <<>> =>
    /\ tail = 0
    /\ \A i \in 1 .. Len(queue) : placed[i] + Len(Stored(queue[i])) <= head
    /\ queue = <<>> => head = 0
    /\ Len(queue) >= 1 => placed[1] = 0
    /\ Len(queue) = 1 => head = Len(Stored(queue[1]))
    /\ Len(queue) >= 2 =>
         /\ placed[2] = Len(Stored(queue[1]))
         /\ \A i \in 2 .. Len(queue) : placed[i] >= placed[2]

\* One byte before tail.
Begin == IF tail = 0 THEN size - 1 ELSE tail - 1

(* After it tail is one byte past where they begin: an empty ring is full,  *)
(* and another one holds one byte more than available says.                *)
Follow ==
  Len(received) = 1 =>
    /\ queue = <<>> => head = Begin
    /\ queue # <<>> =>
         /\ placed[1] = Begin
         /\ \A i \in 1 .. Len(queue) : Offset(Begin, placed[i]) + Len(Stored(queue[i])) <= available + 1

IntactInv == FirstInv /\ (Len(received) < 2 => Intact) /\ InLine /\ Follow

\* r is a modulo the size of the ring.
Wrapped(a, r) == (a < size => r = a) /\ (a >= size => r = a - size)

LEMMA ModTwice ==
  ASSUME NEW a \in Nat, a < 2 * size
  PROVE  Wrapped(a, a % size)
<1> USE DEF Wrapped
<1>1. size \in Nat /\ size > 0
  BY RingConstantsOK
<1>2. CASE a < size
  <2>1. a % size = a
    BY <1>2, ModSmall
  <2> QED BY <1>1, <1>2, <2>1
<1>3. CASE a >= size
  <2>1. a - size \in 0 .. size - 1 /\ a = size + (a - size)
    BY <1>1, <1>3
  <2> QED BY <1>1, <1>3, <2>1
<1> QED BY <1>1, <1>2, <1>3

LEMMA OffsetOfByte ==
  ASSUME NEW b \in 0 .. size - 1, NEW p \in 0 .. size - 1, NEW k \in Nat,
         Offset(b, p) + k < size
  PROVE  /\ (p + k) % size \in 0 .. size - 1
         /\ Offset(b, (p + k) % size) = Offset(b, p) + k
<1>1. size \in Nat /\ size > 0 /\ p \in Nat /\ b \in Nat /\ b < size /\ p < size
  BY RingConstantsOK
<1>2. Offset(b, p) \in Nat /\ k < size /\ p + k \in Nat /\ p + k < 2 * size
  BY <1>1 DEF Offset
<1> DEFINE q == (p + k) % size
<1>3. Wrapped(p + k, q)
  BY <1>2, ModTwice, Zenon
<1> HIDE DEF q
<1>4. q = IF p + k < size THEN p + k ELSE p + k - size
  BY <1>1, <1>2, <1>3 DEF Wrapped
<1>5. q \in 0 .. size - 1
  BY <1>1, <1>2, <1>4
<1>6. Offset(b, q) = Offset(b, p) + k
  BY <1>1, <1>2, <1>4 DEF Offset
<1> QED BY <1>5, <1>6 DEF q

(* A push writes behind the u bytes from b on, and only there. *)
LEMMA PushWrites ==
  ASSUME TypeInv, NEW f \in Frame, Push(f),
         NEW b \in 0 .. size - 1, NEW u \in Nat, u + Len(Stored(f)) <= size,
         head = IF b + u < size THEN b + u ELSE b + u - size
  PROVE  /\ \A p \in 0 .. size - 1 : Offset(b, p) < u => buffer'[p] = buffer[p]
         /\ \A n \in 1 .. Len(Stored(f)) : buffer'[(head + n - 1) % size] = Stored(f)[n]
<1> DEFINE L == Len(Stored(f))
<1>1. size \in Nat /\ size > 0 /\ head \in 0 .. size - 1 /\ head \in Nat /\ b \in Nat /\ b < size
  BY RingConstantsOK DEF TypeInv, TypeOK
<1>2. L \in Nat /\ u + L <= size
  BY StoredFacts
<1>3. buffer' = [i \in 0 .. size - 1 |->
                   LET n == ((i + size - head) % size) + 1
                   IN IF n <= L THEN Stored(f)[n] ELSE buffer[i]]
  BY DEF Push, Write
<1> HIDE DEF L
<1>4. ASSUME NEW p \in 0 .. size - 1, Offset(b, p) < u PROVE buffer'[p] = buffer[p]
  <2>1. p + size - head \in Nat /\ p + size - head < 2 * size
    BY <1>1
  <2> DEFINE d == (p + size - head) % size
  <2>2. Wrapped(p + size - head, d)
    BY <2>1, ModTwice, Zenon DEF d
  <2> HIDE DEF d
  <2>3. ~ (d + 1 <= L)
    <3>1. d = IF p < head THEN p + size - head ELSE p - head
      BY <1>1, <2>2 DEF Wrapped
    <3> QED BY <1>1, <1>2, <1>4, <3>1 DEF Offset
  <2> QED BY <1>3, <2>3 DEF d
<1>5. ASSUME NEW n \in 1 .. L PROVE buffer'[(head + n - 1) % size] = Stored(f)[n]
  <2>1. head + n - 1 \in Nat /\ head + n - 1 < 2 * size
    BY <1>1, <1>2
  <2>2. PICK p \in 0 .. size - 1 : p = (head + n - 1) % size
    BY <2>1, ModInRange
  <2>3. Wrapped(head + n - 1, p)
    BY <2>1, <2>2, ModTwice, Zenon
  <2>4. p + size - head \in Nat /\ p + size - head < 2 * size
    BY <1>1
  <2> DEFINE d == (p + size - head) % size
  <2>5. Wrapped(p + size - head, d)
    BY <2>4, ModTwice, Zenon DEF d
  <2> HIDE DEF d
  <2>6. d + 1 = n /\ n <= L
    BY <1>1, <1>2, <2>3, <2>5 DEF Wrapped
  <2> QED BY <1>3, <2>2, <2>6 DEF d
<1> QED BY <1>4, <1>5 DEF L

(* What a push adds to the queue. *)
LEMMA PushAppends ==
  ASSUME TypeInv, NEW f \in Frame, Push(f)
  PROVE  /\ Len(queue) \in Nat /\ Len(placed) = Len(queue)
         /\ Len(queue') = Len(queue) + 1 /\ queue' # <<>>
         /\ \A i \in 1 .. Len(queue) : queue'[i] = queue[i] /\ placed'[i] = placed[i]
         /\ queue'[Len(queue) + 1] = f /\ placed'[Len(queue) + 1] = head
<1>1. queue \in Seq(Frame) /\ placed \in Seq(0 .. size - 1) /\ head \in 0 .. size - 1
      /\ Len(placed) = Len(queue)
  BY DEF TypeInv, TypeOK
<1>2. queue' = Append(queue, f) /\ placed' = Append(placed, head)
  BY DEF Push
<1>3. Len(queue) \in Nat
  BY <1>1, LenProperties
<1>4. /\ Len(queue') = Len(queue) + 1 /\ queue' # <<>>
      /\ \A i \in 1 .. Len(queue) : queue'[i] = queue[i]
      /\ queue'[Len(queue) + 1] = f
  BY <1>1, <1>2, AppendProperties
<1>5. /\ \A i \in 1 .. Len(placed) : placed'[i] = placed[i]
      /\ placed'[Len(placed) + 1] = head
  BY <1>1, <1>2, AppendProperties
<1> QED BY <1>1, <1>3, <1>4, <1>5

LEMMA QueueTyped ==
  ASSUME TypeInv, NEW i \in 1 .. Len(queue)
  PROVE  /\ queue[i] \in Frame /\ placed[i] \in 0 .. size - 1
         /\ Len(Stored(queue[i])) \in Nat /\ Len(Stored(queue[i])) >= 6
<1>1. queue \in Seq(Frame) /\ placed \in Seq(0 .. size - 1) /\ Len(placed) = Len(queue)
  BY DEF TypeInv, TypeOK
<1>2. queue[i] \in Frame /\ placed[i] \in 0 .. size - 1
  BY <1>1, LenProperties
<1>3. Len(queue[i].data) \in Nat /\ Len(Stored(queue[i])) = Len(queue[i].data) + 6
  BY <1>2, StoredFacts
<1> QED BY <1>2, <1>3

(* If the unread frames are among the u bytes from b on, a push leaves them *)
(* intact and the new one is, too.                                         *)
LEMMA PushKeepsIntact ==
  ASSUME TypeInv, Intact, NEW f \in Frame, Push(f),
         NEW b \in 0 .. size - 1, NEW u \in Nat, u + Len(Stored(f)) <= size,
         head = IF b + u < size THEN b + u ELSE b + u - size,
         \A i \in 1 .. Len(queue) : Offset(b, placed[i]) + Len(Stored(queue[i])) <= u
  PROVE  /\ Intact'
         /\ \A i \in 1 .. Len(queue') :
              Offset(b, placed'[i]) + Len(Stored(queue'[i])) <= u + Len(Stored(f))
<1>1. /\ \A p \in 0 .. size - 1 : Offset(b, p) < u => buffer'[p] = buffer[p]
      /\ \A n \in 1 .. Len(Stored(f)) : buffer'[(head + n - 1) % size] = Stored(f)[n]
  BY PushWrites
<1>2. /\ Len(queue) \in Nat /\ Len(queue') = Len(queue) + 1
      /\ \A i \in 1 .. Len(queue) : queue'[i] = queue[i] /\ placed'[i] = placed[i]
      /\ queue'[Len(queue) + 1] = f /\ placed'[Len(queue) + 1] = head
  BY PushAppends
<1>3. size \in Nat /\ size > 0 /\ head \in 0 .. size - 1 /\ b \in Nat /\ b < size
  BY RingConstantsOK DEF TypeInv, TypeOK
<1>4. Len(Stored(f)) \in Nat /\ Len(Stored(f)) >= 6
  BY StoredFacts
<1>5. ASSUME NEW i \in 1 .. Len(queue), NEW n \in 1 .. Len(Stored(queue[i]))
      PROVE  buffer'[(placed[i] + n - 1) % size] = Stored(queue[i])[n]
  <2>1. placed[i] \in 0 .. size - 1 /\ Len(Stored(queue[i])) \in Nat
    BY QueueTyped
  <2>2. n - 1 \in Nat /\ placed[i] + n - 1 = placed[i] + (n - 1)
    BY <1>3, <2>1
  <2>3. Offset(b, placed[i]) \in Int
    BY <1>3, <2>1 DEF Offset
  <2>4. Offset(b, placed[i]) + (n - 1) < u
    BY <2>1, <2>3
  <2>5. Offset(b, placed[i]) + (n - 1) < size
    BY <1>3, <1>4, <2>1, <2>3, <2>4
  <2>6. /\ (placed[i] + (n - 1)) % size \in 0 .. size - 1
        /\ Offset(b, (placed[i] + (n - 1)) % size) < u
    BY <2>1, <2>2, <2>4, <2>5, OffsetOfByte
  <2>7. buffer'[(placed[i] + (n - 1)) % size] = buffer[(placed[i] + (n - 1)) % size]
    BY <1>1, <2>6
  <2> QED BY <2>2, <2>7 DEF Intact
<1>6. Intact'
  <2> SUFFICES ASSUME NEW i \in 1 .. Len(queue'), NEW n \in 1 .. Len(Stored(queue'[i]))
               PROVE  buffer'[(placed'[i] + n - 1) % size] = Stored(queue'[i])[n]
    BY DEF Intact, Stored
  <2>1. CASE i \in 1 .. Len(queue)
    BY <1>2, <1>5, <2>1
  <2>2. CASE i = Len(queue) + 1
    BY <1>1, <1>2, <2>2
  <2> QED BY <1>2, <2>1, <2>2
<1>7. ASSUME NEW i \in 1 .. Len(queue')
      PROVE  Offset(b, placed'[i]) + Len(Stored(queue'[i])) <= u + Len(Stored(f))
  <2>1. CASE i \in 1 .. Len(queue)
    <3>1. /\ placed'[i] = placed[i] /\ queue'[i] = queue[i]
          /\ placed[i] \in 0 .. size - 1 /\ Len(Stored(queue[i])) \in Nat
      BY <1>2, <2>1, QueueTyped
    <3>2. Offset(b, placed[i]) \in Int
      BY <1>3, <3>1 DEF Offset
    <3>3. Offset(b, placed[i]) + Len(Stored(queue[i])) <= u
      BY <2>1
    <3>4. Offset(b, placed[i]) + Len(Stored(queue[i])) <= u + Len(Stored(f))
      BY <1>4, <3>1, <3>2, <3>3
    <3> QED BY <3>1, <3>4
  <2>2. CASE i = Len(queue) + 1
    <3>1. Offset(b, head) = u
      BY <1>3, <1>4 DEF Offset
    <3> QED BY <1>2, <1>4, <2>2, <3>1
  <2> QED BY <1>2, <2>1, <2>2
<1> QED BY <1>6, <1>7

-----------------------------------------------------------------------------
(* The steps. *)

LEMMA PushInLine ==
  ASSUME IntactInv, received = <<>>, NEW f \in Frame, Push(f)
  PROVE  Intact' /\ InLine'
<1>1. /\ TypeInv /\ tail = 0 /\ tail' = 0 /\ received' = <<>> /\ Intact
      /\ \A i \in 1 .. Len(queue) : placed[i] + Len(Stored(queue[i])) <= head
  BY DEF IntactInv, FirstInv, InLine, Push
<1>2. size \in Nat /\ size > 0 /\ head \in 0 .. size - 1 /\ head \in Nat
  BY <1>1, RingConstantsOK DEF TypeInv, TypeOK
<1>3. /\ Len(queue) \in Nat /\ Len(queue') = Len(queue) + 1 /\ queue' # <<>>
      /\ \A i \in 1 .. Len(queue) : queue'[i] = queue[i] /\ placed'[i] = placed[i]
      /\ queue'[Len(queue) + 1] = f /\ placed'[Len(queue) + 1] = head
  BY <1>1, PushAppends
<1>4. head' = head + Len(Stored(f))
  BY <1>1, PushInOrder
<1>5. /\ Len(Stored(f)) = Len(f.data) + 6 /\ Len(f.data) \in Nat
      /\ size - head >= Len(f.data) + 7
  <2>1. txspace = size - head
    BY <1>1, <1>2 DEF txspace, available
  <2> QED BY <2>1, StoredFacts DEF Push, Room, FRAME_SIZE_WITHOUT_DATA
<1>6. \A p \in Nat : Offset(0, p) = p
  BY DEF Offset
<1>7. \A i \in 1 .. Len(queue) : placed[i] \in Nat /\ Len(Stored(queue[i])) \in Nat
  BY <1>1, <1>2, QueueTyped
<1>8. /\ Intact'
      /\ \A i \in 1 .. Len(queue') :
           Offset(0, placed'[i]) + Len(Stored(queue'[i])) <= head + Len(Stored(f))
  <2>1. /\ 0 \in 0 .. size - 1 /\ head + Len(Stored(f)) <= size
        /\ head = IF 0 + head < size THEN 0 + head ELSE 0 + head - size
    BY <1>2, <1>5
  <2>2. \A i \in 1 .. Len(queue) : Offset(0, placed[i]) + Len(Stored(queue[i])) <= head
    BY <1>1, <1>6, <1>7
  <2> QED BY <1>1, <1>2, <2>1, <2>2, PushKeepsIntact
<1>9. ASSUME NEW i \in 1 .. Len(queue') PROVE placed'[i] + Len(Stored(queue'[i])) <= head'
  <2>1. placed'[i] \in Nat
    BY <1>2, <1>3, <1>7
  <2>2. Offset(0, placed'[i]) = placed'[i]
    BY <1>6, <2>1
  <2> QED BY <1>4, <1>8, <2>2
<1>10. placed'[1] = 0
  BY <1>3 DEF IntactInv, InLine
<1>11. Len(queue') = 1 => head' = Len(Stored(queue'[1]))
  <2> SUFFICES ASSUME Len(queue') = 1 PROVE head' = Len(Stored(queue'[1]))
    OBVIOUS
  <2>1. Len(queue) = 0 /\ queue'[1] = f
    <3> DEFINE m == Len(queue)
    <3>1. m \in Nat /\ m + 1 = 1
      BY <1>3, Zenon
    <3> HIDE DEF m
    <3>2. m = 0
      BY <3>1
    <3> QED BY <1>3, <3>1, <3>2, Zenon DEF m
  <2>2. queue = <<>>
    BY <1>1, <2>1, EmptySeq DEF TypeInv, TypeOK
  <2>3. head = 0
    BY <2>2 DEF IntactInv, InLine
  <2> QED BY <1>4, <1>5, <2>1, <2>3
<1>12. ASSUME Len(queue') >= 2
       PROVE  /\ placed'[2] = Len(Stored(queue'[1]))
              /\ \A i \in 2 .. Len(queue') : placed'[i] >= placed'[2]
  <2>1. Len(queue) >= 1 /\ 1 \in 1 .. Len(queue) /\ queue'[1] = queue[1] /\ placed[1] = 0
    BY <1>3, <1>12 DEF IntactInv, InLine
  <2>2. CASE Len(queue) = 1
    <3>1. head = Len(Stored(queue[1]))
      BY <2>2 DEF IntactInv, InLine
    <3>2. placed'[2] = head
      BY <1>3, <2>2
    <3>3. \A i \in 2 .. Len(queue') : i = 2
      BY <1>3, <2>2
    <3> QED BY <1>2, <2>1, <3>1, <3>2, <3>3
  <2>3. CASE Len(queue) >= 2
    <3>1. /\ placed[2] = Len(Stored(queue[1]))
          /\ \A i \in 2 .. Len(queue) : placed[i] >= placed[2]
      BY <2>3 DEF IntactInv, InLine
    <3>2. placed'[2] = placed[2] /\ placed[2] \in Nat
      BY <1>3, <1>7, <2>3
    <3>3. head >= placed[2]
      <4>1. placed[1] + Len(Stored(queue[1])) <= head
        BY <1>1, <2>1
      <4> QED BY <1>2, <2>1, <3>1, <3>2, <4>1
    <3>4. ASSUME NEW i \in 2 .. Len(queue') PROVE placed'[i] >= placed'[2]
      <4>1. CASE i \in 2 .. Len(queue)
        BY <1>3, <3>1, <3>2, <4>1
      <4>2. CASE i = Len(queue) + 1
        BY <1>3, <3>2, <3>3, <4>2
      <4> QED BY <1>3, <4>1, <4>2
    <3> QED BY <2>1, <3>1, <3>2, <3>4
  <2>4. Len(queue) = 1 \/ Len(queue) >= 2
    <3> DEFINE m == Len(queue)
    <3>1. m \in Nat /\ m >= 1
      BY <1>3, <2>1, Zenon
    <3> HIDE DEF m
    <3>2. m = 1 \/ m >= 2
      BY <3>1
    <3> QED BY <3>2, Zenon DEF m
  <2> QED BY <2>2, <2>3, <2>4, Zenon
<1>13. InLine'
  BY <1>1, <1>3, <1>9, <1>10, <1>11, <1>12 DEF InLine, Stored
<1> QED BY <1>8, <1>13

LEMMA PushFollows ==
  ASSUME IntactInv, Len(received) = 1, NEW f \in Frame, Push(f)
  PROVE  Intact' /\ Follow'
<1>1. TypeInv /\ tail' = tail /\ received' = received /\ Intact
  BY DEF IntactInv, FirstInv, Push
<1>2. /\ size \in Nat /\ size > 0 /\ head \in 0 .. size - 1 /\ head \in Nat
      /\ tail \in 0 .. size - 1 /\ tail \in Nat
  BY <1>1, RingConstantsOK DEF TypeInv, TypeOK
<1>3. /\ Len(queue) \in Nat /\ Len(queue') = Len(queue) + 1 /\ queue' # <<>>
      /\ \A i \in 1 .. Len(queue) : queue'[i] = queue[i] /\ placed'[i] = placed[i]
  BY <1>1, PushAppends
<1> DEFINE L == Len(Stored(f))
<1>4. /\ L \in Nat /\ L >= 6
      /\ available + L + 1 <= size
      /\ head' = (head + L) % size
  <2>1. Len(Stored(f)) = Len(f.data) + 6 /\ Len(f.data) \in Nat
    BY StoredFacts
  <2>2. available \in Nat
    BY <1>2 DEF available
  <2>3. size - available >= Len(f.data) + 7
    BY DEF Push, Room, FRAME_SIZE_WITHOUT_DATA, txspace
  <2>4. head' = (head + L) % size
    BY DEF Push, Write
  <2> HIDE DEF L, available
  <2>5. L \in Nat /\ L >= 6 /\ available + L + 1 <= size
    <3>1. L = Len(f.data) + 6
      BY <2>1 DEF L
    <3> QED BY <1>2, <2>1, <2>2, <2>3, <3>1
  <2> QED BY <2>4, <2>5
<1> HIDE DEF L
<1>5. /\ Begin \in 0 .. size - 1 /\ Begin' = Begin
      /\ available + 1 \in Nat
      /\ head = IF Begin + (available + 1) < size THEN Begin + (available + 1)
                ELSE Begin + (available + 1) - size
  <2>1. available + 1 <= size - 6
    BY <1>2, <1>4 DEF available
  <2> QED BY <1>1, <1>2, <2>1 DEF Begin, available
<1>6. queue # <<>>
  <2> SUFFICES ASSUME queue = <<>> PROVE FALSE
    OBVIOUS
  <2>1. head = Begin
    BY DEF IntactInv, Follow
  <2> QED BY <1>2, <1>4, <2>1 DEF Begin, available
<1>7. /\ placed[1] = Begin
      /\ \A i \in 1 .. Len(queue) : Offset(Begin, placed[i]) + Len(Stored(queue[i])) <= available + 1
  BY <1>6 DEF IntactInv, Follow
<1>8. /\ Intact'
      /\ \A i \in 1 .. Len(queue') :
           Offset(Begin, placed'[i]) + Len(Stored(queue'[i])) <= available + 1 + L
  <2>1. available + 1 + L <= size
    BY <1>2, <1>4 DEF available
  <2> HIDE DEF Begin, available
  <2> QED BY <1>1, <1>5, <1>7, <2>1, PushKeepsIntact DEF L
<1>9. available' + 1 = available + 1 + L
  <2>1. head + L \in Nat /\ head + L < 2 * size
    BY <1>2, <1>4 DEF available
  <2>2. Wrapped(head + L, head')
    BY <1>4, <2>1, ModTwice, Zenon
  <2>3. head' = IF head + L < size THEN head + L ELSE head + L - size
    BY <1>2, <1>4, <2>2 DEF Wrapped
  <2> QED BY <1>1, <1>2, <1>4, <2>3 DEF available
<1>10. placed'[1] = Begin
  <2>1. 1 \in 1 .. Len(queue)
    BY <1>1, <1>6, EmptySeq DEF TypeInv, TypeOK
  <2> QED BY <1>3, <1>7, <2>1
<1>11. ASSUME NEW i \in 1 .. Len(queue')
       PROVE  Offset(Begin', placed'[i]) + Len(Stored(queue'[i])) <= available' + 1
  BY <1>5, <1>8, <1>9
<1>12. Follow'
  BY <1>3, <1>5, <1>10, <1>11 DEF Follow, Offset, Stored
<1> QED BY <1>8, <1>12

\* Only bytes that were read are given up by the first pop, and one more.
LEMMA FirstPopFollows ==
  ASSUME IntactInv, received = <<>>, Pop
  PROVE  Intact' /\ Follow'
<1>1. /\ TypeInv /\ tail = 0 /\ Intact /\ buffer' = buffer /\ head' = head
      /\ \A i \in 1 .. Len(queue) : placed[i] + Len(Stored(queue[i])) <= head
  <2>1. received \in Seq(AnyFrame) /\ Len(received) = 0
    BY EmptySeq DEF IntactInv, FirstInv, TypeInv
  <2> QED BY <2>1 DEF IntactInv, FirstInv, InLine, Pop
<1>2. /\ size \in Nat /\ size > 0 /\ head \in 0 .. size - 1 /\ head \in Nat
      /\ queue \in Seq(Frame) /\ placed \in Seq(0 .. size - 1) /\ Len(placed) = Len(queue)
  BY <1>1, RingConstantsOK DEF TypeInv, TypeOK
<1>3. queue # <<>> /\ placed # <<>> /\ 1 \in 1 .. Len(queue)
  <2>1. head # 0
    BY <1>1, <1>2 DEF Pop, available
  <2>2. queue # <<>>
    BY <2>1 DEF IntactInv, InLine
  <2>3. Len(queue) \in Nat \ {0}
    BY <1>2, <2>2, EmptySeq
  <2>4. placed # <<>>
    BY <1>2, <2>3, EmptySeq
  <2> QED BY <2>2, <2>3, <2>4
<1>4. /\ Len(queue') = Len(queue) - 1 /\ Len(queue) \in Nat
      /\ queue' \in Seq(Frame)
      /\ \A i \in 1 .. Len(queue') : queue'[i] = queue[i + 1] /\ placed'[i] = placed[i + 1]
  <2>1. queue' = Tail(queue) /\ placed' = Tail(placed)
    BY <1>3 DEF Pop
  <2>2. /\ queue' \in Seq(Frame) /\ Len(queue') = Len(queue) - 1
        /\ \A i \in 1 .. Len(queue') : queue'[i] = queue[i + 1]
    BY <1>2, <1>3, <2>1, HeadTailProperties
  <2>3. /\ Len(placed') = Len(placed) - 1
        /\ \A i \in 1 .. Len(placed') : placed'[i] = placed[i + 1]
    BY <1>2, <1>3, <2>1, HeadTailProperties
  <2> QED BY <1>2, <2>2, <2>3, LenProperties
<1>5. \A i \in 1 .. Len(queue') : i + 1 \in 2 .. Len(queue) /\ i + 1 \in 1 .. Len(queue)
  BY <1>4
<1>6. Intact'
  BY <1>1, <1>4, <1>5 DEF Intact, Stored
<1> DEFINE L == Len(Stored(queue[1]))
<1>7. L \in Nat /\ L <= head /\ L < size /\ peekbyte(5) = L - 6
  <2>1. queue[1] \in Frame
    BY <1>1, <1>3, QueueTyped
  <2>2. Len(queue[1].data) \in Nat /\ L = Len(queue[1].data) + 6 /\ Stored(queue[1])[6] = Len(queue[1].data)
    BY <2>1, StoredFacts
  <2>3. L <= head /\ \A n \in 1 .. L : buffer[n - 1] = Stored(queue[1])[n]
    BY <1>3 DEF IntactInv, FirstInv, FirstFrame
  <2> HIDE DEF L
  <2>4. 5 < size /\ 6 \in 1 .. L /\ L < size
    BY <1>2, <2>2, <2>3
  <2>5. (tail + 5) % size = 5
    BY <1>1, <2>4, ModSmall
  <2>6. buffer[6 - 1] = Stored(queue[1])[6]
    BY <2>3, <2>4
  <2>7. peekbyte(5) = Len(queue[1].data)
    BY <2>2, <2>5, <2>6 DEF peekbyte
  <2> QED BY <2>2, <2>3, <2>4, <2>7
<1>8. Wrapped(L + 1, tail')
  <2>1. tail' = (L + 1) % size
    <3>1. tail' = (peekbyte(5) + 7 + tail) % size
      BY DEF Pop, advance, FRAME_SIZE_WITHOUT_DATA
    <3>2. peekbyte(5) + 7 + tail = L + 1
      BY <1>1, <1>7
    <3> QED BY <3>1, <3>2
  <2>2. size # 1 => L + 1 \in Nat /\ L + 1 < 2 * size
    BY <1>2, <1>7
  <2>3. size # 1
    <3>1. head # 0
      BY <1>1, <1>2 DEF Pop, available
    <3> QED BY <1>2, <3>1
  <2> HIDE DEF L
  <2> QED BY <2>1, <2>2, <2>3, ModTwice, Zenon
<1> HIDE DEF L
<1>9. tail' = IF L + 1 < size THEN L + 1 ELSE 0
  BY <1>2, <1>7, <1>8 DEF Wrapped
<1>10. Begin' = L
  BY <1>2, <1>7, <1>9 DEF Begin
<1>11. CASE Len(queue) = 1
  <2>1. head = L
    BY <1>11 DEF IntactInv, InLine, L
  <2>2. Len(queue') = 0
    BY <1>4, <1>11
  <2>3. queue' = <<>>
    BY <1>4, <2>2, EmptySeq
  <2> QED BY <1>1, <1>6, <1>10, <2>1, <2>3 DEF Follow
<1>12. CASE Len(queue) >= 2
  <2>1. placed[2] = L /\ \A i \in 2 .. Len(queue) : placed[i] >= placed[2]
    BY <1>12 DEF IntactInv, InLine, L
  <2>2. L + 1 <= head
    <3>1. 2 \in 1 .. Len(queue)
      BY <1>4, <1>12
    <3>2. Len(Stored(queue[2])) \in Nat /\ Len(Stored(queue[2])) >= 6
      BY <1>1, <3>1, QueueTyped
    <3>3. placed[2] + Len(Stored(queue[2])) <= head
      BY <1>1, <3>1
    <3> QED BY <1>2, <1>7, <2>1, <3>2, <3>3
  <2>3. available' + 1 = head - L
    BY <1>1, <1>2, <1>7, <1>9, <2>2 DEF available
  <2>4. placed'[1] = Begin'
    <3> DEFINE m == Len(queue)
    <3>1. Len(queue') = m - 1 /\ m \in Nat /\ m >= 2
      BY <1>4, <1>12
    <3> HIDE DEF m
    <3>2. 1 \in 1 .. Len(queue') /\ 1 + 1 = 2
      BY <3>1
    <3> QED BY <1>4, <1>10, <2>1, <3>2
  <2>5. ASSUME NEW i \in 1 .. Len(queue')
        PROVE  Offset(Begin', placed'[i]) + Len(Stored(queue'[i])) <= available' + 1
    <3>1. /\ placed'[i] = placed[i + 1] /\ queue'[i] = queue[i + 1]
          /\ i + 1 \in 2 .. Len(queue) /\ i + 1 \in 1 .. Len(queue)
      BY <1>4, <1>5
    <3>2. placed[i + 1] \in Nat /\ Len(Stored(queue[i + 1])) \in Nat
      BY <1>1, <1>2, <3>1, QueueTyped
    <3>3. placed[i + 1] >= L /\ placed[i + 1] + Len(Stored(queue[i + 1])) <= head
      BY <1>1, <2>1, <3>1
    <3>4. Offset(L, placed[i + 1]) = placed[i + 1] - L
      BY <1>7, <3>2, <3>3 DEF Offset
    <3>5. (placed[i + 1] - L) + Len(Stored(queue[i + 1])) <= head - L
      BY <1>2, <1>7, <3>2, <3>3
    <3> QED BY <1>10, <2>3, <3>1, <3>4, <3>5
  <2>6. queue' # <<>>
    <3>1. Len(queue') # 0
      BY <1>4, <1>12
    <3> QED BY <3>1
  <2> QED BY <1>6, <2>4, <2>5, <2>6 DEF Follow, Offset, Stored
<1>13. Len(queue) = 1 \/ Len(queue) >= 2
  <2> DEFINE m == Len(queue)
  <2>1. m \in Nat /\ 1 \in 1 .. m
    BY <1>3, <1>4, Zenon
  <2> HIDE DEF m
  <2>2. m = 1 \/ m >= 2
    BY <2>1
  <2> QED BY <2>2, Zenon DEF m
<1> QED BY <1>11, <1>12, <1>13, Zenon

LEMMA Popped ==
  ASSUME TypeInv, Pop
  PROVE  Len(received) \in Nat /\ Len(received') = Len(received) + 1 /\ received' # <<>>
<1>1. received \in Seq(AnyFrame) /\ received' \in Seq(AnyFrame)
  BY PopTyped DEF TypeInv
<1>2. Len(received') = Len(received) + 1 /\ Len(received) \in Nat
  BY <1>1, LenProperties DEF Pop
<1>3. received' # <<>>
  BY <1>1, <1>2, EmptySeq
<1> QED BY <1>2, <1>3

LEMMA IntactStep == IntactInv /\ [Next]_vars => IntactInv'
<1> SUFFICES ASSUME IntactInv, [Next]_vars PROVE IntactInv'
  OBVIOUS
<1>1. FirstInv' /\ TypeInv
  BY FirstInvStep DEF IntactInv, FirstInv
<1>2. Len(received) \in Nat /\ (Len(received) = 0 <=> received = <<>>)
  <2>1. received \in Seq(AnyFrame)
    BY <1>1 DEF TypeInv
  <2> QED BY <2>1, EmptySeq, LenProperties
<1>3. ASSUME NEW f \in Frame, Push(f)
      PROVE  (Len(received') < 2 => Intact') /\ InLine' /\ Follow'
  <2>1. received' = received
    BY <1>3 DEF Push
  <2>2. CASE received = <<>>
    <3>1. Len(received') # 1
      BY <1>2, <2>1, <2>2
    <3> QED BY <1>3, <2>2, <3>1, PushInLine DEF Follow
  <2>3. CASE Len(received) = 1
    <3>1. received' # <<>>
      BY <1>2, <2>1, <2>3
    <3> QED BY <1>3, <2>3, <3>1, PushFollows DEF InLine
  <2>4. CASE Len(received) > 1
    <3>1. received' # <<>> /\ ~ (Len(received') < 2) /\ Len(received') # 1
      BY <1>2, <2>1, <2>4
    <3> QED BY <3>1 DEF InLine, Follow
  <2>5. received = <<>> \/ Len(received) = 1 \/ Len(received) > 1
    <3> DEFINE m == Len(received)
    <3>1. m \in Nat /\ (m = 0 => received = <<>>)
      BY <1>2, Zenon
    <3> HIDE DEF m
    <3>2. received = <<>> \/ m = 1 \/ m > 1
      BY <3>1
    <3> QED BY <3>2, Zenon DEF m
  <2> QED BY <2>2, <2>3, <2>4, <2>5, Zenon
<1>4. ASSUME Pop
      PROVE  (Len(received') < 2 => Intact') /\ InLine' /\ Follow'
  <2>1. Len(received') = Len(received) + 1 /\ received' # <<>>
    BY <1>1, <1>4, Popped
  <2>2. CASE received = <<>>
    BY <1>4, <2>1, <2>2, FirstPopFollows DEF InLine
  <2>3. CASE received # <<>>
    <3> DEFINE m == Len(received)
               k == Len(received')
    <3>1. m \in Nat /\ m # 0 /\ k = m + 1
      BY <1>2, <2>1, <2>3, Zenon
    <3> HIDE DEF m, k
    <3>2. ~ (k < 2) /\ k # 1
      BY <3>1
    <3> QED BY <2>1, <3>2, Zenon DEF InLine, Follow, k
  <2> QED BY <2>2, <2>3
<1>5. ASSUME UNCHANGED vars
      PROVE  (Len(received') < 2 => Intact') /\ InLine' /\ Follow'
  <2>1. /\ UNCHANGED <<buffer, head, tail, queue, placed, received>>
        /\ available' = available /\ Begin' = Begin
    BY <1>5 DEF vars, available, Begin
  <2>2. Intact => Intact'
    BY <2>1 DEF Intact, Stored
  <2>3. InLine'
    BY <2>1 DEF IntactInv, InLine, Stored
  <2>4. Follow'
    BY <2>1 DEF IntactInv, Follow, Stored, Offset
  <2> QED BY <2>1, <2>2, <2>3, <2>4 DEF IntactInv
<1>6. (Len(received') < 2 => Intact') /\ InLine' /\ Follow'
  BY <1>3, <1>4, <1>5 DEF Next
<1> QED BY <1>1, <1>6 DEF IntactInv

LEMMA IntactInit == Init => IntactInv
<1> SUFFICES ASSUME Init PROVE IntactInv
  OBVIOUS
<1>1. Len(queue) = 0 /\ Len(received) = 0 /\ tail = 0 /\ head = 0 /\ queue = <<>>
  BY EmptySeq DEF Init
<1>2. Intact
  BY <1>1 DEF Intact
<1>3. InLine
  BY <1>1 DEF InLine
<1>4. Follow
  BY <1>1 DEF Follow
<1> QED BY <1>2, <1>3, <1>4, FirstInvInit DEF IntactInv

(* The unread frames as the property states it.                            *)
LEMMA IntactUnread == IntactInv => UnreadIntact
<1> SUFFICES ASSUME IntactInv, Len(received) < 2 PROVE UnreadIntact
  BY DEF UnreadIntact
<1>1. /\ received \in Seq(AnyFrame) /\ tail \in 0 .. size - 1
      /\ size \in Nat /\ size > 0
  BY RingConstantsOK DEF IntactInv, FirstInv, TypeInv, TypeOK
<1>2. ASSUME queue # <<>> PROVE tail = (placed[1] + Len(received)) % size
  <2> DEFINE m == Len(received)
  <2>1. m \in Nat /\ m < 2 /\ (m = 0 => received = <<>>)
    BY <1>1, EmptySeq, LenProperties
  <2>2. m = 0 => tail = 0 /\ placed[1] = 0
    <3>1. Len(queue) >= 1
      BY <1>2, EmptySeq DEF IntactInv, FirstInv, TypeInv, TypeOK
    <3> QED BY <2>1, <3>1 DEF IntactInv, InLine
  <2>3. m = 1 => placed[1] = Begin
    BY <1>2 DEF IntactInv, Follow
  <2> HIDE DEF m
  <2> DEFINE a == placed[1] + m
  <2>4. m = 0 => a = 0 /\ tail = 0
    BY <2>2
  <2>5. m = 1 => a = IF tail = 0 THEN size ELSE tail
    BY <1>1, <2>3 DEF Begin
  <2>6. m = 0 \/ m = 1
    BY <2>1
  <2> HIDE DEF a
  <2>7. a = tail \/ (a = size /\ tail = 0)
    BY <2>4, <2>5, <2>6
  <2>8. a % size = tail
    BY <1>1, <2>7
  <2> QED BY <2>8, Zenon DEF a, m
<1> QED BY <1>2 DEF IntactInv, Intact, UnreadIntact

(* No push writes over a frame that the reader has yet to come to, wherever *)
(* the ring wraps, until a second pop (DataIface_Raw.cpp:51-70, 97), for    *)
(* every size and all frames.                                              *)
THEOREM UnreadStaysIntact == Spec => []UnreadIntact
BY IntactUnread, IntactInit, IntactStep, PTL DEF Spec

-----------------------------------------------------------------------------
(* What becomes of the ring after the first frame. *)

(* Once the reader has caught up, no frame has room: tail is one byte      *)
(* past head.                                                              *)
CaughtUpRefuses == Len(received) = 1 /\ queue = <<>> => \A f \in Frame : ~Room(f)

(* A reader that takes the only frame in the ring fills the ring, whatever *)
(* its size: push says "buffer is full" to any frame                       *)
(* (DataIface_Raw.cpp:53-56, 97).                                          *)
THEOREM CatchingUpFillsRing == Spec => []CaughtUpRefuses
<1>1. IntactInv => CaughtUpRefuses
  <2> SUFFICES ASSUME IntactInv, Len(received) = 1, queue = <<>>, NEW f \in Frame PROVE ~Room(f)
    BY DEF CaughtUpRefuses
  <2>1. /\ size \in Nat /\ size > 0 /\ tail \in 0 .. size - 1 /\ head \in 0 .. size - 1
        /\ Len(f.data) \in Nat
    BY RingConstantsOK, StoredFacts DEF IntactInv, FirstInv, TypeInv, TypeOK
  <2>2. head = IF tail = 0 THEN size - 1 ELSE tail - 1
    BY DEF IntactInv, Follow, Begin
  <2>3. txspace \in {0, 1}
    BY <2>1, <2>2 DEF txspace, available
  <2>4. ~ (txspace >= Len(f.data) + 7)
    BY <2>1, <2>3
  <2> QED BY <2>4 DEF Room, FRAME_SIZE_WITHOUT_DATA
<1> QED BY <1>1, IntactInit, IntactStep, PTL DEF Spec

(* Frames whose identifier does not begin with the header's byte, in a ring *)
(* that is larger than any of them.                                         *)
PlainFrames ==
  \A f \in Frame : f.id[1] # HEADER1 /\ Len(f.data) + FRAME_SIZE_WITHOUT_DATA < size

(* Until the first pop nothing was written behind head, so that a reader    *)
(* that catches up with it finds no header.                                 *)
NoHeader ==
  /\ received = <<>> => \A i \in 0 .. size - 1 : i >= head => buffer[i] = 0
  /\ Len(received) = 1 /\ queue = <<>> => buffer[tail] # HEADER1

LEMMA PushLeavesNoHeader ==
  ASSUME IntactInv, NoHeader, NEW f \in Frame, Push(f)
  PROVE  NoHeader'
<1>1. received' = received /\ TypeInv /\ queue' # <<>>
  BY PushAppends DEF IntactInv, FirstInv, Push
<1> SUFFICES ASSUME received = <<>>, NEW i \in 0 .. size - 1, i >= head'
             PROVE  buffer'[i] = 0
  BY <1>1 DEF NoHeader
<1> DEFINE L == Len(Stored(f))
<1>2. /\ size \in Nat /\ size > 0 /\ head \in 0 .. size - 1
      /\ L \in Nat /\ head' = head + L
  BY <1>1, RingConstantsOK, StoredFacts, LenProperties, PushInOrder
     DEF IntactInv, InLine, TypeInv, TypeOK
<1>3. buffer' = [j \in 0 .. size - 1 |->
                   LET n == ((j + size - head) % size) + 1
                   IN IF n <= L THEN Stored(f)[n] ELSE buffer[j]]
  BY DEF Push, Write
<1> HIDE DEF L
<1>4. i - head \in 0 .. size - 1 /\ i + size - head = size + (i - head) /\ i >= head
  BY <1>2
<1>5. (size + (i - head)) % size = i - head
  BY <1>2, <1>4
<1>6. ~ (((i + size - head) % size) + 1 <= L)
  BY <1>2, <1>4, <1>5
<1> QED BY <1>3, <1>4, <1>6 DEF NoHeader

LEMMA FirstPopFindsNoHeader ==
  ASSUME PlainFrames, IntactInv, NoHeader, received = <<>>, Pop, queue' = <<>>
  PROVE  buffer'[tail'] # HEADER1
<1>1. /\ tail = 0 /\ queue # <<>> /\ TypeInv
      /\ size \in Nat /\ size > 0 /\ head \in 0 .. size - 1 /\ queue \in Seq(Frame)
  <2>1. /\ tail = 0 /\ TypeInv /\ (queue = <<>> => head = 0)
    BY DEF IntactInv, FirstInv, InLine
  <2>2. size \in Nat /\ size > 0 /\ head \in 0 .. size - 1 /\ queue \in Seq(Frame)
    BY <2>1, RingConstantsOK DEF TypeInv, TypeOK
  <2> QED BY <2>1, <2>2 DEF Pop, available
<1>2. Len(queue) = 1 /\ 1 \in 1 .. Len(queue)
  <2>1. queue' = Tail(queue)
    BY <1>1 DEF Pop
  <2>2. Len(queue') = Len(queue) - 1 /\ Len(queue) \in Nat /\ Len(queue') = 0
    BY <1>1, <2>1, HeadTailProperties, EmptySeq, LenProperties
  <2> QED BY <2>2
<1>3. /\ queue[1] \in Frame /\ head = Len(queue[1].data) + 6 /\ Len(queue[1].data) \in Nat
      /\ peekbyte(5) = Len(queue[1].data)
  <2>1. queue[1] \in Frame
    BY <1>1, <1>2, QueueTyped
  <2>2. /\ Len(Stored(queue[1])) = Len(queue[1].data) + 6 /\ Len(queue[1].data) \in Nat
        /\ Stored(queue[1])[6] = Len(queue[1].data)
    BY <2>1, StoredFacts
  <2>3. head = Len(Stored(queue[1])) /\ buffer[6 - 1] = Stored(queue[1])[6]
    BY <1>1, <1>2, <2>2 DEF IntactInv, InLine, FirstInv, FirstFrame
  <2>4. (tail + 5) % size = 5
    BY <1>1, <2>2, <2>3, ModSmall
  <2> QED BY <2>1, <2>2, <2>3, <2>4 DEF peekbyte
<1>4. head + 1 < size
  BY <1>1, <1>3 DEF PlainFrames, FRAME_SIZE_WITHOUT_DATA
<1>5. tail' = head + 1
  <2>1. tail' = (peekbyte(5) + 7 + tail) % size /\ peekbyte(5) + 7 + tail = head + 1
    BY <1>1, <1>3 DEF Pop, advance, FRAME_SIZE_WITHOUT_DATA
  <2>2. head + 1 \in Nat
    BY <1>1
  <2> QED BY <1>4, <2>1, <2>2, ModSmall
<1>6. buffer'[tail'] = 0
  BY <1>1, <1>4, <1>5 DEF Pop, NoHeader
<1> QED BY <1>6 DEF HEADER1

LEMMA SecondPopRefused ==
  ASSUME PlainFrames, IntactInv, NoHeader, Len(received) = 1
  PROVE  ~Pop
<1>1. TypeInv /\ UnreadIntact
  BY IntactUnread DEF IntactInv, FirstInv
<1>2. tail \in 0 .. size - 1 /\ size \in Nat /\ size > 0 /\ queue \in Seq(Frame)
  BY <1>1, RingConstantsOK DEF TypeInv, TypeOK
<1>3. (tail + 0) % size = tail
  BY <1>2, ModSmall
<1>4. peekbyte(0) = buffer[tail]
  BY <1>3 DEF peekbyte
<1>5. CASE queue = <<>>
  BY <1>4, <1>5 DEF NoHeader, Pop
<1>6. CASE queue # <<>>
  <2>1. 1 \in 1 .. Len(queue)
    BY <1>2, <1>6, EmptySeq
  <2>2. queue[1] \in Frame /\ placed[1] \in Nat
    BY <1>1, <2>1, QueueTyped
  <2>3. Len(Stored(queue[1])) >= 6 /\ Stored(queue[1])[2] = queue[1].id[1]
    <3>1. 1 \in 1 .. 4 /\ 1 + 1 = 2
      OBVIOUS
    <3> QED BY <1>1, <2>1, <2>2, <3>1, QueueTyped, StoredFacts
  <2>4. tail = (placed[1] + 1) % size
    BY <1>1, <1>6 DEF UnreadIntact
  <2>5. buffer[(placed[1] + 2 - 1) % size] = Stored(queue[1])[2]
    <3>1. 2 \in 1 .. Len(Stored(queue[1]))
      BY <1>1, <2>1, <2>3, QueueTyped
    <3> QED BY <1>1, <2>1, <3>1 DEF UnreadIntact
  <2>6. placed[1] + 2 - 1 = placed[1] + 1
    BY <2>2
  <2>7. buffer[tail] # HEADER1
    BY <2>2, <2>3, <2>4, <2>5, <2>6 DEF PlainFrames
  <2> QED BY <1>4, <2>7 DEF Pop
<1> QED BY <1>5, <1>6

OneFrameOnly == Len(received) < 2

(* A link whose frames never begin with the header's byte delivers a       *)
(* single frame: the reader is one byte past the header of the next one,   *)
(* or of nothing, and pop refuses what it finds there for ever             *)
(* (DataIface_Raw.cpp:84-86, 97).                                          *)
THEOREM PlainLinkDeliversOne == PlainFrames => (Spec => []OneFrameOnly)
<1> SUFFICES ASSUME PlainFrames PROVE Spec => []OneFrameOnly
  OBVIOUS
<1>1. Init => NoHeader /\ OneFrameOnly
  BY EmptySeq DEF Init, NoHeader, OneFrameOnly
<1>2. IntactInv /\ NoHeader /\ OneFrameOnly /\ [Next]_vars => NoHeader' /\ OneFrameOnly'
  <2> SUFFICES ASSUME IntactInv, NoHeader, OneFrameOnly, [Next]_vars
               PROVE  NoHeader' /\ OneFrameOnly'
    OBVIOUS
  <2>1. ASSUME NEW f \in Frame, Push(f) PROVE NoHeader' /\ OneFrameOnly'
    <3>1. received' = received
      BY <2>1 DEF Push
    <3> QED BY <2>1, <3>1, PushLeavesNoHeader DEF OneFrameOnly
  <2>2. ASSUME Pop PROVE NoHeader' /\ OneFrameOnly'
    <3>1. /\ received \in Seq(AnyFrame) /\ Len(received') = Len(received) + 1
          /\ received' # <<>> /\ Len(received) \in Nat
      BY <2>2, Popped DEF IntactInv, FirstInv, TypeInv
    <3>2. Len(received) = 0
      <4> DEFINE m == Len(received)
      <4>1. m \in Nat /\ m < 2 /\ m # 1
        BY <2>2, <3>1, SecondPopRefused DEF OneFrameOnly
      <4> HIDE DEF m
      <4>2. m = 0
        BY <4>1
      <4> QED BY <4>2, Zenon DEF m
    <3>3. received = <<>>
      BY <3>1, <3>2, EmptySeq
    <3> QED BY <2>2, <3>1, <3>2, <3>3, FirstPopFindsNoHeader DEF NoHeader, OneFrameOnly
  <2>3. CASE UNCHANGED vars
    BY <2>3 DEF vars, NoHeader, OneFrameOnly
  <2> QED BY <2>1, <2>2, <2>3 DEF Next
<1> QED BY <1>1, <1>2, IntactInit, IntactStep, PTL DEF Spec
=============================================================================
