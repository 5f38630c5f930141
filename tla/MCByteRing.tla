----------------------------- MODULE MCByteRing -----------------------------
(* Small frames for the instances of ByteRing. *)
EXTENDS ByteRing

Plain(n)   == [id |-> <<1, 2, 3, 4>>, data |-> [i \in 1 .. n |-> 5]]
\* Sent by node 0x34: its identifier begins with the byte that headers have.
Node52(n)  == [id |-> <<HEADER1, 6, 7, 8>>, data |-> [i \in 1 .. n |-> 9]]

SmallFrames == {Plain(0), Plain(1), Plain(2), Node52(0), Node52(1)}
OneFrame    == {Plain(1)}
=============================================================================
