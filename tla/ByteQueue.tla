------------------------------ MODULE ByteQueue ------------------------------
(***************************************************************************)
(* What Buffer promises: bytes come out in the order in which they went    *)
(* in.  The bytes are numbered in that order.                              *)
(***************************************************************************)
EXTENDS Naturals, Sequences

CONSTANT MaxBytes

VARIABLES
    content,     \* the bytes that are in the buffer
    in, out      \* how many have gone in, and come out

vars == <<content, in, out>>

Init == content = <<>> /\ in = 0 /\ out = 0

Bytes(first, n) == [i \in 1..n |-> first + i - 1]

Put(n) ==
    /\ in' = in + n /\ content' = content \o Bytes(in + 1, n)
    /\ UNCHANGED out

Take(n) ==
    /\ n <= Len(content) /\ out' = out + n
    /\ content' = SubSeq(content, n + 1, Len(content))
    /\ UNCHANGED in

Next == \E n \in 0..MaxBytes : Put(n) \/ Take(n)

Spec == Init /\ [][Next]_vars
=============================================================================
