------------------------------- MODULE Buffer -------------------------------
(***************************************************************************)
(* twnl/Buffer.h and Buffer.cc: a vector of bytes with a reader and a      *)
(* writer index.  Bytes are numbered in the order in which they go in; 0   *)
(* stands for what was never written.  An append that does not fit writes  *)
(* past the end of the vector, and the writer index goes there too: that   *)
(* is undefined behaviour and ends the model.                              *)
(***************************************************************************)
EXTENDS Naturals, Sequences

CONSTANTS
    kInitialSize,
    ExtraSize,      \* sizeof extrabuf
    MaxBytes        \* bound: how many bytes go in

ASSUME SizesAssumption ==
    kInitialSize \in Nat \ {0} /\ ExtraSize \in Nat /\ MaxBytes \in Nat

VARIABLES
    buffer_, readerIndex_, writerIndex_,
    in, out         \* history: how many bytes have gone in, and come out

vars == <<buffer_, readerIndex_, writerIndex_, in, out>>

Zeros(n) == [i \in 1..n |-> 0]

Init ==
    /\ buffer_ = Zeros(kInitialSize) /\ readerIndex_ = 0 /\ writerIndex_ = 0
    /\ in = 0 /\ out = 0

readableBytes == writerIndex_ - readerIndex_

writableBytes == Len(buffer_) - writerIndex_

(* Bytes have been written past the end of the vector. *)
overflow == writerIndex_ > Len(buffer_)

-----------------------------------------------------------------------------
(* Appending.  A place is a vector with its two indices.                   *)

Place == [data |-> buffer_, reader |-> readerIndex_, writer |-> writerIndex_]

Resized(p, size) == [p EXCEPT !.data = [i \in 1..size |-> IF i <= Len(@) THEN @[i] ELSE 0]]

(* Seeded fault: the reader index stays where it was. *)
Moved_KeepReader(p) ==
    LET readable == p.writer - p.reader
    IN  [p EXCEPT !.data = [i \in DOMAIN @ |-> IF i <= readable THEN @[p.reader + i] ELSE @[i]],
                  !.writer = readable]

(* The readable bytes are moved to the front. *)
Moved(p) ==
    LET readable == p.writer - p.reader
    IN  [p EXCEPT !.data = [i \in DOMAIN @ |-> IF i <= readable THEN @[p.reader + i] ELSE @[i]],
                  !.reader = 0, !.writer = readable]

makeSpace(p, len) ==
    LET writable == Len(p.data) - p.writer
        readable == p.writer - p.reader
    IN  IF writable + readable < len THEN Resized(p, p.writer + len) ELSE Moved(p)

ensureWriteBytes(p, len) == IF Len(p.data) - p.writer < len THEN makeSpace(p, len) ELSE p

(* The bytes first, first + 1, ... at the writer index; those that do not  *)
(* fit are not seen again.                                                 *)
Written(p, first, len) ==
    [p EXCEPT !.data = [i \in DOMAIN @ |->
                  IF i > p.writer /\ i <= p.writer + len THEN first + i - p.writer - 1 ELSE @[i]],
              !.writer = @ + len]

Become(q) == buffer_' = q.data /\ readerIndex_' = q.reader /\ writerIndex_' = q.writer

(* append(), of the bytes from `first` on, to the place p.  The assertion  *)
(* that they fit is not there in a Release build.                          *)
AppendTo(p, first, len) == Become(Written(ensureWriteBytes(p, len), first, len))

append(len) ==
    /\ ~overflow /\ in + len <= MaxBytes /\ in' = in + len
    /\ AppendTo(Place, in + 1, len)
    /\ UNCHANGED out

(* readFd() of n bytes: into the vector, and the rest through extrabuf.    *)
(* 0 bytes and errors change nothing.  readFdET() is a row of these.       *)
readFd(n) ==
    /\ ~overflow /\ in + n <= MaxBytes /\ n <= writableBytes + ExtraSize /\ in' = in + n
    /\ \/ n <= writableBytes /\ Become(Written(Place, in + 1, n))
       \/ /\ n > writableBytes
          /\ AppendTo(Written(Place, in + 1, writableBytes), in + writableBytes + 1, n - writableBytes)
    /\ UNCHANGED out

-----------------------------------------------------------------------------
(* Retrieving.                                                             *)

(* retrieve(), with retrieveAll() when nothing is left; retrieveUntil and  *)
(* the functions that return strings call it.                              *)
retrieve(len) ==
    /\ ~overflow /\ len <= readableBytes /\ out' = out + len
    /\ readerIndex_' = IF len < readableBytes THEN readerIndex_ + len ELSE 0
    /\ writerIndex_' = IF len < readableBytes THEN writerIndex_ ELSE 0
    /\ UNCHANGED <<buffer_, in>>

(* writeFd() when the socket takes n bytes.  writeFdET() is a row of these. *)
writeFd(n) ==
    /\ ~overflow /\ n <= readableBytes /\ out' = out + n
    /\ readerIndex_' = readerIndex_ + n
    /\ UNCHANGED <<buffer_, writerIndex_, in>>

Next == \E n \in 0..MaxBytes : append(n) \/ readFd(n) \/ retrieve(n) \/ writeFd(n)

Spec == Init /\ [][Next]_vars

-----------------------------------------------------------------------------
(* The variables have their types, and the indices are in order. *)
TypeOK ==
    /\ buffer_ \in Seq(Nat) /\ in \in Nat /\ out \in Nat
    /\ readerIndex_ \in Nat /\ writerIndex_ \in Nat /\ readerIndex_ <= writerIndex_

(* ensureWriteBytes makes room for what is appended (Buffer.h:99). *)
RoomIsMade == ~overflow

Content == SubSeq(buffer_, readerIndex_ + 1, writerIndex_)

Queue == INSTANCE ByteQueue WITH content <- Content

(* Until it overruns its vector, the buffer is a queue of bytes. *)
BufferIsQueue == Queue!Init /\ [][overflow' \/ Queue!Next]_<<Content, in, out>>
=============================================================================
