------------------------- MODULE TcpConnectionProofs -------------------------
(***************************************************************************)
(* Proofs about TcpConnection, for messages of any number and length, any  *)
(* number of threads and both modes.  The types and the stream of bytes    *)
(* hold without conditions.  The life of the connection (assertions, the   *)
(* callbacks, the channel and the poller) holds as long as other threads   *)
(* only send, and ~TcpServer runs on the loop of the connection.  A        *)
(* callback may call stopRead if the removal is sure to come before the    *)
(* next poll (StopsSafely): closing the connection then registers the      *)
(* channel again, with nothing to wait for (EpollPoller.cc:80).            *)
(***************************************************************************)
EXTENDS TcpConnection, SequenceTheorems, TLAPS

-----------------------------------------------------------------------------
(* Streams of messages.                                                    *)

LEMMA DivisionBound ==
    ASSUME NEW L \in Nat \ {0}, NEW K \in Nat, NEW a \in Nat, a < L * K
    PROVE  a \div L \in 0..(K - 1)
<1>1. a \div L < K
  OBVIOUS
<1>2. a \div L \in Int /\ a \div L >= 0
  OBVIOUS
<1> QED  BY <1>1, <1>2

LEMMA DivisionUnique ==
    ASSUME NEW L \in Nat \ {0}, NEW K \in Nat, NEW r \in 0..(L - 1)
    PROVE  (L * K + r) \div L = K /\ (L * K + r) % L = r
  BY SMT

Cells == Msgs \X (1..MsgLen)

(* A stream consists of the given messages, whole and in this order. *)
Holds(stream, messages) ==
    /\ Len(stream) = MsgLen * Len(messages)
    /\ \A i \in 1..Len(stream) :
          stream[i] = <<messages[((i - 1) \div MsgLen) + 1], ((i - 1) % MsgLen) + 1>>

LEMMA BytesFacts ==
    ASSUME NEW m \in Msgs
    PROVE  Bytes(m) \in Seq(Cells) /\ Len(Bytes(m)) = MsgLen /\ \A i \in 1..MsgLen : Bytes(m)[i] = <<m, i>>
<1>1. \A i \in 1..MsgLen : <<m, i>> \in Cells
  BY DEF Cells
<1> QED  BY <1>1, TcpConnectionAssumption DEF Bytes

LEMMA StreamGrows ==
    ASSUME NEW s \in Seq(Cells), NEW a \in Seq(Msgs), Holds(s, a), NEW m \in Msgs
    PROVE  Holds(s \o Bytes(m), Append(a, m))
<1> DEFINE K == Len(a) L == MsgLen N == Len(s) t == s \o Bytes(m) b == Append(a, m)
<1>1. K \in Nat /\ L \in Nat \ {0} /\ N \in Nat /\ N = L * K
  BY TcpConnectionAssumption, LenProperties DEF Holds
<1>2. /\ Len(t) = N + L
      /\ \A i \in 1..(N + L) : t[i] = IF i <= N THEN s[i] ELSE Bytes(m)[i - N]
  BY <1>1, BytesFacts, ConcatProperties
<1>3. Len(b) = K + 1 /\ b[K + 1] = m /\ \A i \in 1..K : b[i] = a[i]
  BY AppendProperties
<1> HIDE DEF K, N, t, b
<1>4. N + L = L * (K + 1)
  BY <1>1
<1>5. ASSUME NEW i \in 1..(N + L)
      PROVE  t[i] = <<b[((i - 1) \div L) + 1], ((i - 1) % L) + 1>>
  <2>1. CASE i <= N
    <3>1. i \in 1..N /\ i - 1 \in Nat /\ i - 1 < L * K
      BY <1>1, <2>1
    <3>2. (i - 1) \div L \in 0..(K - 1)
      BY <1>1, <3>1, DivisionBound
    <3>3. ((i - 1) \div L) + 1 \in 1..K
      BY <1>1, <3>2
    <3>4. s[i] = <<a[((i - 1) \div L) + 1], ((i - 1) % L) + 1>>
      BY <3>1 DEF Holds, N
    <3> QED  BY <1>2, <1>3, <2>1, <3>3, <3>4
  <2>2. CASE ~(i <= N)
    <3>1. PICK r \in 0..(L - 1) : i - N = r + 1
      <4>1. i - N - 1 \in 0..(L - 1) /\ i - N = (i - N - 1) + 1
        BY <1>1, <2>2
      <4> QED  BY <4>1
    <3>2. i - 1 = L * K + r /\ r + 1 \in 1..L
      BY <1>1, <3>1
    <3>3. (i - 1) \div L = K /\ (i - 1) % L = r
      BY <1>1, <3>2, DivisionUnique
    <3>4. t[i] = <<m, r + 1>>
      BY <1>2, <2>2, <3>1, <3>2, BytesFacts
    <3> QED  BY <1>3, <3>3, <3>4
  <2> QED  BY <2>1, <2>2
<1> QED  BY <1>2, <1>3, <1>4, <1>5 DEF Holds, t, b

Moved(S, w, b, n) ==
    /\ SubSeq(b, 1, n) \in Seq(S) /\ SubSeq(b, n + 1, Len(b)) \in Seq(S)
    /\ Len(SubSeq(b, n + 1, Len(b))) = Len(b) - n
    /\ w \o SubSeq(b, 1, n) \in Seq(S)
    /\ (w \o SubSeq(b, 1, n)) \o SubSeq(b, n + 1, Len(b)) = w \o b

(* Taking n bytes off the front of a buffer and putting them on the wire   *)
(* leaves the stream as it is.                                             *)
LEMMA StreamMoves ==
    ASSUME NEW S, NEW w \in Seq(S), NEW b \in Seq(S), NEW n \in 0..Len(b)
    PROVE  Moved(S, w, b, n)
<1> DEFINE p == SubSeq(b, 1, n) r == SubSeq(b, n + 1, Len(b)) N == Len(b) W == Len(w)
<1>1. N \in Nat /\ W \in Nat /\ n \in Nat /\ n <= N
  BY LenProperties
<1>2. /\ p \in Seq(S) /\ Len(p) = n /\ \A i \in 1..n : p[i] = b[i]
  <2>1. \A i \in 1..n : b[i] \in S
    BY <1>1, ElementOfSeq
  <2> QED  BY <1>1, <2>1, SubSeqProperties
<1>3. /\ r \in Seq(S) /\ Len(r) = N - n /\ \A i \in 1..(N - n) : r[i] = b[n + i]
  <2>1. \A i \in (n + 1)..N : b[i] \in S
    BY <1>1, ElementOfSeq
  <2> QED  BY <1>1, <2>1, SubSeqProperties
<1> HIDE DEF p, r, N, W
<1>4. /\ w \o p \in Seq(S) /\ Len(w \o p) = W + n
      /\ \A i \in 1..(W + n) : (w \o p)[i] = IF i <= W THEN w[i] ELSE p[i - W]
  BY <1>1, <1>2, ConcatProperties DEF W
<1>5. /\ (w \o p) \o r \in Seq(S) /\ Len((w \o p) \o r) = W + N
      /\ \A i \in 1..(W + N) : ((w \o p) \o r)[i] = IF i <= W + n THEN (w \o p)[i] ELSE r[i - (W + n)]
  <2> DEFINE q == w \o p
  <2>1. (W + n) + (N - n) = W + N
    BY <1>1
  <2>2. q \in Seq(S) /\ Len(q) = W + n
    BY <1>4
  <2> HIDE DEF q
  <2>3. /\ q \o r \in Seq(S) /\ Len(q \o r) = Len(q) + Len(r)
        /\ \A i \in 1..(Len(q) + Len(r)) : (q \o r)[i] = IF i <= Len(q) THEN q[i] ELSE r[i - Len(q)]
    BY <1>3, <2>2, ConcatProperties
  <2>4. Len(q) + Len(r) = W + N
    BY <1>3, <2>1, <2>2
  <2> QED  BY <2>2, <2>3, <2>4 DEF q
<1>6. /\ w \o b \in Seq(S) /\ Len(w \o b) = W + N
      /\ \A i \in 1..(W + N) : (w \o b)[i] = IF i <= W THEN w[i] ELSE b[i - W]
  BY ConcatProperties DEF W, N
<1>7. ASSUME NEW i \in 1..(W + N) PROVE ((w \o p) \o r)[i] = (w \o b)[i]
  <2>1. CASE i <= W
    <3>1. i <= W + n /\ i \in 1..(W + n)
      BY <1>1, <2>1
    <3> QED  BY <1>4, <1>5, <1>6, <2>1, <3>1
  <2>2. CASE ~(i <= W) /\ i <= W + n
    <3>1. i \in 1..(W + n) /\ i - W \in 1..n
      BY <1>1, <2>2
    <3> QED  BY <1>2, <1>4, <1>5, <1>6, <2>2, <3>1
  <2>3. CASE ~(i <= W + n)
    <3>1. ~(i <= W) /\ i - (W + n) \in 1..(N - n) /\ n + (i - (W + n)) = i - W
      BY <1>1, <2>3
    <3> QED  BY <1>3, <1>5, <1>6, <2>3, <3>1
  <2> QED  BY <2>1, <2>2, <2>3
<1>8. (w \o p) \o r = w \o b
  BY <1>5, <1>6, <1>7, SeqEqual
<1> QED  BY <1>2, <1>3, <1>4, <1>8 DEF p, r, N, Moved

-----------------------------------------------------------------------------
(* The channel.                                                            *)

Flags == {"ET", "IN", "OUT"}

(* The interest set of a channel is changed. *)
Update(c, ev) == updateChannel([c EXCEPT !.events = ev])

LEMMA TouchFacts ==
    ASSUME NEW c \in ChannelType
    PROVE  /\ Touch(c) \in ChannelType /\ Touch(c).events = c.events /\ Touch(c).index = c.index
           /\ Touch(c).known = c.known /\ Touch(c).failed = c.failed
<1>1. isET \in BOOLEAN
  BY DEF isET
<1> HIDE DEF isET
<1> QED  BY <1>1 DEF Touch, ChannelType

LEMMA CheckFacts ==
    ASSUME NEW c \in ChannelType, NEW holds \in BOOLEAN,
           NEW a \in {"updateChannel: fd unknown", "updateChannel: fd known", "remove: isNoneEvent"}
    PROVE  /\ Check(c, holds, a) \in ChannelType /\ Check(c, holds, a).events = c.events
           /\ Check(c, holds, a).index = c.index /\ Check(c, holds, a).known = c.known
           /\ holds => Check(c, holds, a).failed = c.failed
<1>1. CASE holds
  BY <1>1 DEF Check
<1>2. CASE ~holds
  BY <1>2 DEF Check, ChannelType
<1> QED  BY <1>1, <1>2

LEMMA UpdateFacts ==
    ASSUME NEW b \in ChannelType, NEW ev \in SUBSET Flags
    PROVE  /\ Update(b, ev) \in ChannelType
           /\ Update(b, ev).events = ev
           /\ Update(b, ev).index = IF b.index = "kAdded" /\ ev = {} THEN "kDeleted" ELSE "kAdded"
           /\ Update(b, ev).known <=> b.known \/ b.index = "kNew"
           /\ b.index = "kAdded" \/ (b.known <=> b.index = "kDeleted") => Update(b, ev).failed = b.failed
<1> DEFINE c == [b EXCEPT !.events = ev] d == updateChannel(c)
<1>1. /\ c \in ChannelType /\ c.events = ev /\ c.index = b.index /\ c.known = b.known /\ c.failed = b.failed
  BY DEF ChannelType, Flags
<1> HIDE DEF c
<1>2. c.index \in {"kNew", "kAdded", "kDeleted"} /\ c.known \in BOOLEAN
  BY <1>1 DEF ChannelType
<1>3. CASE c.index = "kNew"
  <2> DEFINE k == Check(c, ~c.known, "updateChannel: fd unknown")
             e == [k EXCEPT !.index = "kAdded", !.known = TRUE]
  <2>1. k \in ChannelType /\ k.events = ev /\ (~c.known => k.failed = c.failed)
    BY <1>1, <1>2, CheckFacts
  <2> HIDE DEF k
  <2>2. e \in ChannelType
    BY <2>1 DEF ChannelType
  <2>3. e.events = ev /\ e.index = "kAdded" /\ e.known /\ e.failed = k.failed
    BY <2>1 DEF ChannelType
  <2>4. d = Touch(e)
    BY <1>3 DEF updateChannel, k
  <2> HIDE DEF e, d
  <2>5. d \in ChannelType /\ d.events = ev /\ d.index = "kAdded" /\ d.known /\ d.failed = k.failed
    BY <2>2, <2>3, <2>4, TouchFacts
  <2> QED  BY <1>1, <1>3, <2>1, <2>5 DEF Update, d, c
<1>4. CASE c.index = "kDeleted"
  <2> DEFINE k == Check(c, c.known, "updateChannel: fd known")
             e == [k EXCEPT !.index = "kAdded"]
  <2>1. k \in ChannelType /\ k.events = ev /\ (c.known => k.failed = c.failed) /\ k.known = c.known
    BY <1>1, <1>2, CheckFacts
  <2> HIDE DEF k
  <2>2. e \in ChannelType
    BY <2>1 DEF ChannelType
  <2>3. e.events = ev /\ e.index = "kAdded" /\ e.known = c.known /\ e.failed = k.failed
    BY <2>1 DEF ChannelType
  <2>4. d = Touch(e)
    BY <1>4 DEF updateChannel, k
  <2> HIDE DEF e, d
  <2>5. d \in ChannelType /\ d.events = ev /\ d.index = "kAdded" /\ d.known = c.known /\ d.failed = k.failed
    BY <2>2, <2>3, <2>4, TouchFacts
  <2> QED  BY <1>1, <1>4, <2>1, <2>5 DEF Update, d, c
<1>5. CASE c.index = "kAdded" /\ ev = {}
  <2>1. d = [c EXCEPT !.index = "kDeleted", !.edge = FALSE]
    BY <1>1, <1>5 DEF updateChannel, isNoneEvent, kNoneEvent
  <2> HIDE DEF d
  <2>2. d \in ChannelType
    BY <1>1, <2>1 DEF ChannelType
  <2>3. d.events = ev /\ d.index = "kDeleted" /\ d.known = c.known /\ d.failed = c.failed
    BY <1>1, <2>1 DEF ChannelType
  <2> QED  BY <1>1, <1>5, <2>2, <2>3 DEF Update, d, c
<1>6. CASE c.index = "kAdded" /\ ev # {}
  <2>1. d = Touch(c)
    BY <1>1, <1>6 DEF updateChannel, isNoneEvent, kNoneEvent
  <2> HIDE DEF d
  <2>2. /\ d \in ChannelType /\ d.events = ev /\ d.index = "kAdded" /\ d.known = c.known /\ d.failed = c.failed
    BY <1>1, <1>6, <2>1, TouchFacts
  <2> QED  BY <1>1, <1>6, <2>2 DEF Update, d, c
<1> QED  BY <1>2, <1>3, <1>4, <1>5, <1>6

LEMMA RemoveFacts ==
    ASSUME NEW c \in ChannelType
    PROVE  /\ remove(c) \in ChannelType /\ remove(c).events = c.events
           /\ remove(c).index = "kDeleted" /\ ~remove(c).known
           /\ c.events = {} => remove(c).failed = c.failed
<1> DEFINE k == Check(c, isNoneEvent(c), "remove: isNoneEvent")
<1>1. isNoneEvent(c) \in BOOLEAN /\ (isNoneEvent(c) <=> c.events = {})
  BY DEF isNoneEvent, kNoneEvent
<1>2. k \in ChannelType /\ k.events = c.events /\ (c.events = {} => k.failed = c.failed)
  BY <1>1, CheckFacts
<1>3. remove(c) = [k EXCEPT !.known = FALSE, !.index = "kDeleted", !.edge = FALSE]
  BY DEF remove
<1> HIDE DEF k
<1>4. remove(c) \in ChannelType
  BY <1>2, <1>3 DEF ChannelType
<1>5. remove(c).events = k.events /\ remove(c).index = "kDeleted" /\ ~remove(c).known /\ remove(c).failed = k.failed
  BY <1>2, <1>3 DEF ChannelType
<1> QED  BY <1>2, <1>4, <1>5

(* The operations of Channel as updates. *)
LEMMA ChannelOps ==
    ASSUME NEW c \in ChannelType
    PROVE  /\ c.events \cup kReadEvent \in SUBSET Flags /\ enableReading(c) = Update(c, c.events \cup kReadEvent)
           /\ c.events \ kReadEvent \in SUBSET Flags /\ disableReading(c) = Update(c, c.events \ kReadEvent)
           /\ c.events \cup kWriteEvent \in SUBSET Flags /\ enableWriting(c) = Update(c, c.events \cup kWriteEvent)
           /\ c.events \ kWriteEvent \in SUBSET Flags /\ disableWriting(c) = Update(c, c.events \ kWriteEvent)
           /\ {} \in SUBSET Flags /\ disableAll(c) = Update(c, {})
<1>1. c.events \in SUBSET Flags
  BY DEF ChannelType, Flags
<1>2. kReadEvent \in SUBSET Flags /\ kWriteEvent \in SUBSET Flags
  BY DEF kReadEvent, kWriteEvent, ModeFlag, Flags
<1> QED  BY <1>1, <1>2 DEF enableReading, disableReading, enableWriting, disableWriting, disableAll, kNoneEvent, Update

LEMMA ChannelOpsType ==
    ASSUME NEW c \in ChannelType
    PROVE  /\ enableReading(c) \in ChannelType /\ disableReading(c) \in ChannelType
           /\ enableWriting(c) \in ChannelType /\ disableWriting(c) \in ChannelType
           /\ disableAll(c) \in ChannelType /\ remove(c) \in ChannelType
<1>1. \A ev \in SUBSET Flags : Update(c, ev) \in ChannelType
  BY UpdateFacts
<1>2. remove(c) \in ChannelType
  BY RemoveFacts
<1> QED  BY <1>1, <1>2, ChannelOps

-----------------------------------------------------------------------------
(* Types.                                                                  *)

FunctorNames == RawFunctors \cup SharedFunctors

(* sendInLoop has a message. *)
Sendable == {f \in [fn : FunctorNames, msg : Msgs \cup {None}] : f.fn = "sendInLoop" => f.msg \in Msgs}

SockType ==
    [wire : Seq(Cells), full : BOOLEAN, wrShut : BOOLEAN, peer : {"open", "fin", "rst"},
     soErr : BOOLEAN, unread : BOOLEAN]

CallType ==
    {c \in [op : {"idle", "shutdown", "forceClose"} \cup FunctorNames, msg : Msgs \cup {None}] :
        c.op = "sendInLoop" => c.msg \in Msgs}

Callbacks == {"none", "up", "down", "destroyed", "message", "other",
              "writeCompleteCallback", "highWaterMarkCallback"}

ConnType == mode_ \in Modes /\ state_ \in StateE /\ reading_ \in BOOLEAN /\ channel \in ChannelType

DataType ==
    /\ outputBuffer_ \in Seq(Cells) /\ sock \in SockType
    /\ unsent \subseteq Msgs /\ accepted \in Seq(Msgs) /\ lost \subseteq Msgs

QueueType ==
    /\ pendingFunctors_ \in Seq(Sendable) /\ functors \in Seq(Sendable)
    /\ next \in 1..(Len(functors) + 1) /\ (functors # <<>> => pc = "functors")

LoopType ==
    /\ pc \in {"accept", "poll", "dispatch", "event", "functors"} /\ cb \in Callbacks
    /\ todo \subseteq {"close", "error", "read", "write"} /\ (todo # {} => pc \in {"dispatch", "event"})

AppType ==
    /\ inTable \in BOOLEAN /\ baseQueue \in Nat /\ server \in BOOLEAN
    /\ tame \in BOOLEAN /\ kept \in BOOLEAN /\ calls \in 0..MaxCalls /\ call \in [Users -> CallType]

HistoryType == trace \in Seq({"UP", "DOWN", "REMOVED"}) /\ failed \subseteq Assertions \cup UndefinedBehaviour

TypeInv == ConnType /\ DataType /\ QueueType /\ LoopType /\ AppType /\ HistoryType

(* The type invariant of the specification follows. *)
LEMMA TypesAgree ==
    ASSUME TypeInv
    PROVE  TypeOK
<1>1. \A s \in Seq(Sendable) : s \in Seq([fn : RawFunctors \cup SharedFunctors, msg : Msgs \cup {None}])
  <2> DEFINE T == [fn : RawFunctors \cup SharedFunctors, msg : Msgs \cup {None}]
  <2>1. \A f \in Sendable : f \in T
    BY DEF Sendable, FunctorNames
  <2> HIDE DEF T
  <2>2. ASSUME NEW s \in Seq(Sendable) PROVE s \in Seq(T)
    <3>1. Len(s) \in Nat /\ s \in [1..Len(s) -> Sendable]
      BY LenProperties
    <3>2. s \in [1..Len(s) -> T]
      BY <2>1, <3>1
    <3> QED  BY <3>1, <3>2, SeqDef
  <2> QED  BY <2>2 DEF T
<1>2. \A c \in CallType : c \in [op : {"idle", "shutdown", "forceClose"} \cup RawFunctors \cup SharedFunctors,
                                 msg : Msgs \cup {None}]
  BY DEF CallType, FunctorNames
<1>3. call \in [Users -> [op : {"idle", "shutdown", "forceClose"} \cup RawFunctors \cup SharedFunctors,
                          msg : Msgs \cup {None}]]
  BY <1>2 DEF TypeInv, AppType
<1> QED
  BY <1>1, <1>3 DEF TypeInv, ConnType, DataType, QueueType, LoopType, AppType, HistoryType, TypeOK, SockType, Cells,
     Callbacks

LEMMA FunctorFacts ==
    /\ \A f \in FunctorNames : f # "sendInLoop" => Functor(f) \in Sendable /\ Functor(f).fn = f
    /\ \A c \in BOOLEAN, f \in FunctorNames : f # "sendInLoop" => When(c, f) \in Seq(Sendable)
<1>1. \A f \in FunctorNames : f # "sendInLoop" => Functor(f) \in Sendable /\ Functor(f).fn = f
  BY DEF Functor, Sendable
<1> QED  BY <1>1 DEF When

LEMMA NamesFacts ==
    /\ {"connectEstablished", "connectDestroyed", "forceCloseInLoop", "writeCompleteCallback",
        "highWaterMarkCallback"} \subseteq FunctorNames
  BY DEF FunctorNames, SharedFunctors

LEMMA TypeInit ==
    ASSUME Init
    PROVE  TypeInv
<1> USE DEF Init
<1>1. ConnType
  <2>1. NewChannel \in ChannelType
    BY DEF NewChannel, ChannelType, kNoneEvent
  <2>2. reading_ \in BOOLEAN
    BY Zenon
  <2>3. mode_ \in Modes /\ state_ \in StateE /\ channel = NewChannel
    BY DEF StateE
  <2> QED  BY <2>1, <2>2, <2>3 DEF ConnType
<1>2. DataType
  <2>1. sock \in SockType
    <3>1. <<>> \in Seq(Cells)
      OBVIOUS
    <3>2. sock = [wire |-> <<>>, full |-> FALSE, wrShut |-> FALSE, peer |-> "open", soErr |-> FALSE, unread |-> FALSE]
      BY Zenon
    <3> QED  BY <3>1, <3>2 DEF SockType
  <2>2. outputBuffer_ = <<>> /\ unsent = Msgs /\ accepted = <<>> /\ lost = {}
    OBVIOUS
  <2> QED  BY <2>1, <2>2 DEF DataType
<1>3. QueueType
  <2>1. Functor("connectEstablished") \in Sendable
    BY FunctorFacts, NamesFacts
  <2>2. pendingFunctors_ \in Seq(Sendable)
    BY <2>1
  <2> QED  BY <2>2 DEF QueueType
<1>4. LoopType
  BY DEF LoopType, Callbacks
<1>5. AppType
  <2>1. inTable \in BOOLEAN /\ server \in BOOLEAN /\ tame \in BOOLEAN /\ kept \in BOOLEAN
    BY Zenon
  <2>2. Idle \in CallType
    BY DEF Idle, CallType
  <2>3. call \in [Users -> CallType] /\ baseQueue \in Nat /\ calls \in 0..MaxCalls
    BY <2>2, TcpConnectionAssumption
  <2> QED  BY <2>1, <2>3 DEF AppType
<1>6. HistoryType
  BY DEF HistoryType
<1> QED  BY <1>1, <1>2, <1>3, <1>4, <1>5, <1>6 DEF TypeInv

(* What the operations change has its type afterwards. *)
LEMMA WriteResultsType ==
    ASSUME NEW k \in Nat, NEW n \in WriteResults(k)
    PROVE  n = -1 \/ n \in 0..k
<1>1. CASE sock.wrShut \/ sock.peer = "rst"
  BY <1>1 DEF WriteResults
<1>2. CASE ~(sock.wrShut \/ sock.peer = "rst") /\ (sock.full \/ k = 0)
  BY <1>2 DEF WriteResults
<1>3. CASE ~(sock.wrShut \/ sock.peer = "rst") /\ ~(sock.full \/ k = 0)
  BY <1>3 DEF WriteResults
<1> QED  BY <1>1, <1>2, <1>3

LEMMA WrittenType ==
    ASSUME sock \in SockType, NEW data \in Seq(Cells), NEW n, n = -1 \/ n \in 0..Len(data)
    PROVE  /\ Written(data, n) \in SockType
           /\ Written(data, n).wrShut = sock.wrShut
           /\ Written(data, n).wire = sock.wire \o SubSeq(data, 1, n)
<1>1. SubSeq(data, 1, n) \in Seq(Cells)
  <2>1. Len(data) \in Nat /\ \A i \in 1..n : i \in 1..Len(data)
    BY LenProperties
  <2> QED  BY <2>1, ElementOfSeq, SubSeqProperties
<1>2. sock.wire \o SubSeq(data, 1, n) \in Seq(Cells)
  BY <1>1, ConcatProperties DEF SockType
<1> DEFINE w == sock.wire \o SubSeq(data, 1, n)
           f == sock.full \/ n \in 0..(Len(data) - 1)
           e == sock.soErr /\ n >= 0
<1>3. f \in BOOLEAN /\ e \in BOOLEAN
  BY Zenon
<1>4. Written(data, n) = [sock EXCEPT !.wire = w, !.full = f, !.soErr = e]
  BY DEF Written
<1> HIDE DEF w, f, e
<1>5. w \in Seq(Cells)
  BY <1>2 DEF w
<1> QED  BY <1>3, <1>4, <1>5 DEF SockType, w

LEMMA QueueAppends ==
    ASSUME pendingFunctors_ \in Seq(Sendable), NEW fs \in Seq(Sendable), Queue(fs)
    PROVE  pendingFunctors_' \in Seq(Sendable)
  BY ConcatProperties DEF Queue

LEMMA SendInLoopType ==
    ASSUME TypeInv, NEW m \in Msgs, SendInLoop(m)
    PROVE  /\ channel' \in ChannelType /\ outputBuffer_' \in Seq(Cells) /\ sock' \in SockType
           /\ pendingFunctors_' \in Seq(Sendable) /\ accepted' \in Seq(Msgs) /\ lost' \subseteq Msgs
           /\ Holds(sock.wire \o outputBuffer_, accepted) => Holds(sock'.wire \o outputBuffer_', accepted')
<1>1. /\ channel \in ChannelType /\ outputBuffer_ \in Seq(Cells) /\ sock \in SockType
      /\ pendingFunctors_ \in Seq(Sendable) /\ accepted \in Seq(Msgs) /\ lost \subseteq Msgs
  BY DEF TypeInv, ConnType, DataType, QueueType
<1>2. CASE state_ = "kDisconnected" /\ UNCHANGED <<channel, outputBuffer_, sock, pendingFunctors_, accepted, lost>>
  BY <1>1, <1>2
<1>3. CASE lost' = lost \cup {m} /\ UNCHANGED <<channel, outputBuffer_, sock, pendingFunctors_, accepted>>
  BY <1>1, <1>3
<1>4. ASSUME NothingWaits, UNCHANGED lost, NEW n \in WriteResults(MsgLen),
             LET rest == SubSeq(Bytes(m), n + 1, MsgLen)
                 buffered == n >= 0 /\ rest # <<>>
             IN  /\ sock' = Written(Bytes(m), n)
                 /\ outputBuffer_' = IF buffered THEN outputBuffer_ \o rest ELSE outputBuffer_
                 /\ channel' = IF buffered THEN enableWriting(channel) ELSE channel
                 /\ Queue(When(n = MsgLen, "writeCompleteCallback") \o
                          When(buffered /\ CrossesHighWaterMark(Len(outputBuffer_), Len(rest)),
                               "highWaterMarkCallback"))
                 /\ accepted' = IF n >= 0 THEN Append(accepted, m) ELSE accepted
      PROVE  /\ channel' \in ChannelType /\ outputBuffer_' \in Seq(Cells) /\ sock' \in SockType
             /\ pendingFunctors_' \in Seq(Sendable) /\ accepted' \in Seq(Msgs) /\ lost' \subseteq Msgs
             /\ Holds(sock.wire \o outputBuffer_, accepted) => Holds(sock'.wire \o outputBuffer_', accepted')
  <2> DEFINE B == Bytes(m) rest == SubSeq(B, n + 1, MsgLen) buffered == n >= 0 /\ rest # <<>>
             q1 == When(n = MsgLen, "writeCompleteCallback")
             q2 == When(buffered /\ CrossesHighWaterMark(Len(outputBuffer_), Len(rest)), "highWaterMarkCallback")
  <2>1. MsgLen \in Nat \ {0} /\ (n = -1 \/ n \in 0..MsgLen)
    BY <1>4, TcpConnectionAssumption, WriteResultsType
  <2>2. B \in Seq(Cells) /\ Len(B) = MsgLen
    BY BytesFacts
  <2>3. /\ sock' = Written(B, n) /\ accepted' = (IF n >= 0 THEN Append(accepted, m) ELSE accepted)
        /\ outputBuffer_' = IF buffered THEN outputBuffer_ \o rest ELSE outputBuffer_
        /\ channel' = IF buffered THEN enableWriting(channel) ELSE channel
        /\ Queue(q1 \o q2)
    BY <1>4
  <2>4. outputBuffer_ = <<>>
    BY <1>4 DEF NothingWaits
  <2>5. q1 \in Seq(Sendable) /\ q2 \in Seq(Sendable)
    <3>1. (n = MsgLen) \in BOOLEAN /\ (buffered /\ CrossesHighWaterMark(Len(outputBuffer_), Len(rest))) \in BOOLEAN
      BY Zenon
    <3> HIDE DEF buffered
    <3> QED  BY <3>1, FunctorFacts, NamesFacts
  <2> HIDE DEF B, buffered, q1, q2
  <2>6. pendingFunctors_' \in Seq(Sendable)
    BY <1>1, <2>3, <2>5, QueueAppends, ConcatProperties
  <2>7. channel' \in ChannelType
    BY <1>1, <2>3, ChannelOpsType
  <2>8. sock' \in SockType /\ sock'.wire = sock.wire \o SubSeq(B, 1, n)
    BY <1>1, <2>1, <2>2, <2>3, WrittenType
  <2>9. accepted' \in Seq(Msgs)
    BY <1>1, <2>3, AppendProperties
  <2>10. sock.wire \in Seq(Cells) /\ sock.wire \o outputBuffer_ = sock.wire
    BY <1>1, <2>4, ConcatEmptySeq DEF SockType
  <2>11. CASE n = -1
    <3>1. ~buffered /\ accepted' = accepted /\ outputBuffer_' = outputBuffer_
      BY <2>3, <2>11 DEF buffered
    <3>2. SubSeq(B, 1, n) = <<>>
      BY <2>11, SubSeqEmpty
    <3>3. sock'.wire = sock.wire
      BY <2>8, <2>10, <3>2, ConcatEmptySeq
    <3> QED  BY <1>1, <1>4, <2>6, <2>7, <2>8, <2>9, <3>1, <3>3
  <2>12. CASE n \in 0..MsgLen
    <3>1. n >= 0 /\ accepted' = Append(accepted, m)
      BY <2>1, <2>3, <2>12
    <3>2. /\ rest \in Seq(Cells)
          /\ (sock.wire \o SubSeq(B, 1, n)) \o rest = sock.wire \o B
      <4>1. n \in 0..Len(B) /\ rest = SubSeq(B, n + 1, Len(B))
        BY <2>2, <2>12
      <4>2. Moved(Cells, sock.wire, B, n)
        BY <2>2, <2>10, <4>1, StreamMoves
      <4> QED  BY <4>1, <4>2 DEF Moved
    <3>3. outputBuffer_' = rest
      <4>1. <<>> \o rest = rest
        BY <3>2, ConcatEmptySeq
      <4>2. CASE rest = <<>>
        BY <2>3, <2>4, <4>2 DEF buffered
      <4>3. CASE rest # <<>>
        BY <2>3, <2>4, <3>1, <4>1, <4>3 DEF buffered
      <4> QED  BY <4>2, <4>3
    <3>4. sock'.wire \o outputBuffer_' = sock.wire \o B
      BY <2>8, <3>2, <3>3
    <3>5. Holds(sock.wire, accepted) => Holds(sock.wire \o B, Append(accepted, m))
      BY <1>1, <2>10, StreamGrows DEF B
    <3> QED  BY <1>1, <1>4, <2>6, <2>7, <2>8, <2>9, <2>10, <3>1, <3>2, <3>3, <3>4, <3>5
  <2> QED  BY <2>1, <2>11, <2>12
<1> QED  BY <1>2, <1>3, <1>4 DEF SendInLoop

(* A write of handleWrite; what is left stays in the buffer. *)
LEMMA WriteEventType ==
    ASSUME TypeInv, WriteEvent
    PROVE  /\ channel' \in ChannelType /\ outputBuffer_' \in Seq(Cells) /\ sock' \in SockType
           /\ pendingFunctors_' \in Seq(Sendable)
           /\ sock'.wire \o outputBuffer_' = sock.wire \o outputBuffer_
<1>1. /\ channel \in ChannelType /\ outputBuffer_ \in Seq(Cells) /\ sock \in SockType
      /\ pendingFunctors_ \in Seq(Sendable)
  BY DEF TypeInv, ConnType, DataType, QueueType
<1>2. CASE UNCHANGED <<outputBuffer_, channel, pendingFunctors_, sock>>
  BY <1>1, <1>2
<1>3. ASSUME NEW n \in WriteResults(Len(outputBuffer_)),
             LET drained == n = Len(outputBuffer_) /\ WriteReturn(n, Len(outputBuffer_)) > 0
                 after == Written(outputBuffer_, n)
                 ch == disableWriting(channel)
             IN  /\ outputBuffer_' = Unwritten(n)
                 /\ channel' = IF drained THEN ch ELSE channel
                 /\ Queue(When(drained, "writeCompleteCallback"))
                 /\ sock' = IF drained THEN AfterDrain(after, ch) ELSE after
      PROVE  /\ channel' \in ChannelType /\ outputBuffer_' \in Seq(Cells) /\ sock' \in SockType
             /\ pendingFunctors_' \in Seq(Sendable)
             /\ sock'.wire \o outputBuffer_' = sock.wire \o outputBuffer_
  <2> DEFINE B == outputBuffer_
             drained == n = Len(B) /\ WriteReturn(n, Len(B)) > 0
             after == Written(B, n)
             ch == disableWriting(channel)
  <2>1. /\ outputBuffer_' = Unwritten(n) /\ channel' = IF drained THEN ch ELSE channel
        /\ Queue(When(drained, "writeCompleteCallback"))
        /\ sock' = IF drained THEN AfterDrain(after, ch) ELSE after
    BY <1>3
  <2>2. Len(B) \in Nat /\ (n = -1 \/ n \in 0..Len(B))
    BY <1>1, <1>3, LenProperties, WriteResultsType
  <2>3. after \in SockType /\ after.wire = sock.wire \o SubSeq(B, 1, n)
    BY <1>1, <2>2, WrittenType
  <2>4. drained \in BOOLEAN
    BY Zenon
  <2>5. ch \in ChannelType
    BY <1>1, ChannelOpsType
  <2>6. SubSeq(B, 1, 0) = <<>> /\ SubSeq(B, 1, -1) = <<>>
    BY <1>1, SubSeqEmpty
  <2> HIDE DEF drained, after, ch
  <2>7. pendingFunctors_' \in Seq(Sendable)
    <3>1. When(drained, "writeCompleteCallback") \in Seq(Sendable)
      BY <2>4, FunctorFacts, NamesFacts
    <3> QED  BY <1>1, <2>1, <3>1, QueueAppends
  <2>8. AfterDrain(after, ch) \in SockType /\ AfterDrain(after, ch).wire = after.wire
    <3>1. CASE AfterDrain(after, ch) = after
      BY <2>3, <3>1
    <3>2. CASE AfterDrain(after, ch) = [after EXCEPT !.wrShut = TRUE]
      BY <2>3, <3>2 DEF SockType
    <3> QED  BY <3>1, <3>2 DEF AfterDrain, ShutdownInLoop
  <2>9. sock' \in SockType /\ sock'.wire = sock.wire \o SubSeq(B, 1, n)
    BY <2>1, <2>3, <2>8
  <2>10. sock.wire \in Seq(Cells)
    BY <1>1 DEF SockType
  <2>11. CASE n \in {-1, 0}
    <3>1. outputBuffer_' = B
      BY <2>1, <2>11 DEF Unwritten
    <3>2. sock'.wire = sock.wire
      BY <2>6, <2>9, <2>10, <2>11, ConcatEmptySeq
    <3> QED  BY <1>1, <2>1, <2>5, <2>7, <2>9, <3>1, <3>2
  <2>12. CASE n \in 1..Len(B)
    <3>1. n \in 0..Len(B) /\ outputBuffer_' = SubSeq(B, n + 1, Len(B))
      BY <2>1, <2>2, <2>12 DEF Unwritten
    <3>2. Moved(Cells, sock.wire, B, n)
      BY <1>1, <2>10, <3>1, StreamMoves
    <3>3. outputBuffer_' \in Seq(Cells) /\ sock'.wire \o outputBuffer_' = sock.wire \o B
      BY <2>9, <3>1, <3>2 DEF Moved
    <3> QED  BY <1>1, <2>1, <2>5, <2>7, <2>9, <3>3
  <2>13. n \in {-1, 0} \/ n \in 1..Len(B)
    BY <2>2
  <2> QED  BY <2>11, <2>12, <2>13
<1> QED  BY <1>2, <1>3 DEF WriteEvent

LEMMA LogType ==
    ASSUME trace \in Seq({"UP", "DOWN", "REMOVED"}), NEW e \in {"UP", "DOWN", "REMOVED"}, Log(e)
    PROVE  trace' \in Seq({"UP", "DOWN", "REMOVED"})
  BY AppendProperties DEF Log

LEMMA RequireType ==
    ASSUME failed \subseteq Assertions \cup UndefinedBehaviour, NEW h,
           NEW a \in Assertions \cup UndefinedBehaviour, Require(h, a)
    PROVE  failed' \subseteq Assertions \cup UndefinedBehaviour
  BY DEF Require

LEMMA LifeCycleType ==
    ASSUME TypeInv
    PROVE  /\ HandleClose => state_' \in StateE /\ channel' \in ChannelType /\ cb' \in Callbacks /\ HistoryType'
           /\ ConnectEstablished => state_' \in StateE /\ channel' \in ChannelType /\ cb' \in Callbacks /\ HistoryType'
           /\ ConnectDestroyed => /\ state_' \in StateE /\ channel' \in ChannelType /\ cb' \in Callbacks
                                  /\ trace' \in Seq({"UP", "DOWN", "REMOVED"})
           /\ StartReadInLoop \/ StopReadInLoop => channel' \in ChannelType /\ reading_' \in BOOLEAN
<1>1. /\ state_ \in StateE /\ channel \in ChannelType /\ cb \in Callbacks /\ reading_ \in BOOLEAN
      /\ trace \in Seq({"UP", "DOWN", "REMOVED"}) /\ failed \subseteq Assertions \cup UndefinedBehaviour
  BY DEF TypeInv, ConnType, LoopType, HistoryType
<1>2. /\ "handleClose: state" \in Assertions \cup UndefinedBehaviour
      /\ "connectEstablished: state" \in Assertions \cup UndefinedBehaviour
  BY DEF Assertions
<1>3. HandleClose => state_' \in StateE /\ channel' \in ChannelType /\ cb' \in Callbacks /\ HistoryType'
  BY <1>1, <1>2, ChannelOpsType, LogType, RequireType DEF HandleClose, HistoryType, StateE, Callbacks
<1>4. ConnectEstablished => state_' \in StateE /\ channel' \in ChannelType /\ cb' \in Callbacks /\ HistoryType'
  BY <1>1, <1>2, ChannelOpsType, LogType, RequireType DEF ConnectEstablished, HistoryType, StateE, Callbacks
<1>5. ConnectDestroyed => /\ state_' \in StateE /\ channel' \in ChannelType /\ cb' \in Callbacks
                          /\ trace' \in Seq({"UP", "DOWN", "REMOVED"})
  BY <1>1, ChannelOpsType, LogType DEF ConnectDestroyed, StateE, Callbacks
<1>6. StartReadInLoop => channel' \in ChannelType /\ reading_' \in BOOLEAN
  <2>1. StartReadInLoop => reading_' \in BOOLEAN
    BY <1>1, Zenon DEF StartReadInLoop
  <2> QED  BY <1>1, <2>1, ChannelOpsType DEF StartReadInLoop
<1>7. StopReadInLoop => channel' \in ChannelType /\ reading_' \in BOOLEAN
  <2>1. StopReadInLoop => reading_' \in BOOLEAN
    BY <1>1, Zenon DEF StopReadInLoop
  <2> QED  BY <1>1, <2>1, ChannelOpsType DEF StopReadInLoop
<1> QED  BY <1>3, <1>4, <1>5, <1>6, <1>7

(* The messages accepted are what has been written and what waits. *)
StreamInv == Holds(sock.wire \o outputBuffer_, accepted)

(* Steps of the I/O loop that handle events. *)
LEMMA EventType ==
    ASSUME TypeInv, Accept \/ Poll \/ Dispatch \/ CloseEvent \/ ErrorEvent \/ ReadEvent \/ WriteEvent
    PROVE  TypeInv' /\ (StreamInv => StreamInv')
<1> USE DEF TypeInv, ConnType, DataType, QueueType, LoopType, AppType, HistoryType, StreamInv
<1>1. CASE Accept
  <2>1. state_' \in StateE /\ channel' \in ChannelType /\ cb' \in Callbacks /\ HistoryType'
    BY <1>1, LifeCycleType DEF Accept
  <2>2. functors = <<>>
    BY <1>1 DEF Accept, InLoop
  <2> QED  BY <1>1, <2>1, <2>2 DEF Accept, InLoop, batchVars, serverVars, appVars, sendVars
<1>2. CASE Poll
  <2>1. todo' \subseteq {"close", "error", "read", "write"}
    BY <1>2 DEF Poll, Handlers
  <2>2. channel' \in ChannelType
    BY <1>2 DEF Poll, ChannelType
  <2> QED  BY <1>2, <2>1, <2>2 DEF Poll, InLoop, batchVars, serverVars, appVars, sendVars
<1>3. CASE Dispatch
  <2>1. cb' \in Callbacks
    BY <1>3 DEF Dispatch, Callbacks
  <2> QED  BY <1>3, <2>1 DEF Dispatch, InLoop, connVars, batchVars, serverVars, appVars, sendVars
<1>4. CASE CloseEvent
  <2>1. state_' \in StateE /\ channel' \in ChannelType /\ cb' \in Callbacks /\ HistoryType'
    BY <1>4, LifeCycleType DEF CloseEvent
  <2> QED  BY <1>4, <2>1 DEF CloseEvent, Handler, InLoop, batchVars, serverVars, appVars, sendVars
<1>5. CASE ErrorEvent
  <2>1. sock' \in SockType /\ sock'.wire = sock.wire
    BY <1>5 DEF ErrorEvent, SockType
  <2> QED  BY <1>5, <2>1 DEF ErrorEvent, Handler, InLoop, batchVars, serverVars, appVars, sendVars
<1>6. CASE ReadEvent
  <2>1. sock' \in SockType /\ sock'.wire = sock.wire
    <3> DEFINE e == sock.soErr /\ ReadResult # "error"
    <3>1. e \in BOOLEAN
      BY Zenon
    <3>2. sock' = [sock EXCEPT !.unread = FALSE, !.soErr = e]
      BY <1>6 DEF ReadEvent
    <3> HIDE DEF e
    <3> QED  BY <3>1, <3>2 DEF SockType
  <2>2. state_' \in StateE /\ channel' \in ChannelType /\ cb' \in Callbacks /\ HistoryType'
    <3>1. CASE cb' = "message" /\ UNCHANGED <<state_, channel, trace, failed>>
      BY <3>1 DEF Callbacks
    <3>2. CASE HandleClose
      BY <3>2, LifeCycleType
    <3>3. CASE UNCHANGED <<state_, channel, cb, trace, failed>>
      BY <3>3
    <3> QED  BY <1>6, <3>1, <3>2, <3>3 DEF ReadEvent
  <2> QED  BY <1>6, <2>1, <2>2 DEF ReadEvent, Handler, InLoop, batchVars, serverVars, appVars, sendVars
<1>7. CASE WriteEvent
  <2>1. /\ channel' \in ChannelType /\ outputBuffer_' \in Seq(Cells) /\ sock' \in SockType
        /\ pendingFunctors_' \in Seq(Sendable)
        /\ sock'.wire \o outputBuffer_' = sock.wire \o outputBuffer_
    BY <1>7, WriteEventType
  <2>2. UNCHANGED <<state_, cb, trace, failed>>
    BY <1>7 DEF WriteEvent
  <2> QED  BY <1>7, <2>1, <2>2 DEF WriteEvent, Handler, InLoop, batchVars, serverVars, appVars, sendVars
<1> QED  BY <1>1, <1>2, <1>3, <1>4, <1>5, <1>6, <1>7

(* Steps of doPendingFunctors. *)
LEMMA FunctorType ==
    ASSUME TypeInv,
           \/ BeginPending \/ EndPending
           \/ RunConnectEstablished \/ RunConnectDestroyed \/ RunForceCloseInLoop
           \/ RunSendInLoop \/ RunShutdownInLoop \/ RunReadingInLoop \/ RunUserCallback
           \/ RunOnDeadObject
    PROVE  TypeInv' /\ (StreamInv => StreamInv')
<1> USE DEF TypeInv, ConnType, DataType, QueueType, LoopType, AppType, HistoryType, StreamInv
<1>1. Len(functors) \in Nat /\ Len(pendingFunctors_) \in Nat
  BY LenProperties
<1>2. (next <= Len(functors)) => next \in 1..Len(functors) /\ functors[next] \in Sendable
  BY <1>1, ElementOfSeq
<1>3. ASSUME NEW f, RunFunctor(f)
      PROVE  /\ next' \in 1..(Len(functors') + 1) /\ functors' = functors /\ functors' \in Seq(Sendable)
             /\ pc' = pc /\ todo' = todo /\ mode_' = mode_ /\ AppType' /\ unsent' = unsent
             /\ functors[next] \in Sendable /\ functors[next].fn = f
  BY <1>1, <1>2, <1>3 DEF RunFunctor, serverVars, appVars
<1>4. CASE BeginPending
  BY <1>1, <1>4 DEF BeginPending, InLoop, connVars, serverVars, appVars, sendVars
<1>5. CASE EndPending
  BY <1>5 DEF EndPending, InLoop, connVars, serverVars, appVars, sendVars
<1>6. CASE RunConnectEstablished
  <2>1. state_' \in StateE /\ channel' \in ChannelType /\ cb' \in Callbacks /\ HistoryType'
    BY <1>6, LifeCycleType DEF RunConnectEstablished
  <2> QED  BY <1>3, <1>6, <2>1 DEF RunConnectEstablished
<1>7. CASE RunConnectDestroyed
  <2>1. /\ state_' \in StateE /\ channel' \in ChannelType /\ cb' \in Callbacks
        /\ trace' \in Seq({"UP", "DOWN", "REMOVED"})
    BY <1>7, LifeCycleType DEF RunConnectDestroyed
  <2> QED  BY <1>3, <1>7, <2>1 DEF RunConnectDestroyed
<1>8. CASE RunForceCloseInLoop
  <2>1. state_' \in StateE /\ channel' \in ChannelType /\ cb' \in Callbacks /\ HistoryType'
    BY <1>8, LifeCycleType DEF RunForceCloseInLoop
  <2> QED  BY <1>3, <1>8, <2>1 DEF RunForceCloseInLoop
<1>9. CASE RunSendInLoop
  <2>1. functors[next].msg \in Msgs
    BY <1>3, <1>9 DEF RunSendInLoop, Sendable
  <2>2. /\ channel' \in ChannelType /\ outputBuffer_' \in Seq(Cells) /\ sock' \in SockType
        /\ pendingFunctors_' \in Seq(Sendable) /\ accepted' \in Seq(Msgs) /\ lost' \subseteq Msgs
        /\ Holds(sock.wire \o outputBuffer_, accepted) => Holds(sock'.wire \o outputBuffer_', accepted')
    BY <1>9, <2>1, SendInLoopType DEF RunSendInLoop
  <2> QED  BY <1>3, <1>9, <2>2 DEF RunSendInLoop
<1>10. CASE RunShutdownInLoop
  <2>1. sock' \in SockType /\ sock'.wire = sock.wire
    BY <1>10 DEF RunShutdownInLoop, ShutdownInLoop, SockType
  <2> QED  BY <1>3, <1>10, <2>1 DEF RunShutdownInLoop, connVars
<1>11. CASE RunReadingInLoop
  <2>1. channel' \in ChannelType /\ reading_' \in BOOLEAN
    BY <1>11, LifeCycleType DEF RunReadingInLoop
  <2> QED  BY <1>3, <1>11, <2>1 DEF RunReadingInLoop
<1>12. CASE RunUserCallback
  <2>1. PICK f \in {"writeCompleteCallback", "highWaterMarkCallback"} : RunFunctor(f)
    BY <1>12 DEF RunUserCallback
  <2>2. cb' \in Callbacks
    BY <1>3, <1>12, <2>1 DEF RunUserCallback, Callbacks
  <2> QED  BY <1>3, <1>12, <2>1, <2>2 DEF RunUserCallback, connVars
<1>13. CASE RunOnDeadObject
  <2>1. failed' \subseteq Assertions \cup UndefinedBehaviour
    BY <1>13 DEF RunOnDeadObject, Require, UndefinedBehaviour
  <2>2. next' \in 1..(Len(functors') + 1)
    <3>1. next' = next + 1 /\ functors' = functors /\ next <= Len(functors)
      BY <1>13 DEF RunOnDeadObject
    <3> QED  BY <1>1, <1>2, <3>1
  <2> QED  BY <1>13, <2>1, <2>2 DEF RunOnDeadObject, InLoop, connVars, serverVars, appVars, sendVars
<1> QED  BY <1>4, <1>5, <1>6, <1>7, <1>8, <1>9, <1>10, <1>11, <1>12, <1>13

(* A callback returns, and the steps of the base loop. *)
LEMMA BaseType ==
    ASSUME TypeInv, CallbackReturn \/ RunRemoveConnectionInLoop \/ DestroyServer
    PROVE  TypeInv' /\ (StreamInv => StreamInv')
<1> USE DEF TypeInv, ConnType, DataType, QueueType, LoopType, AppType, HistoryType, StreamInv
<1>1. "connectDestroyed" \in FunctorNames /\ <<Functor("connectDestroyed")>> \in Seq(Sendable)
  BY FunctorFacts, NamesFacts
<1>2. {"removeConnection: server is gone", "removeConnectionInLoop: server is gone"}
          \subseteq Assertions \cup UndefinedBehaviour
  BY DEF UndefinedBehaviour
<1>3. RemoveConnectionInLoop =>
          inTable' \in BOOLEAN /\ pendingFunctors_' \in Seq(Sendable) /\ failed' \subseteq Assertions \cup UndefinedBehaviour
  <2>1. RemoveConnectionInLoop => inTable' \in BOOLEAN
    BY Zenon DEF RemoveConnectionInLoop
  <2> QED  BY <1>1, <1>2, <2>1, QueueAppends, RequireType DEF RemoveConnectionInLoop
<1>4. CASE CallbackReturn
  <2>1. channel' \in ChannelType /\ trace' \in Seq({"UP", "DOWN", "REMOVED"})
    BY <1>4, ChannelOpsType, LogType DEF CallbackReturn
  <2>2. /\ inTable' \in BOOLEAN /\ baseQueue' \in Nat /\ pendingFunctors_' \in Seq(Sendable)
        /\ failed' \subseteq Assertions \cup UndefinedBehaviour
    <3>1. CASE UNCHANGED <<inTable, baseQueue, pendingFunctors_, failed>>
      BY <3>1
    <3>2. CASE RemoveConnectionInLoop /\ UNCHANGED baseQueue
      BY <1>3, <3>2
    <3>3. CASE /\ Require(server, "removeConnection: server is gone")
               /\ baseQueue' = baseQueue + 1
               /\ UNCHANGED <<inTable, pendingFunctors_>>
      <4>1. failed' \subseteq Assertions \cup UndefinedBehaviour
        BY <1>2, <3>3, RequireType
      <4>2. inTable' = inTable /\ pendingFunctors_' = pendingFunctors_ /\ baseQueue' = baseQueue + 1
        BY <3>3, Zenon
      <4>3. inTable \in BOOLEAN /\ baseQueue \in Nat /\ pendingFunctors_ \in Seq(Sendable)
        BY Zenon
      <4> HIDE DEF TypeInv, ConnType, DataType, QueueType, LoopType, AppType, HistoryType
      <4> QED  BY <4>1, <4>2, <4>3
    <3> QED  BY <1>4, <3>1, <3>2, <3>3 DEF CallbackReturn, CloseCallback
  <2> QED  BY <1>4, <2>1, <2>2 DEF CallbackReturn, Callbacks, batchVars, appVars, sendVars
<1>5. CASE RunRemoveConnectionInLoop
  BY <1>3, <1>5 DEF RunRemoveConnectionInLoop, connVars, batchVars, appVars, sendVars
<1>6. CASE DestroyServer
  <2>1. inTable' \in BOOLEAN /\ server' \in BOOLEAN
    BY <1>6, Zenon DEF DestroyServer
  <2>2. /\ state_' \in StateE /\ channel' \in ChannelType /\ cb' \in Callbacks
        /\ trace' \in Seq({"UP", "DOWN", "REMOVED"})
    BY <1>6, LifeCycleType DEF DestroyServer
  <2>3. pendingFunctors_' \in Seq(Sendable)
    BY <1>1, <1>6, FunctorFacts, QueueAppends DEF DestroyServer
  <2> QED  BY <1>6, <2>1, <2>2, <2>3 DEF DestroyServer, batchVars, appVars, sendVars
<1> QED  BY <1>4, <1>5, <1>6

(* The application, on the loop's thread and on others. *)
LEMMA HereType ==
    ASSUME TypeInv, HereStep \/ Drop
    PROVE  TypeInv' /\ (StreamInv => StreamInv')
<1> USE DEF TypeInv, ConnType, DataType, QueueType, LoopType, AppType, HistoryType, StreamInv
<1>1. ASSUME NEW op, Here(op)
      PROVE  /\ UNCHANGED <<pc, todo, cb, functors, next, mode_, trace, failed>> /\ AppType' /\ LoopType' /\ HistoryType'
  BY <1>1 DEF Here, batchVars, serverVars, appVars
<1>2. ASSUME NEW m \in Msgs, SendHere(m) PROVE TypeInv' /\ (StreamInv => StreamInv')
  <2>1. /\ channel' \in ChannelType /\ outputBuffer_' \in Seq(Cells) /\ sock' \in SockType
        /\ pendingFunctors_' \in Seq(Sendable) /\ accepted' \in Seq(Msgs) /\ lost' \subseteq Msgs
        /\ Holds(sock.wire \o outputBuffer_, accepted) => Holds(sock'.wire \o outputBuffer_', accepted')
    BY <1>2, SendInLoopType DEF SendHere
  <2>2. PICK op : Here(op)
    BY <1>2 DEF SendHere
  <2>3. unsent' \subseteq Msgs /\ UNCHANGED <<state_, reading_>>
    BY <1>2 DEF SendHere
  <2> QED  BY <1>1, <2>1, <2>2, <2>3
<1>3. CASE ShutdownHere
  <2>1. sock' \in SockType /\ sock'.wire = sock.wire
    BY <1>3 DEF ShutdownHere, ShutdownInLoop, SockType
  <2> QED  BY <1>1, <1>3, <2>1 DEF ShutdownHere, StateE, sendVars
<1>4. CASE ForceCloseHere
  <2>1. <<Functor("forceCloseInLoop")>> \in Seq(Sendable)
    BY FunctorFacts, NamesFacts
  <2>2. pendingFunctors_' \in Seq(Sendable)
    BY <1>4, <2>1, QueueAppends DEF ForceCloseHere
  <2> QED  BY <1>1, <1>4, <2>2 DEF ForceCloseHere, StateE, sendVars
<1>5. CASE ReadingHere
  <2>1. channel' \in ChannelType /\ reading_' \in BOOLEAN
    BY <1>5, LifeCycleType DEF ReadingHere
  <2>2. PICK op : Here(op)
    BY <1>5 DEF ReadingHere
  <2> QED  BY <1>1, <1>5, <2>1, <2>2 DEF ReadingHere, sendVars
<1>6. CASE Keep
  <2>1. kept' \in BOOLEAN
    BY <1>6, Zenon DEF Keep
  <2> QED  BY <1>6, <2>1 DEF Keep, connVars, batchVars, serverVars, sendVars
<1>7. CASE Drop
  <2>1. kept' \in BOOLEAN /\ tame' \in BOOLEAN
    BY <1>7, Zenon DEF Drop
  <2> QED  BY <1>7, <2>1 DEF Drop, connVars, batchVars, serverVars, sendVars
<1> QED  BY <1>2, <1>3, <1>4, <1>5, <1>6, <1>7 DEF HereStep

LEMMA UserType ==
    ASSUME TypeInv, NEW u \in Users, UserStep(u)
    PROVE  TypeInv' /\ (StreamInv => StreamInv')
<1> USE DEF TypeInv, ConnType, DataType, QueueType, LoopType, AppType, HistoryType, StreamInv
<1>1. call[u] \in CallType /\ Idle \in CallType
  BY DEF Idle, CallType
<1>2. ASSUME NEW op, NEW at, NEW m, Enter(u, op, at, m), [op |-> at, msg |-> m] \in CallType, unsent' \subseteq Msgs
      PROVE  TypeInv' /\ (StreamInv => StreamInv')
  <2>1. tame' \in BOOLEAN
    BY <1>2, Zenon DEF Enter
  <2>2. call' \in [Users -> CallType] /\ calls' \in 0..MaxCalls
    BY <1>2, TcpConnectionAssumption DEF Enter
  <2> QED  BY <1>2, <2>1, <2>2 DEF Enter, UserFrame, batchVars, serverVars
<1>3. ASSUME NEW m \in Msgs, CallSend(u, m) PROVE TypeInv' /\ (StreamInv => StreamInv')
  <2>1. [op |-> "sendInLoop", msg |-> m] \in CallType
    BY DEF CallType, FunctorNames, RawFunctors
  <2> QED  BY <1>2, <1>3, <2>1 DEF CallSend
<1>4. CASE CallShutdown(u) \/ CallForceClose(u) \/ CallReading(u)
  <2>1. \A op \in {"shutdown", "forceClose", "startReadInLoop", "stopReadInLoop"} : [op |-> op, msg |-> None] \in CallType
    BY DEF CallType, FunctorNames, RawFunctors
  <2> QED  BY <1>2, <1>4, <2>1 DEF CallShutdown, CallForceClose, CallReading
<1>5. CASE SetDisconnecting(u)
  <2>1. call' \in [Users -> CallType]
    <3>1. [call[u] EXCEPT !.op = IF call[u].op = "shutdown" THEN "shutdownInLoop" ELSE "forceCloseInLoop"] \in CallType
      BY <1>1 DEF CallType, FunctorNames, RawFunctors, SharedFunctors
    <3> QED  BY <1>5, <3>1 DEF SetDisconnecting
  <2> QED  BY <1>5, <2>1 DEF SetDisconnecting, UserFrame, StateE, batchVars, serverVars
<1>6. CASE QueueFunctor(u)
  <2>1. [fn |-> call[u].op, msg |-> call[u].msg] \in Sendable
    BY <1>1, <1>6 DEF QueueFunctor, Sendable, CallType, FunctorNames
  <2>2. pendingFunctors_' \in Seq(Sendable)
    <3> DEFINE f == [fn |-> call[u].op, msg |-> call[u].msg]
    <3>1. f \in Sendable /\ Queue(<<f>>)
      BY <1>6, <2>1 DEF QueueFunctor
    <3> HIDE DEF f
    <3>2. <<f>> \in Seq(Sendable)
      BY <3>1
    <3> QED  BY <3>1, <3>2, QueueAppends
  <2>3. call' \in [Users -> CallType]
    BY <1>1, <1>6 DEF QueueFunctor
  <2> QED  BY <1>6, <2>2, <2>3 DEF QueueFunctor, UserFrame, batchVars, serverVars
<1> QED  BY <1>3, <1>4, <1>5, <1>6 DEF UserStep

(* The peer. *)
LEMMA PeerType ==
    ASSUME TypeInv, PeerSends \/ PeerDrains \/ PeerCloses \/ PeerResets
    PROVE  TypeInv' /\ (StreamInv => StreamInv')
<1> USE DEF TypeInv, ConnType, DataType, QueueType, LoopType, AppType, HistoryType, StreamInv
<1>1. ASSUME NEW s \in SockType, s.wire = sock.wire, PeerStep(s) PROVE TypeInv' /\ (StreamInv => StreamInv')
  <2>1. channel' \in ChannelType
    BY <1>1, TouchFacts DEF PeerStep
  <2> QED  BY <1>1, <2>1 DEF PeerStep, batchVars, serverVars, appVars, sendVars
<1>2. \A s \in {[sock EXCEPT !.unread = TRUE], [sock EXCEPT !.full = FALSE], [sock EXCEPT !.peer = "fin"],
                [sock EXCEPT !.peer = "rst", !.soErr = TRUE]} : s \in SockType /\ s.wire = sock.wire
  BY DEF SockType
<1> QED  BY <1>1, <1>2 DEF PeerSends, PeerDrains, PeerCloses, PeerResets

LEMMA TypeStep ==
    ASSUME TypeInv, [Next]_vars
    PROVE  TypeInv' /\ (StreamInv => StreamInv')
<1>1. CASE UNCHANGED vars
  BY <1>1 DEF vars, connVars, batchVars, serverVars, appVars, sendVars, TypeInv, ConnType, DataType, QueueType, LoopType,
     AppType, HistoryType, StreamInv
<1>2. CASE LoopStep
  BY <1>2, EventType, FunctorType, BaseType DEF LoopStep
<1> QED  BY <1>1, <1>2, BaseType, HereType, UserType, PeerType DEF Next

(* The variables keep their types, and the phases of the loop go with what *)
(* it has left to do.                                                      *)
THEOREM TypeCorrect == Spec => []TypeOK
<1>1. Spec => []TypeInv
  BY TypeInit, TypeStep, PTL DEF Spec
<1> QED  BY <1>1, TypesAgree, PTL

(* The bytes on the wire and in outputBuffer_ are the accepted messages,   *)
(* whole and in order, whatever the application, the peer and the server   *)
(* do: sendInLoop writes directly only when nothing waits.                 *)
THEOREM StreamIsWhole == Spec => []StreamIntegrity
<1>1. Init => TypeInv /\ StreamInv
  <2> SUFFICES ASSUME Init PROVE StreamInv
    BY TypeInit
  <2>1. sock.wire = <<>> /\ outputBuffer_ = <<>> /\ accepted = <<>>
    BY DEF Init
  <2> QED  BY <2>1, TcpConnectionAssumption DEF StreamInv, Holds
<1>2. TypeInv /\ StreamInv /\ [Next]_vars => (TypeInv /\ StreamInv)'
  BY TypeStep
<1>3. TypeInv /\ StreamInv => StreamIntegrity
  <2> SUFFICES ASSUME TypeInv, StreamInv PROVE StreamIntegrity
    OBVIOUS
  <2> DEFINE s == sock.wire \o outputBuffer_
  <2>1. s \in Seq(Cells)
    BY ConcatProperties DEF TypeInv, DataType, SockType
  <2>2. DOMAIN s = 1..Len(s)
    BY <2>1, LenProperties
  <2> QED  BY <2>2 DEF StreamInv, Holds, StreamIntegrity
<1> QED  BY <1>1, <1>2, <1>3, PTL DEF Spec

-----------------------------------------------------------------------------
(* The life of the connection.                                             *)

(* The application threads only send, through a pointer that is kept, and  *)
(* a server that is destructed shares the loop of the connection.          *)
Orderly == tame /\ (server \/ OneLoop)

(* An application that calls stopRead() in its callbacks does not call     *)
(* forceClose() there, and the loop of the connection is the base loop.    *)
StopsSafely == \A m \in Modes : "stopRead" \in Ops[m] => OneLoop /\ "forceClose" \notin Ops[m]

Up == state_ \in {"kConnected", "kDisconnecting"}

(* The poller has forgotten the channel, which it once had. *)
Removed == ~channel.known /\ channel.index # "kNew"

(* Is a functor in the queue; in the batch; in the batch and not yet run? *)
Pend(f) == \E i \in 1..Len(pendingFunctors_) : pendingFunctors_[i].fn = f
Batch(f) == \E i \in 1..Len(functors) : functors[i].fn = f
Left(f) == \E i \in next..Len(functors) : functors[i].fn = f

Awaited(f) == Pend(f) \/ Left(f)

Single(f) ==
    /\ \A i, j \in 1..Len(pendingFunctors_) : pendingFunctors_[i].fn = f /\ pendingFunctors_[j].fn = f => i = j
    /\ \A i, j \in next..Len(functors) : functors[i].fn = f /\ functors[j].fn = f => i = j
    /\ ~(Pend(f) /\ Left(f))

(* Before connectEstablished there is nothing else. *)
StartInv ==
    /\ pc = "accept" => state_ = "kConnecting"
    /\ channel.index = "kNew" <=> state_ = "kConnecting"
    /\ state_ = "kConnecting" =>
          /\ pc = "accept" <=> OneLoop
          /\ server /\ inTable /\ baseQueue = 0 /\ ~kept /\ cb = "none" /\ todo = {}
          /\ channel.events = {} /\ ~channel.known
          /\ outputBuffer_ = <<>> /\ ~sock.wrShut
          /\ \/ pc = "accept" /\ functors = <<>> /\ pendingFunctors_ = <<>>
             \/ pc \notin {"accept", "functors"} /\ functors = <<>> /\ pendingFunctors_ = <<Functor("connectEstablished")>>
             \/ pc = "functors" /\ functors = <<Functor("connectEstablished")>> /\ next = 1 /\ pendingFunctors_ = <<>>
    /\ state_ # "kConnecting" => ~Awaited("connectEstablished")

(* The removal that follows handleClose, or that ~TcpServer is in the      *)
(* middle of, comes before the loop polls again.                           *)
Closing ==
    /\ OneLoop
    /\ \/ cb = "destroyed"
       \/ pc = "event" /\ (cb = "down" \/ Pend("connectDestroyed"))
       \/ pc = "functors" /\ Left("connectDestroyed")

(* The channel goes with the state, as long as the poller knows it: an     *)
(* interest set that stopRead has emptied takes it out of epoll.  When     *)
(* handleClose then empties it again, it is back in epoll (EpollPoller.cc, *)
(* line 80), but only while the connection is being removed.               *)
ChannelInv ==
    /\ state_ = "kConnected" => channel.known
    /\ Up /\ channel.known =>
          /\ channel.index = "kAdded" <=> channel.events # {}
          /\ reading_ => "IN" \in channel.events
          /\ outputBuffer_ # <<>> => "OUT" \in channel.events
          /\ ~isET /\ "OUT" \in channel.events => outputBuffer_ # <<>>
    /\ state_ = "kDisconnected" /\ channel.known => channel.events = {} /\ (channel.index = "kDeleted" \/ Closing)
    /\ ~reading_ => "stopRead" \in Ops[mode_]
    /\ sock.wrShut => outputBuffer_ = <<>>

(* Handlers are called for a channel that is registered; the two that may  *)
(* close the connection exclude each other.                                *)
HandlersInv ==
    /\ todo # {} => channel.known
    /\ todo \cap {"close", "read"} # {} => Up
    /\ ~({"close", "read"} \subseteq todo)
    /\ cb = "message" => Up /\ channel.known
    /\ pc = "poll" => cb \in {"none", "destroyed"}

(* The way to connectDestroyed: the callback of handleClose, the base      *)
(* loop's queue, the functor, the removal.                                 *)
EndInv ==
    /\ inTable => server /\ ~Removed /\ ~Awaited("connectDestroyed") /\ cb # "destroyed"
    /\ server /\ ~inTable => state_ = "kDisconnected" /\ cb # "down" /\ baseQueue = 0
    /\ cb = "down" \/ baseQueue > 0 => state_ = "kDisconnected"
    /\ baseQueue \in {0, 1} /\ (cb = "down" \/ OneLoop => baseQueue = 0)
    /\ cb = "destroyed" => state_ = "kDisconnected" /\ ~server /\ channel.known /\ todo = {} /\ ~Awaited("connectDestroyed")
    /\ Awaited("connectDestroyed") => state_ = "kDisconnected" /\ (~Undefined => channel.known)
    /\ ~Undefined => Single("connectDestroyed")
    /\ channel.known => inTable \/ Awaited("connectDestroyed") \/ cb = "destroyed"
    /\ cb = "down" /\ channel.known => inTable

(* A channel that was removed: if the connection was half closed, only     *)
(* forceCloseInLoop still touches it.                                      *)
Forced == (pc # "functors" /\ Pend("forceCloseInLoop")) \/ (pc = "functors" /\ Left("forceCloseInLoop"))

HalfClosed ==
    state_ = "kDisconnecting" =>
       sock.wrShut \/ isWriting(channel) \/ Forced \/ (~Removed /\ Awaited("forceCloseInLoop"))

RemovedInv ==
    /\ HalfClosed
    /\ Removed /\ state_ = "kDisconnecting" /\ channel.index # "kDeleted" => Forced /\ pc # "poll"
    /\ Removed /\ state_ = "kDisconnected" /\ channel.index # "kDeleted" =>
          Batch("forceCloseInLoop") /\ pc = "functors" /\ (cb = "down" \/ Undefined)

(* What may fail: only what needs the server, when it is gone. *)
FailedInv ==
    /\ failed \subseteq {"removeConnection: server is gone", "removeConnectionInLoop: server is gone"}
    /\ failed # {} => ~server
    /\ server => channel.failed = {}

(* A functor that binds the raw this is sendInLoop, and the pointer is     *)
(* kept; forceCloseInLoop comes from a callback.                           *)
AppInv ==
    /\ \A u \in Users : call[u].op \in {"idle", "sendInLoop"} /\ (call[u].op # "idle" => kept)
    /\ \A f \in RawFunctors : Pend(f) \/ Batch(f) => f = "sendInLoop" /\ kept /\ Users # {}
    /\ Pend("forceCloseInLoop") \/ Batch("forceCloseInLoop") => "forceClose" \in Ops[mode_]

TraceInv ==
    /\ state_ = "kConnecting" => trace = <<>>
    /\ Up => trace = IF channel.known THEN <<"UP">> ELSE <<"UP", "REMOVED">>
    /\ state_ = "kDisconnected" =>
          \/ channel.known /\ trace = <<"UP", "DOWN">>
          \/ ~channel.known /\ trace = <<"UP", "DOWN", "REMOVED">>
          \/ ~channel.known /\ trace = <<"UP", "REMOVED", "DOWN">> /\ ~server /\ (cb = "down" \/ Undefined)

LifeInv == StartInv /\ ChannelInv /\ HandlersInv /\ EndInv /\ RemovedInv /\ FailedInv /\ AppInv

(* What the queue and the batch hold after each way of changing them. *)
LEMMA QueueSame ==
    ASSUME UNCHANGED <<pendingFunctors_, functors, next>>
    PROVE  \A f : /\ (Pend(f)' <=> Pend(f)) /\ (Batch(f)' <=> Batch(f)) /\ (Left(f)' <=> Left(f))
                  /\ (Awaited(f)' <=> Awaited(f)) /\ (Single(f)' <=> Single(f))
  BY DEF Pend, Batch, Left, Awaited, Single

(* Functors other than f are queued, and perhaps the next one is run. *)
LEMMA QueueOther ==
    ASSUME QueueType, NEW fs \in Seq(Sendable), Queue(fs), UNCHANGED functors,
           next' = next \/ (next <= Len(functors) /\ next' = next + 1),
           NEW f, \A i \in 1..Len(fs) : fs[i].fn # f
    PROVE  /\ (Pend(f)' <=> Pend(f)) /\ (Batch(f)' <=> Batch(f)) /\ (Left(f)' => Left(f))
           /\ (Awaited(f)' => Awaited(f)) /\ (Single(f) => Single(f)')
           /\ next' = next \/ functors[next].fn # f => (Left(f)' <=> Left(f)) /\ (Awaited(f)' <=> Awaited(f))
<1> DEFINE p == pendingFunctors_ N == Len(p) K == Len(fs)
<1>1. p \in Seq(Sendable) /\ N \in Nat /\ K \in Nat
  BY LenProperties DEF QueueType
<1>2. /\ Len(p') = N + K
      /\ \A i \in 1..(N + K) : p'[i] = IF i <= N THEN p[i] ELSE fs[i - N]
  BY <1>1, ConcatProperties DEF Queue
<1>3. \A i \in 1..(N + K) : p'[i].fn = f => i \in 1..N /\ p[i].fn = f
  <2> SUFFICES ASSUME NEW i \in 1..(N + K), p'[i].fn = f PROVE i \in 1..N /\ p[i].fn = f
    OBVIOUS
  <2>1. CASE i <= N
    BY <1>1, <1>2, <2>1
  <2>2. CASE ~(i <= N)
    <3>1. i - N \in 1..K
      BY <1>1, <2>2
    <3> QED  BY <1>2, <2>2, <3>1
  <2> QED  BY <2>1, <2>2
<1>4. \A i \in 1..N : i \in 1..(N + K) /\ p'[i] = p[i]
  BY <1>1, <1>2
<1>5. Pend(f)' <=> Pend(f)
  BY <1>2, <1>3, <1>4 DEF Pend
<1>6. Len(functors) \in Nat /\ next \in 1..(Len(functors) + 1)
  BY LenProperties DEF QueueType
<1>7. /\ \A i \in next'..Len(functors) : i \in next..Len(functors)
      /\ \A i \in next..Len(functors) : (next' # next /\ i = next) \/ i \in next'..Len(functors)
  BY <1>6
<1>8. /\ (Batch(f)' <=> Batch(f)) /\ (Left(f)' => Left(f))
      /\ next' = next \/ functors[next].fn # f => (Left(f)' <=> Left(f))
  BY <1>7 DEF Batch, Left
<1>9. ASSUME Single(f) PROVE Single(f)'
  <2>1. \A i, j \in 1..Len(p') : p'[i].fn = f /\ p'[j].fn = f => i = j
    BY <1>2, <1>3, <1>9 DEF Single
  <2>2. \A i, j \in next'..Len(functors') : functors'[i].fn = f /\ functors'[j].fn = f => i = j
    BY <1>7, <1>9 DEF Single
  <2> QED  BY <1>5, <1>8, <1>9, <2>1, <2>2 DEF Single
<1> QED  BY <1>5, <1>8, <1>9 DEF Awaited

LEMMA QueueOne ==
    ASSUME QueueType, NEW g \in Sendable, Queue(<<g>>), UNCHANGED <<functors, next>>
    PROVE  /\ Pend(g.fn)' /\ (~Awaited(g.fn) => Single(g.fn)')
           /\ \A f : f # g.fn => /\ (Pend(f)' <=> Pend(f)) /\ (Batch(f)' <=> Batch(f)) /\ (Left(f)' <=> Left(f))
                                 /\ (Awaited(f)' <=> Awaited(f)) /\ (Single(f) => Single(f)')
<1> DEFINE p == pendingFunctors_ N == Len(p)
<1>1. p \in Seq(Sendable) /\ N \in Nat /\ <<g>> \in Seq(Sendable) /\ Len(<<g>>) = 1 /\ <<g>>[1] = g
  BY LenProperties DEF QueueType
<1>2. /\ Len(p') = N + 1 /\ p'[N + 1] = g
      /\ \A i \in 1..N : p'[i] = p[i]
  <2>1. p' = Append(p, g)
    BY <1>1 DEF Queue
  <2> QED  BY <1>1, <2>1, AppendProperties
<1>3. Pend(g.fn)'
  BY <1>1, <1>2 DEF Pend
<1>4. ASSUME ~Awaited(g.fn) PROVE Single(g.fn)'
  <2>1. \A i \in 1..(N + 1) : p'[i].fn = g.fn => i = N + 1
    BY <1>1, <1>2, <1>4 DEF Awaited, Pend
  <2>2. \A i \in next..Len(functors) : functors[i].fn # g.fn
    BY <1>4 DEF Awaited, Left
  <2>3. \A i, j \in 1..Len(p') : p'[i].fn = g.fn /\ p'[j].fn = g.fn => i = j
    BY <1>2, <2>1
  <2> QED  BY <2>2, <2>3 DEF Single, Left
<1>5. ASSUME NEW f, f # g.fn
      PROVE  /\ (Pend(f)' <=> Pend(f)) /\ (Batch(f)' <=> Batch(f)) /\ (Left(f)' <=> Left(f))
             /\ (Awaited(f)' <=> Awaited(f)) /\ (Single(f) => Single(f)')
  <2>1. \A i \in 1..Len(<<g>>) : <<g>>[i].fn # f
    BY <1>1, <1>5
  <2> QED  BY <1>1, <2>1, QueueOther
<1> QED  BY <1>3, <1>4, <1>5

(* The queue becomes the batch. *)
LEMMA QueueBegins ==
    ASSUME QueueType, pc # "functors", functors' = pendingFunctors_, next' = 1, pendingFunctors_' = <<>>
    PROVE  \A f : /\ ~Pend(f)' /\ (Batch(f)' <=> Pend(f)) /\ (Left(f)' <=> Pend(f)) /\ ~Left(f)
                  /\ (Awaited(f)' <=> Awaited(f)) /\ (Single(f) => Single(f)')
<1>1. functors = <<>> /\ Len(functors) = 0 /\ next = 1
  BY DEF QueueType
<1>2. \A f : ~Pend(f)' /\ (Batch(f)' <=> Pend(f)) /\ (Left(f)' <=> Pend(f)) /\ ~Left(f)
  BY <1>1 DEF Pend, Batch, Left
<1> QED  BY <1>1, <1>2 DEF Awaited, Single

LEMMA QueueEnds ==
    ASSUME QueueType, next > Len(functors), functors' = <<>>, next' = 1, UNCHANGED pendingFunctors_
    PROVE  \A f : /\ (Pend(f)' <=> Pend(f)) /\ ~Batch(f)' /\ ~Left(f)' /\ ~Left(f)
                  /\ (Awaited(f)' <=> Awaited(f)) /\ (Single(f) => Single(f)')
<1>1. Len(functors) \in Nat /\ next \in Nat
  BY LenProperties DEF QueueType
<1>2. \A f : (Pend(f)' <=> Pend(f)) /\ ~Batch(f)' /\ ~Left(f)' /\ ~Left(f)
  BY <1>1 DEF Pend, Batch, Left
<1>3. \A f : Awaited(f)' <=> Awaited(f)
  BY <1>2 DEF Awaited
<1>4. \A f : Single(f) => Single(f)'
  BY <1>2 DEF Single
<1> QED  BY <1>2, <1>3, <1>4

(* The next functor of the batch is taken. *)
LEMMA QueueRuns ==
    ASSUME QueueType, next <= Len(functors), next' = next + 1, UNCHANGED <<pendingFunctors_, functors>>
    PROVE  /\ functors[next] \in Sendable /\ Left(functors[next].fn) /\ Batch(functors[next].fn)
           /\ \A f : f = functors[next].fn /\ Single(f) => ~Awaited(f)'
           /\ \A f : /\ (Pend(f)' <=> Pend(f)) /\ (Batch(f)' <=> Batch(f)) /\ (Left(f)' => Left(f))
                     /\ (Awaited(f)' => Awaited(f)) /\ (Single(f) => Single(f)')
                     /\ f # functors[next].fn => (Left(f)' <=> Left(f)) /\ (Awaited(f)' <=> Awaited(f))
<1>1. Len(functors) \in Nat /\ next \in 1..Len(functors)
  BY LenProperties DEF QueueType
<1>2. \A i \in (next + 1)..Len(functors) : i \in next..Len(functors) /\ i # next
  BY <1>1
<1>3. \A i \in next..Len(functors) : i = next \/ i \in (next + 1)..Len(functors)
  BY <1>1
<1>4. functors[next] \in Sendable /\ Left(functors[next].fn) /\ Batch(functors[next].fn)
  BY <1>1, ElementOfSeq DEF QueueType, Left, Batch
<1>5. ASSUME NEW f
      PROVE  /\ (Pend(f)' <=> Pend(f)) /\ (Batch(f)' <=> Batch(f)) /\ (Left(f)' => Left(f))
             /\ f # functors[next].fn => (Left(f)' <=> Left(f))
  BY <1>2, <1>3 DEF Pend, Batch, Left
<1>6. ASSUME NEW f, Single(f) PROVE Single(f)'
  BY <1>2, <1>5, <1>6 DEF Single
<1>7. ASSUME NEW f, f = functors[next].fn, Single(f) PROVE ~Awaited(f)'
  <2>1. ~Pend(f)
    BY <1>4, <1>7 DEF Single
  <2>2. \A i \in (next + 1)..Len(functors) : functors[i].fn # f
    BY <1>1, <1>2, <1>7 DEF Single
  <2> QED  BY <2>1, <2>2 DEF Awaited, Pend, Left
<1> QED  BY <1>4, <1>5, <1>6, <1>7 DEF Awaited

(* isWriting in terms of the interest set, in either mode. *)
LEMMA WritingMeans ==
    /\ isWriting(channel) <=> "OUT" \in channel.events \/ (mode_ = "ET" /\ "ET" \in channel.events)
    /\ isWriting(channel)' <=> "OUT" \in channel'.events \/ (mode_' = "ET" /\ "ET" \in channel'.events)
  BY DEF isWriting, kWriteEvent, ModeFlag, isET

(* The invariant, where it says something. *)
Live == TypeInv /\ Orderly /\ LifeInv

SameChannel ==
    /\ channel'.events = channel.events /\ channel'.index = channel.index
    /\ channel'.known = channel.known /\ channel'.failed = channel.failed

(* Steps that leave alone everything the life of the connection is about. *)
LEMMA QuietLife ==
    ASSUME Live, SameChannel,
           UNCHANGED <<state_, reading_, outputBuffer_, pc, cb, pendingFunctors_, functors, next, mode_,
                       inTable, baseQueue, server, failed>>,
           UNCHANGED <<kept, call>>, sock'.wrShut = sock.wrShut, todo' \subseteq todo
    PROVE  LifeInv'
<1> USE DEF Live, LifeInv, SameChannel
<1>1. \A f : /\ (Pend(f)' <=> Pend(f)) /\ (Batch(f)' <=> Batch(f)) /\ (Left(f)' <=> Left(f))
             /\ (Awaited(f)' <=> Awaited(f)) /\ (Single(f)' <=> Single(f))
  BY QueueSame
<1>2. (Up' <=> Up) /\ (Removed' <=> Removed) /\ (Undefined' <=> Undefined)
  BY DEF Up, Removed, Undefined
<1>3. StartInv'
  BY <1>1 DEF StartInv, Functor
<1>4. ChannelInv'
  BY <1>1, <1>2 DEF ChannelInv, Closing, isET
<1>5. HandlersInv'
  BY <1>2 DEF HandlersInv
<1>6. EndInv'
  BY <1>1, <1>2 DEF EndInv
<1>7. RemovedInv'
  BY <1>1, <1>2, WritingMeans DEF RemovedInv, HalfClosed, Forced
<1>8. FailedInv'
  BY DEF FailedInv
<1>9. AppInv'
  BY <1>1 DEF AppInv
<1> QED  BY <1>3, <1>4, <1>5, <1>6, <1>7, <1>8, <1>9

LEMMA PeerLife ==
    ASSUME Live, PeerSends \/ PeerDrains \/ PeerCloses \/ PeerResets
    PROVE  LifeInv'
<1>1. channel \in ChannelType /\ sock \in SockType
  BY DEF Live, TypeInv, ConnType, DataType
<1>2. ASSUME NEW s, s.wrShut = sock.wrShut, PeerStep(s) PROVE LifeInv'
  <2>1. SameChannel
    BY <1>1, <1>2, TouchFacts DEF PeerStep, SameChannel
  <2> QED  BY <1>2, <2>1, QuietLife DEF PeerStep, batchVars, serverVars, appVars
<1>3. \A s \in {[sock EXCEPT !.unread = TRUE], [sock EXCEPT !.full = FALSE], [sock EXCEPT !.peer = "fin"],
                [sock EXCEPT !.peer = "rst", !.soErr = TRUE]} : s.wrShut = sock.wrShut
  BY <1>1 DEF SockType
<1> QED  BY <1>2, <1>3 DEF PeerSends, PeerDrains, PeerCloses, PeerResets

(* handleClose, from an event or from forceCloseInLoop.  Only the latter   *)
(* meets a channel that the poller has forgotten, and only the former one  *)
(* that stopRead has taken out of epoll.                                   *)
LEMMA HandleCloseLife ==
    ASSUME StopsSafely, Live, TypeInv', Up, cb = "none", HandleClose,
           UNCHANGED <<reading_, outputBuffer_, pc, mode_, inTable, baseQueue, server, kept, call>>,
           sock'.wrShut = sock.wrShut, todo' \subseteq todo, todo' \cap {"close", "read"} = {},
           (channel.known /\ pc = "event") \/ (pc = "functors" /\ Batch("forceCloseInLoop")),
           \A f : /\ (Pend(f)' <=> Pend(f)) /\ (Batch(f)' <=> Batch(f)) /\ (Awaited(f)' => Awaited(f))
                  /\ (Single(f) => Single(f)')
    PROVE  LifeInv'
<1> USE DEF Live, LifeInv
<1>1. channel \in ChannelType /\ disableAll(channel) = Update(channel, {}) /\ mode_ \in Modes
  BY ChannelOps DEF TypeInv, ConnType
<1>2. /\ state_' = "kDisconnected" /\ channel' = Update(channel, {}) /\ cb' = "down" /\ failed' = failed
  BY <1>1 DEF HandleClose, Require, Up
<1>3. /\ channel'.events = {}
      /\ channel'.index = IF channel.index = "kAdded" THEN "kDeleted" ELSE "kAdded"
      /\ channel'.known <=> channel.known \/ channel.index = "kNew"
      /\ channel.known /\ channel.index # "kNew" => channel'.failed = channel.failed
  <2>1. {} \in SUBSET Flags
    OBVIOUS
  <2>2. channel.index \in {"kNew", "kAdded", "kDeleted"}
    BY <1>1 DEF ChannelType
  <2> QED  BY <1>1, <1>2, <2>1, <2>2, UpdateFacts
<1>4. state_ # "kConnecting" /\ channel.index # "kNew" /\ (channel'.known <=> channel.known)
  BY <1>3 DEF StartInv, Up
<1>5. /\ channel.known => inTable /\ server
      /\ ~channel.known => ~server
      /\ baseQueue = 0 /\ ~Awaited("connectDestroyed")
  BY <1>4 DEF ChannelInv, EndInv, Up, Removed
<1>6. (Undefined' <=> Undefined) /\ ~Up' /\ (Removed' <=> Removed)
  BY <1>2, <1>4, <1>3 DEF Up, Removed, Undefined
<1>7. StartInv'
  BY <1>2, <1>3, <1>4 DEF StartInv
<1>8. ChannelInv'
  <2>1. channel.known /\ channel.index # "kAdded" => Closing'
    <3> SUFFICES ASSUME channel.known, channel.index # "kAdded" PROVE Closing'
      OBVIOUS
    <3>1. "stopRead" \in Ops[mode_]
      BY DEF ChannelInv
    <3>2. OneLoop /\ "forceClose" \notin Ops[mode_]
      BY <1>1, <3>1 DEF StopsSafely
    <3>3. pc = "event"
      BY <3>2 DEF AppInv
    <3> QED  BY <1>2, <3>2, <3>3 DEF Closing
  <2> QED  BY <1>2, <1>3, <1>4, <1>6, <2>1 DEF ChannelInv
<1>9. HandlersInv'
  BY <1>2, <1>4, <1>6 DEF HandlersInv
<1>10. EndInv'
  BY <1>2, <1>4, <1>5, <1>6 DEF EndInv
<1>11. RemovedInv'
  BY <1>2, <1>4, <1>6 DEF RemovedInv, HalfClosed, Removed
<1>12. FailedInv'
  BY <1>2, <1>3, <1>4, <1>5 DEF FailedInv
<1>13. AppInv'
  BY DEF AppInv
<1> QED  BY <1>7, <1>8, <1>9, <1>10, <1>11, <1>12, <1>13

(* connectEstablished, called at once or as the only functor. *)
LEMMA EstablishedLife ==
    ASSUME Live, TypeInv', state_ = "kConnecting", ConnectEstablished,
           UNCHANGED <<reading_, outputBuffer_, mode_, inTable, baseQueue, server, kept, call, todo>>,
           sock'.wrShut = sock.wrShut, pc' \notin {"accept", "poll"},
           \A f : ~Pend(f)' /\ ~Left(f)', \A f : Batch(f)' => f = "connectEstablished"
    PROVE  LifeInv'
<1> USE DEF Live, LifeInv
<1> DEFINE ev == channel.events \cup kReadEvent
<1>1. channel \in ChannelType /\ enableReading(channel) = Update(channel, ev) /\ ev \in SUBSET Flags
  BY ChannelOps DEF TypeInv, ConnType
<1>2. /\ server /\ inTable /\ baseQueue = 0 /\ ~kept /\ cb = "none" /\ todo = {}
      /\ channel.events = {} /\ ~channel.known /\ channel.index = "kNew"
      /\ outputBuffer_ = <<>> /\ ~sock.wrShut
  BY DEF StartInv
<1>3. "IN" \in ev /\ "OUT" \notin ev
  BY <1>2 DEF kReadEvent, ModeFlag
<1>4. /\ state_' = "kConnected" /\ channel' = Update(channel, ev) /\ cb' = "up" /\ failed' = failed
  BY <1>1 DEF ConnectEstablished, Require
<1> HIDE DEF ev
<1>5. channel'.events = ev /\ channel'.index = "kAdded" /\ channel'.known /\ channel'.failed = channel.failed
  BY <1>1, <1>2, <1>4, UpdateFacts
<1>6. Up' /\ ~Removed' /\ (Undefined' <=> Undefined) /\ \A f : ~Awaited(f)'
  BY <1>4, <1>5 DEF Up, Removed, Undefined, Awaited
<1>7. StartInv'
  BY <1>4, <1>5, <1>6 DEF StartInv
<1>8. ChannelInv'
  BY <1>2, <1>3, <1>4, <1>5 DEF ChannelInv
<1>9. HandlersInv'
  BY <1>2, <1>4 DEF HandlersInv
<1>10. EndInv'
  <2>1. Single("connectDestroyed")'
    <3>1. \A i \in 1..Len(pendingFunctors_') : pendingFunctors_'[i].fn # "connectDestroyed"
      BY DEF Pend
    <3>2. \A i \in next'..Len(functors') : functors'[i].fn # "connectDestroyed"
      BY DEF Left
    <3> QED  BY <3>1, <3>2 DEF Single, Pend
  <2> QED  BY <1>2, <1>4, <1>6, <2>1 DEF EndInv
<1>11. RemovedInv'
  BY <1>4, <1>6 DEF RemovedInv, HalfClosed
<1>12. FailedInv'
  BY <1>4, <1>5 DEF FailedInv
<1>13. AppInv'
  BY <1>2 DEF AppInv, RawFunctors
<1> QED  BY <1>7, <1>8, <1>9, <1>10, <1>11, <1>12, <1>13

LEMMA EventLife ==
    ASSUME StopsSafely, Live, Accept \/ Poll \/ Dispatch \/ CloseEvent \/ ErrorEvent \/ ReadEvent
    PROVE  LifeInv'
<1> USE DEF Live, LifeInv
<1>1. TypeInv'
  BY EventType
<1>2. channel \in ChannelType /\ sock \in SockType /\ QueueType /\ LoopType
  BY DEF TypeInv, ConnType, DataType
<1>3. CASE Accept
  <2>1. /\ state_ = "kConnecting" /\ pc = "accept" /\ functors = <<>> /\ pendingFunctors_ = <<>>
    BY <1>3 DEF Accept, InLoop, StartInv
  <2>2. \A f : ~Pend(f)' /\ ~Left(f)' /\ ~Batch(f)'
    BY <1>2, <1>3, <2>1 DEF Accept, batchVars, Pend, Left, Batch, QueueType
  <2> QED  BY <1>1, <1>3, <2>1, <2>2, EstablishedLife DEF Accept, serverVars, appVars
<1>4. CASE Poll
  <2>1. /\ pc = "poll" /\ pc' = "dispatch" /\ cb = "none" /\ ~Undefined /\ SameChannel
        /\ UNCHANGED <<state_, reading_, outputBuffer_, sock, cb, pendingFunctors_, functors, next, mode_,
                       inTable, baseQueue, server, failed>>
        /\ UNCHANGED <<kept, call>>
    BY <1>2, <1>4 DEF Poll, InLoop, SameChannel, ChannelType, batchVars, serverVars, appVars
  <2>2. channel.index = "kAdded" => channel.known /\ Up
    BY <1>2, <2>1 DEF RemovedInv, ChannelInv, Closing, StartInv, Removed, Up, TypeInv, ConnType, StateE
  <2>3. /\ todo' # {} => channel.index = "kAdded"
        /\ ~({"close", "read"} \subseteq todo')
    BY <1>4 DEF Poll, Handlers, Reported
  <2>4. \A f : /\ (Pend(f)' <=> Pend(f)) /\ (Batch(f)' <=> Batch(f)) /\ (Left(f)' <=> Left(f))
               /\ (Awaited(f)' <=> Awaited(f)) /\ (Single(f)' <=> Single(f))
    BY <2>1, QueueSame
  <2>5. (Up' <=> Up) /\ (Removed' <=> Removed) /\ (Undefined' <=> Undefined)
    BY <2>1 DEF Up, Removed, Undefined, SameChannel
  <2>6. StartInv'
    BY <2>1, <2>3, <2>4 DEF StartInv, SameChannel, Functor
  <2>7. ChannelInv'
    BY <2>1, <2>5 DEF ChannelInv, Closing, isET, SameChannel
  <2>8. HandlersInv'
    BY <2>1, <2>2, <2>3, <2>5 DEF HandlersInv, SameChannel
  <2>9. EndInv'
    BY <2>1, <2>4, <2>5 DEF EndInv, SameChannel
  <2>10. RemovedInv'
    BY <2>1, <2>4, <2>5, WritingMeans DEF RemovedInv, HalfClosed, Forced, SameChannel
  <2>11. FailedInv' /\ AppInv'
    BY <2>1, <2>4 DEF FailedInv, AppInv, SameChannel
  <2> QED  BY <2>6, <2>7, <2>8, <2>9, <2>10, <2>11
<1>5. CASE Dispatch
  <2>1. /\ pc = "dispatch" /\ pc' = "event" /\ cb = "none" /\ cb' \in {"none", "other"} /\ (cb' = "other" => kept)
        /\ ~Undefined
        /\ UNCHANGED <<state_, reading_, channel, outputBuffer_, sock, todo, pendingFunctors_, functors, next, mode_,
                       inTable, baseQueue, server, failed>>
        /\ UNCHANGED <<kept, call>>
    BY <1>5 DEF Dispatch, InLoop, connVars, batchVars, serverVars, appVars
  <2>2. \A f : /\ (Pend(f)' <=> Pend(f)) /\ (Batch(f)' <=> Batch(f)) /\ (Left(f)' <=> Left(f))
               /\ (Awaited(f)' <=> Awaited(f)) /\ (Single(f)' <=> Single(f))
    BY <2>1, QueueSame
  <2>3. (Up' <=> Up) /\ (Removed' <=> Removed) /\ (Undefined' <=> Undefined)
    BY <2>1 DEF Up, Removed, Undefined
  <2>4. StartInv'
    BY <2>1, <2>2 DEF StartInv, Functor
  <2>5. ChannelInv' /\ HandlersInv'
    BY <2>1, <2>3 DEF ChannelInv, Closing, HandlersInv, isET
  <2>6. EndInv'
    BY <2>1, <2>2, <2>3 DEF EndInv
  <2>7. RemovedInv'
    BY <2>1, <2>2, <2>3, WritingMeans DEF RemovedInv, HalfClosed, Forced
  <2>8. FailedInv' /\ AppInv'
    BY <2>1, <2>2 DEF FailedInv, AppInv
  <2> QED  BY <2>4, <2>5, <2>6, <2>7, <2>8
<1>6. ASSUME NEW h \in {"close", "read"}, NEW earlier, Handler(h, earlier), HandleClose, sock'.wrShut = sock.wrShut,
             UNCHANGED <<outputBuffer_, pendingFunctors_>>
      PROVE  LifeInv'
  <2>1. /\ pc = "event" /\ cb = "none" /\ h \in todo /\ todo' = todo \ {h}
        /\ UNCHANGED <<reading_, pc, mode_, functors, next, inTable, baseQueue, server, kept, call>>
    BY <1>6 DEF Handler, InLoop, batchVars, serverVars, appVars
  <2>2. Up /\ channel.known /\ todo' \cap {"close", "read"} = {}
    BY <2>1 DEF HandlersInv
  <2>3. \A f : /\ (Pend(f)' <=> Pend(f)) /\ (Batch(f)' <=> Batch(f)) /\ (Awaited(f)' => Awaited(f))
               /\ (Single(f) => Single(f)')
    BY <1>6, <2>1, QueueSame
  <2> QED  BY <1>1, <1>6, <2>1, <2>2, <2>3, HandleCloseLife
<1>7. CASE CloseEvent
  BY <1>6, <1>7 DEF CloseEvent
<1>8. CASE ErrorEvent
  <2>1. sock'.wrShut = sock.wrShut /\ SameChannel
    BY <1>2, <1>8 DEF ErrorEvent, SockType, SameChannel
  <2> QED  BY <1>8, <2>1, QuietLife DEF ErrorEvent, Handler, batchVars, serverVars, appVars
<1>9. CASE ReadEvent
  <2>1. sock'.wrShut = sock.wrShut
    BY <1>2, <1>9 DEF ReadEvent, SockType
  <2>2. CASE HandleClose
    BY <1>6, <1>9, <2>1, <2>2 DEF ReadEvent
  <2>3. CASE UNCHANGED <<state_, channel, cb, trace, failed>>
    <3>1. SameChannel
      BY <2>3 DEF SameChannel
    <3> QED  BY <1>9, <2>1, <2>3, <3>1, QuietLife DEF ReadEvent, Handler, batchVars, serverVars, appVars
  <2>4. CASE cb' = "message" /\ UNCHANGED <<state_, channel, trace, failed>>
    <3>1. /\ pc = "event" /\ cb = "none" /\ ~Undefined /\ "read" \in todo /\ todo' \subseteq todo /\ cb' = "message"
          /\ UNCHANGED <<state_, reading_, channel, outputBuffer_, pc, pendingFunctors_, functors, next, mode_,
                         inTable, baseQueue, server, failed>>
          /\ UNCHANGED <<kept, call>>
      BY <1>9, <2>4 DEF ReadEvent, Handler, InLoop, batchVars, serverVars, appVars
    <3>2. \A f : /\ (Pend(f)' <=> Pend(f)) /\ (Batch(f)' <=> Batch(f)) /\ (Left(f)' <=> Left(f))
                 /\ (Awaited(f)' <=> Awaited(f)) /\ (Single(f)' <=> Single(f))
      BY <3>1, QueueSame
    <3>3. (Up' <=> Up) /\ (Removed' <=> Removed) /\ (Undefined' <=> Undefined) /\ Up /\ channel.known
      BY <3>1 DEF Up, Removed, Undefined, HandlersInv
    <3>4. StartInv'
      BY <3>1, <3>2, <3>3 DEF StartInv, Up
    <3>5. ChannelInv' /\ HandlersInv'
      BY <2>1, <3>1, <3>3 DEF ChannelInv, HandlersInv, isET, Up
    <3>6. EndInv'
      BY <3>1, <3>2, <3>3 DEF EndInv
    <3>7. RemovedInv'
      BY <2>1, <3>1, <3>2, <3>3, WritingMeans DEF RemovedInv, HalfClosed, Forced
    <3>8. FailedInv' /\ AppInv'
      BY <3>1, <3>2 DEF FailedInv, AppInv
    <3> QED  BY <3>4, <3>5, <3>6, <3>7, <3>8
  <2> QED  BY <1>9, <2>2, <2>3, <2>4 DEF ReadEvent
<1> QED  BY <1>3, <1>4, <1>5, <1>7, <1>8, <1>9

(* What sendInLoop does to the connection, and to the queue. *)
LEMMA SendEffect ==
    ASSUME TypeInv, NEW m \in Msgs, SendInLoop(m)
    PROVE  /\ \/ UNCHANGED <<channel, outputBuffer_>>
              \/ /\ state_ # "kDisconnected" /\ NothingWaits /\ ~sock.wrShut /\ outputBuffer_' # <<>>
                 /\ channel' = Update(channel, channel.events \cup kWriteEvent)
           /\ sock'.wrShut = sock.wrShut
           /\ \E fs \in Seq(Sendable) :
                 /\ Queue(fs)
                 /\ \A i \in 1..Len(fs) : fs[i].fn \in {"writeCompleteCallback", "highWaterMarkCallback"}
<1>1. /\ channel \in ChannelType /\ outputBuffer_ \in Seq(Cells) /\ sock \in SockType
      /\ pendingFunctors_ \in Seq(Sendable)
  BY DEF TypeInv, ConnType, DataType, QueueType
<1>2. UNCHANGED pendingFunctors_ => Queue(<<>>)
  BY <1>1, ConcatEmptySeq DEF Queue
<1>3. CASE UNCHANGED <<channel, outputBuffer_, sock, pendingFunctors_>>
  <2> DEFINE fs == <<>>
  <2>1. fs \in Seq(Sendable) /\ Queue(fs) /\ Len(fs) = 0
    BY <1>2, <1>3
  <2> HIDE DEF fs
  <2>2. \E gs \in Seq(Sendable) :
           /\ Queue(gs)
           /\ \A i \in 1..Len(gs) : gs[i].fn \in {"writeCompleteCallback", "highWaterMarkCallback"}
    <3>1. \A i \in 1..Len(fs) : FALSE
      BY <2>1
    <3> QED  BY <2>1, <3>1
  <2> QED  BY <1>3, <2>2
<1>4. ASSUME state_ # "kDisconnected", NothingWaits, NEW n \in WriteResults(MsgLen),
             LET rest == SubSeq(Bytes(m), n + 1, MsgLen)
                 buffered == n >= 0 /\ rest # <<>>
             IN  /\ sock' = Written(Bytes(m), n)
                 /\ outputBuffer_' = IF buffered THEN outputBuffer_ \o rest ELSE outputBuffer_
                 /\ channel' = IF buffered THEN enableWriting(channel) ELSE channel
                 /\ Queue(When(n = MsgLen, "writeCompleteCallback") \o
                          When(buffered /\ CrossesHighWaterMark(Len(outputBuffer_), Len(rest)),
                               "highWaterMarkCallback"))
      PROVE  /\ \/ UNCHANGED <<channel, outputBuffer_>>
                \/ /\ state_ # "kDisconnected" /\ NothingWaits /\ ~sock.wrShut /\ outputBuffer_' # <<>>
                   /\ channel' = Update(channel, channel.events \cup kWriteEvent)
             /\ sock'.wrShut = sock.wrShut
             /\ \E fs \in Seq(Sendable) :
                   /\ Queue(fs)
                   /\ \A i \in 1..Len(fs) : fs[i].fn \in {"writeCompleteCallback", "highWaterMarkCallback"}
  <2> DEFINE B == Bytes(m) rest == SubSeq(B, n + 1, MsgLen) buffered == n >= 0 /\ rest # <<>>
             c1 == n = MsgLen
             c2 == buffered /\ CrossesHighWaterMark(Len(outputBuffer_), Len(rest))
             q1 == When(c1, "writeCompleteCallback")
             q2 == When(c2, "highWaterMarkCallback")
  <2>1. MsgLen \in Nat \ {0} /\ (n = -1 \/ n \in 0..MsgLen)
    BY <1>4, TcpConnectionAssumption, WriteResultsType
  <2>2. B \in Seq(Cells) /\ Len(B) = MsgLen
    BY BytesFacts
  <2>3. /\ sock' = Written(B, n)
        /\ outputBuffer_' = IF buffered THEN outputBuffer_ \o rest ELSE outputBuffer_
        /\ channel' = IF buffered THEN enableWriting(channel) ELSE channel
        /\ Queue(q1 \o q2)
    BY <1>4
  <2>4. outputBuffer_ = <<>>
    BY <1>4 DEF NothingWaits
  <2>5. n >= 0 => ~sock.wrShut /\ rest \in Seq(Cells)
    <3>1. sock.wrShut => n = -1
      BY <1>4 DEF WriteResults
    <3>2. n \in 0..Len(B) => Moved(Cells, outputBuffer_, B, n)
      BY <1>1, <2>2, StreamMoves
    <3> HIDE DEF B
    <3>3. n >= 0 => rest \in Seq(Cells)
      BY <2>1, <2>2, <3>2 DEF Moved
    <3> QED  BY <3>1, <3>3
  <2>6. sock'.wrShut = sock.wrShut
    BY <1>1, <2>1, <2>2, <2>3, WrittenType
  <2>7. c1 \in BOOLEAN /\ c2 \in BOOLEAN
    BY Zenon
  <2> HIDE DEF c1, c2, B
  <2>8. /\ q1 \in Seq(Sendable) /\ \A i \in 1..Len(q1) : q1[i].fn = "writeCompleteCallback"
        /\ q2 \in Seq(Sendable) /\ \A i \in 1..Len(q2) : q2[i].fn = "highWaterMarkCallback"
    <3>1. q1 \in Seq(Sendable) /\ q2 \in Seq(Sendable)
      BY <2>7, FunctorFacts, NamesFacts
    <3>2. \A i \in 1..Len(q1) : q1[i].fn = "writeCompleteCallback"
      BY DEF When, Functor
    <3>3. \A i \in 1..Len(q2) : q2[i].fn = "highWaterMarkCallback"
      BY DEF When, Functor
    <3> QED  BY <3>1, <3>2, <3>3
  <2> HIDE DEF q1, q2
  <2>9. \E fs \in Seq(Sendable) :
           /\ Queue(fs)
           /\ \A i \in 1..Len(fs) : fs[i].fn \in {"writeCompleteCallback", "highWaterMarkCallback"}
    <3>1. /\ q1 \o q2 \in Seq(Sendable) /\ Len(q1 \o q2) = Len(q1) + Len(q2) /\ Len(q1) \in Nat /\ Len(q2) \in Nat
          /\ \A i \in 1..(Len(q1) + Len(q2)) : (q1 \o q2)[i] = IF i <= Len(q1) THEN q1[i] ELSE q2[i - Len(q1)]
      BY <2>8, ConcatProperties, LenProperties
    <3>2. \A i \in 1..(Len(q1) + Len(q2)) : i \in 1..Len(q1) \/ (~(i <= Len(q1)) /\ i - Len(q1) \in 1..Len(q2))
      BY <3>1
    <3>3. \A i \in 1..Len(q1 \o q2) : (q1 \o q2)[i].fn \in {"writeCompleteCallback", "highWaterMarkCallback"}
      BY <2>8, <3>1, <3>2
    <3> QED  BY <2>3, <3>1, <3>3
  <2>10. CASE buffered
    <3>1. outputBuffer_' # <<>>
      BY <2>3, <2>4, <2>5, <2>10, ConcatEmptySeq
    <3> QED  BY <1>1, <1>4, <2>3, <2>5, <2>6, <2>9, <2>10, <3>1, ChannelOps
  <2>11. CASE ~buffered
    BY <2>3, <2>6, <2>9, <2>11
  <2> QED  BY <2>10, <2>11
<1> QED  BY <1>3, <1>4 DEF SendInLoop

(* sendInLoop.  On a channel that the poller has forgotten it writes only  *)
(* while forceCloseInLoop is still to come.                                *)
LEMMA SendLife ==
    ASSUME Live, TypeInv', NEW m \in Msgs, SendInLoop(m), state_ # "kConnecting",
           UNCHANGED <<state_, reading_, pc, todo, cb, mode_, inTable, baseQueue, server, kept, call, failed, functors>>,
           \/ next' = next /\ cb # "none"
           \/ next <= Len(functors) /\ next' = next + 1 /\ functors[next].fn = "sendInLoop" /\ cb = "none" /\ ~Undefined
    PROVE  LifeInv'
<1> USE DEF Live, LifeInv
<1>1. /\ \/ UNCHANGED <<channel, outputBuffer_>>
         \/ /\ state_ # "kDisconnected" /\ NothingWaits /\ ~sock.wrShut /\ outputBuffer_' # <<>>
            /\ channel' = Update(channel, channel.events \cup kWriteEvent)
      /\ sock'.wrShut = sock.wrShut
  BY SendEffect
<1>2. ASSUME NEW f, f \notin {"writeCompleteCallback", "highWaterMarkCallback"}
      PROVE  /\ (Pend(f)' <=> Pend(f)) /\ (Batch(f)' <=> Batch(f)) /\ (Left(f)' => Left(f))
             /\ (Awaited(f)' => Awaited(f)) /\ (Single(f) => Single(f)')
             /\ f # "sendInLoop" => (Left(f)' <=> Left(f)) /\ (Awaited(f)' <=> Awaited(f))
  <2>1. PICK fs \in Seq(Sendable) :
           /\ Queue(fs)
           /\ \A i \in 1..Len(fs) : fs[i].fn \in {"writeCompleteCallback", "highWaterMarkCallback"}
    BY SendEffect
  <2>2. \A i \in 1..Len(fs) : fs[i].fn # f
    BY <1>2, <2>1
  <2> QED  BY <2>1, <2>2, QueueOther DEF TypeInv
<1>3. channel \in ChannelType /\ channel' \in ChannelType /\ state_ \in StateE
  BY DEF TypeInv, ConnType
<1>4. (Up' <=> Up) /\ (Undefined' <=> Undefined)
  BY DEF Up, Undefined
<1>5. AppInv'
  BY <1>2 DEF AppInv, RawFunctors
<1>6. CASE UNCHANGED <<channel, outputBuffer_>>
  <2>1. Removed' <=> Removed
    BY <1>6 DEF Removed
  <2>2. StartInv'
    BY <1>2, <1>6 DEF StartInv
  <2>3. ChannelInv' /\ HandlersInv' /\ FailedInv'
    BY <1>1, <1>2, <1>4, <1>6 DEF ChannelInv, Closing, HandlersInv, FailedInv, isET
  <2>4. EndInv'
    BY <1>2, <1>4, <1>6, <2>1 DEF EndInv
  <2>5. RemovedInv'
    BY <1>1, <1>2, <1>4, <1>6, <2>1, WritingMeans DEF RemovedInv, HalfClosed, Forced
  <2> QED  BY <1>5, <2>2, <2>3, <2>4, <2>5
<1>7. CASE /\ state_ # "kDisconnected" /\ NothingWaits /\ ~sock.wrShut /\ outputBuffer_' # <<>>
           /\ channel' = Update(channel, channel.events \cup kWriteEvent)
  <2>1. Up /\ ~isWriting(channel) /\ outputBuffer_ = <<>>
    BY <1>3, <1>7 DEF Up, StateE, NothingWaits
  <2> DEFINE ev == channel.events \cup kWriteEvent
  <2>2. ev \in SUBSET Flags /\ "OUT" \in ev /\ channel.events \subseteq ev /\ ev # {}
    BY <1>3, ChannelOps DEF kWriteEvent
  <2> HIDE DEF ev
  <2>3. channel' = Update(channel, ev)
    BY <1>7 DEF ev
  <2>4. /\ channel'.events = ev /\ channel'.index = "kAdded"
        /\ channel'.known <=> channel.known \/ channel.index = "kNew"
        /\ channel.known /\ channel.index # "kNew" => channel'.failed = channel.failed
    <3>1. channel.index \in {"kNew", "kAdded", "kDeleted"}
      BY <1>3 DEF ChannelType
    <3> QED  BY <1>3, <2>2, <2>3, <3>1, UpdateFacts
  <2>5. channel.index # "kNew"
    BY DEF StartInv
  <2>6. (channel'.known <=> channel.known) /\ (Removed' <=> Removed)
    BY <2>4, <2>5 DEF Removed
  <2>7. channel.known \/ ~server
    BY <2>1, <2>5 DEF EndInv, Removed, Up
  <2>8. StartInv'
    BY <1>2, <2>4 DEF StartInv
  <2>9. ChannelInv'
    BY <1>1, <1>4, <1>7, <2>1, <2>2, <2>4, <2>6 DEF ChannelInv, Up
  <2>10. HandlersInv'
    BY <1>4, <2>6 DEF HandlersInv
  <2>11. EndInv'
    BY <1>2, <1>4, <2>6 DEF EndInv
  <2>12. isWriting(channel)'
    BY <2>2, <2>4, WritingMeans
  <2>13. RemovedInv'
    <3>1. HalfClosed'
      BY <2>12 DEF HalfClosed
    <3>2. pc # "poll"
      <4>1. next <= Len(functors) => pc = "functors"
        BY DEF TypeInv, QueueType
      <4> QED  BY <1>7, <2>1, <4>1 DEF HandlersInv, EndInv, Up
    <3>3. Removed /\ state_ = "kDisconnecting" => Forced
      BY <1>7, <2>1 DEF RemovedInv, HalfClosed
    <3>4. Forced' <=> Forced
      BY <1>2 DEF Forced
    <3> QED  BY <1>7, <2>6, <3>1, <3>2, <3>3, <3>4 DEF RemovedInv
  <2>14. FailedInv'
    BY <2>4, <2>5, <2>7 DEF FailedInv
  <2> QED  BY <1>5, <2>8, <2>9, <2>10, <2>11, <2>13, <2>14
<1> QED  BY <1>1, <1>6, <1>7

(* handleWrite.  Level triggered, the interest in writing goes with the    *)
(* last byte, and a shutdown that waits closes the write end then.         *)
LEMMA WriteLife ==
    ASSUME Live, WriteEvent
    PROVE  LifeInv'
<1> USE DEF Live, LifeInv
<1>1. TypeInv'
  BY EventType
<1>2. /\ channel \in ChannelType /\ outputBuffer_ \in Seq(Cells) /\ sock \in SockType /\ QueueType
      /\ state_ \in StateE
  BY DEF TypeInv, ConnType, DataType
<1>3. /\ pc = "event" /\ cb = "none" /\ ~Undefined /\ "write" \in todo /\ todo' \subseteq todo
      /\ UNCHANGED <<state_, reading_, pc, cb, functors, next, mode_, inTable, baseQueue, server, failed>>
      /\ UNCHANGED <<kept, call>>
  BY DEF WriteEvent, Handler, InLoop, batchVars, serverVars, appVars
<1>4. CASE UNCHANGED <<outputBuffer_, channel, pendingFunctors_, sock>>
  <2>1. SameChannel
    BY <1>4 DEF SameChannel
  <2> QED  BY <1>3, <1>4, <2>1, QuietLife
<1>5. ASSUME isWriting(channel), NEW n \in WriteResults(Len(outputBuffer_)),
             LET drained == n = Len(outputBuffer_) /\ WriteReturn(n, Len(outputBuffer_)) > 0
                 after == Written(outputBuffer_, n)
                 ch == disableWriting(channel)
             IN  /\ outputBuffer_' = Unwritten(n)
                 /\ channel' = IF drained THEN ch ELSE channel
                 /\ Queue(When(drained, "writeCompleteCallback"))
                 /\ sock' = IF drained THEN AfterDrain(after, ch) ELSE after
      PROVE  LifeInv'
  <2> DEFINE B == outputBuffer_
             drained == n = Len(B) /\ WriteReturn(n, Len(B)) > 0
             after == Written(B, n)
             ch == disableWriting(channel)
             ev == channel.events \ kWriteEvent
  <2>1. /\ outputBuffer_' = Unwritten(n) /\ channel' = IF drained THEN ch ELSE channel
        /\ Queue(When(drained, "writeCompleteCallback"))
        /\ sock' = IF drained THEN AfterDrain(after, ch) ELSE after
    BY <1>5
  <2>2. Len(B) \in Nat /\ (n = -1 \/ n \in 0..Len(B)) /\ (Len(B) = 0 <=> B = <<>>)
    BY <1>2, <1>5, LenProperties, EmptySeq, WriteResultsType
  <2>3. after \in SockType /\ after.wrShut = sock.wrShut
    BY <1>2, <2>2, WrittenType
  <2>4. Up /\ channel.known /\ channel.index = "kAdded" /\ (reading_ => "IN" \in channel.events)
    BY <1>2, <1>3, <1>5, WritingMeans DEF HandlersInv, ChannelInv, StartInv, Up, StateE
  <2>5. drained \in BOOLEAN /\ (drained => mode_ # "ET")
    <3>1. drained \in BOOLEAN
      BY Zenon
    <3>2. ASSUME drained, mode_ = "ET" PROVE FALSE
      BY <3>2 DEF WriteReturn, isET
    <3> QED  BY <3>1, <3>2
  <2>6. ch = Update(channel, ev) /\ ev \in SUBSET Flags
    BY <1>2, ChannelOps
  <2>7. mode_ # "ET" => (reading_ => "IN" \in ev) /\ "OUT" \notin ev
    BY <2>4 DEF kWriteEvent, ModeFlag, isET
  <2>8. sock.wrShut => n = -1
    BY <1>5 DEF WriteResults
  <2>9. ASSUME NEW f, f # "writeCompleteCallback"
        PROVE  /\ (Pend(f)' <=> Pend(f)) /\ (Batch(f)' <=> Batch(f)) /\ (Left(f)' <=> Left(f))
               /\ (Awaited(f)' <=> Awaited(f)) /\ (Single(f) => Single(f)')
    <3> HIDE DEF drained
    <3>1. When(drained, "writeCompleteCallback") \in Seq(Sendable)
      BY <2>5, FunctorFacts, NamesFacts
    <3>2. \A i \in 1..Len(When(drained, "writeCompleteCallback")) : When(drained, "writeCompleteCallback")[i].fn # f
      BY <2>9 DEF When, Functor
    <3> QED  BY <1>2, <1>3, <2>1, <3>1, <3>2, QueueOther
  <2>10. drained => n > 0
    BY DEF WriteReturn
  <2>11. /\ drained => outputBuffer_' = <<>>
         /\ mode_ # "ET" /\ ~drained /\ B # <<>> => outputBuffer_' # <<>>
         /\ B = <<>> => outputBuffer_' = <<>>
         /\ sock.wrShut => outputBuffer_' = B
    <3>1. CASE n > 0
      <4>1. n \in 0..Len(B) /\ outputBuffer_' = SubSeq(B, n + 1, Len(B))
        BY <2>1, <2>2, <3>1 DEF Unwritten
      <4>2. Moved(Cells, B, B, n)
        BY <1>2, <4>1, StreamMoves
      <4>3. outputBuffer_' \in Seq(Cells) /\ Len(outputBuffer_') = Len(B) - n
        BY <4>1, <4>2 DEF Moved
      <4>4. outputBuffer_' = <<>> <=> Len(outputBuffer_') = 0
        BY <4>3, EmptySeq
      <4>5. mode_ # "ET" /\ n = Len(B) => drained
        BY <3>1 DEF WriteReturn, isET
      <4>6. drained => n = Len(B)
        OBVIOUS
      <4> HIDE DEF drained
      <4> QED  BY <2>2, <2>8, <3>1, <4>1, <4>3, <4>4, <4>5, <4>6
    <3>2. CASE ~(n > 0)
      <4>1. outputBuffer_' = B
        BY <2>1, <3>2 DEF Unwritten
      <4> HIDE DEF drained
      <4> QED  BY <2>10, <3>2, <4>1
    <3> QED  BY <3>1, <3>2
  <2> HIDE DEF drained, after, ch, ev
  <2>12. /\ channel'.known /\ channel'.failed = channel.failed /\ channel'.index # "kNew"
         /\ channel'.index = "kAdded" <=> channel'.events # {}
         /\ reading_ => "IN" \in channel'.events
         /\ drained => "OUT" \notin channel'.events
         /\ ~drained => channel'.events = channel.events
    <3>1. CASE drained
      BY <1>2, <2>1, <2>4, <2>5, <2>6, <2>7, <3>1, UpdateFacts
    <3>2. CASE ~drained
      BY <2>1, <2>4, <3>2 DEF ChannelInv
    <3> QED  BY <3>1, <3>2
  <2>13. /\ ~drained => sock'.wrShut = sock.wrShut
         /\ drained /\ state_ = "kDisconnecting" => sock'.wrShut
    <3>1. CASE ~drained
      BY <2>1, <2>3, <3>1
    <3>2. CASE drained /\ state_ = "kDisconnecting"
      <4>1. ~isWriting(ch)
        <5>1. channel' = ch /\ mode_ # "ET" /\ "OUT" \notin ch.events
          BY <2>1, <2>5, <2>12, <3>2
        <5> QED  BY <5>1 DEF isWriting, kWriteEvent, ModeFlag, isET
      <4>2. sock' = [after EXCEPT !.wrShut = TRUE]
        BY <2>1, <3>2, <4>1 DEF AfterDrain, ShutdownInLoop
      <4> QED  BY <2>3, <3>2, <4>2 DEF SockType
    <3> QED  BY <3>1, <3>2
  <2>14. (Up' <=> Up) /\ ~Removed /\ ~Removed' /\ (Undefined' <=> Undefined)
    BY <1>3, <2>4, <2>12 DEF Up, Removed, Undefined
  <2>15. StartInv'
    BY <1>3, <2>4, <2>9, <2>12 DEF StartInv, Up
  <2>16. ChannelInv'
    <3>1. sock'.wrShut => outputBuffer_' = <<>>
      BY <2>11, <2>13 DEF ChannelInv
    <3>2. outputBuffer_' # <<>> => "OUT" \in channel'.events
      BY <2>4, <2>11, <2>12 DEF ChannelInv
    <3>3. mode_ # "ET" /\ "OUT" \in channel'.events => outputBuffer_' # <<>>
      BY <2>4, <2>11, <2>12 DEF ChannelInv, isET
    <3> QED  BY <1>3, <2>4, <2>12, <3>1, <3>2, <3>3 DEF ChannelInv, isET, Up
  <2>17. HandlersInv'
    BY <1>3, <2>12, <2>14 DEF HandlersInv
  <2>18. EndInv'
    BY <1>3, <2>4, <2>9, <2>12, <2>14 DEF EndInv, Up
  <2>19. RemovedInv'
    <3>1. drained \/ isWriting(channel)'
      BY <1>3, <1>5, <2>12, WritingMeans
    <3> QED  BY <1>3, <2>12, <2>13, <2>14, <3>1 DEF RemovedInv, HalfClosed
  <2>20. FailedInv'
    BY <1>3, <2>12 DEF FailedInv
  <2>21. AppInv'
    BY <1>3, <2>9 DEF AppInv, RawFunctors
  <2> QED  BY <2>15, <2>16, <2>17, <2>18, <2>19, <2>20, <2>21
<1> QED  BY <1>4, <1>5 DEF WriteEvent

LEMMA BatchLife ==
    ASSUME Live, BeginPending \/ EndPending
    PROVE  LifeInv'
<1> USE DEF Live, LifeInv
<1>1. QueueType
  BY DEF TypeInv
<1>2. CASE BeginPending
  <2>1. /\ pc = "event" /\ pc' = "functors" /\ cb = "none" /\ ~Undefined
        /\ functors' = pendingFunctors_ /\ next' = 1 /\ pendingFunctors_' = <<>>
        /\ UNCHANGED <<state_, reading_, channel, outputBuffer_, sock, todo, cb, mode_,
                       inTable, baseQueue, server, failed>>
        /\ UNCHANGED <<kept, call>>
    BY <1>2 DEF BeginPending, InLoop, connVars, serverVars, appVars
  <2>2. \A f : /\ ~Pend(f)' /\ (Batch(f)' <=> Pend(f)) /\ (Left(f)' <=> Pend(f)) /\ ~Left(f)
               /\ (Awaited(f)' <=> Awaited(f)) /\ (Single(f) => Single(f)')
    BY <1>1, <2>1, QueueBegins
  <2>3. (Up' <=> Up) /\ (Removed' <=> Removed) /\ (Undefined' <=> Undefined)
    BY <2>1 DEF Up, Removed, Undefined
  <2>4. StartInv'
    BY <2>1, <2>2 DEF StartInv, Functor
  <2>5. ChannelInv' /\ HandlersInv' /\ FailedInv'
    BY <2>1, <2>2, <2>3 DEF ChannelInv, Closing, HandlersInv, FailedInv, isET
  <2>6. EndInv'
    BY <2>1, <2>2, <2>3 DEF EndInv
  <2>7. RemovedInv'
    BY <2>1, <2>2, <2>3, WritingMeans DEF RemovedInv, HalfClosed, Forced
  <2>8. AppInv'
    BY <2>1, <2>2 DEF AppInv
  <2> QED  BY <2>4, <2>5, <2>6, <2>7, <2>8
<1>3. CASE EndPending
  <2>1. /\ pc = "functors" /\ pc' = "poll" /\ cb = "none" /\ ~Undefined
        /\ next > Len(functors) /\ functors' = <<>> /\ next' = 1
        /\ UNCHANGED <<state_, reading_, channel, outputBuffer_, sock, todo, cb, pendingFunctors_, mode_,
                       inTable, baseQueue, server, failed>>
        /\ UNCHANGED <<kept, call>>
    BY <1>3 DEF EndPending, InLoop, connVars, serverVars, appVars
  <2>2. \A f : /\ (Pend(f)' <=> Pend(f)) /\ ~Batch(f)' /\ ~Left(f)' /\ ~Left(f)
               /\ (Awaited(f)' <=> Awaited(f)) /\ (Single(f) => Single(f)')
    BY <1>1, <2>1, QueueEnds
  <2>3. (Up' <=> Up) /\ (Removed' <=> Removed) /\ (Undefined' <=> Undefined)
    BY <2>1 DEF Up, Removed, Undefined
  <2>4. state_ # "kConnecting"
    <3>1. state_ = "kConnecting" => next = 1 /\ functors = <<Functor("connectEstablished")>>
      BY <2>1 DEF StartInv
    <3>2. Len(<<Functor("connectEstablished")>>) = 1
      OBVIOUS
    <3> QED  BY <2>1, <3>1, <3>2
  <2>5. StartInv'
    BY <2>1, <2>2, <2>4 DEF StartInv
  <2>6. ChannelInv' /\ HandlersInv' /\ FailedInv'
    BY <2>1, <2>2, <2>3 DEF ChannelInv, Closing, HandlersInv, FailedInv, isET
  <2>7. EndInv'
    BY <2>1, <2>2, <2>3 DEF EndInv
  <2>8. RemovedInv'
    <3>1. ~Forced
      BY <2>1, <2>2 DEF Forced
    <3>2. Awaited("forceCloseInLoop") => Pend("forceCloseInLoop")
      BY <2>2 DEF Awaited
    <3>3. HalfClosed'
      BY <2>1, <2>2, <2>3, <3>1, <3>2, WritingMeans DEF RemovedInv, HalfClosed, Forced
    <3> QED  BY <2>1, <2>3, <3>1, <3>3 DEF RemovedInv
  <2>9. AppInv'
    BY <2>1, <2>2 DEF AppInv
  <2> QED  BY <2>5, <2>6, <2>7, <2>8, <2>9
<1> QED  BY <1>2, <1>3

(* A functor finds the object it needs: the batch holds a shared pointer,  *)
(* or the application keeps one.                                           *)
LEMMA FunctorsFindObject ==
    ASSUME Live, next <= Len(functors)
    PROVE  Alive
<1> USE DEF Live, LifeInv
<1>1. Len(functors) \in Nat /\ next \in 1..Len(functors) /\ functors[next] \in Sendable
  BY LenProperties, ElementOfSeq DEF TypeInv, QueueType
<1>2. functors[next].fn \in RawFunctors \/ functors[next].fn \in SharedFunctors
  BY <1>1 DEF Sendable, FunctorNames
<1>3. CASE functors[next].fn \in RawFunctors
  <2>1. Batch(functors[next].fn)
    BY <1>1 DEF Batch
  <2> QED  BY <1>3, <2>1 DEF AppInv, Alive
<1>4. CASE functors[next].fn \in SharedFunctors
  <2>1. KeepsAlive(functors)
    BY <1>1, <1>4 DEF KeepsAlive, TypeInv, QueueType
  <2> QED  BY <2>1 DEF Alive
<1> QED  BY <1>2, <1>3, <1>4

LEMMA FunctorLife ==
    ASSUME StopsSafely, Live,
           \/ RunConnectEstablished \/ RunConnectDestroyed \/ RunForceCloseInLoop
           \/ RunSendInLoop \/ RunShutdownInLoop \/ RunReadingInLoop \/ RunUserCallback
           \/ RunOnDeadObject
    PROVE  LifeInv'
<1> USE DEF Live, LifeInv
<1>1. TypeInv'
  BY FunctorType
<1>2. QueueType /\ channel \in ChannelType
  BY DEF TypeInv, ConnType
<1>3. ASSUME NEW g, RunFunctor(g)
      PROVE  /\ pc = "functors" /\ cb = "none" /\ ~Undefined /\ todo = {}
             /\ next <= Len(functors) /\ next' = next + 1 /\ functors[next] \in Sendable /\ functors[next].fn = g
             /\ UNCHANGED <<pc, todo, functors, mode_, inTable, baseQueue, server, kept, call>>
             /\ Left(g) /\ Batch(g)
  <2>1. /\ pc = "functors" /\ cb = "none" /\ ~Undefined /\ next <= Len(functors) /\ functors[next].fn = g
        /\ next' = next + 1
        /\ UNCHANGED <<pc, todo, functors, mode_, inTable, baseQueue, server, kept, call>>
    BY <1>3 DEF RunFunctor, InLoop, serverVars, appVars
  <2>2. Len(functors) \in Nat /\ next \in 1..Len(functors) /\ functors[next] \in Sendable
    BY <1>2, <2>1, LenProperties, ElementOfSeq DEF QueueType
  <2>3. todo = {}
    BY <2>1 DEF TypeInv, LoopType
  <2>4. Left(g) /\ Batch(g)
    BY <2>1, <2>2 DEF Left, Batch
  <2> QED  BY <2>1, <2>2, <2>3, <2>4
<1>4. ASSUME NEW g, RunFunctor(g), UNCHANGED pendingFunctors_
      PROVE  /\ Single(g) => ~Awaited(g)'
             /\ \A f : /\ (Pend(f)' <=> Pend(f)) /\ (Batch(f)' <=> Batch(f)) /\ (Left(f)' => Left(f))
                       /\ (Awaited(f)' => Awaited(f)) /\ (Single(f) => Single(f)')
                       /\ f # g => (Left(f)' <=> Left(f)) /\ (Awaited(f)' <=> Awaited(f))
  BY <1>2, <1>3, <1>4, QueueRuns
<1>5. CASE RunConnectEstablished
  <2> DEFINE g == "connectEstablished"
  <2>1. RunFunctor(g) /\ ConnectEstablished /\ UNCHANGED <<reading_, outputBuffer_, sock, pendingFunctors_>>
    BY <1>5 DEF RunConnectEstablished
  <2>2. state_ = "kConnecting" /\ pendingFunctors_ = <<>> /\ functors = <<Functor(g)>> /\ next = 1
    BY <1>3, <2>1 DEF StartInv, Awaited
  <2>3. \A f : ~Pend(f)' /\ ~Left(f)'
    BY <1>3, <2>1, <2>2 DEF Pend, Left
  <2>4. \A f : Batch(f)' => f = g
    BY <1>3, <2>1, <2>2 DEF Batch, Functor
  <2> QED  BY <1>1, <1>3, <2>1, <2>2, <2>3, <2>4, EstablishedLife
<1>6. CASE RunSendInLoop
  <2>1. functors[next].msg \in Msgs
    BY <1>3, <1>6 DEF RunSendInLoop, Sendable
  <2>2. state_ # "kConnecting"
    <3>1. functors[next].fn = "sendInLoop" /\ pc = "functors" /\ next <= Len(functors)
      BY <1>3, <1>6 DEF RunSendInLoop
    <3>2. functors = <<Functor("connectEstablished")>> /\ next = 1 => functors[next].fn = "connectEstablished"
      BY DEF Functor
    <3> QED  BY <3>1, <3>2 DEF StartInv
  <2> QED  BY <1>1, <1>3, <1>6, <2>1, <2>2, SendLife DEF RunSendInLoop
<1>7. CASE RunShutdownInLoop \/ RunReadingInLoop
  <2>1. PICK g \in {"shutdownInLoop", "startReadInLoop", "stopReadInLoop"} : RunFunctor(g)
    BY <1>7 DEF RunShutdownInLoop, RunReadingInLoop
  <2> QED  BY <1>3, <2>1 DEF AppInv, RawFunctors
<1>8. CASE RunOnDeadObject
  BY <1>8, FunctorsFindObject DEF RunOnDeadObject
<1>9. CASE RunForceCloseInLoop
  <2> DEFINE g == "forceCloseInLoop"
  <2>1. RunFunctor(g) /\ UNCHANGED <<reading_, outputBuffer_, sock, pendingFunctors_>>
    BY <1>9 DEF RunForceCloseInLoop
  <2>2. CASE Up
    <3>1. HandleClose
      BY <1>9, <2>2 DEF RunForceCloseInLoop, Up
    <3>2. /\ pc = "functors" /\ cb = "none" /\ todo' = {} /\ todo = {} /\ Batch(g)
          /\ UNCHANGED <<pc, mode_, inTable, baseQueue, server, kept, call>>
      BY <1>3, <2>1
    <3>3. \A f : /\ (Pend(f)' <=> Pend(f)) /\ (Batch(f)' <=> Batch(f)) /\ (Awaited(f)' => Awaited(f))
                 /\ (Single(f) => Single(f)')
      BY <1>4, <2>1
    <3> QED  BY <1>1, <2>1, <2>2, <3>1, <3>2, <3>3, HandleCloseLife
  <2>3. CASE ~Up
    <3>1. /\ pc = "functors" /\ cb = "none" /\ ~Undefined /\ todo = {} /\ functors[next].fn = g
          /\ UNCHANGED <<state_, reading_, channel, outputBuffer_, sock, pc, todo, cb, mode_,
                         inTable, baseQueue, server, failed>>
          /\ UNCHANGED <<kept, call>>
      BY <1>3, <1>9, <2>1, <2>3 DEF RunForceCloseInLoop, Up
    <3>2. \A f : /\ (Pend(f)' <=> Pend(f)) /\ (Batch(f)' <=> Batch(f)) /\ (Left(f)' => Left(f))
                 /\ (Awaited(f)' => Awaited(f)) /\ (Single(f) => Single(f)')
                 /\ f # g => (Left(f)' <=> Left(f)) /\ (Awaited(f)' <=> Awaited(f))
      BY <1>4, <2>1
    <3>3. state_ = "kDisconnected"
      <4>1. functors = <<Functor("connectEstablished")>> /\ next = 1 => functors[next].fn = "connectEstablished"
        BY DEF Functor
      <4> QED  BY <2>3, <3>1, <4>1 DEF StartInv, Up, TypeInv, ConnType, StateE
    <3>4. ~Up' /\ (Removed' <=> Removed) /\ (Undefined' <=> Undefined)
      BY <2>3, <3>1 DEF Up, Removed, Undefined
    <3>5. StartInv' /\ ChannelInv' /\ HandlersInv' /\ FailedInv'
      BY <3>1, <3>2, <3>3, <3>4 DEF StartInv, ChannelInv, Closing, HandlersInv, FailedInv
    <3>6. EndInv'
      BY <3>1, <3>2, <3>3, <3>4 DEF EndInv
    <3>7. RemovedInv' /\ AppInv'
      BY <3>1, <3>2, <3>3, <3>4 DEF RemovedInv, HalfClosed, AppInv
    <3> QED  BY <3>5, <3>6, <3>7
  <2> QED  BY <2>2, <2>3
<1>10. CASE RunConnectDestroyed
  <2> DEFINE g == "connectDestroyed"
  <2>1. RunFunctor(g) /\ UNCHANGED <<reading_, outputBuffer_, sock, pendingFunctors_, failed>>
    BY <1>10 DEF RunConnectDestroyed
  <2>2. /\ pc = "functors" /\ cb = "none" /\ ~Undefined /\ todo = {} /\ Awaited(g) /\ Single(g)
        /\ state_ = "kDisconnected" /\ channel.known /\ channel.events = {} /\ ~inTable
    BY <1>3, <2>1 DEF Awaited, EndInv, ChannelInv
  <2>3. /\ channel' = remove(channel)
        /\ UNCHANGED <<state_, reading_, outputBuffer_, sock, pc, todo, cb, mode_, inTable, baseQueue, server, failed>>
        /\ UNCHANGED <<kept, call>>
    BY <1>3, <1>10, <2>1, <2>2 DEF RunConnectDestroyed, ConnectDestroyed
  <2>4. /\ channel'.events = {} /\ channel'.index = "kDeleted" /\ ~channel'.known /\ channel'.failed = channel.failed
    BY <1>2, <2>2, <2>3, RemoveFacts
  <2>5. /\ ~Awaited(g)'
        /\ \A f : /\ (Pend(f)' <=> Pend(f)) /\ (Batch(f)' <=> Batch(f)) /\ (Awaited(f)' => Awaited(f))
                  /\ (Single(f) => Single(f)')
    BY <1>4, <2>1, <2>2
  <2>6. ~Up' /\ (Undefined' <=> Undefined) /\ channel.index # "kNew"
    BY <2>2, <2>3 DEF Up, Undefined, StartInv
  <2>7. StartInv' /\ ChannelInv' /\ HandlersInv' /\ FailedInv'
    BY <2>2, <2>3, <2>4, <2>5, <2>6 DEF StartInv, ChannelInv, HandlersInv, FailedInv
  <2>8. EndInv'
    BY <2>2, <2>3, <2>4, <2>5, <2>6 DEF EndInv
  <2>9. RemovedInv' /\ AppInv'
    BY <2>2, <2>3, <2>4, <2>5 DEF RemovedInv, HalfClosed, AppInv
  <2> QED  BY <2>7, <2>8, <2>9
<1>11. CASE RunUserCallback
  <2>1. PICK g \in {"writeCompleteCallback", "highWaterMarkCallback"} : RunFunctor(g)
    BY <1>11 DEF RunUserCallback
  <2>2. /\ pc = "functors" /\ cb = "none" /\ ~Undefined /\ todo = {} /\ functors[next].fn = g /\ cb' = g
        /\ UNCHANGED <<state_, reading_, channel, outputBuffer_, sock, pc, todo, mode_,
                       inTable, baseQueue, server, failed>>
        /\ UNCHANGED <<kept, call, pendingFunctors_>>
    BY <1>3, <1>11, <2>1 DEF RunUserCallback, connVars
  <2>3. \A f : /\ (Pend(f)' <=> Pend(f)) /\ (Batch(f)' <=> Batch(f)) /\ (Single(f) => Single(f)')
               /\ f # g => (Left(f)' <=> Left(f)) /\ (Awaited(f)' <=> Awaited(f))
    BY <1>4, <2>1, <2>2
  <2>4. state_ # "kConnecting"
    <3>1. functors = <<Functor("connectEstablished")>> /\ next = 1 => functors[next].fn = "connectEstablished"
      BY DEF Functor
    <3> QED  BY <2>2, <3>1 DEF StartInv
  <2>5. (Up' <=> Up) /\ (Removed' <=> Removed) /\ (Undefined' <=> Undefined)
    BY <2>2 DEF Up, Removed, Undefined
  <2>6. StartInv' /\ ChannelInv' /\ HandlersInv' /\ FailedInv'
    BY <2>2, <2>3, <2>4, <2>5 DEF StartInv, ChannelInv, Closing, HandlersInv, FailedInv, isET
  <2>7. EndInv'
    BY <2>2, <2>3, <2>5 DEF EndInv
  <2>8. RemovedInv'
    BY <2>2, <2>3, <2>5, WritingMeans DEF RemovedInv, HalfClosed, Forced
  <2>9. AppInv'
    BY <2>2, <2>3 DEF AppInv
  <2> QED  BY <2>6, <2>7, <2>8, <2>9
<1> QED  BY <1>5, <1>6, <1>7, <1>8, <1>9, <1>10, <1>11

(* removeConnectionInLoop queues connectDestroyed for a connection that is *)
(* down; done twice it has undefined behaviour.                            *)
LEMMA RemovalLife ==
    ASSUME Live, TypeInv', state_ = "kDisconnected", RemoveConnectionInLoop, baseQueue' = 0, inTable \/ ~server,
           (cb = "down" /\ cb' = "none") \/ (cb # "down" /\ cb' = cb /\ server),
           UNCHANGED <<state_, reading_, channel, outputBuffer_, sock, pc, todo, functors, next, mode_, server>>,
           UNCHANGED <<kept, call>>
    PROVE  LifeInv'
<1> USE DEF Live, LifeInv
<1> DEFINE g == "connectDestroyed"
<1>1. QueueType
  BY DEF TypeInv
<1>2. inTable' = FALSE /\ Queue(<<Functor(g)>>) /\ Functor(g) \in Sendable /\ Functor(g).fn = g
  BY FunctorFacts, NamesFacts DEF RemoveConnectionInLoop
<1>3. /\ server => failed' = failed
      /\ ~server => failed' = failed \cup {"removeConnectionInLoop: server is gone"} /\ Undefined'
  BY DEF RemoveConnectionInLoop, Require, Undefined, UndefinedBehaviour
<1>4. /\ Pend(g)' /\ (~Awaited(g) => Single(g)')
      /\ \A f : f # g => /\ (Pend(f)' <=> Pend(f)) /\ (Batch(f)' <=> Batch(f)) /\ (Left(f)' <=> Left(f))
                         /\ (Awaited(f)' <=> Awaited(f)) /\ (Single(f) => Single(f)')
  <2>1. PICK h \in Sendable : h = Functor(g)
    BY <1>2
  <2>2. Queue(<<h>>) /\ h.fn = g
    BY <1>2, <2>1
  <2> HIDE DEF g
  <2> QED  BY <1>1, <2>2, QueueOne
<1>5. Awaited(g)'
  BY <1>4 DEF Awaited
<1>6. server => ~Awaited(g) /\ channel.known /\ ~Undefined'
  BY <1>3 DEF EndInv, Removed, StartInv, FailedInv, Undefined
<1>7. ~Up' /\ (Removed' <=> Removed) /\ (Undefined => Undefined')
  BY <1>3 DEF Up, Removed, Undefined
<1>8. StartInv' /\ HandlersInv'
  BY <1>4, <1>7 DEF StartInv, HandlersInv, Up
<1>9. EndInv'
  <2>1. inTable' = FALSE
    BY <1>2
  <2>2. ~(cb' = "destroyed") \/ (cb = "destroyed" /\ server)
    BY DEF EndInv
  <2>3. Awaited(g)' => (~Undefined' => channel'.known)
    BY <1>3, <1>6
  <2>4. ~Undefined' => Single(g)'
    BY <1>3, <1>4, <1>6
  <2> HIDE DEF g
  <2>5. g = "connectDestroyed"
    BY DEF g
  <2> QED  BY <1>5, <1>6, <1>7, <2>1, <2>2, <2>3, <2>4, <2>5 DEF EndInv
<1>10. RemovedInv'
  BY <1>3, <1>4, <1>6, <1>7 DEF RemovedInv, HalfClosed, Removed
<1>11. FailedInv'
  BY <1>3 DEF FailedInv
<1>12. AppInv'
  BY <1>4 DEF AppInv, RawFunctors
<1>13. ChannelInv'
  <2>1. Left(g)' <=> Left(g)
    BY DEF Left
  <2>2. Closing => Closing'
    BY <1>4, <2>1 DEF Closing
  <2> QED  BY <1>7, <2>2 DEF ChannelInv
<1> QED  BY <1>8, <1>9, <1>10, <1>11, <1>12, <1>13

LEMMA BaseLife ==
    ASSUME Live, CallbackReturn \/ RunRemoveConnectionInLoop \/ DestroyServer, Orderly'
    PROVE  LifeInv'
<1> USE DEF Live, LifeInv
<1>1. TypeInv'
  BY BaseType
<1>2. QueueType /\ channel \in ChannelType /\ state_ \in StateE /\ LoopType /\ server \in BOOLEAN
  BY DEF TypeInv, ConnType, AppType
<1>3. CASE RunRemoveConnectionInLoop
  <2>1. /\ baseQueue > 0 /\ baseQueue' = baseQueue - 1 /\ RemoveConnectionInLoop
        /\ UNCHANGED <<state_, reading_, channel, outputBuffer_, sock, pc, todo, cb, functors, next, mode_, server>>
        /\ UNCHANGED <<kept, call>>
    BY <1>3 DEF RunRemoveConnectionInLoop, connVars, batchVars, appVars
  <2>2. /\ baseQueue' = 0 /\ state_ = "kDisconnected" /\ cb # "down" /\ server /\ inTable
    BY <2>1 DEF EndInv, Orderly
  <2> QED  BY <1>1, <2>1, <2>2, RemovalLife
<1>4. CASE CallbackReturn
  <2>1. /\ cb # "none" /\ cb' = "none" /\ ~Undefined
        /\ UNCHANGED <<state_, reading_, outputBuffer_, sock, pc, todo, functors, next, mode_, server>>
        /\ UNCHANGED <<kept, call>>
    BY <1>4 DEF CallbackReturn, batchVars, appVars
  <2>2. state_ # "kConnecting"
    BY <2>1 DEF StartInv
  <2>3. CASE cb = "down"
    <3>1. state_ = "kDisconnected" /\ (inTable \/ ~server) /\ baseQueue = 0 /\ CloseCallback /\ UNCHANGED channel
      BY <1>4, <2>3 DEF CallbackReturn, EndInv
    <3>2. CASE OneLoop
      BY <1>1, <2>1, <2>3, <3>1, <3>2, RemovalLife DEF CloseCallback
    <3>3. CASE ~OneLoop
      <4>1. /\ server /\ inTable /\ baseQueue' = baseQueue + 1 /\ UNCHANGED <<inTable, pendingFunctors_, failed>>
        BY <3>1, <3>3 DEF CloseCallback, Require, Orderly
      <4>2. \A f : /\ (Pend(f)' <=> Pend(f)) /\ (Batch(f)' <=> Batch(f)) /\ (Left(f)' <=> Left(f))
                   /\ (Awaited(f)' <=> Awaited(f)) /\ (Single(f)' <=> Single(f))
        BY <2>1, <4>1, QueueSame
      <4>3. ~Up' /\ (Removed' <=> Removed) /\ (Undefined' <=> Undefined) /\ ~Removed
        BY <2>1, <3>1, <4>1 DEF Up, Removed, Undefined, EndInv
      <4>4. StartInv' /\ HandlersInv' /\ FailedInv'
        BY <2>1, <2>2, <3>1, <4>1, <4>2, <4>3 DEF StartInv, HandlersInv, FailedInv, Up
      <4>5. EndInv'
        BY <2>1, <3>1, <3>3, <4>1, <4>2, <4>3 DEF EndInv
      <4>6. RemovedInv' /\ AppInv'
        BY <2>1, <3>1, <4>1, <4>2, <4>3 DEF RemovedInv, HalfClosed, AppInv
      <4>7. ChannelInv'
        BY <2>1, <3>1, <3>3, <4>3 DEF ChannelInv, Closing
      <4> QED  BY <4>4, <4>5, <4>6, <4>7
    <3> QED  BY <3>2, <3>3
  <2>4. CASE cb # "down"
    <3>1. UNCHANGED <<inTable, baseQueue, pendingFunctors_, failed>>
      BY <1>4, <2>4 DEF CallbackReturn
    <3>2. \A f : /\ (Pend(f)' <=> Pend(f)) /\ (Batch(f)' <=> Batch(f)) /\ (Left(f)' <=> Left(f))
                 /\ (Awaited(f)' <=> Awaited(f)) /\ (Single(f)' <=> Single(f))
      BY <2>1, <3>1, QueueSame
    <3>3. (Up' <=> Up) /\ (Undefined' <=> Undefined)
      BY <2>1, <3>1 DEF Up, Undefined
    <3>4. CASE cb # "destroyed"
      <4>1. UNCHANGED channel /\ (Removed' <=> Removed)
        BY <1>4, <3>4 DEF CallbackReturn, Removed
      <4>2. StartInv' /\ ChannelInv' /\ HandlersInv' /\ FailedInv'
        BY <2>1, <2>2, <2>4, <3>1, <3>2, <3>3, <3>4, <4>1 DEF StartInv, ChannelInv, Closing, HandlersInv, FailedInv, isET
      <4>3. EndInv'
        BY <2>1, <2>4, <3>1, <3>2, <3>3, <3>4, <4>1 DEF EndInv
      <4>4. RemovedInv' /\ AppInv'
        BY <2>1, <2>4, <3>1, <3>2, <3>3, <4>1, WritingMeans DEF RemovedInv, HalfClosed, Forced, AppInv
      <4> QED  BY <4>2, <4>3, <4>4
    <3>5. CASE cb = "destroyed"
      <4>1. /\ state_ = "kDisconnected" /\ ~server /\ channel.known /\ todo = {} /\ ~Awaited("connectDestroyed")
            /\ channel.events = {} /\ channel' = remove(channel) /\ ~inTable
        BY <1>4, <3>5 DEF EndInv, ChannelInv, CallbackReturn
      <4>2. /\ channel'.events = {} /\ channel'.index = "kDeleted" /\ ~channel'.known /\ channel'.failed = channel.failed
        BY <1>2, <4>1, RemoveFacts
      <4>3. StartInv' /\ ChannelInv' /\ HandlersInv' /\ FailedInv'
        BY <2>1, <2>2, <3>1, <3>2, <3>3, <4>1, <4>2 DEF StartInv, ChannelInv, HandlersInv, FailedInv, Up
      <4>4. EndInv'
        BY <2>1, <3>1, <3>2, <3>3, <4>1, <4>2 DEF EndInv
      <4>5. RemovedInv' /\ AppInv'
        BY <2>1, <3>1, <3>2, <3>3, <4>1, <4>2 DEF RemovedInv, HalfClosed, AppInv
      <4> QED  BY <4>3, <4>4, <4>5
    <3> QED  BY <3>4, <3>5
  <2> QED  BY <2>3, <2>4
<1>5. CASE DestroyServer
  <2>1. server' = FALSE /\ inTable' = FALSE /\ server
    BY <1>5 DEF DestroyServer
  <2>2. OneLoop
    BY <2>1 DEF Orderly
  <2>3. /\ pc = "poll" /\ cb = "none" /\ ~Undefined /\ todo = {}
        /\ UNCHANGED <<reading_, outputBuffer_, sock, pc, todo, functors, next, mode_, baseQueue, failed>>
        /\ UNCHANGED <<kept, call, pendingFunctors_>>
        /\ IF inTable THEN ConnectDestroyed ELSE UNCHANGED <<state_, channel, cb>>
    BY <1>2, <1>5, <2>2 DEF DestroyServer, InLoop, LoopType, batchVars, appVars
  <2>4. state_ # "kConnecting" /\ channel.index # "kNew"
    BY <2>2, <2>3 DEF StartInv
  <2>5. \A f : /\ (Pend(f)' <=> Pend(f)) /\ (Batch(f)' <=> Batch(f)) /\ (Left(f)' <=> Left(f))
               /\ (Awaited(f)' <=> Awaited(f)) /\ (Single(f)' <=> Single(f))
    BY <2>3, QueueSame
  <2>6. /\ Undefined' <=> Undefined
        /\ \A f : Awaited(f) <=> Pend(f)
    <3>1. functors = <<>>
      BY <1>2, <2>3 DEF QueueType
    <3>2. \A f : ~Left(f)
      BY <1>2, <3>1 DEF Left, QueueType
    <3> QED  BY <2>3, <3>2 DEF Undefined, Awaited
  <2>7. AppInv' /\ FailedInv'
    BY <2>1, <2>3, <2>5 DEF AppInv, FailedInv
  <2>8. CASE ~inTable
    <3>1. UNCHANGED <<state_, channel, cb>> /\ (Up' <=> Up) /\ (Removed' <=> Removed)
      BY <2>3, <2>8 DEF Up, Removed
    <3>2. StartInv' /\ ChannelInv' /\ HandlersInv'
      BY <2>1, <2>3, <2>4, <2>5, <3>1 DEF StartInv, ChannelInv, Closing, HandlersInv, isET
    <3>3. EndInv'
      BY <2>1, <2>3, <2>5, <2>6, <2>8, <3>1 DEF EndInv
    <3>4. RemovedInv'
      BY <2>1, <2>3, <2>5, <2>6, <3>1, WritingMeans DEF RemovedInv, HalfClosed, Forced
    <3> QED  BY <2>7, <3>2, <3>3, <3>4
  <2>9. CASE inTable /\ state_ = "kConnected"
    <3>1. channel' = disableAll(channel) /\ state_' = "kDisconnected" /\ cb' = "destroyed"
      BY <2>3, <2>9 DEF ConnectDestroyed
    <3>2. channel.known /\ ~Awaited("connectDestroyed")
      BY <2>9 DEF ChannelInv, EndInv
    <3>3. channel'.events = {} /\ channel'.index # "kNew" /\ channel'.known
      <4>1. disableAll(channel) = Update(channel, {}) /\ {} \in SUBSET Flags
        BY <1>2, ChannelOps
      <4> QED  BY <1>2, <3>1, <3>2, <4>1, UpdateFacts
    <3>4. ~Up' /\ ~Removed'
      BY <3>1, <3>3 DEF Up, Removed
    <3>5. StartInv' /\ ChannelInv' /\ HandlersInv'
      BY <2>1, <2>2, <2>3, <2>4, <2>5, <3>1, <3>3, <3>4 DEF StartInv, ChannelInv, Closing, HandlersInv
    <3>6. EndInv'
      BY <2>1, <2>3, <2>5, <2>6, <2>9, <3>1, <3>2, <3>3, <3>4 DEF EndInv
    <3>7. RemovedInv'
      BY <3>1, <3>4 DEF RemovedInv, HalfClosed
    <3> QED  BY <2>7, <3>5, <3>6, <3>7
  <2>10. CASE inTable /\ state_ # "kConnected"
    <3>1. channel' = remove(channel) /\ UNCHANGED <<state_, cb>>
      BY <2>3, <2>10 DEF ConnectDestroyed
    <3>2. channel'.events = channel.events /\ channel'.index = "kDeleted" /\ ~channel'.known
      BY <1>2, <3>1, RemoveFacts
    <3>3. (Up' <=> Up) /\ Removed' /\ ~Removed /\ ~Awaited("connectDestroyed")
      BY <2>10, <3>1, <3>2 DEF Up, Removed, EndInv
    <3>4. StartInv' /\ ChannelInv' /\ HandlersInv'
      BY <2>1, <2>3, <2>4, <2>5, <2>10, <3>1, <3>2, <3>3 DEF StartInv, ChannelInv, HandlersInv
    <3>5. EndInv'
      BY <2>1, <2>3, <2>5, <2>6, <2>10, <3>1, <3>2, <3>3 DEF EndInv
    <3>6. RemovedInv'
      BY <2>1, <2>3, <2>5, <2>6, <3>1, <3>2, <3>3, WritingMeans DEF RemovedInv, HalfClosed, Forced
    <3> QED  BY <2>7, <3>4, <3>5, <3>6
  <2> QED  BY <2>8, <2>9, <2>10
<1> QED  BY <1>3, <1>4, <1>5

LEMMA HereLife ==
    ASSUME Live, Careful, StopsSafely, HereStep \/ Drop, Orderly'
    PROVE  LifeInv'
<1> USE DEF Live, LifeInv
<1>1. TypeInv'
  BY HereType
<1>2. QueueType /\ channel \in ChannelType /\ state_ \in StateE /\ sock \in SockType /\ mode_ \in Modes
  BY DEF TypeInv, ConnType, DataType
<1>3. ASSUME NEW op, Here(op)
      PROVE  /\ UNCHANGED <<pc, todo, cb, functors, next, mode_, inTable, baseQueue, server, kept, call, failed>>
             /\ cb # "none" /\ op \in Ops[mode_] /\ state_ # "kConnecting"
  BY <1>3 DEF Here, batchVars, serverVars, appVars, StartInv
<1>4. ASSUME NEW m \in Msgs, SendHere(m) PROVE LifeInv'
  <2>1. PICK op : Here(op)
    BY <1>4 DEF SendHere
  <2> QED  BY <1>1, <1>3, <1>4, <2>1, SendLife DEF SendHere
<1>5. CASE ShutdownHere
  <2>1. /\ UNCHANGED <<pc, todo, cb, functors, next, mode_, inTable, baseQueue, server, kept, call, failed>>
        /\ UNCHANGED <<reading_, channel, outputBuffer_, pendingFunctors_>>
        /\ state_ = "kConnected" /\ state_' = "kDisconnecting" /\ sock' = ShutdownInLoop(sock, channel)
    BY <1>3, <1>5 DEF ShutdownHere
  <2>2. /\ isWriting(channel) => sock'.wrShut = sock.wrShut
        /\ ~isWriting(channel) => sock'.wrShut
    BY <1>2, <2>1 DEF ShutdownInLoop, SockType
  <2>3. channel.known /\ (~isWriting(channel) => outputBuffer_ = <<>>)
    BY <2>1, WritingMeans DEF ChannelInv, Up
  <2>4. \A f : /\ (Pend(f)' <=> Pend(f)) /\ (Batch(f)' <=> Batch(f)) /\ (Left(f)' <=> Left(f))
               /\ (Awaited(f)' <=> Awaited(f)) /\ (Single(f)' <=> Single(f))
    BY <2>1, QueueSame
  <2>5. Up /\ Up' /\ ~Removed /\ ~Removed' /\ (Undefined' <=> Undefined)
    BY <2>1, <2>3 DEF Up, Removed, Undefined
  <2>6. StartInv' /\ HandlersInv' /\ FailedInv' /\ AppInv'
    BY <2>1, <2>3, <2>4, <2>5 DEF StartInv, HandlersInv, FailedInv, AppInv
  <2>7. ChannelInv'
    BY <2>1, <2>2, <2>3, <2>5 DEF ChannelInv, isET
  <2>8. EndInv'
    BY <2>1, <2>3, <2>4, <2>5 DEF EndInv
  <2>9. RemovedInv'
    BY <2>1, <2>2, <2>5, WritingMeans DEF RemovedInv, HalfClosed
  <2> QED  BY <2>6, <2>7, <2>8, <2>9
<1>6. CASE ForceCloseHere
  <2> DEFINE g == "forceCloseInLoop"
  <2>1. /\ UNCHANGED <<pc, todo, cb, functors, next, mode_, inTable, baseQueue, server, kept, call, failed>>
        /\ UNCHANGED <<reading_, channel, outputBuffer_, sock>>
        /\ state_ \in {"kConnected", "kDisconnecting"} /\ state_' = "kDisconnecting" /\ Queue(<<Functor(g)>>)
        /\ "forceClose" \in Ops[mode_]
    BY <1>3, <1>6 DEF ForceCloseHere
  <2>2. /\ Pend(g)' /\ (~Awaited(g) => Single(g)')
        /\ \A f : f # g => /\ (Pend(f)' <=> Pend(f)) /\ (Batch(f)' <=> Batch(f)) /\ (Left(f)' <=> Left(f))
                           /\ (Awaited(f)' <=> Awaited(f)) /\ (Single(f) => Single(f)')
    <3>1. PICK h \in Sendable : h = Functor(g) /\ h.fn = g
      BY FunctorFacts, NamesFacts
    <3> HIDE DEF g
    <3> QED  BY <1>2, <2>1, <3>1, QueueOne
  <2>3. Left(g)' <=> Left(g)
    BY <2>1 DEF Left
  <2>4. Awaited(g)'
    BY <2>2 DEF Awaited
  <2>5. Up /\ Up' /\ (Removed' <=> Removed) /\ (Undefined' <=> Undefined)
    BY <2>1 DEF Up, Removed, Undefined
  <2>6. StartInv' /\ HandlersInv' /\ FailedInv'
    BY <2>1, <2>2, <2>5 DEF StartInv, HandlersInv, FailedInv
  <2>7. ChannelInv'
    BY <2>1, <2>5 DEF ChannelInv, isET
  <2>8. EndInv'
    BY <2>1, <2>2, <2>5 DEF EndInv
  <2>9. HalfClosed'
    <3>1. CASE ~Removed
      BY <2>4, <2>5, <3>1 DEF HalfClosed
    <3>2. CASE Removed
      <4>1. state_ = "kDisconnecting"
        BY <2>1, <3>2 DEF ChannelInv, Removed
      <4>2. Forced => Forced'
        BY <2>1, <2>2, <2>3 DEF Forced
      <4> QED  BY <2>1, <3>2, <4>1, <4>2, WritingMeans DEF RemovedInv, HalfClosed
    <3> QED  BY <3>1, <3>2
  <2>10. RemovedInv'
    <3>1. Forced => Forced'
      BY <2>1, <2>2, <2>3 DEF Forced
    <3>2. Removed => state_ = "kDisconnecting"
      BY <2>1 DEF ChannelInv, Removed
    <3> QED  BY <2>1, <2>5, <2>9, <3>1, <3>2 DEF RemovedInv
  <2>11. AppInv'
    BY <2>1, <2>2 DEF AppInv, RawFunctors
  <2> QED  BY <2>6, <2>7, <2>8, <2>10, <2>11
<1>7. CASE ReadingHere
  <2>1. /\ UNCHANGED <<pc, todo, cb, functors, next, mode_, inTable, baseQueue, server, kept, call, failed>>
        /\ UNCHANGED <<state_, outputBuffer_, sock, pendingFunctors_>>
        /\ state_ = "kConnected" /\ channel.known /\ Up /\ channel.index # "kNew"
    BY <1>3, <1>7 DEF ReadingHere, ChannelInv, StartInv, Up
  <2>2. CASE UNCHANGED <<channel, reading_>>
    <3>1. SameChannel
      BY <2>2 DEF SameChannel
    <3> QED  BY <2>1, <2>2, <3>1, QuietLife
  <2> DEFINE on == channel.events \cup kReadEvent off == channel.events \ kReadEvent
  <2>3. CASE ~UNCHANGED <<channel, reading_>>
    <3>1. \/ /\ channel' = Update(channel, on) /\ reading_'
          \/ /\ channel' = Update(channel, off) /\ ~reading_' /\ "stopRead" \in Ops[mode_]
             /\ channel.events # {}
      <4>1. channel.events = {} => ~reading_ /\ ~isReading(channel)
        BY <2>1 DEF ChannelInv, isReading
      <4>2. enableReading(channel) = Update(channel, on) /\ disableReading(channel) = Update(channel, off)
        BY <1>2, ChannelOps
      <4>3. CASE Here("startRead") /\ StartReadInLoop
        BY <2>3, <4>2, <4>3 DEF StartReadInLoop
      <4>4. CASE Here("stopRead") /\ StopReadInLoop
        BY <1>3, <2>3, <4>1, <4>2, <4>4 DEF StopReadInLoop
      <4> QED  BY <1>7, <4>3, <4>4 DEF ReadingHere
    <3>2. /\ on \in SUBSET Flags /\ off \in SUBSET Flags
          /\ "IN" \in on /\ ("OUT" \in on <=> "OUT" \in channel.events)
          /\ "OUT" \in off <=> "OUT" \in channel.events
      BY <1>2, ChannelOps DEF kReadEvent, ModeFlag
    <3> HIDE DEF on, off
    <3>3. channel.index \in {"kAdded", "kDeleted"} /\ (channel.index = "kAdded" <=> channel.events # {})
      BY <1>2, <2>1 DEF ChannelInv, ChannelType
    <3>4. /\ channel'.known /\ channel'.failed = channel.failed /\ channel'.index # "kNew"
          /\ channel'.index = "kAdded" <=> channel'.events # {}
          /\ "OUT" \in channel'.events <=> "OUT" \in channel.events
          /\ reading_' => "IN" \in channel'.events
          /\ ~reading_' => "stopRead" \in Ops[mode_]
      <4>1. ASSUME channel' = Update(channel, on), reading_'
            PROVE  /\ channel'.known /\ channel'.failed = channel.failed /\ channel'.index = "kAdded"
                   /\ channel'.events = on
        BY <1>2, <2>1, <3>2, <3>3, <4>1, UpdateFacts
      <4>2. ASSUME channel' = Update(channel, off), channel.events # {}
            PROVE  /\ channel'.known /\ channel'.failed = channel.failed /\ channel'.events = off
                   /\ channel'.index = IF off = {} THEN "kDeleted" ELSE "kAdded"
        BY <1>2, <2>1, <3>2, <3>3, <4>2, UpdateFacts
      <4> QED  BY <3>1, <3>2, <4>1, <4>2
    <3>5. \A f : /\ (Pend(f)' <=> Pend(f)) /\ (Batch(f)' <=> Batch(f)) /\ (Left(f)' <=> Left(f))
                 /\ (Awaited(f)' <=> Awaited(f)) /\ (Single(f)' <=> Single(f))
      BY <2>1, QueueSame
    <3>6. Up' /\ ~Removed /\ ~Removed' /\ (Undefined' <=> Undefined)
      BY <2>1, <3>4 DEF Up, Removed, Undefined
    <3>7. StartInv' /\ HandlersInv' /\ FailedInv' /\ AppInv'
      BY <2>1, <3>4, <3>5, <3>6 DEF StartInv, HandlersInv, FailedInv, AppInv
    <3>8. ChannelInv'
      BY <2>1, <3>4, <3>6 DEF ChannelInv, isET
    <3>9. EndInv'
      BY <2>1, <3>4, <3>5, <3>6 DEF EndInv
    <3>10. RemovedInv'
      BY <2>1, <3>6 DEF RemovedInv, HalfClosed
    <3> QED  BY <3>7, <3>8, <3>9, <3>10
  <2> QED  BY <2>2, <2>3
<1>8. CASE Keep \/ Drop
  <2>1. /\ UNCHANGED <<state_, reading_, channel, outputBuffer_, sock, pc, todo, cb, pendingFunctors_, functors, next,
                       mode_, inTable, baseQueue, server, failed>>
        /\ UNCHANGED call
    BY <1>8 DEF Keep, Drop, connVars, batchVars, serverVars
  <2>2. (cb = "up" /\ kept' = TRUE) \/ Users = {}
    BY <1>8 DEF Keep, Drop, Orderly
  <2>3. \A f : /\ (Pend(f)' <=> Pend(f)) /\ (Batch(f)' <=> Batch(f)) /\ (Left(f)' <=> Left(f))
               /\ (Awaited(f)' <=> Awaited(f)) /\ (Single(f)' <=> Single(f))
    BY <2>1, QueueSame
  <2>4. (Up' <=> Up) /\ (Removed' <=> Removed) /\ (Undefined' <=> Undefined)
    BY <2>1 DEF Up, Removed, Undefined
  <2>5. state_ # "kConnecting"
    BY <1>8 DEF Keep, Drop, StartInv
  <2>6. StartInv' /\ ChannelInv' /\ HandlersInv' /\ FailedInv'
    BY <2>1, <2>3, <2>4, <2>5 DEF StartInv, ChannelInv, Closing, HandlersInv, FailedInv, isET
  <2>7. EndInv'
    BY <2>1, <2>3, <2>4 DEF EndInv
  <2>8. RemovedInv'
    BY <2>1, <2>3, <2>4, WritingMeans DEF RemovedInv, HalfClosed, Forced
  <2>9. AppInv'
    BY <2>1, <2>2, <2>3 DEF AppInv
  <2> QED  BY <2>6, <2>7, <2>8, <2>9
<1> QED  BY <1>4, <1>5, <1>6, <1>7, <1>8 DEF HereStep

(* Of the other threads, only sends are within the hypothesis. *)
LEMMA UserLife ==
    ASSUME Live, NEW u \in Users, UserStep(u), Orderly'
    PROVE  LifeInv'
<1> USE DEF Live, LifeInv
<1>1. TypeInv'
  BY UserType
<1>2. QueueType /\ call \in [Users -> CallType] /\ call[u] \in CallType
  BY DEF TypeInv, AppType
<1>3. ASSUME NEW op, NEW at, NEW m, Enter(u, op, at, m) PROVE op = "send"
  BY <1>3 DEF Enter, Orderly
<1>4. ~CallShutdown(u) /\ ~CallForceClose(u) /\ ~CallReading(u)
  BY <1>3 DEF CallShutdown, CallForceClose, CallReading
<1>5. ~SetDisconnecting(u)
  BY DEF SetDisconnecting, AppInv
<1>6. ASSUME NEW m \in Msgs, CallSend(u, m) PROVE LifeInv'
  <2>1. /\ UNCHANGED <<state_, reading_, channel, outputBuffer_, sock, pc, todo, cb, pendingFunctors_, functors, next,
                       mode_, inTable, baseQueue, server, failed>>
        /\ UNCHANGED kept /\ kept /\ call' = [call EXCEPT ![u] = [op |-> "sendInLoop", msg |-> m]]
    BY <1>6 DEF CallSend, Enter, UserFrame, batchVars, serverVars
  <2>2. \A f : /\ (Pend(f)' <=> Pend(f)) /\ (Batch(f)' <=> Batch(f)) /\ (Left(f)' <=> Left(f))
               /\ (Awaited(f)' <=> Awaited(f)) /\ (Single(f)' <=> Single(f))
    BY <2>1, QueueSame
  <2>3. (Up' <=> Up) /\ (Removed' <=> Removed) /\ (Undefined' <=> Undefined)
    BY <2>1 DEF Up, Removed, Undefined
  <2>4. StartInv' /\ ChannelInv' /\ HandlersInv' /\ FailedInv'
    BY <2>1, <2>2, <2>3 DEF StartInv, ChannelInv, Closing, HandlersInv, FailedInv, isET
  <2>5. EndInv'
    BY <2>1, <2>2, <2>3 DEF EndInv
  <2>6. RemovedInv'
    BY <2>1, <2>2, <2>3, WritingMeans DEF RemovedInv, HalfClosed, Forced
  <2>7. AppInv'
    BY <1>2, <2>1, <2>2 DEF AppInv
  <2> QED  BY <2>4, <2>5, <2>6, <2>7
<1>7. CASE QueueFunctor(u)
  <2>1. call[u].op = "sendInLoop" /\ kept /\ Users # {}
    BY <1>7 DEF QueueFunctor, AppInv, RawFunctors, SharedFunctors
  <2>2. PICK h \in Sendable : h.fn = "sendInLoop" /\ Queue(<<h>>)
    <3>1. [fn |-> call[u].op, msg |-> call[u].msg] \in Sendable
      BY <1>2, <2>1 DEF Sendable, CallType, FunctorNames
    <3> QED  BY <1>7, <2>1, <3>1 DEF QueueFunctor
  <2>3. /\ UNCHANGED <<state_, reading_, channel, outputBuffer_, sock, pc, todo, cb, functors, next,
                       mode_, inTable, baseQueue, server, failed>>
        /\ UNCHANGED kept /\ call' = [call EXCEPT ![u] = Idle]
    BY <1>7 DEF QueueFunctor, UserFrame, batchVars, serverVars
  <2>4. \A f : f # "sendInLoop" => /\ (Pend(f)' <=> Pend(f)) /\ (Batch(f)' <=> Batch(f)) /\ (Left(f)' <=> Left(f))
                                   /\ (Awaited(f)' <=> Awaited(f)) /\ (Single(f) => Single(f)')
    BY <1>2, <2>2, <2>3, QueueOne
  <2>5. (Up' <=> Up) /\ (Removed' <=> Removed) /\ (Undefined' <=> Undefined)
    BY <2>3 DEF Up, Removed, Undefined
  <2>6. state_ # "kConnecting"
    BY <2>1 DEF StartInv
  <2>7. StartInv' /\ ChannelInv' /\ HandlersInv' /\ FailedInv'
    BY <2>3, <2>4, <2>5, <2>6 DEF StartInv, ChannelInv, Closing, HandlersInv, FailedInv, isET
  <2>8. EndInv'
    BY <2>3, <2>4, <2>5 DEF EndInv
  <2>9. RemovedInv'
    BY <2>3, <2>4, <2>5, WritingMeans DEF RemovedInv, HalfClosed, Forced
  <2>10. AppInv'
    BY <1>2, <2>1, <2>3, <2>4 DEF AppInv, Idle
  <2> QED  BY <2>7, <2>8, <2>9, <2>10
<1> QED  BY <1>4, <1>5, <1>6, <1>7 DEF UserStep

LEMMA LifeInit ==
    ASSUME Init
    PROVE  LifeInv
<1> USE DEF Init
<1>1. /\ state_ = "kConnecting" /\ pc = (IF OneLoop THEN "accept" ELSE "poll") /\ todo = {} /\ cb = "none"
      /\ pendingFunctors_ = (IF OneLoop THEN <<>> ELSE <<Functor("connectEstablished")>>)
      /\ functors = <<>> /\ next = 1 /\ baseQueue = 0 /\ failed = {} /\ outputBuffer_ = <<>>
      /\ call = [u \in Users |-> Idle] /\ channel = NewChannel
  BY Zenon
<1>2. inTable /\ server /\ ~kept /\ reading_ /\ ~sock.wrShut
  BY Zenon
<1>3. /\ channel.index = "kNew" /\ channel.events = {} /\ ~channel.known /\ channel.failed = {}
  BY <1>1 DEF NewChannel, kNoneEvent
<1>4. \A f : /\ ~Batch(f) /\ ~Left(f) /\ (Pend(f) => f = "connectEstablished")
  BY <1>1 DEF Batch, Left, Pend, Functor
<1>5. ~Awaited("connectDestroyed") /\ ~Undefined /\ ~Up
  BY <1>1, <1>4 DEF Awaited, Undefined, Up
<1>6. Single("connectDestroyed")
  <2>1. \A i \in 1..Len(pendingFunctors_) : pendingFunctors_[i].fn # "connectDestroyed"
    BY <1>4 DEF Pend
  <2>2. \A i \in next..Len(functors) : FALSE
    BY <1>1
  <2> QED  BY <2>1, <2>2 DEF Single, Pend
<1>7. StartInv
  BY <1>1, <1>2, <1>3 DEF StartInv
<1>8. ChannelInv /\ HandlersInv /\ FailedInv
  BY <1>1, <1>2, <1>3, <1>5 DEF ChannelInv, HandlersInv, FailedInv
<1>9. EndInv
  BY <1>1, <1>2, <1>3, <1>5, <1>6 DEF EndInv, Removed
<1>10. RemovedInv
  BY <1>1, <1>3 DEF RemovedInv, HalfClosed, Removed
<1>11. AppInv
  BY <1>1, <1>4 DEF AppInv, Idle, RawFunctors
<1> QED  BY <1>7, <1>8, <1>9, <1>10, <1>11 DEF LifeInv

(* What an orderly application has done so far was orderly, too. *)
LEMMA OrderlyBefore ==
    ASSUME TypeInv, [Next]_vars
    PROVE  /\ tame' => tame
           /\ server' => server
           /\ Users = {} => (tame => tame')
<1>1. tame \in BOOLEAN /\ server \in BOOLEAN
  BY DEF TypeInv, AppType
<1>2. CASE UNCHANGED <<tame, server>>
  BY <1>1, <1>2
<1>3. CASE DestroyServer
  BY <1>1, <1>3 DEF DestroyServer, appVars
<1>4. CASE Drop
  BY <1>1, <1>4 DEF Drop, serverVars
<1>5. ASSUME NEW u \in Users, UserStep(u) PROVE (tame' => tame) /\ (server' => server) /\ Users # {}
  <2>1. \A op, at, m : Enter(u, op, at, m) => (tame' => tame) /\ server' = server
    BY DEF Enter, UserFrame, serverVars
  <2>2. SetDisconnecting(u) \/ QueueFunctor(u) => tame' = tame /\ server' = server
    BY DEF SetDisconnecting, QueueFunctor, UserFrame, serverVars
  <2>3. CASE SetDisconnecting(u) \/ QueueFunctor(u)
    BY <1>1, <2>2, <2>3
  <2>4. CASE \E op, at, m : Enter(u, op, at, m)
    BY <1>1, <2>1, <2>4
  <2> QED  BY <1>5, <2>3, <2>4 DEF UserStep, CallSend, CallShutdown, CallForceClose, CallReading
<1>6. CASE UNCHANGED vars
  BY <1>1, <1>6 DEF vars, serverVars, appVars
<1>7. CASE LoopStep \/ RunRemoveConnectionInLoop
  <2>1. \A f : RunFunctor(f) => UNCHANGED <<tame, server>>
    BY DEF RunFunctor, serverVars, appVars
  <2>2. \A h, e : Handler(h, e) => UNCHANGED <<tame, server>>
    BY DEF Handler, serverVars, appVars
  <2>3. CASE \/ RunConnectEstablished \/ RunConnectDestroyed \/ RunForceCloseInLoop
             \/ RunSendInLoop \/ RunShutdownInLoop \/ RunReadingInLoop \/ RunUserCallback
    BY <1>2, <2>1, <2>3 DEF RunConnectEstablished, RunConnectDestroyed, RunForceCloseInLoop,
       RunSendInLoop, RunShutdownInLoop, RunReadingInLoop, RunUserCallback
  <2>4. CASE CloseEvent \/ ErrorEvent \/ ReadEvent \/ WriteEvent
    BY <1>2, <2>2, <2>4 DEF CloseEvent, ErrorEvent, ReadEvent, WriteEvent
  <2>5. CASE \/ Accept \/ Poll \/ Dispatch \/ BeginPending \/ EndPending \/ RunOnDeadObject \/ CallbackReturn
             \/ RunRemoveConnectionInLoop
    BY <1>2, <2>5 DEF Accept, Poll, Dispatch, BeginPending, EndPending, RunOnDeadObject, CallbackReturn,
       RunRemoveConnectionInLoop, serverVars, appVars
  <2> QED  BY <1>7, <2>3, <2>4, <2>5 DEF LoopStep
<1>8. CASE HereStep
  <2>1. \A op : Here(op) => UNCHANGED <<tame, server>>
    BY DEF Here, serverVars, appVars
  <2>2. CASE Keep
    BY <1>2, <2>2 DEF Keep, serverVars
  <2> QED  BY <1>2, <1>8, <2>1, <2>2 DEF HereStep, SendHere, ShutdownHere, ForceCloseHere, ReadingHere
<1>9. CASE PeerSends \/ PeerDrains \/ PeerCloses \/ PeerResets
  BY <1>2, <1>9 DEF PeerSends, PeerDrains, PeerCloses, PeerResets, PeerStep, serverVars, appVars
<1> QED  BY <1>3, <1>4, <1>5, <1>6, <1>7, <1>8, <1>9 DEF Next

LEMMA LifeStep ==
    ASSUME Careful, StopsSafely, Live, [Next]_vars, Orderly'
    PROVE  LifeInv'
<1>1. CASE UNCHANGED vars
  <2>1. SameChannel
    BY <1>1 DEF SameChannel, vars, connVars
  <2> QED  BY <1>1, <2>1, QuietLife DEF vars, connVars, batchVars, serverVars, appVars
<1>2. CASE LoopStep
  BY <1>2, EventLife, WriteLife, BatchLife, FunctorLife, BaseLife DEF LoopStep
<1> QED  BY <1>1, <1>2, BaseLife, HereLife, UserLife, PeerLife DEF Next

LEMMA LifeAlways ==
    ASSUME Careful, StopsSafely
    PROVE  Spec => [](TypeInv /\ (Orderly => LifeInv))
<1>1. Init => TypeInv /\ (Orderly => LifeInv)
  BY TypeInit, LifeInit
<1>2. TypeInv /\ (Orderly => LifeInv) /\ [Next]_vars => (TypeInv /\ (Orderly => LifeInv))'
  <2> SUFFICES ASSUME TypeInv, Orderly => LifeInv, [Next]_vars
               PROVE  TypeInv' /\ (Orderly' => LifeInv')
    OBVIOUS
  <2>1. Orderly' => Orderly
    BY OrderlyBefore DEF Orderly
  <2> QED  BY <2>1, TypeStep, LifeStep DEF Live
<1> QED  BY <1>1, <1>2, PTL DEF Spec

(* The events that were logged follow the state and the registration. *)
LEMMA TraceSame ==
    ASSUME TraceInv, trace' = trace, channel'.known = channel.known,
           state_' = state_ \/ (Up /\ Up'), server' => server,
           cb = "down" \/ Undefined => cb' = "down" \/ Undefined'
    PROVE  TraceInv'
  BY DEF TraceInv, Up

LEMMA AppendTuples ==
    ASSUME NEW S, NEW a \in S, NEW b \in S, NEW c \in S
    PROVE  Append(<<a>>, b) = <<a, b>> /\ Append(<<a, b>>, c) = <<a, b, c>>
<1>1. Append(<<a>>, b) = <<a, b>>
  <2> DEFINE s == Append(<<a>>, b) t == <<a, b>>
  <2>1. s \in Seq(S) /\ Len(s) = 2 /\ s[1] = a /\ s[2] = b
    BY AppendProperties
  <2>2. t \in Seq(S) /\ Len(t) = 2 /\ t[1] = a /\ t[2] = b
    OBVIOUS
  <2> HIDE DEF s, t
  <2>3. \A i \in 1..Len(s) : s[i] = t[i]
    BY <2>1, <2>2
  <2>4. s = t
    BY <2>1, <2>2, <2>3, SeqEqual
  <2> QED  BY <2>4 DEF s, t
<1>2. Append(<<a, b>>, c) = <<a, b, c>>
  <2> DEFINE s == Append(<<a, b>>, c) t == <<a, b, c>>
  <2>1. s \in Seq(S) /\ Len(s) = 3 /\ s[1] = a /\ s[2] = b /\ s[3] = c
    BY AppendProperties
  <2>2. t \in Seq(S) /\ Len(t) = 3 /\ t[1] = a /\ t[2] = b /\ t[3] = c
    OBVIOUS
  <2> HIDE DEF s, t
  <2>3. \A i \in 1..Len(s) : s[i] = t[i]
    BY <2>1, <2>2
  <2>4. s = t
    BY <2>1, <2>2, <2>3, SeqEqual
  <2> QED  BY <2>4 DEF s, t
<1> QED  BY <1>1, <1>2

LEMMA Traces ==
    /\ Append(<<>>, "UP") = <<"UP">> /\ Append(<<"UP">>, "DOWN") = <<"UP", "DOWN">>
    /\ Append(<<"UP">>, "REMOVED") = <<"UP", "REMOVED">>
    /\ Append(<<"UP", "DOWN">>, "REMOVED") = <<"UP", "DOWN", "REMOVED">>
    /\ Append(<<"UP", "REMOVED">>, "DOWN") = <<"UP", "REMOVED", "DOWN">>
<1>1. Append(<<>>, "UP") = <<"UP">>
  OBVIOUS
<1>2. \A a, b, c \in {"UP", "DOWN", "REMOVED"} :
         Append(<<a>>, b) = <<a, b>> /\ Append(<<a, b>>, c) = <<a, b, c>>
  BY AppendTuples
<1> QED  BY <1>1, <1>2, Zenon

LEMMA LogAppends ==
    ASSUME MaxTrace > 3, TypeInv, TraceInv, NEW e
    PROVE  Log(e) => trace' = Append(trace, e)
<1>1. trace \in {<<>>, <<"UP">>, <<"UP", "REMOVED">>, <<"UP", "DOWN">>, <<"UP", "DOWN", "REMOVED">>,
                 <<"UP", "REMOVED", "DOWN">>}
  BY DEF TraceInv, Up, TypeInv, ConnType, StateE
<1>2. Len(trace) <= 3
  BY <1>1
<1>3. Len(trace) < MaxTrace
  BY <1>2, TcpConnectionAssumption, LenProperties DEF TypeInv, HistoryType
<1> QED  BY <1>3 DEF Log

(* Updates of the interest set do not change what the poller knows. *)
LEMMA KnownSame ==
    ASSUME Live, state_ # "kConnecting", NEW ev \in SUBSET Flags
    PROVE  Update(channel, ev).known = channel.known
<1>1. channel \in ChannelType /\ channel.index # "kNew"
  BY DEF Live, LifeInv, StartInv, TypeInv, ConnType
<1>2. Update(channel, ev).known <=> channel.known
  BY <1>1, UpdateFacts
<1>3. Update(channel, ev).known \in BOOLEAN /\ channel.known \in BOOLEAN
  BY <1>1, UpdateFacts DEF ChannelType
<1> QED  BY <1>2, <1>3

LEMMA TraceStep ==
    ASSUME Careful, StopsSafely, MaxTrace > 3, Live, TraceInv, [Next]_vars, Orderly'
    PROVE  TraceInv'
<1> USE DEF Live
<1>1. channel \in ChannelType /\ state_ \in StateE
  BY DEF TypeInv, ConnType
<1>2. ASSUME HandleClose, Up, cb = "none", ~Undefined, UNCHANGED server PROVE TraceInv'
  <2>1. trace' = Append(trace, "DOWN") /\ state_' = "kDisconnected" /\ cb' = "down"
    BY <1>2, LogAppends DEF HandleClose
  <2>2. channel'.known = channel.known
    <3>1. {} \in SUBSET Flags /\ channel' = Update(channel, {}) /\ state_ # "kConnecting"
      BY <1>1, <1>2, ChannelOps DEF HandleClose, Up
    <3> QED  BY <3>1, KnownSame
  <2>3. ~channel.known => ~server
    BY <1>2 DEF LifeInv, StartInv, EndInv, Removed, Up
  <2> QED  BY <1>2, <2>1, <2>2, <2>3, Traces DEF TraceInv, Up
<1>3. ASSUME ConnectEstablished, state_ = "kConnecting" PROVE TraceInv'
  <2>1. trace' = Append(trace, "UP") /\ state_' = "kConnected" /\ trace = <<>>
    BY <1>3, LogAppends DEF ConnectEstablished, TraceInv
  <2>2. channel'.known
    <3> DEFINE ev == channel.events \cup kReadEvent
    <3>1. ev \in SUBSET Flags /\ channel' = Update(channel, ev) /\ channel.index = "kNew"
      BY <1>1, <1>3, ChannelOps DEF ConnectEstablished, LifeInv, StartInv
    <3> HIDE DEF ev
    <3> QED  BY <1>1, <3>1, UpdateFacts
  <2> QED  BY <2>1, <2>2 DEF TraceInv, Up
<1>4. ASSUME NEW m \in Msgs, SendInLoop(m), state_ # "kConnecting" PROVE channel'.known = channel.known
  <2> DEFINE ev == channel.events \cup kWriteEvent
  <2>1. ev \in SUBSET Flags /\ (channel' = channel \/ channel' = Update(channel, ev))
    BY <1>1, <1>4, SendEffect, ChannelOps
  <2> HIDE DEF ev
  <2> QED  BY <1>4, <2>1, KnownSame
<1>5. CASE UNCHANGED vars
  BY <1>5, TraceSame DEF vars, connVars, serverVars, Undefined
<1>6. CASE Accept \/ RunConnectEstablished
  <2>1. ConnectEstablished
    BY <1>6 DEF Accept, RunConnectEstablished
  <2>2. state_ = "kConnecting"
    <3>1. CASE Accept
      BY <3>1 DEF Accept, InLoop, LifeInv, StartInv
    <3>2. CASE RunConnectEstablished
      <4>1. next <= Len(functors) /\ functors[next].fn = "connectEstablished"
        BY <3>2 DEF RunConnectEstablished, RunFunctor
      <4>2. Len(functors) \in Nat /\ next \in 1..Len(functors)
        BY <4>1, LenProperties DEF TypeInv, QueueType
      <4>3. Left("connectEstablished")
        BY <4>1, <4>2 DEF Left
      <4> QED  BY <4>3 DEF LifeInv, StartInv, Awaited
    <3> QED  BY <1>6, <3>1, <3>2
  <2> QED  BY <1>3, <2>1, <2>2
<1>7. CASE Poll \/ Dispatch \/ BeginPending \/ EndPending
  <2>1. UNCHANGED <<state_, trace, server>> /\ cb = "none" /\ ~Undefined
    BY <1>7 DEF Poll, Dispatch, BeginPending, EndPending, InLoop, connVars, serverVars
  <2>2. channel'.known = channel.known
    BY <1>1, <1>7 DEF Poll, Dispatch, BeginPending, EndPending, connVars, ChannelType
  <2> QED  BY <2>1, <2>2, TraceSame
<1>8. ASSUME NEW h, NEW e, Handler(h, e) PROVE cb = "none" /\ ~Undefined /\ UNCHANGED server /\ h \in todo
  BY <1>8 DEF Handler, InLoop, serverVars
<1>9. CASE CloseEvent \/ ReadEvent \/ ErrorEvent
  <2>1. PICK h, e : Handler(h, e)
    BY <1>9 DEF CloseEvent, ReadEvent, ErrorEvent
  <2>2. CASE HandleClose /\ (CloseEvent \/ ReadEvent)
    <3>1. todo \cap {"close", "read"} # {}
      BY <1>8, <2>2 DEF CloseEvent, ReadEvent
    <3>2. Up
      BY <3>1 DEF LifeInv, HandlersInv
    <3> QED  BY <1>2, <1>8, <2>1, <2>2, <3>2
  <2>3. CASE UNCHANGED <<state_, channel, trace>>
    BY <1>8, <2>1, <2>3, TraceSame
  <2> QED  BY <1>9, <2>2, <2>3 DEF CloseEvent, ReadEvent, ErrorEvent
<1>10. CASE WriteEvent
  <2>1. cb = "none" /\ ~Undefined /\ UNCHANGED <<state_, trace, server>> /\ "write" \in todo
    BY <1>8, <1>10 DEF WriteEvent
  <2>2. state_ # "kConnecting"
    BY <2>1 DEF LifeInv, StartInv
  <2> DEFINE ev == channel.events \ kWriteEvent
  <2>3. ev \in SUBSET Flags /\ (channel' = channel \/ channel' = Update(channel, ev))
    BY <1>1, <1>10, ChannelOps DEF WriteEvent
  <2> HIDE DEF ev
  <2>4. channel'.known = channel.known
    BY <2>2, <2>3, KnownSame
  <2> QED  BY <2>1, <2>4, TraceSame
<1>11. ASSUME NEW f, RunFunctor(f)
       PROVE  /\ cb = "none" /\ ~Undefined /\ UNCHANGED server /\ Awaited(f) /\ functors[next] \in Sendable
              /\ pc = "functors" /\ next <= Len(functors) /\ functors[next].fn = f
              /\ f # "connectEstablished" => state_ # "kConnecting"
  <2>1. /\ cb = "none" /\ ~Undefined /\ UNCHANGED server /\ pc = "functors" /\ next <= Len(functors)
        /\ functors[next].fn = f
    BY <1>11 DEF RunFunctor, InLoop, serverVars
  <2>2. Len(functors) \in Nat /\ next \in 1..Len(functors) /\ functors[next] \in Sendable
    BY <2>1, LenProperties, ElementOfSeq DEF TypeInv, QueueType
  <2>3. Awaited(f)
    BY <2>1, <2>2 DEF Left, Awaited
  <2>4. functors = <<Functor("connectEstablished")>> /\ next = 1 => functors[next].fn = "connectEstablished"
    BY DEF Functor
  <2>5. f # "connectEstablished" => state_ # "kConnecting"
    BY <2>1, <2>4 DEF LifeInv, StartInv
  <2> QED  BY <2>1, <2>2, <2>3, <2>5
<1>12. CASE RunConnectDestroyed
  <2>1. state_ = "kDisconnected" /\ channel.known /\ ~Undefined /\ UNCHANGED server
    BY <1>11, <1>12 DEF RunConnectDestroyed, LifeInv, EndInv
  <2>2. channel' = remove(channel) /\ state_' = state_ /\ trace' = Append(trace, "REMOVED") /\ trace = <<"UP", "DOWN">>
    BY <1>12, <2>1, LogAppends DEF RunConnectDestroyed, ConnectDestroyed, TraceInv
  <2>3. ~channel'.known
    BY <1>1, <2>2, RemoveFacts
  <2> QED  BY <2>1, <2>2, <2>3, Traces DEF TraceInv, Up
<1>13. CASE RunForceCloseInLoop
  BY <1>2, <1>11, <1>13, TraceSame DEF RunForceCloseInLoop, Up
<1>14. CASE RunSendInLoop
  <2>1. functors[next].msg \in Msgs /\ state_ # "kConnecting" /\ SendInLoop(functors[next].msg)
    BY <1>11, <1>14 DEF RunSendInLoop, Sendable
  <2>2. channel'.known = channel.known
    BY <1>4, <2>1
  <2> QED  BY <1>11, <1>14, <2>2, TraceSame DEF RunSendInLoop
<1>15. CASE RunShutdownInLoop \/ RunUserCallback
  <2>1. PICK f : RunFunctor(f)
    BY <1>15 DEF RunShutdownInLoop, RunUserCallback
  <2>2. UNCHANGED <<state_, channel, trace>>
    BY <1>15 DEF RunShutdownInLoop, RunUserCallback, connVars
  <2> QED  BY <1>11, <2>1, <2>2, TraceSame
<1>16. CASE RunReadingInLoop \/ RunOnDeadObject
  <2>1. CASE RunReadingInLoop
    <3>1. PICK f \in {"startReadInLoop", "stopReadInLoop"} : RunFunctor(f)
      BY <2>1 DEF RunReadingInLoop
    <3>2. Batch(f)
      <4>1. Len(functors) \in Nat /\ next \in 1..Len(functors) /\ functors[next].fn = f
        BY <1>11, <3>1, LenProperties DEF TypeInv, QueueType
      <4> QED  BY <4>1 DEF Batch
    <3> QED  BY <3>1, <3>2 DEF LifeInv, AppInv, RawFunctors
  <2>2. CASE RunOnDeadObject
    BY <2>2, FunctorsFindObject DEF RunOnDeadObject
  <2> QED  BY <1>16, <2>1, <2>2
<1>17. CASE CallbackReturn
  <2>1. cb # "none" /\ cb' = "none" /\ ~Undefined /\ UNCHANGED <<state_, server>>
    BY <1>17 DEF CallbackReturn
  <2>2. CASE cb = "destroyed"
    <3>1. state_ = "kDisconnected" /\ channel.known /\ channel' = remove(channel)
      BY <1>17, <2>2 DEF LifeInv, EndInv, CallbackReturn
    <3>2. trace' = Append(trace, "REMOVED") /\ trace = <<"UP", "DOWN">>
      BY <1>17, <2>2, <3>1, LogAppends DEF CallbackReturn, TraceInv
    <3>3. ~channel'.known
      BY <1>1, <3>1, RemoveFacts
    <3> QED  BY <2>1, <3>1, <3>2, <3>3, Traces DEF TraceInv, Up
  <2>3. CASE cb = "down"
    <3>1. UNCHANGED <<channel, trace>> /\ CloseCallback /\ state_ = "kDisconnected"
      BY <1>17, <2>3 DEF CallbackReturn, LifeInv, EndInv
    <3>2. ~server => Undefined'
      BY <2>1, <3>1 DEF CloseCallback, RemoveConnectionInLoop, Require, Undefined, UndefinedBehaviour
    <3> QED  BY <2>1, <2>3, <3>1, <3>2 DEF TraceInv, Up
  <2>4. CASE cb # "down" /\ cb # "destroyed"
    <3>1. UNCHANGED <<channel, trace>>
      BY <1>17, <2>4 DEF CallbackReturn
    <3> QED  BY <2>1, <2>4, <3>1, TraceSame
  <2> QED  BY <2>2, <2>3, <2>4
<1>18. CASE RunRemoveConnectionInLoop
  <2>1. UNCHANGED <<state_, channel, trace, server, cb>> /\ RemoveConnectionInLoop
    BY <1>18 DEF RunRemoveConnectionInLoop, connVars
  <2>2. Undefined => Undefined'
    BY <2>1 DEF RemoveConnectionInLoop, Require, Undefined
  <2> QED  BY <2>1, <2>2, TraceSame
<1>19. CASE DestroyServer
  <2>1. server' = FALSE /\ OneLoop
    BY <1>19 DEF DestroyServer, Orderly
  <2>2. /\ pc = "poll" /\ cb = "none" /\ ~Undefined
        /\ IF inTable THEN ConnectDestroyed ELSE UNCHANGED <<state_, channel, cb, trace>>
    BY <1>19, <2>1 DEF DestroyServer, InLoop
  <2>3. state_ # "kConnecting"
    BY <2>1, <2>2 DEF LifeInv, StartInv
  <2>4. CASE ~inTable
    BY <2>1, <2>2, <2>4, TraceSame
  <2>5. CASE inTable /\ state_ = "kConnected"
    <3>1. channel' = disableAll(channel) /\ state_' = "kDisconnected" /\ trace' = Append(trace, "DOWN")
      BY <2>2, <2>5, LogAppends DEF ConnectDestroyed
    <3>2. channel.known /\ trace = <<"UP">>
      BY <2>5 DEF LifeInv, ChannelInv, TraceInv, Up
    <3>3. channel'.known = channel.known
      <4>1. {} \in SUBSET Flags /\ channel' = Update(channel, {})
        BY <1>1, <3>1, ChannelOps
      <4> QED  BY <2>3, <4>1, KnownSame
    <3> QED  BY <3>1, <3>2, <3>3, Traces DEF TraceInv, Up
  <2>6. CASE inTable /\ state_ # "kConnected"
    <3>1. channel' = remove(channel) /\ state_' = state_ /\ trace' = Append(trace, "REMOVED")
      BY <2>2, <2>6, LogAppends DEF ConnectDestroyed
    <3>2. channel.known /\ ~channel'.known
      BY <1>1, <2>3, <2>6, <3>1, RemoveFacts DEF LifeInv, EndInv, StartInv, Removed
    <3>3. trace = IF state_ = "kDisconnected" THEN <<"UP", "DOWN">> ELSE <<"UP">>
      BY <1>1, <2>3, <3>2 DEF TraceInv, Up, StateE
    <3> QED  BY <1>1, <2>3, <2>6, <3>1, <3>2, <3>3, Traces DEF TraceInv, Up, StateE
  <2> QED  BY <2>4, <2>5, <2>6
<1>20. CASE HereStep \/ Drop
  <2>1. CASE Keep \/ Drop
    BY <2>1, TraceSame DEF Keep, Drop, connVars, serverVars, Undefined
  <2>2. ASSUME NEW op, Here(op) PROVE UNCHANGED <<cb, trace, failed, server>> /\ state_ # "kConnecting" /\ op \in Ops[mode_]
    BY <2>2 DEF Here, serverVars, LifeInv, StartInv
  <2>3. CASE ShutdownHere \/ ForceCloseHere
    BY <2>2, <2>3, TraceSame DEF ShutdownHere, ForceCloseHere, Up, Undefined
  <2>4. ASSUME NEW m \in Msgs, SendHere(m) PROVE TraceInv'
    <3>1. PICK op : Here(op)
      BY <2>4 DEF SendHere
    <3>2. channel'.known = channel.known
      BY <1>4, <2>2, <2>4, <3>1 DEF SendHere
    <3> QED  BY <2>2, <2>4, <3>1, <3>2, TraceSame DEF SendHere, Undefined
  <2>5. CASE ReadingHere
    <3>1. PICK op : Here(op)
      BY <2>5 DEF ReadingHere
    <3>2. channel'.known = channel.known
      <4>1. \/ channel' = channel
            \/ channel' = Update(channel, channel.events \cup kReadEvent)
            \/ channel' = Update(channel, channel.events \ kReadEvent)
        BY <1>1, <2>5, ChannelOps DEF ReadingHere, StartReadInLoop, StopReadInLoop
      <4>2. channel.events \cup kReadEvent \in SUBSET Flags /\ channel.events \ kReadEvent \in SUBSET Flags
        BY <1>1, ChannelOps
      <4> QED  BY <2>2, <3>1, <4>1, <4>2, KnownSame
    <3> QED  BY <2>2, <2>5, <3>1, <3>2, TraceSame DEF ReadingHere, Undefined
  <2> QED  BY <1>20, <2>1, <2>3, <2>4, <2>5 DEF HereStep
<1>21. ASSUME NEW u \in Users, UserStep(u) PROVE TraceInv'
  <2>1. \A op, at, m : Enter(u, op, at, m) => UNCHANGED <<state_, channel, trace, server, cb, failed>>
    BY DEF Enter, UserFrame, serverVars
  <2>2. ~SetDisconnecting(u)
    BY DEF SetDisconnecting, LifeInv, AppInv
  <2>3. QueueFunctor(u) => UNCHANGED <<state_, channel, trace, server, cb, failed>>
    BY DEF QueueFunctor, UserFrame, serverVars
  <2>4. UNCHANGED <<state_, channel, trace, server, cb, failed>>
    BY <1>21, <2>1, <2>2, <2>3 DEF UserStep, CallSend, CallShutdown, CallForceClose, CallReading
  <2> QED  BY <2>4, TraceSame DEF Undefined
<1>22. CASE PeerSends \/ PeerDrains \/ PeerCloses \/ PeerResets
  <2>1. ASSUME NEW s, PeerStep(s) PROVE TraceInv'
    <3>1. channel'.known = channel.known
      BY <1>1, <2>1, TouchFacts DEF PeerStep
    <3> QED  BY <2>1, <3>1, TraceSame DEF PeerStep, serverVars, Undefined
  <2> QED  BY <1>22, <2>1 DEF PeerSends, PeerDrains, PeerCloses, PeerResets
<1>23. CASE LoopStep
  BY <1>6, <1>7, <1>9, <1>10, <1>12, <1>13, <1>14, <1>15, <1>16, <1>17, <1>23 DEF LoopStep
<1> QED  BY <1>5, <1>18, <1>19, <1>20, <1>21, <1>22, <1>23 DEF Next

-----------------------------------------------------------------------------
(* What the invariant means to the application.                            *)

LEMMA SafeStates ==
    ASSUME Live
    PROVE  AssertsHold /\ WritingWhileBuffered /\ NoDanglingChannel /\ PolledForSomething
<1> USE DEF Live, LifeInv
<1>1. state_ \in StateE /\ channel \in ChannelType
  BY DEF TypeInv, ConnType
<1>2. AssertsHold
  BY DEF AssertsHold, FailedInv
<1>3. WritingWhileBuffered
  <2>1. sock.wrShut => outputBuffer_ = <<>>
    BY DEF ChannelInv
  <2>2. ASSUME state_ # "kDisconnected", inTable
        PROVE  /\ outputBuffer_ # <<>> => "OUT" \in channel.events /\ channel.index = "kAdded"
               /\ ~isET /\ "OUT" \in channel.events => outputBuffer_ # <<>>
    <3>1. CASE state_ = "kConnecting"
      BY <3>1 DEF StartInv
    <3>2. CASE state_ # "kConnecting"
      <4>1. Up /\ channel.known
        BY <1>1, <2>2, <3>2 DEF Up, StateE, EndInv, Removed, StartInv
      <4> QED  BY <4>1 DEF ChannelInv
    <3> QED  BY <3>1, <3>2
  <2> QED  BY <2>1, <2>2 DEF WritingWhileBuffered
<1>4. ASSUME ~Alive PROVE ~channel.known /\ channel.index = "kDeleted"
  <2>1. ~inTable /\ cb # "destroyed" /\ ~KeepsAlive(pendingFunctors_) /\ ~KeepsAlive(functors)
    BY <1>4 DEF Alive
  <2>2. \A f \in SharedFunctors : ~Pend(f) /\ ~Batch(f) /\ ~Left(f)
    <3>1. /\ DOMAIN pendingFunctors_ = 1..Len(pendingFunctors_) /\ DOMAIN functors = 1..Len(functors)
          /\ next \in 1..(Len(functors) + 1)
      BY LenProperties DEF TypeInv, QueueType
    <3>2. \A f \in SharedFunctors : ~Pend(f) /\ ~Batch(f)
      BY <2>1, <3>1 DEF KeepsAlive, Pend, Batch
    <3>3. \A f : Left(f) => Batch(f)
      BY <3>1 DEF Left, Batch
    <3> QED  BY <3>2, <3>3
  <2>3. ~Awaited("connectDestroyed") /\ ~Forced /\ ~Batch("forceCloseInLoop")
    BY <2>2 DEF Awaited, Forced, SharedFunctors
  <2>4. state_ # "kConnecting" /\ channel.index # "kNew"
    BY <2>1 DEF StartInv
  <2>5. ~channel.known
    BY <2>1, <2>3 DEF EndInv
  <2>6. Removed /\ (state_ = "kDisconnecting" \/ state_ = "kDisconnected")
    BY <1>1, <2>4, <2>5 DEF Removed, ChannelInv, StateE
  <2> QED  BY <2>3, <2>5, <2>6 DEF RemovedInv
<1>5. ASSUME InLoop("poll"), channel.index = "kAdded" PROVE channel.events # {}
  <2>1. pc = "poll" /\ cb = "none" /\ channel.index # "kNew" /\ channel.index # "kDeleted"
    BY <1>5 DEF InLoop
  <2>2. channel.known /\ state_ # "kConnecting"
    BY <1>1, <2>1 DEF StartInv, RemovedInv, Removed, ChannelInv, StateE
  <2>3. Up
    BY <1>1, <2>1, <2>2 DEF ChannelInv, Closing, Up, StateE
  <2> QED  BY <1>5, <2>2, <2>3 DEF ChannelInv
<1> QED  BY <1>2, <1>3, <1>4, <1>5 DEF NoDanglingChannel, PolledForSomething

(* Other threads may send at any time, through a pointer that is kept: as  *)
(* long as they do nothing else and the server lives, no functor runs on a *)
(* destructed connection and no assertion fails, on one loop or two and    *)
(* whatever the callbacks do, if they stop reading safely.                 *)
THEOREM SendingIsSafe ==
    ASSUME Careful, StopsSafely
    PROVE  Spec => []SendsAreSafe
<1>1. TypeInv /\ (Orderly => LifeInv) => SendsAreSafe
  <2> SUFFICES ASSUME TypeInv, Orderly => LifeInv, tame, server PROVE AssertsHold
    BY DEF SendsAreSafe, AssertsHold
  <2> QED  BY SafeStates DEF Live, Orderly
<1> QED  BY <1>1, LifeAlways, PTL

(* Without other threads the assertions hold as long as the server lives.  *)
THEOREM ConnectionAssertsHold ==
    ASSUME Careful, StopsSafely, Users = {}
    PROVE  Spec => []AssertsHold
<1>1. Init => tame
  BY Zenon DEF Init
<1>2. TypeInv /\ tame /\ [Next]_vars => tame'
  BY OrderlyBefore
<1>3. Spec => []tame
  <2>1. Spec => []TypeInv
    BY TypeInit, TypeStep, PTL DEF Spec
  <2> QED  BY <1>1, <1>2, <2>1, PTL DEF Spec
<1>4. tame /\ SendsAreSafe => AssertsHold
  BY DEF SendsAreSafe
<1> QED  BY <1>3, <1>4, SendingIsSafe, PTL

(* Data that waits is registered to be written, and the write end is       *)
(* closed only behind the last byte, in both modes, as long as the         *)
(* application is orderly.                                                 *)
THEOREM BufferedDataIsWatched ==
    ASSUME Careful, StopsSafely
    PROVE  Spec => [](Orderly => WritingWhileBuffered)
<1>1. TypeInv /\ (Orderly => LifeInv) => (Orderly => WritingWhileBuffered)
  BY SafeStates DEF Live
<1> QED  BY <1>1, LifeAlways, PTL

(* The poller has forgotten the channel before the last shared pointer     *)
(* goes, even when ~TcpServer meets a connection that is half closed.      *)
THEOREM PollerForgetsInTime ==
    ASSUME Careful, StopsSafely
    PROVE  Spec => [](Orderly => NoDanglingChannel)
<1>1. TypeInv /\ (Orderly => LifeInv) => (Orderly => NoDanglingChannel)
  BY SafeStates DEF Live
<1> QED  BY <1>1, LifeAlways, PTL

(* epoll_wait is not called while the channel is registered for nothing:   *)
(* closing a connection that has stopped reading registers it so, and the  *)
(* removal comes first.                                                    *)
THEOREM NothingIdleIsPolled ==
    ASSUME Careful, StopsSafely
    PROVE  Spec => [](Orderly => PolledForSomething)
<1>1. TypeInv /\ (Orderly => LifeInv) => (Orderly => PolledForSomething)
  BY SafeStates DEF Live
<1> QED  BY <1>1, LifeAlways, PTL

(* UP, DOWN, REMOVED, each once and in this order, and messages only while *)
(* UP; a destructed server may skip DOWN.  The history is long enough to   *)
(* hold a fourth event, so that there is none.                             *)
THEOREM LifecycleIsWalkedOnce ==
    ASSUME Careful, StopsSafely, MaxTrace > 3
    PROVE  Spec => [](Orderly => Lifecycle)
<1> DEFINE Inv == TypeInv /\ (Orderly => LifeInv /\ TraceInv)
<1>1. Init => Inv
  <2> SUFFICES ASSUME Init PROVE TraceInv
    BY TypeInit, LifeInit
  <2>1. state_ = "kConnecting" /\ trace = <<>>
    BY DEF Init
  <2> QED  BY <2>1 DEF TraceInv, Up
<1>2. Inv /\ [Next]_vars => Inv'
  <2> SUFFICES ASSUME TypeInv, Orderly => LifeInv /\ TraceInv, [Next]_vars
               PROVE  TypeInv' /\ (Orderly' => LifeInv' /\ TraceInv')
    OBVIOUS
  <2>1. Orderly' => Orderly
    BY OrderlyBefore DEF Orderly
  <2> QED  BY <2>1, TypeStep, LifeStep, TraceStep DEF Live
<1>3. Inv => (Orderly => Lifecycle)
  <2> SUFFICES ASSUME TypeInv, Orderly, LifeInv, TraceInv PROVE Lifecycle
    OBVIOUS
  <2>1. state_ \in StateE
    BY DEF TypeInv, ConnType
  <2>2. cb = "message" => trace = <<"UP">>
    BY DEF LifeInv, HandlersInv, TraceInv
  <2>3. Up /\ ~channel.known => ~server
    BY DEF LifeInv, StartInv, EndInv, Removed, Up
  <2> QED  BY <2>1, <2>2, <2>3 DEF Lifecycle, TraceInv, Up, StateE
<1> QED  BY <1>1, <1>2, <1>3, PTL DEF Spec
=============================================================================
