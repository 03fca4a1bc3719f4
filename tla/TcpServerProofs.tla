--------------------------- MODULE TcpServerProofs ---------------------------
(***************************************************************************)
(* Proofs about TcpServer, for any number of loops, connections and        *)
(* descriptors: a connection is established first and destroyed last, each *)
(* of them once; it is kept by exactly one of the table and a functor; the *)
(* pool hands out loops that run, evenly; and the event masks agree.       *)
(***************************************************************************)
EXTENDS TcpServer, SequenceTheorems, FiniteSetTheorems, TLAPS

Alive == {"kConnecting", "kConnected", "kDisconnected"}

Ops == {"connectEstablished", "removeConnectionInLoop", "connectDestroyed"}

Functors == Ops \X Conns

Ending == server \in {"joining", "gone"}

(* Is a functor in the queue of loop l? *)
In(q, l, op, c) == \E i \in 1..Len(q[l]) : q[l][i] = <<op, c>>

-----------------------------------------------------------------------------
(* The inductive invariant.                                                *)

TypeInv ==
    /\ numThreads_ \in 0..MaxThreads /\ loops_ \in Seq(IoLoops) /\ next_ \in Nat
    /\ loop_ \in [IoLoops -> BOOLEAN] /\ quit_ \in [IoLoops -> BOOLEAN] /\ pc \in [Loops -> ThreadPlaces]
    /\ DOMAIN wakeupEvents = Loops
    /\ server \in {"new", "starting", "listening", "joining", "gone"}
    /\ connections_ \subseteq Conns
    /\ state_ \in [Conns -> Alive \cup {"none", "destroyed", "dropped"}]
    /\ loopOf \in [Conns -> Loops] /\ DOMAIN connEvents = Conns
    /\ pendingFunctors_ \in [Loops -> Seq(Functors)]

(* Every connection comes of a peer. *)
CountInv ==
    /\ backlog \in Nat /\ peers \in 0..MaxConns /\ nextConnId_ \in Nat \ {0}
    /\ nextConnId_ + backlog <= peers + 1

(* The functors of a round are among those that are queued. *)
BatchInv ==
    /\ batch \in [Loops -> Nat]
    /\ \A l \in Loops : batch[l] <= Len(pendingFunctors_[l]) /\ (pc[l] # "functors" => batch[l] = 0)

(* Threads are started one after the other and quit only at the end; a     *)
(* loop is in the pool when it is published; no loop is built any more     *)
(* once the server listens.                                                *)
PoolInv ==
    /\ Len(loops_) <= numThreads_ /\ \A i \in 1..Len(loops_) : loops_[i] = i
    /\ \A l \in IoLoops :
          /\ pc[l] # "none" => l <= Len(loops_) + 1
          /\ l <= Len(loops_) => pc[l] \notin {"none", "building", "built"}
          /\ loop_[l] => pc[l] \notin {"none", "building", "built"}
          /\ pc[l] \in {"published", "events", "functors", "left"} => loop_[l]
          /\ quit_[l] \/ pc[l] \in {"left", "ended"} => Ending
          /\ server # "starting" => pc[l] # "building"
          /\ pc[l] # "none" => l <= numThreads_
          /\ pc[l] \notin {"none", "building"} => wakeupEvents[l] = {"IN"}
    /\ pc[0] \in {"none", "events", "functors"} /\ (pc[0] = "none" => server = "new")
    /\ server = "listening" => Len(loops_) = numThreads_
    /\ server \in {"new", "starting"} => nextConnId_ = 1 /\ next_ = 0
    /\ next_ = 0 \/ next_ < Len(loops_)

(* A functor is queued once, and connectEstablished before connectDestroyed. *)
InOrder(s) ==
    \A i, j \in 1..Len(s) :
        /\ s[i] = s[j] => i = j
        /\ \A c \in Conns : s[i] = <<"connectEstablished", c>> /\ s[j] = <<"connectDestroyed", c>> => i < j

Ordered(q) == \A l \in Loops : InOrder(q[l])

(* Which functors there are for a connection, by its state. *)
FunctorsInv ==
    \A c \in Conns, l \in Loops :
        /\ In(pendingFunctors_, l, "connectEstablished", c) =>
              l = loopOf[c] /\ l # 0 /\ state_[c] = "kConnecting"
        /\ In(pendingFunctors_, l, "removeConnectionInLoop", c) =>
              /\ l = 0 /\ loopOf[c] # 0 /\ state_[c] \in {"kDisconnected", "destroyed", "dropped"}
              /\ ~Ending => c \in connections_
        /\ In(pendingFunctors_, l, "connectDestroyed", c) =>
              /\ l = loopOf[c] /\ c \notin connections_ /\ state_[c] \in Alive
              /\ state_[c] # "kDisconnected" => Ending /\ l # 0

(* What keeps a connection, by its state. *)
KeeperInv ==
    /\ \A c \in Conns :
          /\ c >= nextConnId_ <=> state_[c] = "none"
          /\ c \in connections_ => state_[c] \in Alive
          /\ c \in connections_ /\ state_[c] = "kDisconnected" =>
                In(pendingFunctors_, 0, "removeConnectionInLoop", c)
          /\ state_[c] \in Alive => c \in connections_ \/ In(pendingFunctors_, loopOf[c], "connectDestroyed", c)
          /\ state_[c] = "kConnecting" => In(pendingFunctors_, loopOf[c], "connectEstablished", c)
    /\ Ending => connections_ = {}

(* The loops get their connections by turns: the first next_ ones have one *)
(* more than the others.                                                   *)
TurnInv == \E q \in Nat : \A i \in 1..Len(loops_) : Dealt(i) = IF i <= next_ THEN q + 1 ELSE q

ConnInv == Ordered(pendingFunctors_) /\ FunctorsInv /\ KeeperInv /\ AssertsHold

SetupInv == TypeInv /\ CountInv /\ BatchInv /\ PoolInv /\ MasksAgree

-----------------------------------------------------------------------------
(* Queues of functors.                                                     *)

LEMMA LoopsFacts ==
    /\ 0 \in Loops /\ \A l \in IoLoops : l \in Loops /\ l # 0 /\ l \in Nat
    /\ \A l \in Loops : l # 0 => l \in IoLoops
  BY ThreadsAssumption DEF Loops, IoLoops

LEMMA PushIn ==
    ASSUME NEW q \in [Loops -> Seq(Functors)], NEW l \in Loops, NEW op \in Ops, NEW c \in Conns
    PROVE  /\ Push(q, l, op, c) \in [Loops -> Seq(Functors)]
           /\ \A k \in Loops : Len(Push(q, l, op, c)[k]) >= Len(q[k])
           /\ \A k \in Loops : k # l => Push(q, l, op, c)[k] = q[k]
           /\ \A k \in Loops : \A o, d :
                 In(Push(q, l, op, c), k, o, d) <=> In(q, k, o, d) \/ (k = l /\ o = op /\ d = c)
           /\ /\ Ordered(q) /\ ~In(q, l, op, c)
              /\ op = "connectEstablished" => ~In(q, l, "connectDestroyed", c)
              => Ordered(Push(q, l, op, c))
<1> DEFINE r == Push(q, l, op, c) n == Len(q[l]) f == <<op, c>>
<1>1. f \in Functors
  BY DEF Functors
<1>2. q[l] \in Seq(Functors) /\ n \in Nat
  BY LenProperties
<1>3. /\ Append(q[l], f) \in Seq(Functors) /\ Len(Append(q[l], f)) = n + 1
      /\ \A i \in 1..n : Append(q[l], f)[i] = q[l][i]
      /\ Append(q[l], f)[n + 1] = f
  BY <1>1, <1>2, AppendProperties
<1>4. /\ r \in [Loops -> Seq(Functors)] /\ r[l] = Append(q[l], f)
      /\ \A k \in Loops : k # l => r[k] = q[k]
  BY <1>3 DEF Push
<1>5. /\ r[l] \in Seq(Functors) /\ Len(r[l]) = n + 1
      /\ \A i \in 1..n : r[l][i] = q[l][i]
      /\ r[l][n + 1] = f
  BY <1>3, <1>4
<1> HIDE DEF r, n, f
<1>6. \A i \in 1..(n + 1) : i \in 1..n \/ i = n + 1
  BY <1>2
<1>7. \A i \in 1..n : i \in 1..(n + 1) /\ i < n + 1
  BY <1>2
<1>8. n + 1 \in 1..(n + 1)
  BY <1>2
<1>9. \A k \in Loops : Len(r[k]) >= Len(q[k])
  <2>1. \A k \in Loops : Len(q[k]) \in Nat
    BY LenProperties
  <2>2. Len(r[l]) >= Len(q[l])
    BY <1>2, <1>5 DEF n
  <2>3. \A k \in Loops : k # l => Len(r[k]) >= Len(q[k])
    BY <1>4, <2>1
  <2> QED  BY <2>2, <2>3
<1>10. ASSUME NEW k \in Loops, NEW o, NEW d
       PROVE  In(r, k, o, d) <=> In(q, k, o, d) \/ (k = l /\ o = op /\ d = c)
  <2>1. CASE k # l
    BY <1>4, <2>1 DEF In
  <2>2. CASE k = l
    <3>1. ASSUME In(r, k, o, d) PROVE In(q, k, o, d) \/ (o = op /\ d = c)
      <4>1. PICK i \in 1..(n + 1) : r[l][i] = <<o, d>>
        BY <1>5, <2>2, <3>1 DEF In
      <4>2. CASE i \in 1..n
        BY <1>5, <2>2, <4>1, <4>2 DEF In, n
      <4>3. CASE i = n + 1
        BY <1>5, <4>1, <4>3 DEF f
      <4> QED  BY <1>6, <4>2, <4>3
    <3>2. In(q, k, o, d) => In(r, k, o, d)
      BY <1>5, <1>7, <2>2 DEF In, n
    <3>3. o = op /\ d = c => In(r, k, o, d)
      BY <1>5, <1>8, <2>2 DEF In, f
    <3> QED  BY <2>2, <3>1, <3>2, <3>3
  <2> QED  BY <2>1, <2>2
<1>11. ASSUME Ordered(q), ~In(q, l, op, c),
              op = "connectEstablished" => ~In(q, l, "connectDestroyed", c)
       PROVE  Ordered(r)
  <2>1. \A i \in 1..n : q[l][i] # f
    BY <1>11 DEF In, n, f
  <2>2. ASSUME NEW d \in Conns, f = <<"connectEstablished", d>>, NEW j \in 1..n PROVE q[l][j] # <<"connectDestroyed", d>>
    <3>1. op = "connectEstablished" /\ d = c
      BY <2>2 DEF f
    <3> QED  BY <1>11, <3>1 DEF In, n
  <2>3. ASSUME NEW d \in Conns, f = <<"connectEstablished", d>> PROVE f # <<"connectDestroyed", d>>
    BY <2>3
  <2>4. ASSUME NEW i \in 1..(n + 1), NEW j \in 1..(n + 1)
        PROVE  /\ r[l][i] = r[l][j] => i = j
               /\ \A d \in Conns :
                     r[l][i] = <<"connectEstablished", d>> /\ r[l][j] = <<"connectDestroyed", d>> => i < j
    <3>1. CASE i \in 1..n /\ j \in 1..n
      BY <1>5, <1>11, <3>1 DEF Ordered, InOrder, n
    <3>2. CASE i \in 1..n /\ j = n + 1
      BY <1>5, <1>7, <2>1, <3>2
    <3>3. CASE i = n + 1 /\ j \in 1..n
      BY <1>5, <2>1, <2>2, <3>3
    <3>4. CASE i = n + 1 /\ j = n + 1
      BY <1>5, <2>3, <3>4
    <3> QED  BY <1>6, <3>1, <3>2, <3>3, <3>4
  <2>5. InOrder(r[l])
    BY <1>5, <2>4 DEF InOrder
  <2> QED  BY <1>4, <1>11, <2>5 DEF Ordered
<1> QED  BY <1>4, <1>9, <1>10, <1>11 DEF r

Pop(q, l) == [q EXCEPT ![l] = Tail(@)]

(* The queues r are q without the first functor of loop l. *)
Popped(q, r, l, op, c) ==
    /\ r \in [Loops -> Seq(Functors)] /\ Ordered(r)
    /\ Len(r[l]) = Len(q[l]) - 1 /\ \A k \in Loops : k # l => r[k] = q[k]
    /\ In(q, l, op, c) /\ op \in Ops /\ c \in Conns
    /\ \A k \in Loops : \A o, d : In(r, k, o, d) <=> In(q, k, o, d) /\ ~(k = l /\ o = op /\ d = c)
    /\ op = "connectDestroyed" => ~In(q, l, "connectEstablished", c)

LEMMA PopIn ==
    ASSUME NEW q \in [Loops -> Seq(Functors)], NEW l \in Loops, Len(q[l]) > 0, Ordered(q),
           NEW op, NEW c, Head(q[l]) = <<op, c>>
    PROVE  Popped(q, Pop(q, l), l, op, c)
<1> DEFINE r == Pop(q, l) n == Len(q[l]) f == <<op, c>>
<1>1. q[l] \in Seq(Functors) /\ n \in Nat \ {0} /\ q[l] # <<>>
  <2>1. q[l] \in Seq(Functors) /\ n \in Nat
    BY LenProperties
  <2>2. q[l] # <<>>
    BY <2>1
  <2> QED  BY <2>1, <2>2
<1>2. /\ Head(q[l]) \in Functors /\ Tail(q[l]) \in Seq(Functors) /\ Len(Tail(q[l])) = n - 1
      /\ \A i \in 1..Len(Tail(q[l])) : Tail(q[l])[i] = q[l][i + 1]
      /\ q[l][1] = f
  BY <1>1, HeadTailProperties
<1>3. /\ r \in [Loops -> Seq(Functors)] /\ r[l] = Tail(q[l]) /\ \A k \in Loops : k # l => r[k] = q[k]
  BY <1>2 DEF Pop
<1>4. op \in Ops /\ c \in Conns
  BY <1>2 DEF Functors
<1> HIDE DEF r, n, f
<1>5. Len(r[l]) = n - 1 /\ \A i \in 1..(n - 1) : r[l][i] = q[l][i + 1]
  BY <1>2, <1>3
<1>6. 1 \in 1..n /\ \A i \in 1..(n - 1) : i + 1 \in 1..n /\ i + 1 # 1
  BY <1>1
<1>7. \A i \in 1..n : i = 1 \/ (i - 1 \in 1..(n - 1) /\ (i - 1) + 1 = i)
  BY <1>1
<1>8. \A i \in 1..n : q[l][i] = f => i = 1
  BY <1>2, <1>6 DEF Ordered, InOrder, n
<1>9. ASSUME NEW k \in Loops, NEW o, NEW d
      PROVE  In(r, k, o, d) <=> In(q, k, o, d) /\ ~(k = l /\ o = op /\ d = c)
  <2>1. CASE k # l
    BY <1>3, <2>1 DEF In
  <2>2. CASE k = l
    <3>1. ASSUME In(r, k, o, d) PROVE In(q, k, o, d) /\ ~(o = op /\ d = c)
      <4>1. PICK i \in 1..(n - 1) : r[l][i] = <<o, d>>
        BY <1>5, <2>2, <3>1 DEF In
      <4>2. i + 1 \in 1..n /\ i + 1 # 1 /\ q[l][i + 1] = <<o, d>>
        BY <1>5, <1>6, <4>1
      <4>3. <<o, d>> # f
        BY <1>8, <4>2
      <4> QED  BY <2>2, <4>2, <4>3 DEF In, n, f
    <3>2. ASSUME In(q, k, o, d), ~(o = op /\ d = c) PROVE In(r, k, o, d)
      <4>1. PICK i \in 1..n : q[l][i] = <<o, d>>
        BY <2>2, <3>2 DEF In, n
      <4>2. i # 1
        BY <1>2, <3>2, <4>1 DEF f
      <4>3. i - 1 \in 1..(n - 1) /\ r[l][i - 1] = <<o, d>>
        BY <1>5, <1>7, <4>1, <4>2
      <4> QED  BY <1>5, <2>2, <4>3 DEF In
    <3> QED  BY <2>2, <3>1, <3>2
  <2> QED  BY <2>1, <2>2
<1>10. Ordered(r)
  <2>1. ASSUME NEW i \in 1..(n - 1), NEW j \in 1..(n - 1)
        PROVE  /\ r[l][i] = r[l][j] => i = j
               /\ \A d \in Conns :
                     r[l][i] = <<"connectEstablished", d>> /\ r[l][j] = <<"connectDestroyed", d>> => i < j
    <3>1. /\ r[l][i] = q[l][i + 1] /\ i + 1 \in 1..n /\ r[l][j] = q[l][j + 1] /\ j + 1 \in 1..n
      BY <1>5, <1>6
    <3>2. /\ q[l][i + 1] = q[l][j + 1] => i + 1 = j + 1
          /\ \A d \in Conns :
                q[l][i + 1] = <<"connectEstablished", d>> /\ q[l][j + 1] = <<"connectDestroyed", d>> => i + 1 < j + 1
      BY <3>1 DEF Ordered, InOrder, n
    <3>3. (i + 1 = j + 1 => i = j) /\ (i + 1 < j + 1 => i < j)
      BY <1>1
    <3> QED  BY <3>1, <3>2, <3>3
  <2>2. InOrder(r[l])
    BY <1>5, <2>1 DEF InOrder
  <2> QED  BY <1>3, <2>2 DEF Ordered
<1>11. ASSUME op = "connectDestroyed", In(q, l, "connectEstablished", c) PROVE FALSE
  <2>1. PICK i \in 1..n : q[l][i] = <<"connectEstablished", c>>
    BY <1>11 DEF In, n
  <2>2. i < 1
    BY <1>2, <1>4, <1>6, <1>11, <2>1 DEF Ordered, InOrder, n, f
  <2> QED  BY <1>1, <2>2
<1>12. In(q, l, op, c)
  BY <1>2, <1>6 DEF In, n, f
<1> QED  BY <1>3, <1>4, <1>5, <1>9, <1>10, <1>11, <1>12 DEF Popped, r, n

(* The functors of the destructor, for one loop. *)
LEMMA DestroyAllIn ==
    ASSUME connections_ \subseteq Conns, NEW l \in Loops
    PROVE  /\ DestroyAll(l) \in Seq(Functors) /\ Len(DestroyAll(l)) \in Nat
           /\ \A i \in 1..Len(DestroyAll(l)) :
                 \E c \in connections_ : loopOf[c] = l /\ DestroyAll(l)[i] = <<"connectDestroyed", c>>
           /\ \A c \in connections_ : loopOf[c] = l =>
                 \E i \in 1..Len(DestroyAll(l)) : DestroyAll(l)[i] = <<"connectDestroyed", c>>
           /\ \A i, j \in 1..Len(DestroyAll(l)) : DestroyAll(l)[i] = DestroyAll(l)[j] => i = j
<1> DEFINE mine == {c \in connections_ : loopOf[c] = l}
           n == Cardinality(mine)
           order == CHOOSE s \in Bijection(1..n, mine) : TRUE
           d == [i \in 1..n |-> <<"connectDestroyed", order[i]>>]
<1>1. IsFiniteSet(mine)
  <2>1. IsFiniteSet(Conns)
    BY ServerAssumption, FS_Interval DEF Conns
  <2>2. mine \in SUBSET Conns
    OBVIOUS
  <2> QED  BY <2>1, <2>2, FS_Subset
<1> HIDE DEF mine
<1>2. n \in Nat /\ ExistsBijection(1..n, mine)
  BY <1>1, FS_CardinalityType
<1> HIDE DEF n
<1>3. order \in Bijection(1..n, mine)
  BY <1>2 DEF ExistsBijection
<1> HIDE DEF order
<1>4. /\ order \in [1..n -> mine]
      /\ \A i, j \in 1..n : order[i] = order[j] => i = j
      /\ \A c \in mine : \E i \in 1..n : order[i] = c
  BY <1>3 DEF Bijection, Injection, Surjection, IsInjective
<1>5. \A i \in 1..n : <<"connectDestroyed", order[i]>> \in Functors
  BY <1>4 DEF mine, Functors, Ops
<1>6. d \in Seq(Functors) /\ Len(d) = n /\ \A i \in 1..n : d[i] = <<"connectDestroyed", order[i]>>
  BY <1>2, <1>5
<1>7. DestroyAll(l) = d
  BY DEF DestroyAll, mine, n, order
<1> HIDE DEF d
<1>8. \A i \in 1..n : \E c \in connections_ : loopOf[c] = l /\ d[i] = <<"connectDestroyed", c>>
  BY <1>4, <1>6 DEF mine
<1>9. \A c \in connections_ : loopOf[c] = l => \E i \in 1..n : d[i] = <<"connectDestroyed", c>>
  BY <1>4, <1>6 DEF mine
<1>10. \A i, j \in 1..n : d[i] = d[j] => i = j
  BY <1>4, <1>6
<1> QED  BY <1>2, <1>6, <1>7, <1>8, <1>9, <1>10

LEMMA DestructIn ==
    ASSUME connections_ \subseteq Conns, NEW q \in [Loops -> Seq(Functors)], Ordered(q),
           \A c \in connections_, l \in Loops : ~In(q, l, "connectDestroyed", c)
    PROVE  LET r == [l \in Loops |-> q[l] \o IF l = 0 THEN <<>> ELSE DestroyAll(l)]
           IN  /\ r \in [Loops -> Seq(Functors)] /\ Ordered(r)
               /\ \A l \in Loops : Len(r[l]) >= Len(q[l])
               /\ \A l \in Loops : \A o, c :
                     In(r, l, o, c) <=>
                        \/ In(q, l, o, c)
                        \/ l # 0 /\ o = "connectDestroyed" /\ c \in connections_ /\ loopOf[c] = l
<1> DEFINE D(l) == IF l = 0 THEN <<>> ELSE DestroyAll(l)
           r == [l \in Loops |-> q[l] \o D(l)]
<1>1. ASSUME NEW l \in Loops
      PROVE  /\ r[l] \in Seq(Functors) /\ InOrder(r[l]) /\ Len(r[l]) >= Len(q[l])
             /\ \A o, c : In(r, l, o, c) <=>
                   \/ In(q, l, o, c)
                   \/ l # 0 /\ o = "connectDestroyed" /\ c \in connections_ /\ loopOf[c] = l
  <2> DEFINE s == q[l] d == D(l) n == Len(s) m == Len(d) t == r[l]
  <2>1. s \in Seq(Functors) /\ n \in Nat
    BY LenProperties
  <2>2. d \in Seq(Functors) /\ m \in Nat
    BY <1>1, DestroyAllIn, EmptySeq
  <2>3. /\ \A i \in 1..m : \E c \in connections_ : l # 0 /\ loopOf[c] = l /\ d[i] = <<"connectDestroyed", c>>
        /\ \A c \in connections_ : l # 0 /\ loopOf[c] = l => \E i \in 1..m : d[i] = <<"connectDestroyed", c>>
        /\ \A i, j \in 1..m : d[i] = d[j] => i = j
    <3>1. CASE l = 0
      <4>1. d = <<>> /\ m = 0
        BY <3>1, EmptySeq
      <4> QED  BY <3>1, <4>1
    <3>2. CASE l # 0
      <4>1. d = DestroyAll(l)
        BY <3>2
      <4>2. /\ \A i \in 1..Len(DestroyAll(l)) :
                  \E c \in connections_ : loopOf[c] = l /\ DestroyAll(l)[i] = <<"connectDestroyed", c>>
            /\ \A c \in connections_ : loopOf[c] = l =>
                  \E i \in 1..Len(DestroyAll(l)) : DestroyAll(l)[i] = <<"connectDestroyed", c>>
            /\ \A i, j \in 1..Len(DestroyAll(l)) : DestroyAll(l)[i] = DestroyAll(l)[j] => i = j
        BY <1>1, DestroyAllIn
      <4> HIDE DEF d
      <4> QED  BY <3>2, <4>1, <4>2
    <3> QED  BY <3>1, <3>2
  <2>4. t = s \o d
    OBVIOUS
  <2> HIDE DEF s, d, n, m, t, r, D
  <2>5. /\ t \in Seq(Functors) /\ Len(t) = n + m
        /\ \A i \in 1..(n + m) : t[i] = IF i <= n THEN s[i] ELSE d[i - n]
    BY <2>1, <2>2, <2>4, ConcatProperties DEF n, m
  <2>6. \A i \in 1..(n + m) : (i \in 1..n /\ t[i] = s[i]) \/ (i - n \in 1..m /\ t[i] = d[i - n] /\ i > n)
    BY <2>1, <2>2, <2>5
  <2>7. /\ \A i \in 1..n : i \in 1..(n + m) /\ t[i] = s[i]
        /\ \A i \in 1..m : n + i \in 1..(n + m) /\ t[n + i] = d[i]
    BY <2>1, <2>2, <2>5
  <2>8. \A i \in 1..n, j \in 1..m : s[i] # d[j]
    BY <1>1, <2>3 DEF In, s, n
  <2>9. InOrder(s)
    BY <1>1 DEF Ordered, s
  <2>10. InOrder(t)
    <3> SUFFICES ASSUME NEW i \in 1..(n + m), NEW j \in 1..(n + m)
                 PROVE  /\ t[i] = t[j] => i = j
                        /\ \A c \in Conns :
                              t[i] = <<"connectEstablished", c>> /\ t[j] = <<"connectDestroyed", c>> => i < j
      BY <2>5 DEF InOrder
    <3>1. CASE i \in 1..n /\ j \in 1..n
      BY <2>7, <2>9, <3>1 DEF InOrder, n
    <3>2. CASE i \in 1..n /\ j - n \in 1..m /\ t[j] = d[j - n] /\ j > n
      BY <2>1, <2>7, <2>8, <3>2
    <3>3. CASE i - n \in 1..m /\ t[i] = d[i - n] /\ i > n /\ j \in 1..n
      <4>1. t[i] # t[j]
        BY <2>7, <2>8, <3>3
      <4>2. \A c \in Conns : d[i - n] # <<"connectEstablished", c>>
        BY <2>3, <3>3
      <4> QED  BY <3>3, <4>1, <4>2
    <3>4. CASE i - n \in 1..m /\ t[i] = d[i - n] /\ j - n \in 1..m /\ t[j] = d[j - n]
      <4>1. t[i] = t[j] => i - n = j - n
        BY <2>3, <3>4
      <4>2. \A c \in Conns : d[i - n] # <<"connectEstablished", c>>
        BY <2>3, <3>4
      <4>3. i - n = j - n => i = j
        BY <2>1, <2>2
      <4> QED  BY <3>4, <4>1, <4>2, <4>3
    <3> QED  BY <2>6, <3>1, <3>2, <3>3, <3>4
  <2>11. ASSUME NEW o, NEW c
         PROVE  In(r, l, o, c) <=>
                   \/ In(q, l, o, c)
                   \/ l # 0 /\ o = "connectDestroyed" /\ c \in connections_ /\ loopOf[c] = l
    <3>1. ASSUME In(r, l, o, c)
          PROVE  In(q, l, o, c) \/ (l # 0 /\ o = "connectDestroyed" /\ c \in connections_ /\ loopOf[c] = l)
      <4>1. PICK i \in 1..(n + m) : t[i] = <<o, c>>
        BY <2>5, <3>1 DEF In, t
      <4>2. CASE i \in 1..n
        BY <2>7, <4>1, <4>2 DEF In, s, n
      <4>3. CASE i - n \in 1..m /\ t[i] = d[i - n]
        BY <2>3, <4>1, <4>3
      <4> QED  BY <2>6, <4>2, <4>3
    <3>2. In(q, l, o, c) => In(r, l, o, c)
      BY <2>5, <2>7 DEF In, s, n, t
    <3>3. ASSUME l # 0, o = "connectDestroyed", c \in connections_, loopOf[c] = l
          PROVE  In(r, l, o, c)
      <4>1. PICK i \in 1..m : d[i] = <<o, c>>
        BY <2>3, <3>3
      <4> QED  BY <2>5, <2>7, <4>1 DEF In, t
    <3> QED  BY <3>1, <3>2, <3>3
  <2>12. Len(t) >= n
    BY <2>1, <2>2, <2>5
  <2> QED  BY <2>5, <2>10, <2>11, <2>12 DEF s, n, t
<1>2. r \in [Loops -> Seq(Functors)] /\ Ordered(r)
  <2>1. \A l \in Loops : r[l] \in Seq(Functors) /\ InOrder(r[l])
    BY <1>1
  <2>2. r = [l \in Loops |-> r[l]]
    OBVIOUS
  <2> HIDE DEF r
  <2> QED  BY <2>1, <2>2 DEF Ordered
<1>3. r = [l \in Loops |-> q[l] \o IF l = 0 THEN <<>> ELSE DestroyAll(l)]
  OBVIOUS
<1> HIDE DEF r, D
<1> QED  BY <1>1, <1>2, <1>3

-----------------------------------------------------------------------------
(* The steps that leave the connections and the queues alone.              *)

LEMMA QuietConn ==
    ASSUME ConnInv, Ending' <=> Ending,
           UNCHANGED <<nextConnId_, connections_, state_, loopOf, pendingFunctors_, failed>>
    PROVE  ConnInv'
<1>1. Ordered(pendingFunctors_)'
  BY DEF ConnInv
<1>2. FunctorsInv'
  BY DEF ConnInv, FunctorsInv
<1>3. KeeperInv'
  BY DEF ConnInv, KeeperInv
<1> QED  BY <1>1, <1>2, <1>3 DEF ConnInv, AssertsHold

LEMMA QuietSetup ==
    ASSUME SetupInv, KeeperInv,
           \/ Start \/ StartThread \/ Listen \/ PeerArrives \/ PeerLeaves \/ Refuse \/ RefuseMissed
           \/ AcceptFails \/ CreateBase \/ Gone
           \/ \E l \in Loops : EndEvents(l) \/ EndFunctors(l)
           \/ \E l \in IoLoops : ThreadStarts(l) \/ Quit(l)
    PROVE  SetupInv' /\ (Ending' <=> Ending) /\ UNCHANGED <<connVars, pendingFunctors_, failed>>
<1> USE LoopsFacts DEF SetupInv, poolVars, setupVars, acceptVars, connVars, queueVars, Ending
<1>1. CASE Start
  <2>1. TypeInv' /\ CountInv'
    BY <1>1 DEF Start, At, Blocked, TypeInv, CountInv, ThreadPlaces
  <2>2. BatchInv'
    BY <1>1 DEF Start, At, Blocked, TypeInv, BatchInv
  <2>3. PoolInv'
    BY <1>1 DEF Start, At, Blocked, TypeInv, CountInv, PoolInv, ThreadPlaces
  <2>4. MasksAgree'
    BY <1>1 DEF Start, At, Blocked, TypeInv, PoolInv, KeeperInv, CountInv, MasksAgree
  <2> QED  BY <1>1, <2>1, <2>2, <2>3, <2>4 DEF Start, At, Blocked
<1>2. CASE CreateThread /\ server = "starting" /\ UNCHANGED <<server, acceptVars, connVars, queueVars, failed, misuse>>
  <2>1. TypeInv' /\ CountInv'
    BY <1>2 DEF CreateThread, Starting, TypeInv, CountInv, ThreadPlaces
  <2>2. BatchInv'
    BY <1>2 DEF CreateThread, Starting, TypeInv, BatchInv
  <2>3. PoolInv'
    BY <1>2 DEF CreateThread, Starting, TypeInv, CountInv, PoolInv, ThreadPlaces
  <2>4. MasksAgree'
    BY <1>2 DEF CreateThread, Starting, TypeInv, PoolInv, KeeperInv, CountInv, MasksAgree
  <2> QED  BY <1>2, <2>1, <2>2, <2>3, <2>4 DEF CreateThread, Starting
<1>3. CASE StartLoopReturns /\ server = "starting" /\ UNCHANGED <<server, acceptVars, connVars, queueVars, failed, misuse>>
  <2>1. TypeInv' /\ CountInv'
    <3>1. Starting \in IoLoops /\ Len(loops_) \in Nat
      BY <1>3, LenProperties, ThreadsAssumption DEF StartLoopReturns, Starting, TypeInv, IoLoops
    <3>2. loops_' \in Seq(IoLoops)
      BY <1>3, <3>1, AppendProperties DEF StartLoopReturns, TypeInv
    <3> QED  BY <1>3, <3>2 DEF StartLoopReturns, TypeInv, CountInv
  <2>2. BatchInv'
    BY <1>3 DEF StartLoopReturns, Starting, TypeInv, BatchInv
  <2>3. PoolInv'
    BY <1>3 DEF StartLoopReturns, Starting, TypeInv, CountInv, PoolInv, ThreadPlaces
  <2>4. MasksAgree'
    BY <1>3 DEF StartLoopReturns, Starting, TypeInv, PoolInv, KeeperInv, CountInv, MasksAgree
  <2> QED  BY <1>3, <2>1, <2>2, <2>3, <2>4 DEF StartLoopReturns, Starting
<1>4. CASE Listen
  <2>1. TypeInv' /\ CountInv'
    BY <1>4 DEF Listen, TypeInv, CountInv, ThreadPlaces
  <2>2. BatchInv'
    BY <1>4 DEF Listen, TypeInv, BatchInv
  <2>3. PoolInv'
    BY <1>4 DEF Listen, TypeInv, CountInv, PoolInv, ThreadPlaces
  <2>4. MasksAgree'
    BY <1>4 DEF Listen, TypeInv, PoolInv, KeeperInv, CountInv, MasksAgree
  <2> QED  BY <1>4, <2>1, <2>2, <2>3, <2>4 DEF Listen
<1>5. CASE PeerArrives \/ PeerLeaves
  <2>1. UNCHANGED <<poolVars, pc, server, listenEvents, connVars, queueVars, failed, misuse>>
    BY <1>5 DEF PeerArrives, PeerLeaves
  <2>2. CountInv'
    <3>1. \/ peers < MaxConns /\ peers' = peers + 1 /\ backlog' = backlog + 1
          \/ backlog > 0 /\ backlog' = backlog - 1 /\ peers' = peers
      BY <1>5 DEF PeerArrives, PeerLeaves
    <3> QED  BY <2>1, <3>1, ServerAssumption DEF CountInv
  <2>3. TypeInv' /\ BatchInv' /\ PoolInv' /\ MasksAgree'
    BY <2>1 DEF TypeInv, BatchInv, PoolInv, MasksAgree
  <2> QED  BY <2>1, <2>2, <2>3
<1>6. CASE Refuse \/ RefuseMissed \/ AcceptFails
  <2>1. TypeInv' /\ CountInv'
    BY <1>6 DEF Refuse, RefuseMissed, AcceptFails, Accepting, TypeInv, CountInv, ThreadPlaces
  <2>2. BatchInv'
    BY <1>6 DEF Refuse, RefuseMissed, AcceptFails, Accepting, TypeInv, BatchInv
  <2>3. PoolInv'
    BY <1>6 DEF Refuse, RefuseMissed, AcceptFails, Accepting, TypeInv, CountInv, PoolInv, ThreadPlaces
  <2>4. MasksAgree'
    BY <1>6 DEF Refuse, RefuseMissed, AcceptFails, Accepting, TypeInv, PoolInv, KeeperInv, CountInv, MasksAgree
  <2> QED  BY <1>6, <2>1, <2>2, <2>3, <2>4 DEF Refuse, RefuseMissed, AcceptFails, Accepting
<1>7. CASE CreateBase
  <2>1. TypeInv' /\ CountInv'
    BY <1>7 DEF CreateBase, BuildBase, ConstructLoop, TypeInv, CountInv, ThreadPlaces
  <2>2. BatchInv'
    BY <1>7 DEF CreateBase, BuildBase, ConstructLoop, TypeInv, BatchInv
  <2>3. PoolInv'
    BY <1>7 DEF CreateBase, BuildBase, ConstructLoop, TypeInv, CountInv, PoolInv, ThreadPlaces
  <2>4. MasksAgree'
    <3>1. server \in {"new", "starting"} /\ nextConnId_ = 1
      BY <1>7 DEF CreateBase, BuildBase, PoolInv
    <3>2. \A c \in Conns : c >= 1
      BY DEF Conns
    <3>3. \A c \in Conns : state_[c] = "none"
      BY <3>1, <3>2 DEF KeeperInv
    <3> QED  BY <1>7, <3>1, <3>3 DEF CreateBase, BuildBase, MasksAgree
  <2> QED  BY <1>7, <2>1, <2>2, <2>3, <2>4 DEF CreateBase, BuildBase, ConstructLoop
<1>8. CASE Gone
  <2>1. TypeInv' /\ CountInv'
    BY <1>8 DEF Gone, TypeInv, CountInv, ThreadPlaces
  <2>2. BatchInv'
    BY <1>8 DEF Gone, TypeInv, BatchInv
  <2>3. PoolInv'
    BY <1>8 DEF Gone, TypeInv, CountInv, PoolInv, ThreadPlaces
  <2>4. MasksAgree'
    BY <1>8 DEF Gone, TypeInv, PoolInv, KeeperInv, CountInv, MasksAgree
  <2> QED  BY <1>8, <2>1, <2>2, <2>3, <2>4 DEF Gone
<1>9. ASSUME NEW l \in Loops, EndEvents(l)
      PROVE  SetupInv' /\ (Ending' <=> Ending) /\ UNCHANGED <<connVars, pendingFunctors_, failed>>
  <2>1. TypeInv' /\ CountInv'
    BY <1>9 DEF EndEvents, At, TypeInv, CountInv, ThreadPlaces
  <2>2. BatchInv'
    BY <1>9 DEF EndEvents, At, TypeInv, BatchInv
  <2>3. PoolInv'
    BY <1>9 DEF EndEvents, At, TypeInv, CountInv, PoolInv, ThreadPlaces
  <2>4. MasksAgree'
    BY <1>9 DEF EndEvents, At, TypeInv, PoolInv, KeeperInv, CountInv, MasksAgree
  <2> QED  BY <1>9, <2>1, <2>2, <2>3, <2>4 DEF EndEvents, At
<1>10. ASSUME NEW l \in Loops, EndFunctors(l)
      PROVE  SetupInv' /\ (Ending' <=> Ending) /\ UNCHANGED <<connVars, pendingFunctors_, failed>>
  <2>1. TypeInv' /\ CountInv'
    BY <1>10 DEF EndFunctors, At, TestQuit, TypeInv, CountInv, ThreadPlaces
  <2>2. BatchInv'
    BY <1>10 DEF EndFunctors, At, TestQuit, TypeInv, BatchInv
  <2>3. PoolInv'
    BY <1>10 DEF EndFunctors, At, TestQuit, TypeInv, CountInv, PoolInv, ThreadPlaces
  <2>4. MasksAgree'
    BY <1>10 DEF EndFunctors, At, TestQuit, TypeInv, PoolInv, KeeperInv, CountInv, MasksAgree
  <2> QED  BY <1>10, <2>1, <2>2, <2>3, <2>4 DEF EndFunctors, At, TestQuit
<1>11. ASSUME NEW l \in IoLoops, Build(l) /\ UNCHANGED <<server, acceptVars, connVars, queueVars, failed, misuse>>
      PROVE  SetupInv' /\ (Ending' <=> Ending) /\ UNCHANGED <<connVars, pendingFunctors_, failed>>
  <2>1. TypeInv' /\ CountInv'
    BY <1>11 DEF Build, ConstructLoop, initDefaultEvent, TypeInv, CountInv, ThreadPlaces
  <2>2. BatchInv'
    BY <1>11 DEF Build, ConstructLoop, initDefaultEvent, TypeInv, BatchInv
  <2>3. PoolInv'
    BY <1>11 DEF Build, ConstructLoop, initDefaultEvent, TypeInv, CountInv, PoolInv, ThreadPlaces
  <2>4. MasksAgree'
    <3>1. server \in {"new", "starting"} /\ nextConnId_ = 1
      BY <1>11 DEF Build, PoolInv
    <3>2. \A c \in Conns : c >= 1
      BY DEF Conns
    <3>3. \A c \in Conns : state_[c] = "none"
      BY <3>1, <3>2 DEF KeeperInv
    <3> QED  BY <1>11, <3>1, <3>3 DEF Build, MasksAgree
  <2> QED  BY <1>11, <2>1, <2>2, <2>3, <2>4 DEF Build, ConstructLoop, initDefaultEvent
<1>12. ASSUME NEW l \in IoLoops, Publish(l) /\ UNCHANGED <<server, acceptVars, connVars, queueVars, failed, misuse>>
      PROVE  SetupInv' /\ (Ending' <=> Ending) /\ UNCHANGED <<connVars, pendingFunctors_, failed>>
  <2>1. TypeInv' /\ CountInv'
    BY <1>12 DEF Publish, TypeInv, CountInv, ThreadPlaces
  <2>2. BatchInv'
    BY <1>12 DEF Publish, TypeInv, BatchInv
  <2>3. PoolInv'
    BY <1>12 DEF Publish, TypeInv, CountInv, PoolInv, ThreadPlaces
  <2>4. MasksAgree'
    BY <1>12 DEF Publish, TypeInv, PoolInv, KeeperInv, CountInv, MasksAgree
  <2> QED  BY <1>12, <2>1, <2>2, <2>3, <2>4 DEF Publish
<1>13. ASSUME NEW l \in IoLoops, EnterLoop(l) /\ UNCHANGED <<server, acceptVars, connVars, queueVars, failed, misuse>>
      PROVE  SetupInv' /\ (Ending' <=> Ending) /\ UNCHANGED <<connVars, pendingFunctors_, failed>>
  <2>1. TypeInv' /\ CountInv'
    BY <1>13 DEF EnterLoop, TypeInv, CountInv, ThreadPlaces
  <2>2. BatchInv'
    BY <1>13 DEF EnterLoop, TypeInv, BatchInv
  <2>3. PoolInv'
    BY <1>13 DEF EnterLoop, TypeInv, CountInv, PoolInv, ThreadPlaces
  <2>4. MasksAgree'
    BY <1>13 DEF EnterLoop, TypeInv, PoolInv, KeeperInv, CountInv, MasksAgree
  <2> QED  BY <1>13, <2>1, <2>2, <2>3, <2>4 DEF EnterLoop
<1>14. ASSUME NEW l \in IoLoops, Quit(l)
      PROVE  SetupInv' /\ (Ending' <=> Ending) /\ UNCHANGED <<connVars, pendingFunctors_, failed>>
  <2>1. TypeInv' /\ CountInv'
    BY <1>14 DEF Quit, QuitThread, TypeInv, CountInv, ThreadPlaces
  <2>2. BatchInv'
    BY <1>14 DEF Quit, QuitThread, TypeInv, BatchInv
  <2>3. PoolInv'
    BY <1>14 DEF Quit, QuitThread, TypeInv, CountInv, PoolInv, ThreadPlaces
  <2>4. MasksAgree'
    BY <1>14 DEF Quit, QuitThread, TypeInv, PoolInv, KeeperInv, CountInv, MasksAgree
  <2> QED  BY <1>14, <2>1, <2>2, <2>3, <2>4 DEF Quit, QuitThread
<1> QED
  BY <1>1, <1>2, <1>3, <1>4, <1>5, <1>6, <1>7, <1>8, <1>9, <1>10, <1>11, <1>12, <1>13, <1>14 DEF StartThread, ThreadStarts

-----------------------------------------------------------------------------
(* The steps of connections.                                               *)

ServerInv == SetupInv /\ ConnInv

(* A connection that has no state yet has no functor either. *)
LEMMA NoFunctors ==
    ASSUME FunctorsInv, NEW c \in Conns, state_[c] = "none", NEW l \in Loops, NEW op \in Ops
    PROVE  ~In(pendingFunctors_, l, op, c)
  BY DEF FunctorsInv, Ops, Alive

LEMMA NewConnectionStep ==
    ASSUME ServerInv, NewConnection
    PROVE  ServerInv'
<1> USE LoopsFacts DEF poolVars, setupVars, acceptVars, connVars, queueVars
<1> DEFINE c == nextConnId_ l == getNextLoop
<1>1. TypeInv /\ CountInv /\ BatchInv /\ PoolInv /\ MasksAgree /\ FunctorsInv /\ KeeperInv
      /\ Ordered(pendingFunctors_) /\ AssertsHold
  BY DEF ServerInv, SetupInv, ConnInv
<1>2. c \in Conns /\ backlog > 0 /\ server = "listening" /\ nextConnId_ \in Nat
  <2>1. backlog > 0 /\ server = "listening"
    BY Zenon DEF NewConnection, Accepting
  <2>2. c \in Conns /\ nextConnId_ \in Nat
    BY <1>1, <2>1, ServerAssumption DEF CountInv, Conns
  <2> QED  BY <2>1, <2>2
<1>3. l \in Loops
  <2>1. CASE loops_ = <<>>
    BY <2>1 DEF getNextLoop
  <2>2. CASE loops_ # <<>>
    <3>1. Len(loops_) \in Nat \ {0}
      BY <1>1, <2>2, EmptySeq DEF TypeInv
    <3>2. next_ + 1 \in 1..Len(loops_)
      BY <1>1, <3>1 DEF TypeInv, PoolInv
    <3>3. loops_[next_ + 1] \in IoLoops
      BY <1>1, <3>2, ElementOfSeq DEF TypeInv
    <3> QED  BY <2>2, <3>3 DEF getNextLoop
  <2> QED  BY <2>1, <2>2
<1>4. state_[c] = "none" /\ c \notin connections_
  BY <1>1, <1>2 DEF KeeperInv, Alive
<1>5. \A k \in Loops : \A op \in Ops : ~In(pendingFunctors_, k, op, c)
  BY <1>1, <1>2, <1>4, NoFunctors
<1> HIDE DEF l
<1>6. /\ backlog' = backlog - 1 /\ nextConnId_' = c + 1 /\ connections_' = connections_ \cup {c}
      /\ loopOf' = [loopOf EXCEPT ![c] = l]
      /\ next_' = IF next_ + 1 < Len(loops_) THEN next_ + 1 ELSE 0
      /\ UNCHANGED <<numThreads_, loops_, loop_, quit_, told, setupVars, pc, server, peers, listenEvents, batch, failed, misuse>>
  BY DEF NewConnection, Advance, l
<1>7. \/ /\ l = 0 /\ state_' = [state_ EXCEPT ![c] = "kConnected"]
         /\ connEvents' = [connEvents EXCEPT ![c] = kReadEvent]
         /\ pendingFunctors_' = pendingFunctors_
      \/ /\ l # 0 /\ state_' = [state_ EXCEPT ![c] = "kConnecting"]
         /\ pendingFunctors_' = Push(pendingFunctors_, l, "connectEstablished", c)
         /\ connEvents' = connEvents
  BY DEF NewConnection, l
<1>8. "connectEstablished" \in Ops /\ "connectDestroyed" \in Ops
  BY DEF Ops
<1>9. /\ pendingFunctors_' \in [Loops -> Seq(Functors)] /\ Ordered(pendingFunctors_')
      /\ \A k \in Loops : Len(pendingFunctors_'[k]) >= Len(pendingFunctors_[k])
      /\ \A k \in Loops : \A o, d : In(pendingFunctors_', k, o, d) <=>
            In(pendingFunctors_, k, o, d) \/ (l # 0 /\ k = l /\ o = "connectEstablished" /\ d = c)
  <2>1. CASE l = 0
    <3>1. pendingFunctors_' = pendingFunctors_
      BY <1>7, <2>1
    <3>2. \A k \in Loops : Len(pendingFunctors_[k]) >= Len(pendingFunctors_[k])
      BY <1>1, LenProperties DEF TypeInv
    <3> QED  BY <1>1, <2>1, <3>1, <3>2 DEF TypeInv
  <2>2. CASE l # 0
    <3>1. pendingFunctors_' = Push(pendingFunctors_, l, "connectEstablished", c)
      BY <1>7, <2>2
    <3>2. pendingFunctors_ \in [Loops -> Seq(Functors)]
      BY <1>1 DEF TypeInv
    <3> DEFINE op == "connectEstablished" r == Push(pendingFunctors_, l, op, c)
    <3>3. c \in Conns /\ op \in Ops /\ ~In(pendingFunctors_, l, op, c) /\ ~In(pendingFunctors_, l, "connectDestroyed", c)
      BY <1>2, <1>3, <1>5, <1>8
    <3>4. pendingFunctors_' = r
      BY <3>1
    <3> HIDE DEF c, op
    <3>5. /\ r \in [Loops -> Seq(Functors)] /\ Ordered(r)
          /\ \A k \in Loops : Len(r[k]) >= Len(pendingFunctors_[k])
          /\ \A k \in Loops : \A o, d : In(r, k, o, d) <=>
                In(pendingFunctors_, k, o, d) \/ (k = l /\ o = op /\ d = c)
      BY <1>1, <1>3, <3>2, <3>3, PushIn
    <3> HIDE DEF r
    <3> QED  BY <2>2, <3>4, <3>5 DEF op
  <2> QED  BY <2>1, <2>2
<1> HIDE DEF c
<1>10. TypeInv'
  <2>1. next_' \in Nat
    BY <1>1, <1>6 DEF TypeInv
  <2> QED  BY <1>1, <1>2, <1>3, <1>6, <1>7, <1>9, <2>1 DEF TypeInv, Alive
<1>11. CountInv'
  BY <1>1, <1>2, <1>6 DEF CountInv, c
<1>12. BatchInv'
  <2>1. \A k \in Loops : Len(pendingFunctors_[k]) \in Nat /\ Len(pendingFunctors_'[k]) \in Nat
    BY <1>1, <1>9, LenProperties DEF TypeInv
  <2> QED  BY <1>1, <1>6, <1>9, <2>1 DEF BatchInv
<1>13. PoolInv'
  BY <1>1, <1>2, <1>6, LenProperties DEF PoolInv, TypeInv, Ending
<1>14. MasksAgree'
  BY <1>1, <1>2, <1>6, <1>7 DEF MasksAgree, TypeInv
<1>15. FunctorsInv'
  BY <1>1, <1>2, <1>4, <1>6, <1>7, <1>9 DEF FunctorsInv, TypeInv, Ending, Alive
<1>16. KeeperInv'
  <2>1. ~Ending'
    BY <1>2, <1>6 DEF Ending
  <2>2. c = nextConnId_ /\ \A d \in Conns : (d >= nextConnId_' <=> d >= nextConnId_ /\ d # c)
    BY <1>2, <1>6 DEF c, Conns
  <2> QED  BY <1>1, <1>2, <1>3, <1>4, <1>6, <1>7, <1>9, <2>1, <2>2 DEF KeeperInv, TypeInv, Alive
<1> QED  BY <1>1, <1>6, <1>9, <1>10, <1>11, <1>12, <1>13, <1>14, <1>15, <1>16 DEF ServerInv, SetupInv, ConnInv, AssertsHold

LEMMA CloseStep ==
    ASSUME ServerInv, NEW c \in Conns, Close(c)
    PROVE  ServerInv'
<1> USE LoopsFacts DEF poolVars, setupVars, acceptVars, connVars, queueVars
<1>1. TypeInv /\ CountInv /\ BatchInv /\ PoolInv /\ MasksAgree /\ FunctorsInv /\ KeeperInv
      /\ Ordered(pendingFunctors_) /\ AssertsHold
  BY DEF ServerInv, SetupInv, ConnInv
<1> DEFINE l == loopOf[c]
<1>2. /\ l \in Loops /\ state_[c] = "kConnected" /\ state_' = [state_ EXCEPT ![c] = "kDisconnected"]
      /\ UNCHANGED <<poolVars, pc, server, acceptVars, nextConnId_, loopOf, connEvents, batch, failed, misuse>>
  BY <1>1 DEF Close, TypeInv
<1>3. \/ /\ l = 0 /\ connections_' = connections_ \ {c}
         /\ pendingFunctors_' = Push(pendingFunctors_, 0, "connectDestroyed", c)
      \/ /\ l # 0 /\ connections_' = connections_
         /\ pendingFunctors_' = Push(pendingFunctors_, 0, "removeConnectionInLoop", c)
  BY DEF Close, RemoveConnectionInLoop
<1> DEFINE op == IF l = 0 THEN "connectDestroyed" ELSE "removeConnectionInLoop"
<1>4. pendingFunctors_' = Push(pendingFunctors_, 0, op, c) /\ op \in Ops /\ op # "connectEstablished"
  BY <1>3 DEF Ops
<1>5. l = 0 => c \in connections_ /\ ~Ending
  BY <1>1, <1>2 DEF KeeperInv, FunctorsInv, Alive
<1>6. l # 0 /\ ~Ending => c \in connections_
  BY <1>1, <1>2 DEF KeeperInv, FunctorsInv, Alive
<1>7. ~In(pendingFunctors_, 0, op, c)
  BY <1>1, <1>2, <1>5 DEF FunctorsInv
<1> HIDE DEF op, l
<1>8. /\ pendingFunctors_' \in [Loops -> Seq(Functors)] /\ Ordered(pendingFunctors_')
      /\ \A k \in Loops : Len(pendingFunctors_'[k]) >= Len(pendingFunctors_[k])
      /\ \A k \in Loops : \A o, d : In(pendingFunctors_', k, o, d) <=>
            In(pendingFunctors_, k, o, d) \/ (k = 0 /\ o = op /\ d = c)
  <2>1. pendingFunctors_ \in [Loops -> Seq(Functors)]
    BY <1>1 DEF TypeInv
  <2> QED  BY <1>1, <1>4, <1>7, <2>1, PushIn
<1>9. TypeInv'
  BY <1>1, <1>2, <1>3, <1>8 DEF TypeInv, Alive
<1>10. CountInv' /\ PoolInv'
  BY <1>1, <1>2 DEF CountInv, PoolInv, Ending
<1>11. BatchInv'
  <2>1. \A k \in Loops : Len(pendingFunctors_[k]) \in Nat /\ Len(pendingFunctors_'[k]) \in Nat
    BY <1>1, <1>8, LenProperties DEF TypeInv
  <2>2. batch \in [Loops -> Nat] /\ batch' = batch /\ pc' = pc
    BY <1>1, <1>2 DEF BatchInv
  <2>3. ASSUME NEW k \in Loops
        PROVE  batch[k] <= Len(pendingFunctors_'[k]) /\ (pc[k] # "functors" => batch[k] = 0)
    <3>1. batch[k] <= Len(pendingFunctors_[k]) /\ (pc[k] # "functors" => batch[k] = 0)
      BY <1>1 DEF BatchInv
    <3> QED  BY <1>8, <2>1, <2>2, <3>1
  <2> QED  BY <2>2, <2>3 DEF BatchInv
<1>12. MasksAgree'
  BY <1>1, <1>2 DEF MasksAgree, TypeInv
<1>13. FunctorsInv'
  BY <1>1, <1>2, <1>3, <1>5, <1>6, <1>8 DEF FunctorsInv, TypeInv, Ending, Alive, op, l
<1>14. KeeperInv'
  BY <1>1, <1>2, <1>3, <1>5, <1>8 DEF KeeperInv, TypeInv, Ending, Alive, op, l
<1> QED  BY <1>1, <1>2, <1>8, <1>9, <1>10, <1>11, <1>12, <1>13, <1>14 DEF ServerInv, SetupInv, ConnInv, AssertsHold

(* What taking a functor does to the queues and to the round. *)
LEMMA FunctorTaken ==
    ASSUME ServerInv, NEW l \in Loops, NEW op \in Ops, NEW c \in Conns, Functor(l, op, c)
    PROVE  /\ Rest(l) \in [Loops -> Seq(Functors)] /\ Ordered(Rest(l))
           /\ In(pendingFunctors_, l, op, c)
           /\ \A k \in Loops : \A o, d : In(Rest(l), k, o, d) <=>
                 In(pendingFunctors_, k, o, d) /\ ~(k = l /\ o = op /\ d = c)
           /\ op = "connectDestroyed" => ~In(pendingFunctors_, l, "connectEstablished", c)
           /\ batch' \in [Loops -> Nat]
           /\ \A k \in Loops : Len(Rest(l)[k]) \in Nat /\ Len(Rest(l)[k]) <= Len(pendingFunctors_[k])
           /\ \A k \in Loops : batch'[k] <= Len(Rest(l)[k]) /\ (pc[k] # "functors" => batch'[k] = 0)
<1>1. TypeInv /\ BatchInv /\ Ordered(pendingFunctors_) /\ pendingFunctors_ \in [Loops -> Seq(Functors)]
  BY DEF ServerInv, SetupInv, ConnInv, TypeInv
<1>2. /\ pc[l] = "functors" /\ batch[l] > 0 /\ batch' = [batch EXCEPT ![l] = @ - 1]
      /\ Head(pendingFunctors_[l]) = <<op, c>>
  BY DEF Functor, At
<1>3. \A k \in Loops : Len(pendingFunctors_[k]) \in Nat
  BY <1>1, LenProperties
<1>4. batch \in [Loops -> Nat] /\ \A k \in Loops : batch[k] <= Len(pendingFunctors_[k]) /\ (pc[k] # "functors" => batch[k] = 0)
  BY <1>1 DEF BatchInv
<1>5. Len(pendingFunctors_[l]) > 0
  BY <1>2, <1>3, <1>4
<1>6. /\ Rest(l) \in [Loops -> Seq(Functors)] /\ Ordered(Rest(l))
      /\ Len(Rest(l)[l]) = Len(pendingFunctors_[l]) - 1
      /\ \A k \in Loops : k # l => Rest(l)[k] = pendingFunctors_[k]
      /\ In(pendingFunctors_, l, op, c)
      /\ \A k \in Loops : \A o, d : In(Rest(l), k, o, d) <=>
            In(pendingFunctors_, k, o, d) /\ ~(k = l /\ o = op /\ d = c)
      /\ op = "connectDestroyed" => ~In(pendingFunctors_, l, "connectEstablished", c)
  <2>1. Rest(l) = Pop(pendingFunctors_, l)
    BY DEF Rest, Pop
  <2>2. Popped(pendingFunctors_, Pop(pendingFunctors_, l), l, op, c)
    BY <1>1, <1>2, <1>5, PopIn
  <2> QED  BY <2>1, <2>2 DEF Popped
<1>7. batch' \in [Loops -> Nat] /\ batch'[l] = batch[l] - 1 /\ \A k \in Loops : k # l => batch'[k] = batch[k]
  BY <1>2, <1>4
<1>8. ASSUME NEW k \in Loops
      PROVE  /\ Len(Rest(l)[k]) \in Nat /\ Len(Rest(l)[k]) <= Len(pendingFunctors_[k])
             /\ batch'[k] <= Len(Rest(l)[k]) /\ (pc[k] # "functors" => batch'[k] = 0)
  <2>1. CASE k = l
    BY <1>2, <1>3, <1>4, <1>5, <1>6, <1>7, <2>1
  <2>2. CASE k # l
    BY <1>3, <1>4, <1>6, <1>7, <2>2
  <2> QED  BY <2>1, <2>2
<1> QED  BY <1>6, <1>7, <1>8

LEMMA ConnectEstablishedStep ==
    ASSUME ServerInv, NEW l \in Loops, NEW c \in Conns, ConnectEstablished(l, c)
    PROVE  ServerInv'
<1> USE LoopsFacts DEF poolVars, setupVars, acceptVars, connVars, queueVars
<1>1. TypeInv /\ CountInv /\ BatchInv /\ PoolInv /\ MasksAgree /\ FunctorsInv /\ KeeperInv
      /\ Ordered(pendingFunctors_) /\ AssertsHold
  BY DEF ServerInv, SetupInv, ConnInv
<1> DEFINE op == "connectEstablished"
<1>2. op \in Ops /\ Functor(l, op, c)
  BY DEF Ops, ConnectEstablished
<1>3. /\ pendingFunctors_' = Rest(l) /\ state_' = [state_ EXCEPT ![c] = "kConnected"]
      /\ connEvents' = [connEvents EXCEPT ![c] = kReadEvent]
      /\ failed' = failed \cup Failing(state_[c] = "kConnecting", "connectEstablished: state")
      /\ UNCHANGED <<poolVars, pc, server, acceptVars, nextConnId_, connections_, loopOf>>
  BY DEF ConnectEstablished
<1> HIDE DEF op
<1>4. /\ Rest(l) \in [Loops -> Seq(Functors)] /\ Ordered(Rest(l)) /\ In(pendingFunctors_, l, op, c)
      /\ \A k \in Loops : \A o, d : In(Rest(l), k, o, d) <=>
            In(pendingFunctors_, k, o, d) /\ ~(k = l /\ o = op /\ d = c)
      /\ batch' \in [Loops -> Nat]
      /\ \A k \in Loops : batch'[k] <= Len(Rest(l)[k]) /\ (pc[k] # "functors" => batch'[k] = 0)
  BY <1>2, FunctorTaken
<1>5. /\ pendingFunctors_' \in [Loops -> Seq(Functors)] /\ Ordered(pendingFunctors_')
      /\ \A k \in Loops : \A o, d : In(pendingFunctors_', k, o, d) <=>
            In(pendingFunctors_, k, o, d) /\ ~(k = l /\ o = "connectEstablished" /\ d = c)
      /\ batch' \in [Loops -> Nat]
      /\ \A k \in Loops : batch'[k] <= Len(pendingFunctors_'[k]) /\ (pc[k] # "functors" => batch'[k] = 0)
  BY <1>3, <1>4 DEF op
<1>6. l = loopOf[c] /\ l # 0 /\ state_[c] = "kConnecting"
  BY <1>1, <1>4 DEF FunctorsInv, op
<1>7. TypeInv' /\ CountInv' /\ PoolInv'
  <2>1. TypeInv'
    BY <1>1, <1>3, <1>5 DEF TypeInv, Alive
  <2> QED  BY <1>1, <1>3, <2>1 DEF CountInv, PoolInv, Ending
<1>8. BatchInv'
  BY <1>3, <1>5 DEF BatchInv
<1>9. MasksAgree'
  BY <1>1, <1>3 DEF MasksAgree, TypeInv
<1>10. AssertsHold'
  BY <1>1, <1>3, <1>6 DEF AssertsHold, Failing
<1>11. FunctorsInv'
  <2>1. /\ state_'[c] = "kConnected" /\ \A d \in Conns : d # c => state_'[d] = state_[d]
        /\ loopOf' = loopOf /\ connections_' = connections_ /\ (Ending' <=> Ending)
    BY <1>1, <1>3 DEF TypeInv, Ending
  <2>2. ASSUME NEW d \in Conns, NEW k \in Loops
        PROVE  /\ In(pendingFunctors_', k, "connectEstablished", d) =>
                     k = loopOf[d] /\ k # 0 /\ state_'[d] = "kConnecting"
               /\ In(pendingFunctors_', k, "removeConnectionInLoop", d) =>
                     /\ k = 0 /\ loopOf[d] # 0 /\ state_'[d] \in {"kDisconnected", "destroyed", "dropped"}
                     /\ ~Ending => d \in connections_
               /\ In(pendingFunctors_', k, "connectDestroyed", d) =>
                     /\ k = loopOf[d] /\ d \notin connections_ /\ state_'[d] \in Alive
                     /\ state_'[d] # "kDisconnected" => Ending /\ k # 0
    <3>1. CASE d = c
      BY <1>1, <1>5, <1>6, <2>1, <3>1 DEF FunctorsInv, Alive
    <3>2. CASE d # c
      BY <1>1, <1>5, <2>1, <3>2 DEF FunctorsInv, Alive
    <3> QED  BY <3>1, <3>2
  <2> QED  BY <2>1, <2>2 DEF FunctorsInv
<1>12. KeeperInv'
  <2>1. /\ state_'[c] = "kConnected" /\ \A d \in Conns : d # c => state_'[d] = state_[d]
        /\ loopOf' = loopOf /\ connections_' = connections_ /\ (Ending' <=> Ending) /\ nextConnId_' = nextConnId_
        /\ loopOf \in [Conns -> Loops]
    BY <1>1, <1>3 DEF TypeInv, Ending
  <2> QED  BY <1>1, <1>5, <1>6, <2>1 DEF KeeperInv, Alive
<1> QED  BY <1>5, <1>7, <1>8, <1>9, <1>10, <1>11, <1>12 DEF ServerInv, SetupInv, ConnInv

LEMMA RunRemoveConnectionStep ==
    ASSUME ServerInv, NEW c \in Conns, RunRemoveConnection(c)
    PROVE  ServerInv'
<1> USE LoopsFacts DEF poolVars, setupVars, acceptVars, connVars, queueVars
<1>1. TypeInv /\ CountInv /\ BatchInv /\ PoolInv /\ MasksAgree /\ FunctorsInv /\ KeeperInv
      /\ Ordered(pendingFunctors_) /\ AssertsHold /\ ConnInv
  BY DEF ServerInv, SetupInv, ConnInv
<1> DEFINE op == "removeConnectionInLoop" q == pendingFunctors_
<1>2. op \in Ops /\ Functor(0, op, c) /\ "connectDestroyed" \in Ops
  BY DEF Ops, RunRemoveConnection
<1>3. UNCHANGED <<poolVars, pc, server, acceptVars, nextConnId_, state_, loopOf, connEvents, failed>>
  BY DEF RunRemoveConnection
<1>4. \/ /\ server # "gone" /\ connections_' = connections_ \ {c}
         /\ pendingFunctors_' = Push(Rest(0), loopOf[c], "connectDestroyed", c)
      \/ server = "gone" /\ UNCHANGED <<connections_, pendingFunctors_>>
  BY DEF RunRemoveConnection, RemoveConnectionInLoop
<1>5. server # "joining"
  BY <1>2 DEF Functor, At, Blocked
<1> HIDE DEF op
<1>6. /\ Rest(0) \in [Loops -> Seq(Functors)] /\ Ordered(Rest(0)) /\ In(q, 0, op, c)
      /\ \A k \in Loops : \A o, d : In(Rest(0), k, o, d) <=> In(q, k, o, d) /\ ~(k = 0 /\ o = op /\ d = c)
      /\ batch' \in [Loops -> Nat]
      /\ \A k \in Loops : Len(Rest(0)[k]) \in Nat /\ Len(Rest(0)[k]) <= Len(q[k])
      /\ \A k \in Loops : batch'[k] <= Len(Rest(0)[k]) /\ (pc[k] # "functors" => batch'[k] = 0)
  BY <1>2, FunctorTaken
<1>7. CountInv' /\ PoolInv' /\ MasksAgree' /\ AssertsHold' /\ (Ending' <=> Ending)
  BY <1>1, <1>3 DEF CountInv, PoolInv, MasksAgree, AssertsHold, Ending
<1>8. CASE server = "gone"
  <2>1. UNCHANGED <<connections_, pendingFunctors_>>
    BY <1>4, <1>8
  <2>2. TypeInv'
    BY <1>1, <1>3, <2>1 DEF TypeInv
  <2>3. \A k \in Loops : Len(q[k]) \in Nat
    BY <1>1, LenProperties DEF TypeInv
  <2>4. ASSUME NEW k \in Loops PROVE batch'[k] <= Len(q[k]) /\ (pc[k] # "functors" => batch'[k] = 0)
    BY <1>6, <2>3
  <2>5. BatchInv'
    BY <1>3, <1>6, <2>1, <2>4 DEF BatchInv
  <2>6. ConnInv'
    BY <1>1, <1>3, <1>7, <2>1, QuietConn
  <2> QED  BY <1>7, <2>2, <2>5, <2>6 DEF ServerInv, SetupInv
<1>9. CASE server # "gone"
  <2> DEFINE r == Rest(0) l == loopOf[c] do == "connectDestroyed" s == Push(r, l, do, c)
  <2>1. ~Ending /\ connections_' = connections_ \ {c} /\ pendingFunctors_' = s
    BY <1>4, <1>5, <1>9 DEF Ending
  <2>2. c \in connections_ /\ l \in Loops /\ l # 0 /\ state_[c] = "kDisconnected"
    BY <1>1, <1>6, <2>1 DEF FunctorsInv, KeeperInv, TypeInv, op, Alive
  <2>3. \A k \in Loops : ~In(q, k, do, c)
    BY <1>1, <2>2 DEF FunctorsInv
  <2>4. ~In(r, l, do, c) /\ do # "connectEstablished" /\ do \in Ops
    BY <1>2, <1>6, <2>2, <2>3
  <2> HIDE DEF r, do, l
  <2>5. r \in [Loops -> Seq(Functors)] /\ Ordered(r)
    BY <1>6 DEF r
  <2>6. /\ s \in [Loops -> Seq(Functors)] /\ Ordered(s)
        /\ \A k \in Loops : Len(s[k]) >= Len(r[k])
        /\ \A k \in Loops : \A o, d : In(s, k, o, d) <=> In(r, k, o, d) \/ (k = l /\ o = do /\ d = c)
    BY <2>2, <2>4, <2>5, PushIn
  <2> HIDE DEF s
  <2>7. /\ pendingFunctors_' \in [Loops -> Seq(Functors)] /\ Ordered(pendingFunctors_')
        /\ \A k \in Loops : \A o, d : In(pendingFunctors_', k, o, d) <=>
              \/ In(q, k, o, d) /\ ~(k = 0 /\ o = "removeConnectionInLoop" /\ d = c)
              \/ k = loopOf[c] /\ o = "connectDestroyed" /\ d = c
    BY <1>6, <2>1, <2>6 DEF r, op, l, do
  <2>8. TypeInv'
    BY <1>1, <1>3, <2>1, <2>7 DEF TypeInv
  <2>9. BatchInv'
    <3>1. ASSUME NEW k \in Loops PROVE batch'[k] <= Len(s[k]) /\ (pc[k] # "functors" => batch'[k] = 0)
      <4>1. Len(s[k]) \in Nat /\ Len(r[k]) \in Nat /\ batch'[k] \in Nat
        BY <1>6, <2>5, <2>6, LenProperties
      <4> QED  BY <1>6, <2>6, <4>1 DEF r
    <3> QED  BY <1>3, <1>6, <2>1, <3>1 DEF BatchInv
  <2>10. FunctorsInv'
    <3>1. state_' = state_ /\ loopOf' = loopOf
      BY <1>3
    <3>2. ASSUME NEW d \in Conns, NEW k \in Loops
          PROVE  /\ In(pendingFunctors_', k, "connectEstablished", d) =>
                       k = loopOf[d] /\ k # 0 /\ state_[d] = "kConnecting"
                 /\ In(pendingFunctors_', k, "removeConnectionInLoop", d) =>
                       /\ k = 0 /\ loopOf[d] # 0 /\ state_[d] \in {"kDisconnected", "destroyed", "dropped"}
                       /\ ~Ending => d \in connections_'
                 /\ In(pendingFunctors_', k, "connectDestroyed", d) =>
                       /\ k = loopOf[d] /\ d \notin connections_' /\ state_[d] \in Alive
                       /\ state_[d] # "kDisconnected" => Ending /\ k # 0
      <4>1. CASE d = c
        BY <1>1, <2>1, <2>2, <2>7, <4>1 DEF FunctorsInv, Alive
      <4>2. CASE d # c
        BY <1>1, <2>1, <2>7, <4>2 DEF FunctorsInv, Alive
      <4> QED  BY <4>1, <4>2
    <3> QED  BY <1>7, <3>1, <3>2 DEF FunctorsInv
  <2>11. KeeperInv'
    <3>1. state_' = state_ /\ loopOf' = loopOf /\ nextConnId_' = nextConnId_ /\ loopOf \in [Conns -> Loops]
      BY <1>1, <1>3 DEF TypeInv
    <3>2. ASSUME NEW d \in Conns
          PROVE  /\ d >= nextConnId_ <=> state_[d] = "none"
                 /\ d \in connections_' => state_[d] \in Alive
                 /\ d \in connections_' /\ state_[d] = "kDisconnected" =>
                       In(pendingFunctors_', 0, "removeConnectionInLoop", d)
                 /\ state_[d] \in Alive =>
                       d \in connections_' \/ In(pendingFunctors_', loopOf[d], "connectDestroyed", d)
                 /\ state_[d] = "kConnecting" => In(pendingFunctors_', loopOf[d], "connectEstablished", d)
      BY <1>1, <2>1, <2>2, <2>7, <3>1 DEF KeeperInv
    <3> QED  BY <1>7, <2>1, <3>1, <3>2 DEF KeeperInv
  <2> QED  BY <1>7, <2>7, <2>8, <2>9, <2>10, <2>11 DEF ServerInv, SetupInv, ConnInv
<1> QED  BY <1>8, <1>9

LEMMA ConnectDestroyedStep ==
    ASSUME ServerInv, NEW l \in Loops, NEW c \in Conns, ConnectDestroyed(l, c)
    PROVE  ServerInv'
<1> USE LoopsFacts DEF poolVars, setupVars, acceptVars, connVars, queueVars
<1>1. TypeInv /\ CountInv /\ BatchInv /\ PoolInv /\ MasksAgree /\ FunctorsInv /\ KeeperInv
      /\ Ordered(pendingFunctors_) /\ AssertsHold
  BY DEF ServerInv, SetupInv, ConnInv
<1> DEFINE op == "connectDestroyed"
<1>2. op \in Ops /\ Functor(l, op, c)
  BY DEF Ops, ConnectDestroyed
<1>3. /\ pendingFunctors_' = Rest(l) /\ state_' = [state_ EXCEPT ![c] = "destroyed"]
      /\ failed' = failed \cup Failing(state_[c] \in {"kConnected", "kDisconnected"}, "connectDestroyed: once")
      /\ UNCHANGED <<poolVars, pc, server, acceptVars, nextConnId_, connections_, loopOf, connEvents>>
  BY DEF ConnectDestroyed
<1> HIDE DEF op
<1>4. /\ Rest(l) \in [Loops -> Seq(Functors)] /\ Ordered(Rest(l)) /\ In(pendingFunctors_, l, op, c)
      /\ \A k \in Loops : \A o, d : In(Rest(l), k, o, d) <=>
            In(pendingFunctors_, k, o, d) /\ ~(k = l /\ o = op /\ d = c)
      /\ op = "connectDestroyed" => ~In(pendingFunctors_, l, "connectEstablished", c)
      /\ batch' \in [Loops -> Nat]
      /\ \A k \in Loops : batch'[k] <= Len(Rest(l)[k]) /\ (pc[k] # "functors" => batch'[k] = 0)
  BY <1>2, FunctorTaken
<1>5. /\ pendingFunctors_' \in [Loops -> Seq(Functors)] /\ Ordered(pendingFunctors_')
      /\ \A k \in Loops : \A o, d : In(pendingFunctors_', k, o, d) <=>
            In(pendingFunctors_, k, o, d) /\ ~(k = l /\ o = "connectDestroyed" /\ d = c)
      /\ batch' \in [Loops -> Nat]
      /\ \A k \in Loops : batch'[k] <= Len(pendingFunctors_'[k]) /\ (pc[k] # "functors" => batch'[k] = 0)
  BY <1>3, <1>4 DEF op
<1>6. /\ l = loopOf[c] /\ c \notin connections_ /\ state_[c] \in Alive
      /\ ~In(pendingFunctors_, l, "connectEstablished", c)
  BY <1>1, <1>4 DEF FunctorsInv, op
<1>7. state_[c] \in {"kConnected", "kDisconnected"}
  BY <1>1, <1>6 DEF KeeperInv, Alive
<1>8. TypeInv' /\ CountInv' /\ PoolInv'
  <2>1. TypeInv'
    BY <1>1, <1>3, <1>5 DEF TypeInv, Alive
  <2> QED  BY <1>1, <1>3, <2>1 DEF CountInv, PoolInv, Ending
<1>9. BatchInv'
  BY <1>3, <1>5 DEF BatchInv
<1>10. MasksAgree'
  BY <1>1, <1>3 DEF MasksAgree, TypeInv
<1>11. AssertsHold'
  BY <1>1, <1>3, <1>7 DEF AssertsHold, Failing
<1>12. /\ state_'[c] = "destroyed" /\ \A d \in Conns : d # c => state_'[d] = state_[d]
       /\ loopOf' = loopOf /\ connections_' = connections_ /\ (Ending' <=> Ending) /\ nextConnId_' = nextConnId_
       /\ loopOf \in [Conns -> Loops]
  BY <1>1, <1>3 DEF TypeInv, Ending
<1>13. FunctorsInv'
  <2>1. ASSUME NEW d \in Conns, NEW k \in Loops
        PROVE  /\ In(pendingFunctors_', k, "connectEstablished", d) =>
                     k = loopOf[d] /\ k # 0 /\ state_'[d] = "kConnecting"
               /\ In(pendingFunctors_', k, "removeConnectionInLoop", d) =>
                     /\ k = 0 /\ loopOf[d] # 0 /\ state_'[d] \in {"kDisconnected", "destroyed", "dropped"}
                     /\ ~Ending => d \in connections_
               /\ In(pendingFunctors_', k, "connectDestroyed", d) =>
                     /\ k = loopOf[d] /\ d \notin connections_ /\ state_'[d] \in Alive
                     /\ state_'[d] # "kDisconnected" => Ending /\ k # 0
    <3>1. CASE d = c
      BY <1>1, <1>5, <1>6, <1>12, <3>1 DEF FunctorsInv, Alive
    <3>2. CASE d # c
      BY <1>1, <1>5, <1>12, <3>2 DEF FunctorsInv, Alive
    <3> QED  BY <3>1, <3>2
  <2> QED  BY <1>12, <2>1 DEF FunctorsInv
<1>14. KeeperInv'
  BY <1>1, <1>5, <1>6, <1>12 DEF KeeperInv, Alive
<1> QED  BY <1>5, <1>8, <1>9, <1>10, <1>11, <1>13, <1>14 DEF ServerInv, SetupInv, ConnInv

LEMMA DestructStep ==
    ASSUME ServerInv, Destruct
    PROVE  ServerInv'
<1> USE LoopsFacts DEF poolVars, setupVars, acceptVars, connVars, queueVars
<1>1. TypeInv /\ CountInv /\ BatchInv /\ PoolInv /\ MasksAgree /\ FunctorsInv /\ KeeperInv
      /\ Ordered(pendingFunctors_) /\ AssertsHold
  BY DEF ServerInv, SetupInv, ConnInv
<1> DEFINE q == pendingFunctors_
           r == [l \in Loops |-> q[l] \o IF l = 0 THEN <<>> ELSE DestroyAll(l)]
<1>2. /\ server \in {"new", "listening"} /\ server' = "joining" /\ connections_' = {} /\ pendingFunctors_' = r
      /\ state_' = [c \in Conns |-> IF c \in connections_ /\ loopOf[c] = 0 THEN "destroyed" ELSE state_[c]]
      /\ UNCHANGED <<poolVars, pc, acceptVars, nextConnId_, loopOf, connEvents, batch, failed, misuse>>
  BY DEF Destruct
<1>3. ~Ending /\ Ending'
  BY <1>2 DEF Ending
<1>4. /\ connections_ \subseteq Conns /\ q \in [Loops -> Seq(Functors)]
      /\ \A c \in connections_, l \in Loops : ~In(q, l, "connectDestroyed", c)
  BY <1>1 DEF TypeInv, FunctorsInv
<1>5. /\ r \in [Loops -> Seq(Functors)] /\ Ordered(r)
      /\ \A l \in Loops : Len(r[l]) >= Len(q[l])
      /\ \A l \in Loops : \A o, c :
            In(r, l, o, c) <=>
               \/ In(q, l, o, c)
               \/ l # 0 /\ o = "connectDestroyed" /\ c \in connections_ /\ loopOf[c] = l
  BY <1>1, <1>4, DestructIn
<1> HIDE DEF r
<1>6. /\ pendingFunctors_' \in [Loops -> Seq(Functors)] /\ Ordered(pendingFunctors_')
      /\ \A l \in Loops : \A o, c :
            In(pendingFunctors_', l, o, c) <=>
               \/ In(q, l, o, c)
               \/ l # 0 /\ o = "connectDestroyed" /\ c \in connections_ /\ loopOf[c] = l
  BY <1>2, <1>5
<1>7. \A c \in Conns : state_'[c] = IF c \in connections_ /\ loopOf[c] = 0 THEN "destroyed" ELSE state_[c]
  BY <1>2
<1>8. TypeInv'
  BY <1>1, <1>2, <1>6 DEF TypeInv
<1>9. CountInv' /\ PoolInv' /\ AssertsHold'
  <2>1. UNCHANGED <<poolVars, pc, acceptVars, nextConnId_, failed>> /\ server' = "joining"
        /\ server \in {"new", "listening"}
    BY <1>2
  <2>2. CountInv' /\ AssertsHold'
    BY <1>1, <2>1 DEF CountInv, AssertsHold
  <2>3. pc[0] = "functors"
    BY DEF Destruct, At
  <2>4. PoolInv'
    BY <1>1, <2>1, <2>3 DEF PoolInv, Ending
  <2> QED  BY <2>2, <2>4
<1>10. BatchInv'
  <2>1. batch \in [Loops -> Nat] /\ batch' = batch /\ pc' = pc
    BY <1>1, <1>2 DEF BatchInv
  <2>2. ASSUME NEW k \in Loops PROVE batch[k] <= Len(r[k]) /\ (pc[k] # "functors" => batch[k] = 0)
    <3>1. Len(q[k]) \in Nat /\ Len(r[k]) \in Nat
      BY <1>4, <1>5, LenProperties
    <3>2. batch[k] <= Len(q[k]) /\ (pc[k] # "functors" => batch[k] = 0)
      BY <1>1 DEF BatchInv
    <3> QED  BY <1>5, <2>1, <3>1, <3>2
  <2> QED  BY <1>2, <2>1, <2>2 DEF BatchInv
<1>11. MasksAgree'
  BY <1>1, <1>2, <1>7 DEF MasksAgree
<1>12. FunctorsInv'
  <2>1. ASSUME NEW d \in Conns, NEW k \in Loops
        PROVE  /\ In(pendingFunctors_', k, "connectEstablished", d) =>
                     k = loopOf[d] /\ k # 0 /\ state_'[d] = "kConnecting"
               /\ In(pendingFunctors_', k, "removeConnectionInLoop", d) =>
                     k = 0 /\ loopOf[d] # 0 /\ state_'[d] \in {"kDisconnected", "destroyed", "dropped"}
               /\ In(pendingFunctors_', k, "connectDestroyed", d) =>
                     /\ k = loopOf[d] /\ state_'[d] \in Alive
                     /\ state_'[d] # "kDisconnected" => k # 0
    <3>1. In(pendingFunctors_', k, "connectEstablished", d) =>
             k = loopOf[d] /\ k # 0 /\ state_'[d] = "kConnecting"
      BY <1>1, <1>6, <1>7 DEF FunctorsInv
    <3>2. In(pendingFunctors_', k, "removeConnectionInLoop", d) =>
             k = 0 /\ loopOf[d] # 0 /\ state_'[d] \in {"kDisconnected", "destroyed", "dropped"}
      BY <1>1, <1>6, <1>7 DEF FunctorsInv
    <3>3. In(pendingFunctors_', k, "connectDestroyed", d) =>
                     /\ k = loopOf[d] /\ state_'[d] \in Alive
                     /\ state_'[d] # "kDisconnected" => k # 0
      BY <1>1, <1>3, <1>6, <1>7 DEF FunctorsInv, KeeperInv
    <3> QED  BY <3>1, <3>2, <3>3
  <2> QED  BY <1>2, <1>3, <2>1 DEF FunctorsInv
<1>13. KeeperInv'
  <2>1. ASSUME NEW d \in Conns
        PROVE  /\ d >= nextConnId_ <=> state_'[d] = "none"
               /\ state_'[d] \in Alive => In(pendingFunctors_', loopOf[d], "connectDestroyed", d)
               /\ state_'[d] = "kConnecting" => In(pendingFunctors_', loopOf[d], "connectEstablished", d)
    <3>1. loopOf[d] \in Loops
      BY <1>1 DEF TypeInv
    <3> QED  BY <1>1, <1>6, <1>7, <3>1 DEF KeeperInv, Alive
  <2> QED  BY <1>2, <2>1 DEF KeeperInv
<1> QED  BY <1>6, <1>8, <1>9, <1>10, <1>11, <1>12, <1>13 DEF ServerInv, SetupInv, ConnInv

LEMMA ThreadEndsStep ==
    ASSUME ServerInv, NEW l \in IoLoops, ThreadEnds(l)
    PROVE  ServerInv'
<1> USE LoopsFacts DEF poolVars, setupVars, acceptVars, connVars, queueVars
<1>1. TypeInv /\ CountInv /\ BatchInv /\ PoolInv /\ MasksAgree /\ FunctorsInv /\ KeeperInv
      /\ Ordered(pendingFunctors_) /\ AssertsHold
  BY DEF ServerInv, SetupInv, ConnInv
<1> DEFINE q == pendingFunctors_
           Left(c) == \E i \in DOMAIN q[l] : q[l][i][2] = c
<1>2. /\ pc[l] = "left" /\ pc' = [pc EXCEPT ![l] = "ended"] /\ loop_' = [loop_ EXCEPT ![l] = FALSE]
      /\ state_' = [c \in Conns |-> IF Left(c) THEN "dropped" ELSE state_[c]]
      /\ pendingFunctors_' = [pendingFunctors_ EXCEPT ![l] = <<>>]
      /\ UNCHANGED <<numThreads_, loops_, next_, quit_, told, setupVars>>
      /\ UNCHANGED <<server, acceptVars, nextConnId_, connections_, loopOf, connEvents, batch, failed>>
  BY DEF ThreadEnds, EndThread
<1>3. l \in Loops /\ l # 0 /\ Ending /\ (Ending' <=> Ending) /\ connections_ = {} /\ connections_' = {}
  BY <1>1, <1>2 DEF PoolInv, KeeperInv, Ending
<1>4. q \in [Loops -> Seq(Functors)] /\ q[l] \in Seq(Functors)
  BY <1>1, <1>3 DEF TypeInv
<1>5. ASSUME NEW c \in Conns PROVE Left(c) <=> \E op \in Ops : In(q, l, op, c)
  <2>1. DOMAIN q[l] = 1..Len(q[l]) /\ \A i \in 1..Len(q[l]) : q[l][i] \in Functors
    BY <1>4, LenProperties, ElementOfSeq
  <2>2. \A i \in 1..Len(q[l]) : \E op \in Ops, d \in Conns : q[l][i] = <<op, d>> /\ q[l][i][2] = d
    BY <2>1 DEF Functors
  <2>3. ASSUME Left(c) PROVE \E op \in Ops : In(q, l, op, c)
    <3>1. PICK i \in 1..Len(q[l]) : q[l][i][2] = c
      BY <2>1, <2>3
    <3> QED  BY <2>2, <3>1 DEF In
  <2>4. ASSUME NEW op \in Ops, In(q, l, op, c) PROVE Left(c)
    <3>1. PICK i \in 1..Len(q[l]) : q[l][i] = <<op, c>>
      BY <2>4 DEF In
    <3>2. q[l][i][2] = c
      BY <3>1
    <3> QED  BY <2>1, <3>2
  <2> QED  BY <2>3, <2>4
<1>6. \A c \in Conns : state_'[c] = IF \E op \in Ops : In(q, l, op, c) THEN "dropped" ELSE state_[c]
  BY <1>2, <1>5
<1> HIDE DEF Left
<1>7. /\ pendingFunctors_' \in [Loops -> Seq(Functors)] /\ pendingFunctors_'[l] = <<>>
      /\ \A k \in Loops : k # l => pendingFunctors_'[k] = q[k]
  BY <1>2, <1>3, <1>4, EmptySeq
<1>8. \A k \in Loops : \A o, d : In(pendingFunctors_', k, o, d) <=> In(q, k, o, d) /\ k # l
  <2>1. Len(pendingFunctors_'[l]) = 0
    BY <1>7
  <2>2. \A o, d : ~In(pendingFunctors_', l, o, d)
    BY <2>1 DEF In
  <2> QED  BY <1>7, <2>2 DEF In
<1>9. Ordered(pendingFunctors_')
  <2>1. InOrder(pendingFunctors_'[l])
    <3>1. Len(pendingFunctors_'[l]) = 0
      BY <1>7
    <3> QED  BY <3>1 DEF InOrder
  <2> QED  BY <1>1, <1>7, <2>1 DEF Ordered
<1>10. TypeInv'
  <2>1. loop_' \in [IoLoops -> BOOLEAN]
    BY <1>1, <1>2, Zenon DEF TypeInv
  <2>2. state_' \in [Conns -> Alive \cup {"none", "destroyed", "dropped"}]
    BY <1>1, <1>2 DEF TypeInv
  <2>3. pc' \in [Loops -> ThreadPlaces]
    BY <1>1, <1>2 DEF TypeInv, ThreadPlaces
  <2>4. UNCHANGED <<numThreads_, loops_, next_, quit_, wakeupEvents, server, connections_, loopOf, connEvents>>
    BY <1>2
  <2> QED  BY <1>1, <1>7, <2>1, <2>2, <2>3, <2>4 DEF TypeInv
<1>11. CountInv' /\ AssertsHold'
  BY <1>1, <1>2 DEF CountInv, AssertsHold
<1>12. BatchInv'
  <2>1. batch \in [Loops -> Nat] /\ batch' = batch /\ batch[l] = 0
    BY <1>1, <1>2, <1>3 DEF BatchInv
  <2>2. Len(pendingFunctors_'[l]) = 0
    BY <1>7
  <2>3. \A k \in Loops : k # l => pc'[k] = pc[k]
    BY <1>1, <1>2 DEF TypeInv
  <2>4. ASSUME NEW k \in Loops
        PROVE  batch[k] <= Len(pendingFunctors_'[k]) /\ (pc'[k] # "functors" => batch[k] = 0)
    <3>1. CASE k = l
      BY <2>1, <2>2, <3>1
    <3>2. CASE k # l
      BY <1>1, <1>7, <2>3, <3>2 DEF BatchInv
    <3> QED  BY <3>1, <3>2
  <2> QED  BY <2>1, <2>4 DEF BatchInv
<1>13. PoolInv'
  <2>1. /\ pc'[l] = "ended" /\ ~loop_'[l] /\ \A k \in Loops : k # l => pc'[k] = pc[k]
        /\ \A k \in IoLoops : k # l => loop_'[k] = loop_[k]
    BY <1>1, <1>2, <1>3 DEF TypeInv
  <2>2. UNCHANGED <<numThreads_, loops_, next_, quit_, wakeupEvents, server, nextConnId_>>
    BY <1>2
  <2> QED  BY <1>1, <1>2, <1>3, <2>1, <2>2 DEF PoolInv, Ending
<1>14. MasksAgree'
  BY <1>1, <1>2, <1>6 DEF MasksAgree
<1>15. FunctorsInv'
  <2>1. ASSUME NEW d \in Conns, NEW k \in Loops, k # l
        PROVE  /\ In(q, k, "connectEstablished", d) =>
                     k = loopOf[d] /\ k # 0 /\ state_'[d] = "kConnecting"
               /\ In(q, k, "removeConnectionInLoop", d) =>
                     k = 0 /\ loopOf[d] # 0 /\ state_'[d] \in {"kDisconnected", "destroyed", "dropped"}
               /\ In(q, k, "connectDestroyed", d) =>
                     /\ k = loopOf[d] /\ state_'[d] \in Alive
                     /\ state_'[d] # "kDisconnected" => k # 0
    <3>1. ~In(q, l, "removeConnectionInLoop", d)
      BY <1>1, <1>3 DEF FunctorsInv
    <3>2. k = loopOf[d] => \A op \in Ops : ~In(q, l, op, d)
      BY <1>1, <1>3, <2>1, <3>1 DEF FunctorsInv, Ops
    <3>3. k = loopOf[d] => state_'[d] = state_[d]
      BY <1>6, <3>2
    <3> QED  BY <1>1, <1>6, <3>3 DEF FunctorsInv
  <2>2. loopOf' = loopOf
    BY <1>2
  <2> QED  BY <1>3, <1>8, <2>1, <2>2 DEF FunctorsInv
<1>16. KeeperInv'
  <2>1. ASSUME NEW d \in Conns
        PROVE  /\ d >= nextConnId_ <=> state_'[d] = "none"
               /\ state_'[d] \in Alive => In(pendingFunctors_', loopOf[d], "connectDestroyed", d)
               /\ state_'[d] = "kConnecting" => In(pendingFunctors_', loopOf[d], "connectEstablished", d)
    <3>1. loopOf[d] \in Loops
      BY <1>1 DEF TypeInv
    <3>2. CASE \E op \in Ops : In(q, l, op, d)
      <4>1. state_'[d] = "dropped"
        BY <1>6, <3>2
      <4>2. state_[d] # "none"
        BY <1>1, <1>3, <3>2, NoFunctors
      <4> QED  BY <1>1, <4>1, <4>2 DEF KeeperInv, Alive
    <3>3. CASE ~\E op \in Ops : In(q, l, op, d)
      <4>1. state_'[d] = state_[d]
        BY <1>6, <3>3
      <4>2. ~In(q, l, "connectDestroyed", d) /\ ~In(q, l, "connectEstablished", d)
        BY <3>3 DEF Ops
      <4> QED  BY <1>1, <1>3, <1>8, <3>1, <4>1, <4>2 DEF KeeperInv
    <3> QED  BY <3>2, <3>3
  <2>2. loopOf' = loopOf /\ nextConnId_' = nextConnId_
    BY <1>2
  <2> QED  BY <1>3, <2>1, <2>2 DEF KeeperInv
<1> QED  BY <1>9, <1>10, <1>11, <1>12, <1>13, <1>14, <1>15, <1>16 DEF ServerInv, SetupInv, ConnInv

-----------------------------------------------------------------------------
(* The invariant.                                                          *)

LEMMA ServerInit ==
    ASSUME Init
    PROVE  ServerInv /\ TurnInv
<1> USE LoopsFacts, ThreadsAssumption, ServerAssumption DEF Init, PoolInit
<1>1. \A l \in Loops : pendingFunctors_[l] = <<>> /\ Len(pendingFunctors_[l]) = 0 /\ batch[l] = 0
  OBVIOUS
<1>2. \A l \in Loops : \A op, c : ~In(pendingFunctors_, l, op, c)
  BY <1>1 DEF In
<1>3. \A c \in Conns : c >= 1 /\ state_[c] = "none" /\ loopOf[c] \in Loops
  BY DEF Conns
<1>4. TypeInv
  <2>1. loop_ \in [IoLoops -> BOOLEAN] /\ quit_ \in [IoLoops -> BOOLEAN]
    BY Zenon
  <2>2. pendingFunctors_ \in [Loops -> Seq(Functors)]
    OBVIOUS
  <2> QED  BY <2>1, <2>2 DEF TypeInv, ThreadPlaces
<1>5. CountInv
  BY DEF CountInv
<1>6. BatchInv
  BY <1>1 DEF BatchInv
<1>7. PoolInv
  <2>1. Len(loops_) = 0 /\ numThreads_ \in Nat /\ next_ = 0 /\ nextConnId_ = 1 /\ server = "new"
        /\ pc[0] = "none"
    OBVIOUS
  <2>2. \A l \in IoLoops : pc[l] = "none" /\ ~loop_[l] /\ ~quit_[l] /\ l \in Nat /\ ~(l <= 0)
    BY DEF IoLoops
  <2> QED  BY <2>1, <2>2 DEF PoolInv
<1>8. MasksAgree
  BY <1>3 DEF MasksAgree
<1>9. Ordered(pendingFunctors_)
  BY <1>1 DEF Ordered, InOrder
<1>10. FunctorsInv /\ KeeperInv /\ AssertsHold
  BY <1>2, <1>3 DEF FunctorsInv, KeeperInv, AssertsHold, Alive, Ending
<1>11. TurnInv
  <2>1. Len(loops_) = 0 /\ 0 \in Nat
    OBVIOUS
  <2>2. \A i \in 1..Len(loops_) : FALSE
    BY <2>1
  <2> QED  BY <2>1, <2>2, Zenon DEF TurnInv
<1> QED  BY <1>4, <1>5, <1>6, <1>7, <1>8, <1>9, <1>10, <1>11 DEF ServerInv, SetupInv, ConnInv

(* The steps of Next, by what they change of the connections. *)
QuietStep ==
    \/ Start \/ StartThread \/ Listen \/ PeerArrives \/ PeerLeaves \/ Refuse \/ RefuseMissed
    \/ AcceptFails \/ CreateBase \/ Gone
    \/ \E l \in Loops : EndEvents(l) \/ EndFunctors(l)
    \/ \E l \in IoLoops : ThreadStarts(l) \/ Quit(l)

ConnStep ==
    \/ Destruct \/ \E l \in IoLoops : ThreadEnds(l)
    \/ \E c \in Conns : Close(c) \/ RunRemoveConnection(c)
    \/ \E c \in Conns, l \in Loops : ConnectEstablished(l, c) \/ ConnectDestroyed(l, c)

LEMMA NextSteps ==
    ASSUME Next
    PROVE  QuietStep \/ ConnStep \/ NewConnection
  BY LoopsFacts DEF Next, BaseStep, ThreadStep, Environment, QuietStep, ConnStep

LEMMA ServerStep ==
    ASSUME ServerInv, [Next]_vars
    PROVE  ServerInv'
<1>1. CASE QuietStep
  <2>1. SetupInv' /\ (Ending' <=> Ending) /\ UNCHANGED <<connVars, pendingFunctors_, failed>>
    BY <1>1, QuietSetup DEF ServerInv, ConnInv, QuietStep
  <2>2. ConnInv'
    BY <2>1, QuietConn DEF ServerInv, connVars
  <2> QED  BY <2>1, <2>2 DEF ServerInv
<1>2. CASE ConnStep
  BY <1>2, DestructStep, ThreadEndsStep, CloseStep, RunRemoveConnectionStep, ConnectEstablishedStep,
     ConnectDestroyedStep DEF ConnStep
<1>3. CASE NewConnection
  BY <1>3, NewConnectionStep
<1>4. CASE UNCHANGED vars
  <2>1. ConnInv'
    BY <1>4, QuietConn DEF ServerInv, vars, connVars, queueVars, Ending
  <2>2. TypeInv' /\ CountInv' /\ BatchInv'
    BY <1>4 DEF ServerInv, SetupInv, vars, poolVars, setupVars, acceptVars, connVars, queueVars, TypeInv, CountInv, BatchInv
  <2>3. PoolInv' /\ MasksAgree'
    BY <1>4 DEF ServerInv, SetupInv, vars, poolVars, setupVars, acceptVars, connVars, queueVars, PoolInv, MasksAgree, Ending
  <2> QED  BY <2>1, <2>2, <2>3 DEF ServerInv, SetupInv
<1> QED  BY <1>1, <1>2, <1>3, <1>4, NextSteps

(* The inductive invariant holds. *)
LEMMA ServerInvariant == Spec => []ServerInv
<1>1. Init => ServerInv
  BY ServerInit
<1>2. ServerInv /\ [Next]_vars => ServerInv'
  BY ServerStep
<1> QED  BY <1>1, <1>2, PTL DEF Spec

-----------------------------------------------------------------------------
(* Turns.                                                                  *)

(* The connections that loop l has got. *)
Given(l) == {c \in Conns : c < nextConnId_ /\ loopOf[c] = l}

LEMMA GivenFinite == \A l : IsFiniteSet(Given(l)) /\ IsFiniteSet(Given(l)')
<1>1. IsFiniteSet(Conns)
  BY ServerAssumption, FS_Interval DEF Conns
<1>2. \A l : Given(l) \in SUBSET Conns /\ Given(l)' \in SUBSET Conns
  BY DEF Given
<1> QED  BY <1>1, <1>2, FS_Subset

LEMMA StartLoopTurn ==
    ASSUME ServerInv, StartLoopReturns, server = "starting", UNCHANGED connVars
    PROVE  TurnInv'
<1>1. nextConnId_ = 1 /\ next_ = 0 /\ next_' = next_ /\ nextConnId_' = nextConnId_
  BY DEF ServerInv, SetupInv, PoolInv, StartLoopReturns, connVars
<1>2. \A c \in Conns : ~(c < 1)
  BY DEF Conns
<1>3. \A i : Given(i)' = {}
  BY <1>1, <1>2 DEF Given
<1>4. \A i : Dealt(i)' = 0
  BY <1>3, FS_EmptySet DEF Dealt, Given
<1>5. \A i \in 1..Len(loops_') : ~(i <= 0)
  OBVIOUS
<1>6. \A i \in 1..Len(loops_') : Dealt(i)' = IF i <= next_' THEN 0 + 1 ELSE 0
  BY <1>1, <1>4, <1>5
<1>7. PICK z \in Nat : z = 0
  OBVIOUS
<1>8. \A i \in 1..Len(loops_') : Dealt(i)' = IF i <= next_' THEN z + 1 ELSE z
  BY <1>6, <1>7
<1> QED  BY <1>7, <1>8 DEF TurnInv

LEMMA NewConnectionTurn ==
    ASSUME ServerInv, TurnInv, NewConnection
    PROVE  TurnInv'
<1>1. TypeInv /\ CountInv /\ PoolInv
  BY DEF ServerInv, SetupInv
<1> DEFINE n == Len(loops_)
<1> PICK c, l : c = nextConnId_ /\ l = getNextLoop
  OBVIOUS
<1>2. /\ nextConnId_' = c + 1 /\ loopOf' = [loopOf EXCEPT ![c] = l] /\ loops_' = loops_
      /\ next_' = IF next_ + 1 < n THEN next_ + 1 ELSE 0
  BY DEF NewConnection, Advance
<1>3. n \in Nat /\ next_ \in Nat /\ loopOf \in [Conns -> Loops]
  BY <1>1, LenProperties DEF TypeInv
<1>4. c \in Conns /\ c \in Nat
  <2>1. backlog > 0
    BY Zenon DEF NewConnection
  <2> QED  BY <1>1, <2>1, ServerAssumption DEF CountInv, Conns
<1>5. PICK q \in Nat : \A i \in 1..n : Dealt(i) = IF i <= next_ THEN q + 1 ELSE q
  BY DEF TurnInv
<1>6. CASE n = 0
  <2>1. \A i \in 1..Len(loops_') : FALSE
    BY <1>2, <1>6
  <2> QED  BY <1>5, <2>1, Zenon DEF TurnInv
<1>7. CASE n # 0
  <2>1. next_ + 1 \in 1..n /\ l = next_ + 1
    <3>1. next_ + 1 \in 1..n
      BY <1>1, <1>3, <1>7 DEF PoolInv
    <3>2. loops_ # <<>>
      BY <1>7
    <3> QED  BY <1>1, <3>1, <3>2 DEF PoolInv, getNextLoop
  <2>2. \A d \in Conns : (d < c + 1 <=> d < c \/ d = c) /\ ~(c < c)
    BY <1>4 DEF Conns
  <2>3. loopOf'[c] = l /\ \A d \in Conns : d # c => loopOf'[d] = loopOf[d]
    BY <1>2, <1>3, <1>4
  <2>4. c \notin Given(l) /\ Given(l)' = Given(l) \cup {c}
    <3>1. nextConnId_' = c + 1 /\ nextConnId_ = c
      BY <1>2
    <3> QED  BY <1>4, <2>2, <2>3, <3>1 DEF Given
  <2>5. \A i : i # l => Given(i)' = Given(i)
    <3>1. ASSUME NEW i, i # l PROVE Given(i)' = Given(i)
      BY <1>2, <1>4, <2>2, <2>3, <3>1 DEF Given
    <3> QED  BY <3>1
  <2>6. Dealt(l)' = Dealt(l) + 1
    <3>1. Cardinality(Given(l) \cup {c}) = Cardinality(Given(l)) + 1
      BY <2>4, GivenFinite, FS_AddElement
    <3>2. Cardinality(Given(l)') = Cardinality(Given(l)) + 1
      BY <2>4, <3>1
    <3> QED  BY <3>2 DEF Dealt, Given
  <2>7. \A i : i # l => Dealt(i)' = Dealt(i)
    <3>1. ASSUME NEW i, i # l PROVE Cardinality(Given(i)') = Cardinality(Given(i))
      BY <2>5, <3>1
    <3> QED  BY <3>1 DEF Dealt, Given
  <2>8. CASE next_ + 1 < n
    <3>1. next_' = next_ + 1
      BY <1>2, <2>8
    <3>2. ASSUME NEW i \in 1..n PROVE Dealt(i)' = IF i <= next_ + 1 THEN q + 1 ELSE q
      <4>1. CASE i = l
        <5>1. ~(i <= next_) /\ i <= next_ + 1
          BY <1>3, <2>1, <4>1
        <5>2. Dealt(i) = q
          BY <1>5, <5>1
        <5> QED  BY <2>6, <4>1, <5>1, <5>2
      <4>2. CASE i # l
        <5>1. i <= next_ <=> i <= next_ + 1
          BY <1>3, <2>1, <4>2
        <5> QED  BY <1>5, <2>7, <4>2, <5>1
      <4> QED  BY <4>1, <4>2
    <3>3. \A i \in 1..Len(loops_') : Dealt(i)' = IF i <= next_' THEN q + 1 ELSE q
      BY <1>2, <3>1, <3>2
    <3> QED  BY <3>3 DEF TurnInv
  <2>9. CASE ~(next_ + 1 < n)
    <3>1. next_' = 0
      BY <1>2, <2>9
    <3>2. ASSUME NEW i \in 1..n PROVE Dealt(i)' = q + 1
      <4>1. CASE i = l
        <5>1. ~(i <= next_)
          BY <1>3, <2>1, <4>1
        <5>2. Dealt(i) = q
          BY <1>5, <5>1
        <5> QED  BY <2>6, <4>1, <5>2
      <4>2. CASE i # l
        <5>1. i <= next_
          BY <1>3, <2>1, <2>9, <4>2
        <5> QED  BY <1>5, <2>7, <4>2, <5>1
      <4> QED  BY <4>1, <4>2
    <3>3. PICK p \in Nat : p = q + 1
      OBVIOUS
    <3>4. \A i \in 1..n : ~(i <= 0)
      OBVIOUS
    <3>5. \A i \in 1..Len(loops_') : Dealt(i)' = IF i <= next_' THEN p + 1 ELSE p
      BY <1>2, <3>1, <3>2, <3>3, <3>4
    <3> QED  BY <3>5 DEF TurnInv
  <2> QED  BY <2>8, <2>9
<1> QED  BY <1>6, <1>7

LEMMA SameTurn ==
    ASSUME TurnInv, UNCHANGED <<loops_, next_, nextConnId_, loopOf>>
    PROVE  TurnInv'
  BY DEF TurnInv, Dealt

LEMMA TurnStep ==
    ASSUME ServerInv, TurnInv, [Next]_vars
    PROVE  TurnInv'
<1> USE DEF vars, poolVars, setupVars, acceptVars, connVars, queueVars
<1>1. CASE QuietStep
  <2>1. UNCHANGED connVars
    BY <1>1, QuietSetup, Zenon DEF QuietStep, ServerInv, ConnInv
  <2>2. \/ UNCHANGED <<loops_, next_>> \/ (StartLoopReturns /\ server = "starting")
    <3>1. CASE Start \/ Listen \/ PeerArrives \/ PeerLeaves \/ Refuse \/ RefuseMissed \/ AcceptFails \/ Gone
      BY <3>1 DEF Start, Listen, PeerArrives, PeerLeaves, Refuse, RefuseMissed, AcceptFails, Gone
    <3>2. CASE StartThread \/ CreateBase
      BY <3>2 DEF StartThread, CreateThread, CreateBase, BuildBase
    <3>3. CASE \E l \in Loops : EndEvents(l) \/ EndFunctors(l)
      BY <3>3 DEF EndEvents, EndFunctors
    <3>4. CASE \E l \in IoLoops : ThreadStarts(l) \/ Quit(l)
      BY <3>4 DEF ThreadStarts, Build, Publish, EnterLoop, Quit, QuitThread
    <3> QED  BY <1>1, <3>1, <3>2, <3>3, <3>4 DEF QuietStep
  <2> QED  BY <2>1, <2>2, SameTurn, StartLoopTurn
<1>2. CASE ConnStep
  <2>1. CASE Destruct \/ \E l \in IoLoops : ThreadEnds(l)
    BY <2>1, SameTurn DEF Destruct, ThreadEnds, EndThread
  <2>2. CASE \E c \in Conns : Close(c) \/ RunRemoveConnection(c)
    BY <2>2, SameTurn DEF Close, RunRemoveConnection
  <2>3. CASE \E c \in Conns, l \in Loops : ConnectEstablished(l, c) \/ ConnectDestroyed(l, c)
    BY <2>3, SameTurn DEF ConnectEstablished, ConnectDestroyed
  <2> QED  BY <1>2, <2>1, <2>2, <2>3 DEF ConnStep
<1>3. CASE NewConnection
  BY <1>3, NewConnectionTurn
<1>4. CASE UNCHANGED vars
  BY <1>4, SameTurn
<1> QED  BY <1>1, <1>2, <1>3, <1>4, NextSteps

-----------------------------------------------------------------------------
(* The theorems.                                                           *)

(* The assertions of connectEstablished and connectDestroyed hold, however *)
(* the loops, the destructor and the ends of the threads interleave.       *)
THEOREM ConnectionAssertsHold == Spec => []AssertsHold
<1>1. ServerInv => AssertsHold
  BY DEF ServerInv, ConnInv
<1> QED  BY <1>1, ServerInvariant, PTL

LEMMA QueuedOnce ==
    ASSUME ServerInv, NEW l \in Loops, NEW op, NEW c
    PROVE  Queued(l, op, c) = IF In(pendingFunctors_, l, op, c) THEN 1 ELSE 0
<1> DEFINE s == pendingFunctors_[l] places == {i \in DOMAIN s : s[i] = <<op, c>>}
<1>1. s \in Seq(Functors) /\ InOrder(s)
  BY DEF ServerInv, SetupInv, ConnInv, TypeInv, Ordered
<1>2. DOMAIN s = 1..Len(s)
  BY <1>1, LenProperties
<1>3. \A i, j \in 1..Len(s) : s[i] = s[j] => i = j
  BY <1>1 DEF InOrder
<1>4. CASE In(pendingFunctors_, l, op, c)
  <2>1. PICK i \in 1..Len(s) : s[i] = <<op, c>>
    BY <1>4 DEF In
  <2>2. places = {i}
    BY <1>2, <1>3, <2>1
  <2> QED  BY <1>4, <2>2, FS_Singleton DEF Queued
<1>5. CASE ~In(pendingFunctors_, l, op, c)
  <2>1. places = {}
    BY <1>2, <1>5 DEF In
  <2> QED  BY <1>5, <2>1, FS_EmptySet DEF Queued
<1> QED  BY <1>4, <1>5

(* A connection that exists is kept by the table or by one functor of its  *)
(* loop, never by both, and the base loop is told of its end once.         *)
THEOREM ConnectionsHaveOneKeeper == Spec => []OneKeeper
<1>1. ASSUME ServerInv PROVE OneKeeper
  <2>1. ASSUME NEW c \in Conns
        PROVE  /\ (IF c \in connections_ THEN 1 ELSE 0) + Queued(loopOf[c], "connectDestroyed", c)
                     = (IF state_[c] \in {"none", "destroyed", "dropped"} THEN 0 ELSE 1)
               /\ c \in connections_ =>
                     Queued(0, "removeConnectionInLoop", c) = (IF state_[c] = "kDisconnected" THEN 1 ELSE 0)
    <3>1. TypeInv /\ FunctorsInv /\ KeeperInv
      BY <1>1 DEF ServerInv, SetupInv, ConnInv
    <3>2. loopOf[c] \in Loops /\ 0 \in Loops
      BY <3>1, LoopsFacts DEF TypeInv
    <3>3. /\ Queued(loopOf[c], "connectDestroyed", c) =
                IF In(pendingFunctors_, loopOf[c], "connectDestroyed", c) THEN 1 ELSE 0
          /\ Queued(0, "removeConnectionInLoop", c) =
                IF In(pendingFunctors_, 0, "removeConnectionInLoop", c) THEN 1 ELSE 0
      BY <1>1, <3>2, QueuedOnce
    <3>4. state_[c] \in Alive \/ state_[c] \in {"none", "destroyed", "dropped"}
      BY <3>1 DEF TypeInv
    <3>5. CASE state_[c] \in Alive
      <4>1. c \in connections_ <=> ~In(pendingFunctors_, loopOf[c], "connectDestroyed", c)
        BY <3>1, <3>2, <3>5 DEF FunctorsInv, KeeperInv
      <4>2. c \in connections_ => (In(pendingFunctors_, 0, "removeConnectionInLoop", c) <=> state_[c] = "kDisconnected")
        BY <3>1, <3>2, <3>5 DEF FunctorsInv, KeeperInv, Alive
      <4>3. state_[c] \notin {"none", "destroyed", "dropped"}
        BY <3>5 DEF Alive
      <4> QED  BY <3>3, <4>1, <4>2, <4>3
    <3>6. CASE state_[c] \in {"none", "destroyed", "dropped"}
      <4>1. c \notin connections_ /\ ~In(pendingFunctors_, loopOf[c], "connectDestroyed", c)
        BY <3>1, <3>2, <3>6 DEF FunctorsInv, KeeperInv, Alive
      <4> QED  BY <3>3, <3>6, <4>1
    <3> QED  BY <3>4, <3>5, <3>6
  <2> QED  BY <2>1 DEF OneKeeper
<1> QED  BY <1>1, ServerInvariant, PTL

(* The listening socket and the connections are registered with the masks  *)
(* of today, although every loop that is built sets the static masks.      *)
THEOREM EventMasksAgree == Spec => []MasksAgree
<1>1. ServerInv => MasksAgree
  BY DEF ServerInv, SetupInv
<1> QED  BY <1>1, ServerInvariant, PTL

(* The pool of a server that listens hands out loops that run and can be   *)
(* woken, and by turns evenly.                                             *)
THEOREM PoolIsUsable == Spec => []LoopsUsable
<1>1. ASSUME ServerInv, TurnInv PROVE LoopsUsable
  <2>1. TypeInv /\ PoolInv
    BY <1>1 DEF ServerInv, SetupInv
  <2> DEFINE n == Len(loops_)
  <2>2. n \in Nat /\ DOMAIN loops_ = 1..n /\ \A i \in 1..n : loops_[i] = i
    BY <2>1, LenProperties DEF TypeInv, PoolInv
  <2>3. FairShare
    <3>1. PICK q \in Nat : \A i \in 1..n : Dealt(i) = IF i <= next_ THEN q + 1 ELSE q
      BY <1>1 DEF TurnInv
    <3>2. next_ \in Nat
      BY <2>1 DEF TypeInv
    <3>3. ASSUME NEW i \in 1..n, NEW j \in 1..n, i < j PROVE Dealt(i) - Dealt(j) \in {0, 1}
      <4>1. j <= next_ => i <= next_
        BY <2>2, <3>2, <3>3
      <4> QED  BY <3>1, <4>1
    <3> QED  BY <2>2, <3>3 DEF FairShare
  <2>4. ASSUME server = "listening", NEW i \in 1..n PROVE loop_[loops_[i]] /\ "IN" \in wakeupEvents[loops_[i]]
    <3>1. loops_[i] = i /\ i \in IoLoops /\ i \in Loops /\ i <= n
      BY <2>1, <2>2, ElementOfSeq, LoopsFacts DEF TypeInv
    <3>2. ~Ending
      BY <2>4 DEF Ending
    <3>3. pc[i] \in {"published", "events", "functors"}
      BY <2>1, <3>1, <3>2 DEF PoolInv, TypeInv, ThreadPlaces
    <3> QED  BY <2>1, <3>1, <3>3 DEF PoolInv
  <2> QED  BY <2>2, <2>3, <2>4 DEF LoopsUsable
<1>2. Init => TurnInv
  BY ServerInit
<1>3. ServerInv /\ TurnInv /\ [Next]_vars => TurnInv'
  BY TurnStep
<1> QED  BY <1>1, <1>2, <1>3, ServerInvariant, PTL DEF Spec
=============================================================================
