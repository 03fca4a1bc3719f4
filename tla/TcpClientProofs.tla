-------------------------- MODULE TcpClientProofs ---------------------------
(***************************************************************************)
(* Proofs about TcpClient and Connector for any retry delays: the          *)
(* connector's assertions hold, every socket has one owner, there is one   *)
(* effort to get a connection at a time, and stop() is final.  They are    *)
(* about a loop whose rounds do not outlast the first retry delay          *)
(* (SlowRounds is false).                                                  *)
(***************************************************************************)
EXTENDS TcpClient, SequenceTheorems, TLAPS

Functors == {"startInLoop", "cancel", "resetChannel", "connectDestroyed", "forceClose", "late"}

Has(f) == \E i \in 1..Len(pendingFunctors_) : pendingFunctors_[i] = f

(* Is an effort to get a connection under way? *)
Start_ == Has("startInLoop")
Timer_ == timer_ \in {"waiting", "due"}
Attempt_ == state_ = "kConnecting"

TypeInv ==
    /\ connect_ \in BOOLEAN /\ state_ \in {"kDisconnected", "kConnecting", "kConnected"}
    /\ channel_ \in {"null", "registered", "removed"} /\ timer_ \in {"unset", "waiting", "due", "gone"}
    /\ attempt \in {"none", "pending", "ok", "self", "fail"} /\ sockets \in Int
    /\ pendingFunctors_ \in Seq(Functors) /\ gaveUp \in BOOLEAN
    /\ retry_ \in BOOLEAN /\ clientConnect_ \in BOOLEAN /\ connection_ \in BOOLEAN
    /\ restarting \in BOOLEAN /\ dying \in Int
    /\ pc \in {"poll", "events", "functors"} /\ todo \subseteq {"timer", "error", "write", "down"}
    /\ batch \in Nat /\ batch <= Len(pendingFunctors_)
    /\ stopping \in {"no", "client", "connector", "done"} /\ captured \in {"none", "timer_", "gone"}
    /\ started \in BOOLEAN /\ served \in BOOLEAN /\ overridden \in BOOLEAN /\ misuse \in BOOLEAN

(* The functors that wait: start() and the end of a channel are queued     *)
(* once; a channel is destroyed in the round in which it was removed, and  *)
(* before a forceClose() of the connection that came of it.                *)
QueueInv ==
    \A i, j \in 1..Len(pendingFunctors_) :
        LET f == pendingFunctors_[i] g == pendingFunctors_[j]
        IN  /\ f = "startInLoop" /\ g = "startInLoop" => i = j
            /\ f = "resetChannel" /\ g = "resetChannel" => i = j
            /\ f = "resetChannel" => pc = "events" \/ (pc = "functors" /\ i <= batch)
            /\ f = "resetChannel" /\ g = "forceClose" => i < j

(* The channel, the attempt and the connection go with the state. *)
StateInv ==
    /\ channel_ = "removed" <=> Has("resetChannel")
    /\ channel_ = "registered" <=> Attempt_
    /\ attempt # "none" <=> Attempt_
    /\ Has("forceClose") => connection_
    /\ connection_ => served
    /\ restarting => channel_ = "null" /\ todo = {}
    /\ Start_ => started /\ channel_ = "null"
    /\ ~started => /\ channel_ = "null" /\ stopping = "no"
                   /\ ~Start_ /\ ~Timer_ /\ ~connection_ /\ ~restarting
    /\ Start_ \/ Timer_ \/ ~started => state_ = "kDisconnected"

(* One effort at a time. *)
EffortInv ==
    /\ Start_ => ~Timer_ /\ ~Attempt_ /\ ~connection_ /\ ~restarting
    /\ Timer_ => ~Attempt_ /\ ~connection_ /\ ~restarting
    /\ Attempt_ => ~connection_ /\ ~restarting
    /\ connection_ => ~restarting

(* What poll has reported is still so when its handler is called, or has   *)
(* been dealt with.                                                        *)
TodoInv ==
    /\ todo # {} => pc = "events" /\ started
    /\ "error" \in todo => attempt = "fail"
    /\ "write" \in todo => attempt \in {"ok", "self", "fail"} \/ state_ = "kDisconnected"
    /\ "timer" \in todo => todo = {"timer"} /\ state_ = "kDisconnected" /\ channel_ = "null"
    /\ "down" \in todo => todo = {"down"} /\ connection_ /\ channel_ = "null"

(* The flags, and how far stop() is. *)
FlagsInv ==
    /\ started /\ clientConnect_ => connect_
    /\ stopping # "no" => ~clientConnect_
    /\ Has("cancel") => ~clientConnect_
    /\ stopping \in {"connector", "done"} /\ ~overridden => ~connect_

(* A connection that is wanted is being sought. *)
WantedInv == ConnectionWanted => Start_ \/ Timer_ \/ Attempt_ \/ connection_ \/ restarting

ClientInv ==
    /\ TypeInv /\ QueueInv /\ StateInv /\ EffortInv /\ TodoInv /\ FlagsInv /\ WantedInv
    /\ SocketsOwned /\ AssertsHold

-----------------------------------------------------------------------------
(* The queue with one functor more. *)
LEMMA Pushed ==
    ASSUME pendingFunctors_ \in Seq(Functors), NEW g \in Functors,
           pendingFunctors_' = Append(pendingFunctors_, g)
    PROVE  /\ pendingFunctors_' \in Seq(Functors)
           /\ Len(pendingFunctors_) \in Nat /\ Len(pendingFunctors_') = Len(pendingFunctors_) + 1
           /\ \A i \in 1..Len(pendingFunctors_) : pendingFunctors_'[i] = pendingFunctors_[i]
           /\ pendingFunctors_'[Len(pendingFunctors_) + 1] = g
           /\ \A f : Has(f)' <=> Has(f) \/ f = g
<1> DEFINE n == Len(pendingFunctors_)
<1>1. /\ pendingFunctors_' \in Seq(Functors) /\ n \in Nat /\ Len(pendingFunctors_') = n + 1
      /\ \A i \in 1..n : pendingFunctors_'[i] = pendingFunctors_[i]
      /\ pendingFunctors_'[n + 1] = g
  BY AppendProperties, LenProperties
<1>2. ASSUME NEW f, Has(f)' PROVE Has(f) \/ f = g
  <2>1. PICK i \in 1..(n + 1) : pendingFunctors_'[i] = f
    BY <1>1, <1>2 DEF Has
  <2> QED  BY <1>1, <2>1 DEF Has
<1>3. ASSUME NEW f, Has(f) \/ f = g PROVE Has(f)'
  BY <1>1, <1>3 DEF Has
<1> QED  BY <1>1, <1>2, <1>3

(* The queue with one functor less. *)
LEMMA Taken ==
    ASSUME TypeInv, batch > 0, pendingFunctors_' = Tail(pendingFunctors_)
    PROVE  /\ pendingFunctors_' \in Seq(Functors)
           /\ Len(pendingFunctors_) \in Nat \ {0} /\ Len(pendingFunctors_') = Len(pendingFunctors_) - 1
           /\ \A i \in 1..Len(pendingFunctors_') : pendingFunctors_'[i] = pendingFunctors_[i + 1]
           /\ Head(pendingFunctors_) = pendingFunctors_[1] /\ Has(Head(pendingFunctors_))
           /\ \A f : Has(f)' => Has(f)
           /\ \A f : Has(f) /\ f # Head(pendingFunctors_) => Has(f)'
<1>1. pendingFunctors_ \in Seq(Functors) /\ Len(pendingFunctors_) \in Nat \ {0}
  BY LenProperties DEF TypeInv
<1>2. pendingFunctors_ # <<>>
  BY <1>1
<1>3. /\ pendingFunctors_' \in Seq(Functors) /\ Len(pendingFunctors_') = Len(pendingFunctors_) - 1
      /\ \A i \in 1..Len(pendingFunctors_') : pendingFunctors_'[i] = pendingFunctors_[i + 1]
      /\ Head(pendingFunctors_) = pendingFunctors_[1]
  BY <1>1, <1>2, HeadTailProperties
<1>4. Has(Head(pendingFunctors_))
  BY <1>1, <1>3 DEF Has
<1>5. ASSUME NEW f, Has(f)' PROVE Has(f)
  BY <1>1, <1>3, <1>5 DEF Has
<1>6. ASSUME NEW f, Has(f), f # Head(pendingFunctors_) PROVE Has(f)'
  <2>1. PICK i \in 1..Len(pendingFunctors_) : pendingFunctors_[i] = f
    BY <1>6 DEF Has
  <2>2. i - 1 \in 1..Len(pendingFunctors_') /\ pendingFunctors_'[i - 1] = f
    BY <1>1, <1>3, <1>6, <2>1
  <2> QED  BY <2>2 DEF Has
<1> QED  BY <1>1, <1>3, <1>4, <1>5, <1>6

(* A connection that goes down: no forceClose() is left in the queue. *)
LEMMA Closed ==
    ASSUME NEW q \in Seq(Functors), pendingFunctors_' = Append(TooLate(q), "connectDestroyed")
    PROVE  /\ pendingFunctors_' \in Seq(Functors)
           /\ Len(q) \in Nat /\ Len(pendingFunctors_') = Len(q) + 1
           /\ \A i \in 1..Len(q) : pendingFunctors_'[i] = IF q[i] = "forceClose" THEN "late" ELSE q[i]
           /\ pendingFunctors_'[Len(q) + 1] = "connectDestroyed"
           /\ ~Has("forceClose")'
           /\ \A f \in {"startInLoop", "resetChannel", "cancel"} :
                  Has(f)' <=> \E i \in 1..Len(q) : q[i] = f
<1> DEFINE n == Len(q)
<1>1. n \in Nat /\ DOMAIN q = 1..n /\ \A i \in 1..n : q[i] \in Functors
  BY LenProperties, ElementOfSeq
<1>2. TooLate(q) = [i \in 1..n |-> IF q[i] = "forceClose" THEN "late" ELSE q[i]]
  BY <1>1 DEF TooLate
<1>3. TooLate(q) \in Seq(Functors) /\ Len(TooLate(q)) = n
      /\ \A i \in 1..n : TooLate(q)[i] = IF q[i] = "forceClose" THEN "late" ELSE q[i]
  BY <1>1, <1>2 DEF Functors
<1>4. "connectDestroyed" \in Functors
  BY DEF Functors
<1>5. /\ pendingFunctors_' \in Seq(Functors) /\ Len(pendingFunctors_') = n + 1
      /\ \A i \in 1..n : pendingFunctors_'[i] = IF q[i] = "forceClose" THEN "late" ELSE q[i]
      /\ pendingFunctors_'[n + 1] = "connectDestroyed"
  BY <1>3, <1>4, AppendProperties
<1> HIDE DEF n
<1>6. \A i \in 1..(n + 1) : i \in 1..n \/ i = n + 1
  BY <1>1
<1>7. ~Has("forceClose")'
  BY <1>5, <1>6 DEF Has
<1>8. ASSUME NEW f \in {"startInLoop", "resetChannel", "cancel"}
      PROVE  Has(f)' <=> \E i \in 1..n : q[i] = f
  <2>1. \A i \in 1..n : pendingFunctors_'[i] = f <=> q[i] = f
    BY <1>5
  <2>2. pendingFunctors_'[n + 1] # f
    BY <1>5
  <2>3. \A i \in 1..n : i \in 1..(n + 1)
    BY <1>1
  <2> QED  BY <1>5, <1>6, <2>1, <2>2, <2>3 DEF Has
<1> QED  BY <1>1, <1>5, <1>7, <1>8 DEF n

-----------------------------------------------------------------------------
(* The order in the queue. *)
LEMMA QueuePushed ==
    ASSUME TypeInv, QueueInv, NEW g \in Functors, pendingFunctors_' = Append(pendingFunctors_, g),
           pc' = pc, batch' = batch,
           g = "startInLoop" => ~Start_,
           g = "resetChannel" => pc = "events" /\ ~Has("resetChannel") /\ ~Has("forceClose")
    PROVE  QueueInv'
<1> DEFINE n == Len(pendingFunctors_)
<1>1. /\ n \in Nat /\ Len(pendingFunctors_') = n + 1
      /\ \A i \in 1..n : pendingFunctors_'[i] = pendingFunctors_[i]
      /\ pendingFunctors_'[n + 1] = g
  BY Pushed DEF TypeInv
<1> HIDE DEF n
<1>2. \A i \in 1..(n + 1) : i \in 1..n \/ i = n + 1
  BY <1>1
<1>3. \A i \in 1..n : i < n + 1
  BY <1>1
<1>4. /\ g = "startInLoop" => \A i \in 1..n : pendingFunctors_[i] # "startInLoop"
      /\ g = "resetChannel" => \A i \in 1..n : pendingFunctors_[i] \notin {"resetChannel", "forceClose"}
  BY DEF Has, Start_, n
<1> QED  BY <1>1, <1>2, <1>3, <1>4 DEF QueueInv, n

LEMMA QueueTaken ==
    ASSUME TypeInv, QueueInv, batch > 0, pendingFunctors_' = Tail(pendingFunctors_),
           pc = "functors", pc' = pc, batch' = batch - 1
    PROVE  /\ QueueInv' /\ batch' \in Nat /\ batch' <= Len(pendingFunctors_')
           /\ Head(pendingFunctors_) = "startInLoop" => ~Has("startInLoop")'
           /\ Head(pendingFunctors_) = "resetChannel" => ~Has("resetChannel")'
           /\ Head(pendingFunctors_) = "forceClose" => ~Has("resetChannel")
<1>1. /\ Len(pendingFunctors_) \in Nat \ {0} /\ Len(pendingFunctors_') = Len(pendingFunctors_) - 1
      /\ \A i \in 1..Len(pendingFunctors_') : pendingFunctors_'[i] = pendingFunctors_[i + 1]
      /\ Head(pendingFunctors_) = pendingFunctors_[1]
  BY Taken
<1>2. batch \in Nat /\ batch <= Len(pendingFunctors_)
  BY DEF TypeInv
<1>3. \A i \in 1..Len(pendingFunctors_') : i + 1 \in 1..Len(pendingFunctors_) /\ i + 1 # 1 /\ i \in Nat
  BY <1>1
<1>4. 1 \in 1..Len(pendingFunctors_)
  BY <1>1
<1>5. QueueInv'
  BY <1>1, <1>2, <1>3 DEF QueueInv
<1>6. ASSUME NEW f \in {"startInLoop", "resetChannel"}, Head(pendingFunctors_) = f
      PROVE  ~Has(f)'
  <2> SUFFICES ASSUME NEW i \in 1..Len(pendingFunctors_'), pendingFunctors_'[i] = f
               PROVE  FALSE
    BY DEF Has
  <2> QED  BY <1>1, <1>3, <1>4, <1>6 DEF QueueInv
<1>7. Head(pendingFunctors_) = "forceClose" => ~Has("resetChannel")
  BY <1>1, <1>4 DEF QueueInv, Has
<1> QED  BY <1>1, <1>2, <1>5, <1>6, <1>7

(* The steps that leave the queue alone. *)
LEMMA SameQueue ==
    ASSUME pendingFunctors_' = pendingFunctors_
    PROVE  \A f : Has(f)' <=> Has(f)
  BY DEF Has

LEMMA QuietSteps ==
    ASSUME ClientInv, ~SlowRounds,
           \/ Poll \/ EndEvents \/ EndFunctors \/ Resolve \/ PeerResets \/ TimerDue
           \/ StopClient \/ StopConnector \/ Disconnect
    PROVE  ClientInv'
<1> USE DEF connectorVars, clientVars, loopVars, stopVars, history
<1>1. pendingFunctors_' = pendingFunctors_ /\ failed' = failed /\ sockets' = sockets /\ state_' = state_
      /\ connection_' = connection_ /\ dying' = dying
  BY DEF Poll, EndEvents, EndFunctors, Resolve, PeerResets, TimerDue, StopClient, StopConnector, Disconnect
<1>2. \A f : Has(f)' <=> Has(f)
  BY <1>1, SameQueue
<1>3. CASE Poll
  <2>1. TypeInv'
    BY <1>3 DEF Poll, At, Reports, ClientInv, TypeInv
  <2>2. QueueInv'
    BY <1>3 DEF Poll, At, Reports, ClientInv, QueueInv, TypeInv
  <2>3. StateInv' /\ EffortInv'
    BY <1>2, <1>3 DEF Poll, At, Reports, ClientInv, StateInv, EffortInv, Start_, Timer_, Attempt_, TypeInv
  <2>4. FlagsInv' /\ WantedInv'
    BY <1>2, <1>3 DEF Poll, At, ClientInv, FlagsInv, WantedInv, ConnectionWanted, Start_, Timer_, Attempt_
  <2>5. channel_ # "removed"
    BY <1>3 DEF Poll, At, ClientInv, QueueInv, StateInv, Has
  <2>6. TodoInv'
    BY <2>5, <1>3 DEF Poll, At, Reports, ClientInv, StateInv, EffortInv, TodoInv, Timer_, Attempt_, TypeInv
  <2> QED  BY <1>1, <2>1, <2>2, <2>3, <2>4, <2>6 DEF ClientInv, SocketsOwned, AssertsHold
<1>4. CASE EndEvents
  <2>1. TypeInv'
    BY <1>4 DEF EndEvents, At, ClientInv, TypeInv
  <2>2. QueueInv'
    BY <1>4 DEF EndEvents, At, ClientInv, QueueInv, TypeInv
  <2>3. StateInv' /\ EffortInv'
    BY <1>2, <1>4 DEF EndEvents, At, ClientInv, StateInv, EffortInv, Start_, Timer_, Attempt_, TypeInv
  <2>4. TodoInv' /\ FlagsInv' /\ WantedInv'
    BY <1>2, <1>4 DEF EndEvents, At, ClientInv, StateInv, EffortInv, TodoInv, FlagsInv, WantedInv, ConnectionWanted, Start_, Timer_, Attempt_, TypeInv
  <2> QED  BY <1>1, <2>1, <2>2, <2>3, <2>4 DEF ClientInv, SocketsOwned, AssertsHold
<1>5. CASE EndFunctors
  <2>1. TypeInv'
    BY <1>5 DEF EndFunctors, At, ClientInv, TypeInv
  <2>2. QueueInv'
    BY <1>5 DEF EndFunctors, At, ClientInv, QueueInv, TypeInv
  <2>3. StateInv' /\ EffortInv'
    BY <1>2, <1>5 DEF EndFunctors, At, ClientInv, StateInv, EffortInv, Start_, Timer_, Attempt_, TypeInv
  <2>4. TodoInv' /\ FlagsInv' /\ WantedInv'
    BY <1>2, <1>5 DEF EndFunctors, At, ClientInv, StateInv, EffortInv, TodoInv, FlagsInv, WantedInv, ConnectionWanted, Start_, Timer_, Attempt_, TypeInv
  <2> QED  BY <1>1, <2>1, <2>2, <2>3, <2>4 DEF ClientInv, SocketsOwned, AssertsHold
<1>6. CASE Resolve
  <2>1. TypeInv'
    BY <1>6 DEF Resolve, ClientInv, TypeInv
  <2>2. QueueInv'
    BY <1>6 DEF Resolve, ClientInv, QueueInv, TypeInv
  <2>3. StateInv' /\ EffortInv'
    BY <1>2, <1>6 DEF Resolve, ClientInv, StateInv, EffortInv, Start_, Timer_, Attempt_, TypeInv
  <2>4. TodoInv' /\ FlagsInv' /\ WantedInv'
    BY <1>2, <1>6 DEF Resolve, ClientInv, StateInv, EffortInv, TodoInv, FlagsInv, WantedInv, ConnectionWanted, Start_, Timer_, Attempt_, TypeInv
  <2> QED  BY <1>1, <2>1, <2>2, <2>3, <2>4 DEF ClientInv, SocketsOwned, AssertsHold
<1>7. CASE PeerResets
  <2>1. TypeInv'
    BY <1>7 DEF PeerResets, ClientInv, TypeInv
  <2>2. QueueInv'
    BY <1>7 DEF PeerResets, ClientInv, QueueInv, TypeInv
  <2>3. StateInv' /\ EffortInv'
    BY <1>2, <1>7 DEF PeerResets, ClientInv, StateInv, EffortInv, Start_, Timer_, Attempt_, TypeInv
  <2>4. TodoInv' /\ FlagsInv' /\ WantedInv'
    BY <1>2, <1>7 DEF PeerResets, ClientInv, StateInv, EffortInv, TodoInv, FlagsInv, WantedInv, ConnectionWanted, Start_, Timer_, Attempt_, TypeInv
  <2> QED  BY <1>1, <2>1, <2>2, <2>3, <2>4 DEF ClientInv, SocketsOwned, AssertsHold
<1>8. CASE TimerDue
  <2>1. TypeInv'
    BY <1>8 DEF TimerDue, ClientInv, TypeInv
  <2>2. QueueInv'
    BY <1>8 DEF TimerDue, ClientInv, QueueInv, TypeInv
  <2>3. StateInv' /\ EffortInv'
    BY <1>2, <1>8 DEF TimerDue, ClientInv, StateInv, EffortInv, Start_, Timer_, Attempt_, TypeInv
  <2>4. TodoInv' /\ FlagsInv' /\ WantedInv'
    BY <1>2, <1>8 DEF TimerDue, ClientInv, StateInv, EffortInv, TodoInv, FlagsInv, WantedInv, ConnectionWanted, Start_, Timer_, Attempt_, TypeInv
  <2> QED  BY <1>1, <2>1, <2>2, <2>3, <2>4 DEF ClientInv, SocketsOwned, AssertsHold
<1>9. CASE StopClient
  <2>0. clientConnect_' \in BOOLEAN
    BY <1>9, Zenon DEF StopClient
  <2>1. TypeInv'
    BY <1>9, <2>0 DEF StopClient, ClientInv, TypeInv
  <2>2. QueueInv'
    BY <1>9 DEF StopClient, ClientInv, QueueInv, TypeInv
  <2>3. StateInv' /\ EffortInv'
    BY <1>2, <1>9 DEF StopClient, ClientInv, StateInv, EffortInv, Start_, Timer_, Attempt_, TypeInv
  <2>4. TodoInv' /\ FlagsInv' /\ WantedInv'
    BY <1>2, <1>9 DEF StopClient, ClientInv, StateInv, EffortInv, TodoInv, FlagsInv, WantedInv, ConnectionWanted, Start_, Timer_, Attempt_, TypeInv
  <2> QED  BY <1>1, <2>1, <2>2, <2>3, <2>4 DEF ClientInv, SocketsOwned, AssertsHold
<1>10. CASE StopConnector
  <2>0. connect_' \in BOOLEAN
    BY <1>10, Zenon DEF StopConnector
  <2>1. TypeInv'
    BY <1>10, <2>0 DEF StopConnector, ClientInv, TypeInv
  <2>2. QueueInv'
    BY <1>10 DEF StopConnector, ClientInv, QueueInv, TypeInv
  <2>3. StateInv' /\ EffortInv'
    BY <1>2, <1>10 DEF StopConnector, ClientInv, StateInv, EffortInv, Start_, Timer_, Attempt_, TypeInv
  <2>4. TodoInv' /\ FlagsInv' /\ WantedInv'
    BY <1>2, <1>10 DEF StopConnector, ClientInv, StateInv, EffortInv, TodoInv, FlagsInv, WantedInv, ConnectionWanted, Start_, Timer_, Attempt_, TypeInv
  <2> QED  BY <1>1, <2>1, <2>2, <2>3, <2>4 DEF ClientInv, SocketsOwned, AssertsHold
<1>11. CASE Disconnect
  <2>0. clientConnect_' \in BOOLEAN
    BY <1>11, Zenon DEF Disconnect
  <2>1. TypeInv'
    BY <1>11, <2>0 DEF Disconnect, ClientInv, TypeInv
  <2>2. QueueInv'
    BY <1>11 DEF Disconnect, ClientInv, QueueInv, TypeInv
  <2>3. StateInv' /\ EffortInv'
    BY <1>2, <1>11 DEF Disconnect, ClientInv, StateInv, EffortInv, Start_, Timer_, Attempt_, TypeInv
  <2>4. TodoInv' /\ FlagsInv' /\ WantedInv'
    BY <1>2, <1>11 DEF Disconnect, ClientInv, StateInv, EffortInv, TodoInv, FlagsInv, WantedInv, ConnectionWanted, Start_, Timer_, Attempt_, TypeInv
  <2> QED  BY <1>1, <2>1, <2>2, <2>3, <2>4 DEF ClientInv, SocketsOwned, AssertsHold
<1> QED  BY <1>3, <1>4, <1>5, <1>6, <1>7, <1>8, <1>9, <1>10, <1>11

(* startInLoop() keeps the types of what it assigns. *)
StartTypes ==
    /\ state_' \in {"kDisconnected", "kConnecting", "kConnected"}
    /\ channel_' \in {"null", "registered", "removed"} /\ timer_' \in {"unset", "waiting", "due", "gone"}
    /\ attempt' \in {"none", "pending", "ok", "self", "fail"} /\ sockets' \in Int

LEMMA StartTyped ==
    ASSUME TypeInv, NEW s \in {"kDisconnected", "kConnecting", "kConnected"}, NEW delay,
           NEW t \in {"unset", "waiting", "due", "gone"},
           StartInLoop(s, delay, t) \/ DoNotConnect(t) \/ UNCHANGED connectorVars
    PROVE  StartTypes
<1>1. CASE StartInLoop(s, delay, t)
  <2>1. /\ state_' \in {s, "kDisconnected", "kConnecting"} /\ timer_' \in {t, "waiting"}
        /\ channel_' \in {channel_, "registered"} /\ attempt' \in {attempt, "pending"}
        /\ sockets' \in {sockets, sockets + 1}
    BY <1>1, Zenon DEF StartInLoop, Connecting, ScheduleRetry
  <2> QED  BY <2>1 DEF TypeInv, StartTypes
<1>2. CASE DoNotConnect(t)
  BY <1>2 DEF DoNotConnect, TypeInv, StartTypes
<1>3. CASE UNCHANGED connectorVars
  BY <1>3 DEF connectorVars, TypeInv, StartTypes
<1> QED  BY <1>1, <1>2, <1>3

LEMMA RetryTimerStep ==
    ASSUME ClientInv, RetryTimer
    PROVE  ClientInv'
<1> USE DEF connectorVars, clientVars, loopVars, stopVars, history
<1>1. pendingFunctors_' = pendingFunctors_ /\ pc' = pc /\ batch' = batch
  BY DEF RetryTimer, Take, At, StartInLoop, DoNotConnect, Connecting, ScheduleRetry, Failing, Recapture
<1>2. \A f : Has(f)' <=> Has(f)
  BY <1>1, SameQueue
<1>3. TypeInv'
  <2>1. gaveUp' \in BOOLEAN
    BY Zenon DEF RetryTimer, Take, At, StartInLoop, DoNotConnect, Connecting, ScheduleRetry, Failing, Recapture, ClientInv, TypeInv
  <2>2. captured' \in {"none", "timer_", "gone"} /\ todo' \subseteq todo
    BY DEF RetryTimer, Take, At, Recapture, ClientInv, TypeInv
  <2>3. StartInLoop(state_, retryDelayMs_, "gone") \/ DoNotConnect("gone") \/ UNCHANGED connectorVars
    BY DEF RetryTimer, Take, At, Recapture
  <2>4. TypeInv /\ state_ \in {"kDisconnected", "kConnecting", "kConnected"}
        /\ timer_ \in {"unset", "waiting", "due", "gone"}
    BY DEF ClientInv, TypeInv
  <2>5. StartTypes
    BY <2>3, <2>4, StartTyped
  <2> QED  BY <1>1, <2>1, <2>2, <2>4, <2>5 DEF RetryTimer, Take, At, Recapture, TypeInv, StartTypes
<1>4. QueueInv'
  BY <1>1 DEF ClientInv, QueueInv
<1>5. StateInv' /\ EffortInv'
  BY <1>2 DEF RetryTimer, Take, At, StartInLoop, DoNotConnect, Connecting, ScheduleRetry, Failing, Recapture, ClientInv, StateInv, EffortInv, TodoInv, Start_, Timer_, Attempt_, TypeInv
<1>6. TodoInv'
  BY <1>2 DEF RetryTimer, Take, At, StartInLoop, DoNotConnect, Connecting, ScheduleRetry, Failing, Recapture, ClientInv, StateInv, EffortInv, TodoInv, Start_, Timer_, Attempt_, TypeInv
<1>7. FlagsInv' /\ WantedInv'
  BY <1>2 DEF RetryTimer, Take, At, StartInLoop, DoNotConnect, Connecting, ScheduleRetry, Failing, Recapture, ClientInv, StateInv, EffortInv, FlagsInv, WantedInv, ConnectionWanted, Start_, Timer_, Attempt_, TypeInv
<1>8. SocketsOwned' /\ AssertsHold'
  BY DEF RetryTimer, Take, At, StartInLoop, DoNotConnect, Connecting, ScheduleRetry, Failing, Recapture, ClientInv, StateInv, EffortInv, TodoInv, SocketsOwned, AssertsHold, Start_, Timer_, Attempt_, TypeInv
<1> QED  BY <1>3, <1>4, <1>5, <1>6, <1>7, <1>8 DEF ClientInv

LEMMA RestartConnectorStep ==
    ASSUME ClientInv, RestartConnector
    PROVE  ClientInv'
<1> USE DEF connectorVars, clientVars, loopVars, stopVars, history
<1>1. pendingFunctors_' = pendingFunctors_ /\ pc' = pc /\ batch' = batch
  BY DEF RestartConnector, Restart, StartInLoop, Connecting, ScheduleRetry, Failing, Recapture
<1>2. \A f : Has(f)' <=> Has(f)
  BY <1>1, SameQueue
<1>3. TypeInv'
  <2>1. connect_' \in BOOLEAN /\ restarting' \in BOOLEAN /\ gaveUp' \in BOOLEAN /\ overridden' \in BOOLEAN
    BY Zenon DEF RestartConnector, Restart, StartInLoop, Connecting, ScheduleRetry, Failing, Recapture, ClientInv, TypeInv
  <2>2. captured' \in {"none", "timer_", "gone"}
    BY DEF RestartConnector, Restart, Recapture, ClientInv, TypeInv
  <2>3. StartInLoop("kDisconnected", kInitRetryDelayMs, timer_)
    BY DEF RestartConnector, Restart, Recapture
  <2>4. TypeInv /\ state_ \in {"kDisconnected", "kConnecting", "kConnected"}
        /\ timer_ \in {"unset", "waiting", "due", "gone"}
    BY DEF ClientInv, TypeInv
  <2>5. StartTypes
    BY <2>3, <2>4, StartTyped
  <2> QED  BY <1>1, <2>1, <2>2, <2>4, <2>5 DEF RestartConnector, Restart, Recapture, TypeInv, StartTypes
<1>4. QueueInv'
  BY <1>1 DEF ClientInv, QueueInv
<1>5. StateInv' /\ EffortInv'
  BY <1>2 DEF RestartConnector, Restart, StartInLoop, Connecting, ScheduleRetry, Failing, Recapture, ClientInv, StateInv, EffortInv, TodoInv, Start_, Timer_, Attempt_, TypeInv
<1>6. TodoInv'
  BY <1>2 DEF RestartConnector, Restart, StartInLoop, Connecting, ScheduleRetry, Failing, Recapture, ClientInv, StateInv, EffortInv, TodoInv, Start_, Timer_, Attempt_, TypeInv
<1>7. FlagsInv' /\ WantedInv'
  BY <1>2 DEF RestartConnector, Restart, StartInLoop, Connecting, ScheduleRetry, Failing, Recapture, ClientInv, StateInv, EffortInv, FlagsInv, WantedInv, ConnectionWanted, Start_, Timer_, Attempt_, TypeInv
<1>8. SocketsOwned' /\ AssertsHold'
  BY DEF RestartConnector, Restart, StartInLoop, Connecting, ScheduleRetry, Failing, Recapture, ClientInv, StateInv, EffortInv, TodoInv, SocketsOwned, AssertsHold, Start_, Timer_, Attempt_, TypeInv
<1> QED  BY <1>3, <1>4, <1>5, <1>6, <1>7, <1>8 DEF ClientInv

LEMMA StartHereStep ==
    ASSUME ClientInv, StartHere
    PROVE  ClientInv'
<1> USE DEF connectorVars, clientVars, loopVars, stopVars, history
<1>1. pendingFunctors_' = pendingFunctors_ /\ pc' = pc /\ batch' = batch
  BY DEF StartHere, UserCode, At, StartInLoop, Connecting, ScheduleRetry, Failing
<1>2. \A f : Has(f)' <=> Has(f)
  BY <1>1, SameQueue
<1>3. TypeInv'
  <2>1. started' \in BOOLEAN /\ connect_' \in BOOLEAN /\ gaveUp' \in BOOLEAN
    BY Zenon DEF StartHere, UserCode, At, StartInLoop, Connecting, ScheduleRetry, Failing, ClientInv, TypeInv
  <2>2. captured' = captured
    BY DEF StartHere, UserCode, At, ClientInv, TypeInv
  <2>3. StartInLoop(state_, retryDelayMs_, timer_)
    BY DEF StartHere, UserCode, At
  <2>4. TypeInv /\ state_ \in {"kDisconnected", "kConnecting", "kConnected"}
        /\ timer_ \in {"unset", "waiting", "due", "gone"}
    BY DEF ClientInv, TypeInv
  <2>5. StartTypes
    BY <2>3, <2>4, StartTyped
  <2> QED  BY <1>1, <2>1, <2>2, <2>4, <2>5 DEF StartHere, UserCode, At, TypeInv, StartTypes
<1>4. QueueInv'
  BY <1>1 DEF ClientInv, QueueInv
<1>5. StateInv' /\ EffortInv'
  BY <1>2 DEF StartHere, UserCode, At, StartInLoop, Connecting, ScheduleRetry, Failing, ClientInv, StateInv, EffortInv, TodoInv, Start_, Timer_, Attempt_, TypeInv
<1>6. TodoInv'
  BY <1>2 DEF StartHere, UserCode, At, StartInLoop, Connecting, ScheduleRetry, Failing, ClientInv, StateInv, EffortInv, TodoInv, Start_, Timer_, Attempt_, TypeInv
<1>7. FlagsInv' /\ WantedInv'
  BY <1>2 DEF StartHere, UserCode, At, StartInLoop, Connecting, ScheduleRetry, Failing, ClientInv, StateInv, EffortInv, FlagsInv, WantedInv, ConnectionWanted, Start_, Timer_, Attempt_, TypeInv
<1>8. SocketsOwned' /\ AssertsHold'
  BY DEF StartHere, UserCode, At, StartInLoop, Connecting, ScheduleRetry, Failing, ClientInv, StateInv, EffortInv, TodoInv, SocketsOwned, AssertsHold, Start_, Timer_, Attempt_, TypeInv
<1> QED  BY <1>3, <1>4, <1>5, <1>6, <1>7, <1>8 DEF ClientInv

LEMMA StopHereStep ==
    ASSUME ClientInv, StopHere
    PROVE  ClientInv'
<1> USE DEF connectorVars, clientVars, loopVars, stopVars, history
<1>1. pendingFunctors_' = pendingFunctors_ /\ pc' = pc /\ batch' = batch
  BY DEF StopHere, UserCode, At, Cancel
<1>2. \A f : Has(f)' <=> Has(f)
  BY <1>1, SameQueue
<1>3. TypeInv'
  <2>1. connect_' \in BOOLEAN /\ clientConnect_' \in BOOLEAN /\ misuse' \in BOOLEAN
    BY Zenon DEF StopHere, UserCode, At, Cancel, ClientInv, TypeInv
  <2> QED  BY <1>1, <2>1 DEF StopHere, UserCode, At, Cancel, ClientInv, TypeInv
<1>4. QueueInv'
  BY <1>1 DEF ClientInv, QueueInv
<1>5. StateInv' /\ EffortInv'
  BY <1>2 DEF StopHere, UserCode, At, Cancel, ClientInv, StateInv, EffortInv, TodoInv, Start_, Timer_, Attempt_, TypeInv
<1>6. TodoInv'
  BY <1>2 DEF StopHere, UserCode, At, Cancel, ClientInv, StateInv, EffortInv, TodoInv, Start_, Timer_, Attempt_, TypeInv
<1>7. FlagsInv' /\ WantedInv'
  BY <1>2 DEF StopHere, UserCode, At, Cancel, ClientInv, StateInv, EffortInv, FlagsInv, WantedInv, ConnectionWanted, Start_, Timer_, Attempt_, TypeInv
<1>8. SocketsOwned' /\ AssertsHold'
  BY DEF StopHere, UserCode, At, Cancel, ClientInv, StateInv, EffortInv, TodoInv, SocketsOwned, AssertsHold, Start_, Timer_, Attempt_, TypeInv
<1> QED  BY <1>3, <1>4, <1>5, <1>6, <1>7, <1>8 DEF ClientInv

LEMMA ErrorEventStep ==
    ASSUME ClientInv, ErrorEvent
    PROVE  ClientInv'
<1> USE DEF connectorVars, clientVars, loopVars, stopVars, history
<1>1. pendingFunctors_' = Append(pendingFunctors_, "resetChannel") /\ pc' = pc /\ batch' = batch
  BY DEF ErrorEvent, Take, At, HandleError, RemoveAndResetChannel, Retry, ScheduleRetry, Failing
<1>2. /\ pendingFunctors_' \in Seq(Functors)
      /\ Len(pendingFunctors_) \in Nat /\ Len(pendingFunctors_') = Len(pendingFunctors_) + 1
      /\ \A f : Has(f)' <=> Has(f) \/ f = "resetChannel"
  BY <1>1, Pushed DEF ClientInv, TypeInv, Functors
<1>3. TypeInv'
  <2>1. /\ state_' = "kDisconnected" /\ sockets' = sockets - 1 /\ timer_' \in {"waiting", timer_}
        /\ channel_' = "removed" /\ attempt' = "none" /\ todo' \subseteq todo
        /\ UNCHANGED <<connect_, gaveUp, clientVars, stopVars, history, misuse>>
    BY DEF ErrorEvent, Take, HandleError, RemoveAndResetChannel, Retry, ScheduleRetry
  <2> QED  BY <1>1, <1>2, <2>1 DEF ClientInv, TypeInv
<1>4. QueueInv'
  <2>1. /\ TypeInv /\ QueueInv /\ "resetChannel" \in Functors
    BY DEF ClientInv, Functors
  <2>2. /\ "resetChannel" = "startInLoop" => ~Start_
        /\ "resetChannel" = "resetChannel" => pc = "events" /\ ~Has("resetChannel") /\ ~Has("forceClose")
    BY DEF ErrorEvent, Take, At, HandleError, RemoveAndResetChannel, Retry, ScheduleRetry, Failing, ClientInv, StateInv, EffortInv, TodoInv, Start_, Attempt_, TypeInv
  <2> QED  BY <1>1, <2>1, <2>2, QueuePushed
<1>5. StateInv' /\ EffortInv'
  BY <1>2 DEF ErrorEvent, Take, At, HandleError, RemoveAndResetChannel, Retry, ScheduleRetry, Failing, ClientInv, StateInv, EffortInv, TodoInv, Start_, Timer_, Attempt_, TypeInv
<1>6. TodoInv'
  BY <1>2 DEF ErrorEvent, Take, At, HandleError, RemoveAndResetChannel, Retry, ScheduleRetry, Failing, ClientInv, StateInv, EffortInv, TodoInv, Start_, Timer_, Attempt_, TypeInv
<1>7. FlagsInv' /\ WantedInv'
  BY <1>2 DEF ErrorEvent, Take, At, HandleError, RemoveAndResetChannel, Retry, ScheduleRetry, Failing, ClientInv, StateInv, EffortInv, FlagsInv, WantedInv, ConnectionWanted, Start_, Timer_, Attempt_, TypeInv
<1>8. SocketsOwned' /\ AssertsHold'
  BY DEF ErrorEvent, Take, At, HandleError, RemoveAndResetChannel, Retry, ScheduleRetry, Failing, ClientInv, StateInv, EffortInv, TodoInv, SocketsOwned, AssertsHold, Start_, Timer_, Attempt_, TypeInv
<1> QED  BY <1>3, <1>4, <1>5, <1>6, <1>7, <1>8 DEF ClientInv

LEMMA FailedEventStep ==
    ASSUME ClientInv, Take("write"), "error" \notin todo, HandleWriteFailed, UNCHANGED <<clientVars, stopVars, history, misuse>>
    PROVE  ClientInv'
<1> USE DEF connectorVars, clientVars, loopVars, stopVars, history
<1>1. pendingFunctors_' = Append(pendingFunctors_, "resetChannel") /\ pc' = pc /\ batch' = batch
  BY DEF Take, At, HandleWriteFailed, RemoveAndResetChannel, Retry, ScheduleRetry
<1>2. /\ pendingFunctors_' \in Seq(Functors)
      /\ Len(pendingFunctors_) \in Nat /\ Len(pendingFunctors_') = Len(pendingFunctors_) + 1
      /\ \A f : Has(f)' <=> Has(f) \/ f = "resetChannel"
  BY <1>1, Pushed DEF ClientInv, TypeInv, Functors
<1>3. TypeInv'
  BY <1>1, <1>2 DEF Take, At, HandleWriteFailed, RemoveAndResetChannel, Retry, ScheduleRetry, ClientInv, TypeInv
<1>4. QueueInv'
  <2>1. /\ TypeInv /\ QueueInv /\ "resetChannel" \in Functors
    BY DEF ClientInv, Functors
  <2>2. /\ "resetChannel" = "startInLoop" => ~Start_
        /\ "resetChannel" = "resetChannel" => pc = "events" /\ ~Has("resetChannel") /\ ~Has("forceClose")
    BY DEF Take, At, HandleWriteFailed, RemoveAndResetChannel, Retry, ScheduleRetry, ClientInv, StateInv, EffortInv, TodoInv, Start_, Attempt_, TypeInv
  <2> QED  BY <1>1, <2>1, <2>2, QueuePushed
<1>5. StateInv' /\ EffortInv'
  BY <1>2 DEF Take, At, HandleWriteFailed, RemoveAndResetChannel, Retry, ScheduleRetry, ClientInv, StateInv, EffortInv, TodoInv, Start_, Timer_, Attempt_, TypeInv
<1>6. TodoInv'
  BY <1>2 DEF Take, At, HandleWriteFailed, RemoveAndResetChannel, Retry, ScheduleRetry, ClientInv, StateInv, EffortInv, TodoInv, Start_, Timer_, Attempt_, TypeInv
<1>7. FlagsInv' /\ WantedInv'
  BY <1>2 DEF Take, At, HandleWriteFailed, RemoveAndResetChannel, Retry, ScheduleRetry, ClientInv, StateInv, EffortInv, FlagsInv, WantedInv, ConnectionWanted, Start_, Timer_, Attempt_, TypeInv
<1>8. SocketsOwned' /\ AssertsHold'
  BY DEF Take, At, HandleWriteFailed, RemoveAndResetChannel, Retry, ScheduleRetry, ClientInv, StateInv, EffortInv, TodoInv, SocketsOwned, AssertsHold, Start_, Timer_, Attempt_, TypeInv
<1> QED  BY <1>3, <1>4, <1>5, <1>6, <1>7, <1>8 DEF ClientInv

LEMMA StoppedEventStep ==
    ASSUME ClientInv, Take("write"), "error" \notin todo, HandleWriteStopped, UNCHANGED <<clientVars, stopVars, history, misuse>>
    PROVE  ClientInv'
<1> USE DEF connectorVars, clientVars, loopVars, stopVars, history
<1>1. pendingFunctors_' = Append(pendingFunctors_, "resetChannel") /\ pc' = pc /\ batch' = batch
  BY DEF Take, At, HandleWriteStopped, RemoveAndResetChannel, Wanted
<1>2. /\ pendingFunctors_' \in Seq(Functors)
      /\ Len(pendingFunctors_) \in Nat /\ Len(pendingFunctors_') = Len(pendingFunctors_) + 1
      /\ \A f : Has(f)' <=> Has(f) \/ f = "resetChannel"
  BY <1>1, Pushed DEF ClientInv, TypeInv, Functors
<1>3. TypeInv'
  BY <1>1, <1>2 DEF Take, At, HandleWriteStopped, RemoveAndResetChannel, Wanted, ClientInv, TypeInv
<1>4. QueueInv'
  <2>1. /\ TypeInv /\ QueueInv /\ "resetChannel" \in Functors
    BY DEF ClientInv, Functors
  <2>2. /\ "resetChannel" = "startInLoop" => ~Start_
        /\ "resetChannel" = "resetChannel" => pc = "events" /\ ~Has("resetChannel") /\ ~Has("forceClose")
    BY DEF Take, At, HandleWriteStopped, RemoveAndResetChannel, Wanted, ClientInv, StateInv, EffortInv, TodoInv, Start_, Attempt_, TypeInv
  <2> QED  BY <1>1, <2>1, <2>2, QueuePushed
<1>5. StateInv' /\ EffortInv'
  BY <1>2 DEF Take, At, HandleWriteStopped, RemoveAndResetChannel, Wanted, ClientInv, StateInv, EffortInv, TodoInv, Start_, Timer_, Attempt_, TypeInv
<1>6. TodoInv'
  BY <1>2 DEF Take, At, HandleWriteStopped, RemoveAndResetChannel, Wanted, ClientInv, StateInv, EffortInv, TodoInv, Start_, Timer_, Attempt_, TypeInv
<1>7. FlagsInv' /\ WantedInv'
  BY <1>2 DEF Take, At, HandleWriteStopped, RemoveAndResetChannel, Wanted, ClientInv, StateInv, EffortInv, FlagsInv, WantedInv, ConnectionWanted, Start_, Timer_, Attempt_, TypeInv
<1>8. SocketsOwned' /\ AssertsHold'
  BY DEF Take, At, HandleWriteStopped, RemoveAndResetChannel, Wanted, ClientInv, StateInv, EffortInv, TodoInv, SocketsOwned, AssertsHold, Start_, Timer_, Attempt_, TypeInv
<1> QED  BY <1>3, <1>4, <1>5, <1>6, <1>7, <1>8 DEF ClientInv

LEMMA NewConnectionStep ==
    ASSUME ClientInv, NewConnection
    PROVE  ClientInv'
<1> USE DEF connectorVars, clientVars, loopVars, stopVars, history
<1>1. pendingFunctors_' = Append(pendingFunctors_, "resetChannel") /\ pc' = pc /\ batch' = batch
  BY DEF NewConnection, Take, At, HandleWriteConnected, RemoveAndResetChannel, Wanted
<1>2. /\ pendingFunctors_' \in Seq(Functors)
      /\ Len(pendingFunctors_) \in Nat /\ Len(pendingFunctors_') = Len(pendingFunctors_) + 1
      /\ \A f : Has(f)' <=> Has(f) \/ f = "resetChannel"
  BY <1>1, Pushed DEF ClientInv, TypeInv, Functors
<1>3. TypeInv'
  <2>1. connection_' \in BOOLEAN /\ served' \in BOOLEAN
    BY Zenon DEF NewConnection, Take, At, HandleWriteConnected, RemoveAndResetChannel, Wanted, ClientInv, TypeInv
  <2> QED  BY <1>1, <1>2, <2>1 DEF NewConnection, Take, At, HandleWriteConnected, RemoveAndResetChannel, Wanted, ClientInv, TypeInv
<1>4. QueueInv'
  <2>1. /\ TypeInv /\ QueueInv /\ "resetChannel" \in Functors
    BY DEF ClientInv, Functors
  <2>2. /\ "resetChannel" = "startInLoop" => ~Start_
        /\ "resetChannel" = "resetChannel" => pc = "events" /\ ~Has("resetChannel") /\ ~Has("forceClose")
    BY DEF NewConnection, Take, At, HandleWriteConnected, RemoveAndResetChannel, Wanted, ClientInv, StateInv, EffortInv, TodoInv, Start_, Attempt_, TypeInv
  <2> QED  BY <1>1, <2>1, <2>2, QueuePushed
<1>5. StateInv' /\ EffortInv'
  BY <1>2 DEF NewConnection, Take, At, HandleWriteConnected, RemoveAndResetChannel, Wanted, ClientInv, StateInv, EffortInv, TodoInv, Start_, Timer_, Attempt_, TypeInv
<1>6. TodoInv'
  BY <1>2 DEF NewConnection, Take, At, HandleWriteConnected, RemoveAndResetChannel, Wanted, ClientInv, StateInv, EffortInv, TodoInv, Start_, Timer_, Attempt_, TypeInv
<1>7. FlagsInv' /\ WantedInv'
  BY <1>2 DEF NewConnection, Take, At, HandleWriteConnected, RemoveAndResetChannel, Wanted, ClientInv, StateInv, EffortInv, FlagsInv, WantedInv, ConnectionWanted, Start_, Timer_, Attempt_, TypeInv
<1>8. SocketsOwned' /\ AssertsHold'
  BY DEF NewConnection, Take, At, HandleWriteConnected, RemoveAndResetChannel, Wanted, ClientInv, StateInv, EffortInv, TodoInv, SocketsOwned, AssertsHold, Start_, Timer_, Attempt_, TypeInv
<1> QED  BY <1>3, <1>4, <1>5, <1>6, <1>7, <1>8 DEF ClientInv

LEMMA StartStep ==
    ASSUME ClientInv, Start
    PROVE  ClientInv'
<1> USE DEF connectorVars, clientVars, loopVars, stopVars, history
<1>1. pendingFunctors_' = Append(pendingFunctors_, "startInLoop") /\ pc' = pc /\ batch' = batch
  BY DEF Start
<1>2. /\ pendingFunctors_' \in Seq(Functors)
      /\ Len(pendingFunctors_) \in Nat /\ Len(pendingFunctors_') = Len(pendingFunctors_) + 1
      /\ \A f : Has(f)' <=> Has(f) \/ f = "startInLoop"
  BY <1>1, Pushed DEF ClientInv, TypeInv, Functors
<1>3. TypeInv'
  <2>1. started' \in BOOLEAN /\ connect_' \in BOOLEAN
    BY Zenon DEF Start, ClientInv, TypeInv
  <2> QED  BY <1>1, <1>2, <2>1 DEF Start, ClientInv, TypeInv
<1>4. QueueInv'
  <2>1. /\ TypeInv /\ QueueInv /\ "startInLoop" \in Functors
    BY DEF ClientInv, Functors
  <2>2. /\ "startInLoop" = "startInLoop" => ~Start_
        /\ "startInLoop" = "resetChannel" => pc = "events" /\ ~Has("resetChannel") /\ ~Has("forceClose")
    BY DEF Start, ClientInv, StateInv, EffortInv, TodoInv, Start_, Attempt_, TypeInv
  <2> QED  BY <1>1, <2>1, <2>2, QueuePushed
<1>5. StateInv' /\ EffortInv'
  BY <1>2 DEF Start, ClientInv, StateInv, EffortInv, TodoInv, Start_, Timer_, Attempt_, TypeInv
<1>6. TodoInv'
  BY <1>2 DEF Start, ClientInv, StateInv, EffortInv, TodoInv, Start_, Timer_, Attempt_, TypeInv
<1>7. FlagsInv' /\ WantedInv'
  BY <1>2 DEF Start, ClientInv, StateInv, EffortInv, FlagsInv, WantedInv, ConnectionWanted, Start_, Timer_, Attempt_, TypeInv
<1>8. SocketsOwned' /\ AssertsHold'
  BY DEF Start, ClientInv, StateInv, EffortInv, TodoInv, SocketsOwned, AssertsHold, Start_, Timer_, Attempt_, TypeInv
<1> QED  BY <1>3, <1>4, <1>5, <1>6, <1>7, <1>8 DEF ClientInv

LEMMA StopTimerStep ==
    ASSUME ClientInv, StopTimer
    PROVE  ClientInv'
<1> USE DEF connectorVars, clientVars, loopVars, stopVars, history
<1>1. pendingFunctors_' = Append(pendingFunctors_, "cancel") /\ pc' = pc /\ batch' = batch
  BY DEF StopTimer
<1>2. /\ pendingFunctors_' \in Seq(Functors)
      /\ Len(pendingFunctors_) \in Nat /\ Len(pendingFunctors_') = Len(pendingFunctors_) + 1
      /\ \A f : Has(f)' <=> Has(f) \/ f = "cancel"
  BY <1>1, Pushed DEF ClientInv, TypeInv, Functors
<1>3. TypeInv'
  BY <1>1, <1>2 DEF StopTimer, ClientInv, TypeInv
<1>4. QueueInv'
  <2>1. /\ TypeInv /\ QueueInv /\ "cancel" \in Functors
    BY DEF ClientInv, Functors
  <2>2. /\ "cancel" = "startInLoop" => ~Start_
        /\ "cancel" = "resetChannel" => pc = "events" /\ ~Has("resetChannel") /\ ~Has("forceClose")
    BY DEF StopTimer, ClientInv, StateInv, EffortInv, TodoInv, Start_, Attempt_, TypeInv
  <2> QED  BY <1>1, <2>1, <2>2, QueuePushed
<1>5. StateInv' /\ EffortInv'
  BY <1>2 DEF StopTimer, ClientInv, StateInv, EffortInv, TodoInv, Start_, Timer_, Attempt_, TypeInv
<1>6. TodoInv'
  BY <1>2 DEF StopTimer, ClientInv, StateInv, EffortInv, TodoInv, Start_, Timer_, Attempt_, TypeInv
<1>7. FlagsInv' /\ WantedInv'
  BY <1>2 DEF StopTimer, ClientInv, StateInv, EffortInv, FlagsInv, WantedInv, ConnectionWanted, Start_, Timer_, Attempt_, TypeInv
<1>8. SocketsOwned' /\ AssertsHold'
  BY DEF StopTimer, ClientInv, StateInv, EffortInv, TodoInv, SocketsOwned, AssertsHold, Start_, Timer_, Attempt_, TypeInv
<1> QED  BY <1>3, <1>4, <1>5, <1>6, <1>7, <1>8 DEF ClientInv

LEMMA ForceCloseStep ==
    ASSUME ClientInv, ForceClose
    PROVE  ClientInv'
<1> USE DEF connectorVars, clientVars, loopVars, stopVars, history
<1>1. pendingFunctors_' = Append(pendingFunctors_, "forceClose") /\ pc' = pc /\ batch' = batch
  BY DEF ForceClose
<1>2. /\ pendingFunctors_' \in Seq(Functors)
      /\ Len(pendingFunctors_) \in Nat /\ Len(pendingFunctors_') = Len(pendingFunctors_) + 1
      /\ \A f : Has(f)' <=> Has(f) \/ f = "forceClose"
  BY <1>1, Pushed DEF ClientInv, TypeInv, Functors
<1>3. TypeInv'
  BY <1>1, <1>2 DEF ForceClose, ClientInv, TypeInv
<1>4. QueueInv'
  <2>1. /\ TypeInv /\ QueueInv /\ "forceClose" \in Functors
    BY DEF ClientInv, Functors
  <2>2. /\ "forceClose" = "startInLoop" => ~Start_
        /\ "forceClose" = "resetChannel" => pc = "events" /\ ~Has("resetChannel") /\ ~Has("forceClose")
    BY DEF ForceClose, ClientInv, StateInv, EffortInv, TodoInv, Start_, Attempt_, TypeInv
  <2> QED  BY <1>1, <2>1, <2>2, QueuePushed
<1>5. StateInv' /\ EffortInv'
  BY <1>2 DEF ForceClose, ClientInv, StateInv, EffortInv, TodoInv, Start_, Timer_, Attempt_, TypeInv
<1>6. TodoInv'
  BY <1>2 DEF ForceClose, ClientInv, StateInv, EffortInv, TodoInv, Start_, Timer_, Attempt_, TypeInv
<1>7. FlagsInv' /\ WantedInv'
  BY <1>2 DEF ForceClose, ClientInv, StateInv, EffortInv, FlagsInv, WantedInv, ConnectionWanted, Start_, Timer_, Attempt_, TypeInv
<1>8. SocketsOwned' /\ AssertsHold'
  BY DEF ForceClose, ClientInv, StateInv, EffortInv, TodoInv, SocketsOwned, AssertsHold, Start_, Timer_, Attempt_, TypeInv
<1> QED  BY <1>3, <1>4, <1>5, <1>6, <1>7, <1>8 DEF ClientInv

LEMMA LateEventStep ==
    ASSUME ClientInv, Take("write"), "error" \notin todo, HandleWriteLate,
           UNCHANGED <<clientVars, stopVars, history, misuse>>
    PROVE  ClientInv'
<1> USE DEF connectorVars, clientVars, loopVars, stopVars, history
<1>1. pendingFunctors_' = pendingFunctors_ /\ pc' = pc /\ batch' = batch
  BY DEF Take, HandleWriteLate
<1>2. \A f : Has(f)' <=> Has(f)
  BY <1>1, SameQueue
<1>3. TypeInv'
  <2>1. todo' \subseteq todo /\ UNCHANGED <<connect_, state_, channel_, timer_, attempt, sockets, gaveUp>>
    BY DEF Take, HandleWriteLate
  <2> QED  BY <1>1, <2>1 DEF ClientInv, TypeInv
<1>4. QueueInv'
  BY <1>1 DEF ClientInv, QueueInv
<1>5. StateInv' /\ EffortInv' /\ FlagsInv' /\ WantedInv'
  BY <1>2 DEF Take, At, HandleWriteLate, ClientInv, StateInv, EffortInv, FlagsInv, WantedInv, ConnectionWanted,
              Start_, Timer_, Attempt_
<1>6. TodoInv' /\ SocketsOwned' /\ AssertsHold'
  BY DEF Take, At, HandleWriteLate, Failing, ClientInv, StateInv, TodoInv, SocketsOwned, AssertsHold, Attempt_
<1> QED  BY <1>3, <1>4, <1>5, <1>6 DEF ClientInv

LEMMA RunStartStep ==
    ASSUME ClientInv, RunStart
    PROVE  ClientInv'
<1> USE DEF connectorVars, clientVars, loopVars, stopVars, history
<1>1. /\ pendingFunctors_' = Tail(pendingFunctors_) /\ Head(pendingFunctors_) = "startInLoop"
      /\ pc = "functors" /\ pc' = pc /\ batch > 0 /\ batch' = batch - 1 /\ todo' = todo
  BY DEF RunStart, Functor, At, Done
<1>2. /\ pendingFunctors_' \in Seq(Functors) /\ Has("startInLoop")
      /\ \A f : Has(f)' => Has(f)
      /\ \A f : Has(f) /\ f # "startInLoop" => Has(f)'
  BY <1>1, Taken DEF ClientInv
<1>3. /\ QueueInv' /\ batch' \in Nat /\ batch' <= Len(pendingFunctors_')
      /\ "startInLoop" = "startInLoop" => ~Has("startInLoop")'
      /\ "startInLoop" = "resetChannel" => ~Has("resetChannel")'
  BY <1>1, QueueTaken DEF ClientInv
<1>4. TypeInv'
  <2>1. captured' \in {"none", "timer_", "gone"} /\ UNCHANGED <<connect_, todo, clientVars, stopping, history, misuse>>
    BY DEF RunStart, Functor, Recapture, ClientInv, TypeInv
  <2>2. StartInLoop(state_, retryDelayMs_, timer_) \/ DoNotConnect(timer_)
    BY DEF RunStart
  <2>3. gaveUp' \in BOOLEAN
    BY <2>2, Zenon DEF StartInLoop, DoNotConnect, ClientInv, TypeInv
  <2>4. TypeInv /\ state_ \in {"kDisconnected", "kConnecting", "kConnected"}
        /\ timer_ \in {"unset", "waiting", "due", "gone"}
    BY DEF ClientInv, TypeInv
  <2>5. StartTypes
    BY <2>2, <2>4, StartTyped
  <2> QED  BY <1>1, <1>2, <1>3, <2>1, <2>3, <2>4, <2>5 DEF TypeInv, StartTypes
<1>5. StateInv' /\ EffortInv'
  BY <1>2, <1>3 DEF RunStart, Functor, At, Done, StartInLoop, DoNotConnect, Connecting, ScheduleRetry, Failing, Recapture, ClientInv, StateInv, EffortInv, TodoInv, Start_, Timer_, Attempt_, TypeInv
<1>6. TodoInv'
  BY <1>1, <1>2 DEF RunStart, Functor, At, Done, StartInLoop, DoNotConnect, Connecting, ScheduleRetry, Failing, Recapture, ClientInv, StateInv, EffortInv, TodoInv, Start_, Timer_, Attempt_, TypeInv
<1>7. FlagsInv' /\ WantedInv'
  BY <1>2 DEF RunStart, Functor, At, Done, StartInLoop, DoNotConnect, Connecting, ScheduleRetry, Failing, Recapture, ClientInv, StateInv, EffortInv, FlagsInv, WantedInv, ConnectionWanted, Start_, Timer_, Attempt_, TypeInv
<1>8. SocketsOwned' /\ AssertsHold'
  BY <1>2 DEF RunStart, Functor, At, Done, StartInLoop, DoNotConnect, Connecting, ScheduleRetry, Failing, Recapture, ClientInv, StateInv, EffortInv, TodoInv, SocketsOwned, AssertsHold, Start_, Timer_, Attempt_, TypeInv
<1> QED  BY <1>3, <1>4, <1>5, <1>6, <1>7, <1>8 DEF ClientInv

LEMMA RunCancelStep ==
    ASSUME ClientInv, RunCancel
    PROVE  ClientInv'
<1> USE DEF connectorVars, clientVars, loopVars, stopVars, history
<1>1. /\ pendingFunctors_' = Tail(pendingFunctors_) /\ Head(pendingFunctors_) = "cancel"
      /\ pc = "functors" /\ pc' = pc /\ batch > 0 /\ batch' = batch - 1 /\ todo' = todo
  BY DEF RunCancel, Functor, At, Done
<1>2. /\ pendingFunctors_' \in Seq(Functors) /\ Has("cancel")
      /\ \A f : Has(f)' => Has(f)
      /\ \A f : Has(f) /\ f # "cancel" => Has(f)'
  BY <1>1, Taken DEF ClientInv
<1>3. /\ QueueInv' /\ batch' \in Nat /\ batch' <= Len(pendingFunctors_')
      /\ "cancel" = "startInLoop" => ~Has("startInLoop")'
      /\ "cancel" = "resetChannel" => ~Has("resetChannel")'
  BY <1>1, QueueTaken DEF ClientInv
<1>4. TypeInv'
  <2>1. misuse' \in BOOLEAN
    BY Zenon DEF RunCancel, Cancel
  <2> QED  BY <1>1, <1>2, <1>3, <2>1 DEF RunCancel, Functor, At, Done, Cancel, ClientInv, TypeInv
<1>5. StateInv' /\ EffortInv'
  BY <1>2, <1>3 DEF RunCancel, Functor, At, Done, Cancel, ClientInv, StateInv, EffortInv, TodoInv, Start_, Timer_, Attempt_, TypeInv
<1>6. TodoInv'
  BY <1>1, <1>2 DEF RunCancel, Functor, At, Done, Cancel, ClientInv, StateInv, EffortInv, TodoInv, Start_, Timer_, Attempt_, TypeInv
<1>7. FlagsInv' /\ WantedInv'
  BY <1>2 DEF RunCancel, Functor, At, Done, Cancel, ClientInv, StateInv, EffortInv, FlagsInv, WantedInv, ConnectionWanted, Start_, Timer_, Attempt_, TypeInv
<1>8. SocketsOwned' /\ AssertsHold'
  BY <1>2 DEF RunCancel, Functor, At, Done, Cancel, ClientInv, StateInv, EffortInv, TodoInv, SocketsOwned, AssertsHold, Start_, Timer_, Attempt_, TypeInv
<1> QED  BY <1>3, <1>4, <1>5, <1>6, <1>7, <1>8 DEF ClientInv

LEMMA RunResetChannelStep ==
    ASSUME ClientInv, RunResetChannel
    PROVE  ClientInv'
<1> USE DEF connectorVars, clientVars, loopVars, stopVars, history
<1>1. /\ pendingFunctors_' = Tail(pendingFunctors_) /\ Head(pendingFunctors_) = "resetChannel"
      /\ pc = "functors" /\ pc' = pc /\ batch > 0 /\ batch' = batch - 1 /\ todo' = todo
  BY DEF RunResetChannel, Functor, At, Done
<1>2. /\ pendingFunctors_' \in Seq(Functors) /\ Has("resetChannel")
      /\ \A f : Has(f)' => Has(f)
      /\ \A f : Has(f) /\ f # "resetChannel" => Has(f)'
  BY <1>1, Taken DEF ClientInv
<1>3. /\ QueueInv' /\ batch' \in Nat /\ batch' <= Len(pendingFunctors_')
      /\ "resetChannel" = "startInLoop" => ~Has("startInLoop")'
      /\ "resetChannel" = "resetChannel" => ~Has("resetChannel")'
  BY <1>1, QueueTaken DEF ClientInv
<1>4. TypeInv'
  BY <1>1, <1>2, <1>3 DEF RunResetChannel, Functor, At, Done, ClientInv, TypeInv
<1>5. StateInv' /\ EffortInv'
  BY <1>2, <1>3 DEF RunResetChannel, Functor, At, Done, ClientInv, StateInv, EffortInv, TodoInv, Start_, Timer_, Attempt_, TypeInv
<1>6. TodoInv'
  BY <1>1, <1>2 DEF RunResetChannel, Functor, At, Done, ClientInv, StateInv, EffortInv, TodoInv, Start_, Timer_, Attempt_, TypeInv
<1>7. FlagsInv' /\ WantedInv'
  BY <1>2 DEF RunResetChannel, Functor, At, Done, ClientInv, StateInv, EffortInv, FlagsInv, WantedInv, ConnectionWanted, Start_, Timer_, Attempt_, TypeInv
<1>8. SocketsOwned' /\ AssertsHold'
  BY <1>2 DEF RunResetChannel, Functor, At, Done, ClientInv, StateInv, EffortInv, TodoInv, SocketsOwned, AssertsHold, Start_, Timer_, Attempt_, TypeInv
<1> QED  BY <1>3, <1>4, <1>5, <1>6, <1>7, <1>8 DEF ClientInv

LEMMA RunConnectDestroyedStep ==
    ASSUME ClientInv, RunConnectDestroyed
    PROVE  ClientInv'
<1> USE DEF connectorVars, clientVars, loopVars, stopVars, history
<1>1. /\ pendingFunctors_' = Tail(pendingFunctors_) /\ Head(pendingFunctors_) = "connectDestroyed"
      /\ pc = "functors" /\ pc' = pc /\ batch > 0 /\ batch' = batch - 1 /\ todo' = todo
  BY DEF RunConnectDestroyed, Functor, At, Done
<1>2. /\ pendingFunctors_' \in Seq(Functors) /\ Has("connectDestroyed")
      /\ \A f : Has(f)' => Has(f)
      /\ \A f : Has(f) /\ f # "connectDestroyed" => Has(f)'
  BY <1>1, Taken DEF ClientInv
<1>3. /\ QueueInv' /\ batch' \in Nat /\ batch' <= Len(pendingFunctors_')
      /\ "connectDestroyed" = "startInLoop" => ~Has("startInLoop")'
      /\ "connectDestroyed" = "resetChannel" => ~Has("resetChannel")'
  BY <1>1, QueueTaken DEF ClientInv
<1>4. TypeInv'
  BY <1>1, <1>2, <1>3 DEF RunConnectDestroyed, Functor, At, Done, ClientInv, TypeInv
<1>5. StateInv' /\ EffortInv'
  BY <1>2, <1>3 DEF RunConnectDestroyed, Functor, At, Done, ClientInv, StateInv, EffortInv, TodoInv, Start_, Timer_, Attempt_, TypeInv
<1>6. TodoInv'
  BY <1>1, <1>2 DEF RunConnectDestroyed, Functor, At, Done, ClientInv, StateInv, EffortInv, TodoInv, Start_, Timer_, Attempt_, TypeInv
<1>7. FlagsInv' /\ WantedInv'
  BY <1>2 DEF RunConnectDestroyed, Functor, At, Done, ClientInv, StateInv, EffortInv, FlagsInv, WantedInv, ConnectionWanted, Start_, Timer_, Attempt_, TypeInv
<1>8. SocketsOwned' /\ AssertsHold'
  BY <1>2 DEF RunConnectDestroyed, Functor, At, Done, ClientInv, StateInv, EffortInv, TodoInv, SocketsOwned, AssertsHold, Start_, Timer_, Attempt_, TypeInv
<1> QED  BY <1>3, <1>4, <1>5, <1>6, <1>7, <1>8 DEF ClientInv

LEMMA RunLateStep ==
    ASSUME ClientInv, Functor("late"), Done,
           UNCHANGED <<connect_, state_, channel_, retryDelayMs_, timer_, attempt, sockets, gaveUp, failed,
                       clientVars, stopVars, history, misuse>>
    PROVE  ClientInv'
<1> USE DEF connectorVars, clientVars, loopVars, stopVars, history
<1>1. /\ pendingFunctors_' = Tail(pendingFunctors_) /\ Head(pendingFunctors_) = "late"
      /\ pc = "functors" /\ pc' = pc /\ batch > 0 /\ batch' = batch - 1 /\ todo' = todo
  BY DEF Functor, At, Done
<1>2. /\ pendingFunctors_' \in Seq(Functors) /\ Has("late")
      /\ \A f : Has(f)' => Has(f)
      /\ \A f : Has(f) /\ f # "late" => Has(f)'
  BY <1>1, Taken DEF ClientInv
<1>3. /\ QueueInv' /\ batch' \in Nat /\ batch' <= Len(pendingFunctors_')
      /\ "late" = "startInLoop" => ~Has("startInLoop")'
      /\ "late" = "resetChannel" => ~Has("resetChannel")'
  BY <1>1, QueueTaken DEF ClientInv
<1>4. TypeInv'
  BY <1>1, <1>2, <1>3 DEF Functor, At, Done, ClientInv, TypeInv
<1>5. StateInv' /\ EffortInv'
  BY <1>2, <1>3 DEF Functor, At, Done, ClientInv, StateInv, EffortInv, TodoInv, Start_, Timer_, Attempt_, TypeInv
<1>6. TodoInv'
  BY <1>1, <1>2 DEF Functor, At, Done, ClientInv, StateInv, EffortInv, TodoInv, Start_, Timer_, Attempt_, TypeInv
<1>7. FlagsInv' /\ WantedInv'
  BY <1>2 DEF Functor, At, Done, ClientInv, StateInv, EffortInv, FlagsInv, WantedInv, ConnectionWanted, Start_, Timer_, Attempt_, TypeInv
<1>8. SocketsOwned' /\ AssertsHold'
  BY <1>2 DEF Functor, At, Done, ClientInv, StateInv, EffortInv, TodoInv, SocketsOwned, AssertsHold, Start_, Timer_, Attempt_, TypeInv
<1> QED  BY <1>3, <1>4, <1>5, <1>6, <1>7, <1>8 DEF ClientInv

(* A connection goes down: its handler, or its forceClose(), which is the  *)
(* functor taken from the queue (then d is 1).                             *)
LEMMA QueueClosed ==
    ASSUME TypeInv, QueueInv, NEW q \in Seq(Functors), NEW d \in {0, 1},
           Len(pendingFunctors_) >= d, Len(q) = Len(pendingFunctors_) - d,
           \A i \in 1..Len(q) : q[i] = pendingFunctors_[i + d],
           d = 1 => pendingFunctors_[1] = "forceClose",
           pendingFunctors_' = Append(TooLate(q), "connectDestroyed"),
           pc' = pc, batch' = batch - d
    PROVE  /\ QueueInv' /\ pendingFunctors_' \in Seq(Functors) /\ batch' <= Len(pendingFunctors_')
           /\ ~Has("forceClose")'
           /\ \A f \in {"startInLoop", "resetChannel", "cancel"} : Has(f)' <=> Has(f)
<1> DEFINE n == Len(q)
<1>1. /\ n \in Nat /\ Len(pendingFunctors_') = n + 1 /\ pendingFunctors_' \in Seq(Functors)
      /\ \A i \in 1..n : pendingFunctors_'[i] = IF q[i] = "forceClose" THEN "late" ELSE q[i]
      /\ pendingFunctors_'[n + 1] = "connectDestroyed"
      /\ ~Has("forceClose")'
  BY Closed
<1>2. \A f \in {"startInLoop", "resetChannel", "cancel"} : Has(f)' <=> \E i \in 1..n : q[i] = f
  BY Closed
<1>3. Len(pendingFunctors_) = n + d /\ batch \in Nat /\ batch <= n + d
  BY <1>1, LenProperties DEF TypeInv
<1> HIDE DEF n
<1>4. \A i \in 1..(n + 1) : i \in 1..n \/ i = n + 1
  BY <1>1
<1>5. \A i \in 1..n : i + d \in 1..Len(pendingFunctors_) /\ q[i] = pendingFunctors_[i + d] /\ i \in Nat
  BY <1>1, <1>3 DEF n
<1>6. \A i \in 1..Len(pendingFunctors_) : (d = 1 /\ i = 1) \/ (i - d \in 1..n /\ (i - d) + d = i)
  BY <1>1, <1>3
<1>7. QueueInv'
  <2> SUFFICES ASSUME NEW i \in 1..(n + 1), NEW j \in 1..(n + 1)
               PROVE  /\ pendingFunctors_'[i] = "startInLoop" /\ pendingFunctors_'[j] = "startInLoop" => i = j
                      /\ pendingFunctors_'[i] = "resetChannel" /\ pendingFunctors_'[j] = "resetChannel" => i = j
                      /\ pendingFunctors_'[i] = "resetChannel"
                            => pc' = "events" \/ (pc' = "functors" /\ i <= batch')
                      /\ pendingFunctors_'[j] # "forceClose"
    BY <1>1 DEF QueueInv
  <2>1. \A k \in 1..(n + 1) : \A f \in {"startInLoop", "resetChannel"} :
           pendingFunctors_'[k] = f =>
               k \in 1..n /\ k + d \in 1..Len(pendingFunctors_) /\ pendingFunctors_[k + d] = f
    BY <1>1, <1>4, <1>5
  <2>2. pendingFunctors_'[j] # "forceClose"
    BY <1>1, <1>4
  <2>3. ASSUME NEW f \in {"startInLoop", "resetChannel"}, pendingFunctors_'[i] = f, pendingFunctors_'[j] = f
        PROVE  i = j
    <3>1. /\ i + d \in 1..Len(pendingFunctors_) /\ pendingFunctors_[i + d] = f
          /\ j + d \in 1..Len(pendingFunctors_) /\ pendingFunctors_[j + d] = f
      BY <2>1, <2>3
    <3>2. i + d = j + d
      BY <3>1 DEF QueueInv
    <3> QED  BY <1>1, <3>2
  <2>4. pendingFunctors_'[i] = "resetChannel" => pc' = "events" \/ (pc' = "functors" /\ i <= batch')
    BY <1>1, <1>3, <2>1 DEF QueueInv
  <2> QED  BY <2>2, <2>3, <2>4
<1>8. ASSUME NEW f \in {"startInLoop", "resetChannel", "cancel"}
      PROVE  Has(f)' <=> Has(f)
  <2>1. ASSUME Has(f)' PROVE Has(f)
    <3>1. PICK i \in 1..n : q[i] = f
      BY <1>2, <2>1
    <3> QED  BY <1>5, <3>1 DEF Has
  <2>2. ASSUME NEW i \in 1..Len(pendingFunctors_), pendingFunctors_[i] = f PROVE i - d \in 1..n /\ q[i - d] = f
    BY <1>5, <1>6, <2>2
  <2> QED  BY <1>2, <2>1, <2>2 DEF Has
<1> QED  BY <1>1, <1>3, <1>7, <1>8

(* removeConnection(), called for a connection without a channel. *)
LEMMA RemoveStep ==
    ASSUME ClientInv, NEW q, RemoveConnection(q), connection_, channel_ = "null", todo' = {},
           QueueInv', pendingFunctors_' \in Seq(Functors), ~Has("forceClose")',
           \A f \in {"startInLoop", "resetChannel", "cancel"} : Has(f)' <=> Has(f),
           pc' = pc, batch' \in Nat, batch' <= Len(pendingFunctors_')
    PROVE  ClientInv'
<1> USE DEF connectorVars, clientVars, loopVars, stopVars, history
<1>1. TypeInv'
  <2>1. connection_' \in BOOLEAN /\ restarting' \in BOOLEAN
    BY Zenon DEF RemoveConnection
  <2> QED  BY <2>1 DEF RemoveConnection, ClientInv, TypeInv
<1>2. StateInv' /\ EffortInv'
  BY DEF RemoveConnection, ClientInv, StateInv, EffortInv, Start_, Timer_, Attempt_, TypeInv
<1>3. TodoInv'
  BY DEF TodoInv
<1>4. FlagsInv' /\ WantedInv'
  BY DEF RemoveConnection, ClientInv, StateInv, EffortInv, FlagsInv, WantedInv, ConnectionWanted,
         Start_, Timer_, Attempt_, TypeInv
<1>5. SocketsOwned' /\ AssertsHold'
  BY DEF RemoveConnection, ClientInv, TypeInv, SocketsOwned, AssertsHold
<1> QED  BY <1>1, <1>2, <1>3, <1>4, <1>5 DEF ClientInv

LEMMA ConnectionDownStep ==
    ASSUME ClientInv, ConnectionDown
    PROVE  ClientInv'
<1>1. /\ RemoveConnection(pendingFunctors_) /\ connection_ /\ channel_ = "null" /\ todo' = {}
      /\ pc' = pc /\ batch' = batch
  BY DEF ConnectionDown, Take, ClientInv, TodoInv
<1>2. pendingFunctors_ \in Seq(Functors) /\ batch \in Nat /\ TypeInv /\ QueueInv
  BY DEF ClientInv, TypeInv
<1>3. PICK d \in {0, 1} : d = 0
  OBVIOUS
<1>4. /\ Len(pendingFunctors_) >= d /\ Len(pendingFunctors_) = Len(pendingFunctors_) - d /\ batch' = batch - d
      /\ \A i \in 1..Len(pendingFunctors_) : pendingFunctors_[i] = pendingFunctors_[i + d]
      /\ d # 1
  BY <1>1, <1>2, <1>3, LenProperties
<1>5. pendingFunctors_' = Append(TooLate(pendingFunctors_), "connectDestroyed")
  BY <1>1 DEF RemoveConnection
<1>6. /\ QueueInv' /\ pendingFunctors_' \in Seq(Functors) /\ batch' <= Len(pendingFunctors_')
      /\ ~Has("forceClose")'
      /\ \A f \in {"startInLoop", "resetChannel", "cancel"} : Has(f)' <=> Has(f)
  BY <1>1, <1>2, <1>4, <1>5, QueueClosed, Zenon
<1> QED  BY <1>1, <1>2, <1>6, RemoveStep

LEMMA RunForceCloseStep ==
    ASSUME ClientInv, RunForceClose
    PROVE  ClientInv'
<1>1. CASE Functor("forceClose") /\ RemoveConnection(Tail(pendingFunctors_))
  <2> DEFINE q == Tail(pendingFunctors_)
  <2>1. /\ pc = "functors" /\ pc' = pc /\ batch > 0 /\ batch' = batch - 1 /\ todo' = todo
        /\ Head(pendingFunctors_) = "forceClose"
        /\ pendingFunctors_' = Append(TooLate(q), "connectDestroyed")
    BY <1>1 DEF Functor, At, RemoveConnection
  <2>2. pendingFunctors_ \in Seq(Functors) /\ batch \in Nat /\ batch <= Len(pendingFunctors_) /\ TypeInv /\ QueueInv
    BY DEF ClientInv, TypeInv
  <2>3. Len(pendingFunctors_) \in Nat \ {0} /\ pendingFunctors_ # <<>>
    BY <2>1, <2>2, LenProperties
  <2>4. /\ q \in Seq(Functors) /\ Len(q) = Len(pendingFunctors_) - 1
        /\ \A i \in 1..Len(q) : q[i] = pendingFunctors_[i + 1]
        /\ pendingFunctors_[1] = "forceClose"
    BY <2>1, <2>2, <2>3, HeadTailProperties
  <2>5. Has("forceClose") /\ ~Has("resetChannel")
    BY <2>2, <2>3, <2>4 DEF QueueInv, Has
  <2>6. connection_ /\ channel_ = "null" /\ todo = {}
    BY <2>1, <2>5 DEF ClientInv, StateInv, EffortInv, TodoInv, TypeInv
  <2> HIDE DEF q
  <2>7. /\ QueueInv' /\ pendingFunctors_' \in Seq(Functors) /\ batch' <= Len(pendingFunctors_')
        /\ ~Has("forceClose")'
        /\ \A f \in {"startInLoop", "resetChannel", "cancel"} : Has(f)' <=> Has(f)
    <3>1. Len(pendingFunctors_) >= 1 /\ 1 \in {0, 1}
      BY <2>3
    <3> QED  BY <2>1, <2>2, <2>4, <3>1, QueueClosed
  <2>8. batch' \in Nat /\ todo' = {} /\ RemoveConnection(q)
    BY <1>1, <2>1, <2>2, <2>6 DEF q
  <2> QED  BY <2>1, <2>6, <2>7, <2>8, RemoveStep
<1>2. CASE /\ Functor("late") /\ Done
           /\ UNCHANGED <<connect_, state_, channel_, retryDelayMs_, timer_, attempt, sockets, gaveUp, failed,
                          clientVars, stopVars, history, misuse>>
  BY <1>2, RunLateStep
<1> QED  BY <1>1, <1>2 DEF RunForceClose

-----------------------------------------------------------------------------
LEMMA ClientInit ==
    ASSUME Init
    PROVE  ClientInv
<1> USE DEF Init, ConnectorInit
<1>1. pendingFunctors_ = <<>> /\ pendingFunctors_ \in Seq(Functors) /\ Len(pendingFunctors_) = 0
  BY EmptySeq
<1>2. \A f : ~Has(f)
  BY <1>1 DEF Has
<1>3. TypeInv
  <2>1. /\ connect_ \in BOOLEAN /\ gaveUp \in BOOLEAN /\ clientConnect_ \in BOOLEAN /\ connection_ \in BOOLEAN
        /\ restarting \in BOOLEAN /\ started \in BOOLEAN /\ served \in BOOLEAN /\ overridden \in BOOLEAN
        /\ misuse \in BOOLEAN
    BY Zenon
  <2> QED  BY <1>1, <2>1 DEF TypeInv
<1>4. QueueInv
  BY <1>1 DEF QueueInv
<1>5. StateInv /\ EffortInv /\ TodoInv /\ FlagsInv /\ WantedInv
  BY <1>2 DEF StateInv, EffortInv, TodoInv, FlagsInv, WantedInv, ConnectionWanted, Start_, Timer_, Attempt_
<1>6. SocketsOwned /\ AssertsHold
  BY DEF SocketsOwned, AssertsHold
<1> QED  BY <1>3, <1>4, <1>5, <1>6 DEF ClientInv

LEMMA ClientStep ==
    ASSUME ClientInv, ~SlowRounds, [Next]_vars
    PROVE  ClientInv'
<1>1. CASE Poll \/ EndEvents \/ EndFunctors \/ Resolve \/ PeerResets \/ TimerDue
           \/ StopClient \/ StopConnector \/ Disconnect
  BY <1>1, QuietSteps
<1>2. CASE ErrorEvent
  BY <1>2, ErrorEventStep
<1>3. CASE WriteEvent
  BY <1>3, FailedEventStep, StoppedEventStep, LateEventStep DEF WriteEvent
<1>4. CASE NewConnection
  BY <1>4, NewConnectionStep
<1>5. CASE RetryTimer
  BY <1>5, RetryTimerStep
<1>6. CASE ConnectionDown
  BY <1>6, ConnectionDownStep
<1>7. CASE RestartConnector
  BY <1>7, RestartConnectorStep
<1>8. CASE RunStart \/ RunCancel \/ RunResetChannel \/ RunConnectDestroyed \/ RunForceClose
  BY <1>8, RunStartStep, RunCancelStep, RunResetChannelStep, RunConnectDestroyedStep, RunForceCloseStep
<1>9. CASE StartHere \/ Start
  BY <1>9, StartHereStep, StartStep
<1>10. CASE StopHere \/ StopTimer
  BY <1>10, StopHereStep, StopTimerStep
<1>11. CASE ForceClose
  BY <1>11, ForceCloseStep
<1>12. CASE UNCHANGED vars
  <2> USE <1>12 DEF vars, connectorVars, clientVars, loopVars, stopVars, history
  <2>1. \A f : Has(f)' <=> Has(f)
    BY SameQueue
  <2>2. TypeInv' /\ QueueInv'
    BY DEF ClientInv, TypeInv, QueueInv
  <2>3. StateInv' /\ EffortInv' /\ TodoInv'
    BY <2>1 DEF ClientInv, StateInv, EffortInv, TodoInv, Start_, Timer_, Attempt_
  <2>4. FlagsInv' /\ WantedInv' /\ SocketsOwned' /\ AssertsHold'
    BY <2>1 DEF ClientInv, FlagsInv, WantedInv, ConnectionWanted, Start_, Timer_, Attempt_,
                SocketsOwned, AssertsHold
  <2> QED  BY <2>2, <2>3, <2>4 DEF ClientInv
<1> QED
  BY <1>1, <1>2, <1>3, <1>4, <1>5, <1>6, <1>7, <1>8, <1>9, <1>10, <1>11, <1>12
     DEF Next, LoopStep, UserStep

(* The efforts of the model are the ones of the invariant. *)
LEMMA Effort ==
    ASSUME ClientInv
    PROVE  OneEffort
<1>1. Queued <=> Start_
  BY LenProperties DEF ClientInv, TypeInv, Queued, Start_, Has
<1>2. ASSUME NEW e \in Efforts, NEW f \in Efforts PROVE e = f
  BY <1>1, <1>2 DEF ClientInv, EffortInv, Efforts, Timer_, Attempt_
<1>3. ASSUME ConnectionWanted PROVE Efforts # {}
  <2>1. Start_ \/ Timer_ \/ Attempt_ \/ connection_ \/ restarting
    BY <1>3 DEF ClientInv, WantedInv
  <2>2. \/ "start" \in Efforts \/ "timer" \in Efforts \/ "attempt" \in Efforts
        \/ "connection" \in Efforts \/ "restart" \in Efforts
    BY <1>1, <2>1 DEF Efforts, Timer_, Attempt_
  <2> QED  BY <2>2
<1> QED  BY <1>2, <1>3 DEF OneEffort

-----------------------------------------------------------------------------
(* The assertions of startInLoop(), connecting(), handleError() and        *)
(* handleWrite() never fail, whatever the order in which the events of the *)
(* socket, the retry timer, the queued functors and the calls of the       *)
(* application come, in a loop whose rounds are shorter than the first     *)
(* retry delay.                                                            *)
THEOREM ConnectorAssertsHold ==
    ASSUME ~SlowRounds
    PROVE  Spec => []AssertsHold
<1>1. Init => ClientInv
  BY ClientInit
<1>2. ClientInv /\ [Next]_vars => ClientInv'
  BY ClientStep
<1>3. ClientInv => AssertsHold
  BY DEF ClientInv
<1> QED  BY <1>1, <1>2, <1>3, PTL DEF Spec

(* No descriptor is leaked or closed twice: the sockets that are open are  *)
(* the one of the attempt, the one of the connection and those that wait   *)
(* for connectDestroyed().                                                 *)
THEOREM SocketsHaveOwners ==
    ASSUME ~SlowRounds
    PROVE  Spec => []SocketsOwned
<1>1. Init => ClientInv
  BY ClientInit
<1>2. ClientInv /\ [Next]_vars => ClientInv'
  BY ClientStep
<1>3. ClientInv => SocketsOwned
  BY DEF ClientInv
<1> QED  BY <1>1, <1>2, <1>3, PTL DEF Spec

(* The client makes one effort at a time to get a connection, and as long  *)
(* as it wants one and connect() has not given up it makes one: retry()    *)
(* and removeConnection() neither double nor lose it.                      *)
THEOREM OneEffortAtATime ==
    ASSUME ~SlowRounds
    PROVE  Spec => []OneEffort
<1>1. Init => ClientInv
  BY ClientInit
<1>2. ClientInv /\ [Next]_vars => ClientInv'
  BY ClientStep
<1>3. ClientInv => OneEffort
  BY Effort
<1> QED  BY <1>1, <1>2, <1>3, PTL DEF Spec

(* stop() is final: once it has returned, no step makes a connection,      *)
(* except after a restart() that had read connect_ before.                 *)
THEOREM StopEndsConnecting ==
    ASSUME ~SlowRounds
    PROVE  Spec => StopIsFinal
<1>1. Init => ClientInv
  BY ClientInit
<1>2. ClientInv /\ [Next]_vars => ClientInv'
  BY ClientStep
<1>3. ClientInv /\ [Next]_vars => [stopping = "done" /\ ~overridden => (connection_' => connection_)]_vars
  <2> SUFFICES ASSUME ClientInv, Next, stopping = "done", ~overridden, connection_', ~connection_
               PROVE  FALSE
    OBVIOUS
  <2>1. ~connect_
    BY DEF ClientInv, FlagsInv
  <2>2. NewConnection
    BY DEF Next, LoopStep, UserStep, Poll, ErrorEvent, WriteEvent, RetryTimer, ConnectionDown,
           RestartConnector, EndEvents, RunStart, RunCancel, RunResetChannel, RunConnectDestroyed,
           RunForceClose, EndFunctors, RemoveConnection, StartHere, Start, StopHere, StopClient,
           StopConnector, StopTimer, Disconnect, ForceClose, Resolve, PeerResets, TimerDue, clientVars
  <2> QED  BY <2>1, <2>2 DEF NewConnection, HandleWriteConnected, Wanted
<1> QED  BY <1>1, <1>2, <1>3, PTL DEF Spec, StopIsFinal
=============================================================================
