---------------------------- MODULE PollersProofs ----------------------------
(***************************************************************************)
(* Proofs about the two pollers for any set of descriptors: the indices    *)
(* that channels keep stay right under the move of the last entry; both    *)
(* implement the abstract Poller; and EventLoop sees the same of either.   *)
(***************************************************************************)
EXTENDS Pollers, SequenceTheorems, TLAPS

Inv == TypeOK /\ IndicesAgree

(* The registered channels that poll(2) skips. *)
Quiet == {f \in channels_ : Skipped(f)}

(* Two registered channels never share an entry. *)
LEMMA OwnEntry ==
    ASSUME Inv, NEW f \in channels_, NEW g \in channels_, f # g
    PROVE  index_[f] # index_[g]
<1>1. f \in Nat /\ g \in Nat
  BY FdsAssumption DEF Inv, TypeOK
<1>2. /\ pollfds_[index_[f] + 1].fd \in {f, -f - 1}
      /\ pollfds_[index_[g] + 1].fd \in {g, -g - 1}
  BY DEF Inv, IndicesAgree
<1> QED  BY <1>1, <1>2

(* Registering a channel, or changing its interest, keeps the array and    *)
(* the indices in agreement.                                               *)
LEMMA UpdateStep ==
    ASSUME Inv, NEW f \in Fds, NEW ev \in SUBSET Events, Update(f, ev)
    PROVE  Inv' /\ Quiet' = IF f \in channels_ /\ ev = {} THEN Quiet \cup {f} ELSE Quiet \ {f}
<1> f \in Nat  BY FdsAssumption
<1>1. CASE index_[f] < 0
  <2>1. f \notin channels_
    BY <1>1 DEF Update, Inv, TypeOK, IndicesAgree
  <2>2. /\ pollfds_' = Append(pollfds_, [fd |-> f, events |-> ev])
        /\ index_' = [index_ EXCEPT ![f] = Len(pollfds_)]
        /\ channels_' = channels_ \cup {f}
        /\ events_' = [events_ EXCEPT ![f] = ev]
        /\ activeChannels' = activeChannels
    BY <1>1 DEF Update, updateChannel, Inv, TypeOK
  <2>3. TypeOK'
    BY <2>2 DEF Inv, TypeOK
  <2>4. /\ Len(pollfds_') = Len(pollfds_) + 1
        /\ \A i \in 1..Len(pollfds_) : pollfds_'[i] = pollfds_[i]
        /\ pollfds_'[Len(pollfds_) + 1] = [fd |-> f, events |-> ev]
    BY <2>2 DEF Inv, TypeOK
  <2>5. ASSUME NEW g \in channels_' PROVE
          /\ index_'[g] \in 0..(Len(pollfds_') - 1)
          /\ pollfds_'[index_'[g] + 1].fd = g \/ (pollfds_'[index_'[g] + 1].fd = -g - 1 /\ events_'[g] = {})
          /\ pollfds_'[index_'[g] + 1].events = events_'[g]
    <3>1. CASE g = f
      BY <2>1, <2>2, <2>4, <3>1 DEF Inv, TypeOK
    <3>2. CASE g # f
      BY <2>2, <2>4, <3>2 DEF Inv, TypeOK, IndicesAgree
    <3> QED  BY <3>1, <3>2
  <2>6. ASSUME NEW i \in 1..Len(pollfds_') PROVE
          /\ Descriptor(pollfds_'[i]) \in channels_'
          /\ index_'[Descriptor(pollfds_'[i])] = i - 1
    <3>1. CASE i = Len(pollfds_) + 1
      BY <2>2, <2>4, <3>1 DEF Inv, TypeOK, Descriptor
    <3>2. CASE i \in 1..Len(pollfds_)
      <4>1. pollfds_'[i] = pollfds_[i]
        BY <2>4, <3>2
      <4>2. Descriptor(pollfds_[i]) \in channels_ /\ index_[Descriptor(pollfds_[i])] = i - 1
        BY <3>2 DEF Inv, IndicesAgree
      <4> QED  BY <2>1, <2>2, <4>1, <4>2 DEF Inv, TypeOK
    <3> QED  BY <2>4, <3>1, <3>2 DEF Inv, TypeOK
  <2>7. IndicesAgree'
    BY <2>5, <2>6 DEF IndicesAgree
  <2>8. ASSUME NEW g \in channels_' PROVE Skipped(g)' <=> g \in Quiet
    <3>1. CASE g = f
      <4>1. index_'[f] + 1 = Len(pollfds_) + 1 /\ pollfds_'[index_'[f] + 1].fd = f
        BY <2>2, <2>4 DEF Inv, TypeOK
      <4> QED  BY <2>1, <3>1, <4>1 DEF Skipped, Quiet
    <3>2. CASE g # f
      <4>1. g \in channels_ /\ g \in Fds /\ index_'[g] = index_[g]
        BY <2>2, <3>2 DEF Inv, TypeOK
      <4>2. index_[g] + 1 \in 1..Len(pollfds_)
        BY <4>1 DEF Inv, TypeOK, IndicesAgree
      <4> QED  BY <2>4, <4>1, <4>2 DEF Skipped, Quiet
    <3> QED  BY <3>1, <3>2
  <2>9. Quiet' = Quiet \ {f}
    BY <2>1, <2>2, <2>8 DEF Quiet
  <2> QED  BY <2>1, <2>3, <2>7, <2>9 DEF Inv
<1>2. CASE index_[f] >= 0
  <2>1. f \in channels_
    BY <1>2 DEF Update, Inv, TypeOK
  <2>2. /\ pollfds_' = [pollfds_ EXCEPT ![index_[f] + 1] = [fd |-> Ignored(f, ev), events |-> ev]]
        /\ index_' = index_ /\ channels_' = channels_
        /\ events_' = [events_ EXCEPT ![f] = ev]
        /\ activeChannels' = activeChannels
    BY <1>2 DEF Update, updateChannel, Inv, TypeOK
  <2>3. Ignored(f, ev) \in Int /\ Descriptor([fd |-> Ignored(f, ev), events |-> ev]) = f
    <3>1. CASE ev = {}
      <4>1. Ignored(f, ev) = -f - 1 /\ -f - 1 \in Int /\ -f - 1 < 0 /\ -(-f - 1) - 1 = f
        BY <3>1 DEF Ignored
      <4> QED  BY <4>1 DEF Descriptor
    <3>2. CASE ev # {}
      BY <3>2 DEF Ignored, Descriptor
    <3> QED  BY <3>1, <3>2
  <2>4. TypeOK'
    <3> DEFINE e == [fd |-> Ignored(f, ev), events |-> ev]
    <3>1. e \in [fd : Int, events : SUBSET Events]
      BY <2>3
    <3> HIDE DEF e
    <3>2. index_[f] + 1 \in 1..Len(pollfds_)
      BY <2>1 DEF Inv, TypeOK, IndicesAgree
    <3>3. [pollfds_ EXCEPT ![index_[f] + 1] = e] \in Seq([fd : Int, events : SUBSET Events])
      BY <3>1, <3>2, ExceptSeq DEF Inv, TypeOK
    <3> QED  BY <2>2, <3>3 DEF Inv, TypeOK, e
  <2>5. /\ Len(pollfds_') = Len(pollfds_)
        /\ \A i \in 1..Len(pollfds_) : pollfds_'[i] =
              IF i = index_[f] + 1 THEN [fd |-> Ignored(f, ev), events |-> ev] ELSE pollfds_[i]
    BY <2>2, <2>3 DEF Inv, TypeOK
  <2>6. ASSUME NEW g \in channels_ PROVE
          /\ index_'[g] \in 0..(Len(pollfds_') - 1)
          /\ pollfds_'[index_'[g] + 1].fd = g \/ (pollfds_'[index_'[g] + 1].fd = -g - 1 /\ events_'[g] = {})
          /\ pollfds_'[index_'[g] + 1].events = events_'[g]
    <3>1. CASE g = f
      BY <2>1, <2>2, <2>5, <3>1 DEF Inv, TypeOK, IndicesAgree, Ignored
    <3>2. CASE g # f
      <4>1. index_[g] # index_[f]
        BY <2>1, <3>2, OwnEntry
      <4>2. g \in Fds /\ index_'[g] = index_[g] /\ events_'[g] = events_[g]
        BY <2>2, <3>2 DEF Inv, TypeOK
      <4>3. index_[g] \in 0..(Len(pollfds_) - 1) /\ index_[g] + 1 \in 1..Len(pollfds_)
        BY DEF Inv, TypeOK, IndicesAgree
      <4>4. index_[f] \in Int /\ index_[g] \in Int
        BY <4>2 DEF Inv, TypeOK
      <4>5. pollfds_'[index_[g] + 1] = pollfds_[index_[g] + 1]
        BY <2>5, <4>1, <4>3, <4>4
      <4> QED  BY <2>5, <4>2, <4>3, <4>5 DEF Inv, IndicesAgree
    <3> QED  BY <3>1, <3>2
  <2>7. ASSUME NEW i \in 1..Len(pollfds_') PROVE
          /\ Descriptor(pollfds_'[i]) \in channels_'
          /\ index_'[Descriptor(pollfds_'[i])] = i - 1
    <3>1. CASE i = index_[f] + 1
      BY <2>1, <2>2, <2>3, <2>5, <3>1 DEF Inv, TypeOK
    <3>2. CASE i # index_[f] + 1
      BY <2>2, <2>5, <3>2 DEF Inv, TypeOK, IndicesAgree
    <3> QED  BY <3>1, <3>2
  <2>8. IndicesAgree'
    BY <2>2, <2>6, <2>7 DEF IndicesAgree
  <2>9. Skipped(f)' <=> ev = {}
    <3>1. index_'[f] + 1 \in 1..Len(pollfds_) /\ index_'[f] = index_[f]
      BY <2>1, <2>2 DEF Inv, TypeOK, IndicesAgree
    <3>2. pollfds_'[index_'[f] + 1].fd = Ignored(f, ev)
      BY <2>5, <3>1
    <3>3. CASE ev = {}
      BY <3>2, <3>3 DEF Skipped, Ignored
    <3>4. CASE ev # {}
      BY <3>2, <3>4 DEF Skipped, Ignored
    <3> QED  BY <3>3, <3>4
  <2>10. ASSUME NEW g \in channels_, g # f PROVE Skipped(g)' <=> Skipped(g)
    <3>1. index_[g] # index_[f]
      BY <2>1, <2>10, OwnEntry
    <3>2. g \in Fds /\ index_'[g] = index_[g] /\ index_[g] + 1 \in 1..Len(pollfds_) /\ index_[g] + 1 # index_[f] + 1
      BY <2>2, <3>1 DEF Inv, TypeOK, IndicesAgree
    <3> QED  BY <2>5, <3>2 DEF Skipped
  <2>11. Quiet' = IF ev = {} THEN Quiet \cup {f} ELSE Quiet \ {f}
    BY <2>1, <2>2, <2>9, <2>10 DEF Quiet
  <2> QED  BY <2>1, <2>4, <2>8, <2>11 DEF Inv
<1> QED  BY <1>1, <1>2 DEF Inv, TypeOK

(* Taking a channel out moves the last entry into its place, and the       *)
(* channel of the moved entry is renumbered; nobody else is affected.      *)
LEMMA RemoveStep ==
    ASSUME Inv, NEW f \in Fds, Remove(f)
    PROVE  Inv' /\ Quiet' = Quiet \ {f} /\ f \in Quiet /\ events_[f] = {}
<1> DEFINE idx == index_[f]
           last == Len(pollfds_)
           q == [pollfds_ EXCEPT ![idx + 1] = pollfds_[last]]
           d == Descriptor(pollfds_[last])
<1>1. f \in channels_ /\ idx \in Nat /\ last \in Nat /\ idx < last /\ idx + 1 \in 1..last /\ last \in 1..last
  BY DEF Remove, Inv, TypeOK, IndicesAgree
<1>2. /\ pollfds_' = SubSeq(q, 1, last - 1)
      /\ index_' = IF idx = last - 1 THEN index_ ELSE [index_ EXCEPT ![d] = idx]
      /\ channels_' = channels_ \ {f}
      /\ events_' = events_ /\ activeChannels' = activeChannels
  BY DEF Remove, removeChannel
<1>3. /\ q \in Seq([fd : Int, events : SUBSET Events])
      /\ Len(q) = last
      /\ \A i \in 1..last : q[i] = IF i = idx + 1 THEN pollfds_[last] ELSE pollfds_[i]
  <2>1. pollfds_ \in Seq([fd : Int, events : SUBSET Events]) /\ pollfds_[last] \in [fd : Int, events : SUBSET Events]
    <3>1. pollfds_ \in Seq([fd : Int, events : SUBSET Events])
      BY DEF Inv, TypeOK
    <3> QED  BY <1>1, <3>1, ElementOfSeq
  <2> QED  BY <1>1, <2>1, ExceptSeq
<1>4. /\ pollfds_' \in Seq([fd : Int, events : SUBSET Events])
      /\ Len(pollfds_') = last - 1
      /\ \A i \in 1..(last - 1) : pollfds_'[i] = IF i = idx + 1 THEN pollfds_[last] ELSE pollfds_[i]
  <2> HIDE DEF q
  <2>1. ASSUME NEW i \in 1..(last - 1) PROVE q[i] \in [fd : Int, events : SUBSET Events]
    <3> HIDE DEF last
    <3>1. i \in 1..Len(q)
      BY <1>1, <1>3
    <3> QED  BY <1>3, <3>1, ElementOfSeq
  <2>2. /\ SubSeq(q, 1, last - 1) \in Seq([fd : Int, events : SUBSET Events])
        /\ Len(SubSeq(q, 1, last - 1)) = last - 1
        /\ \A i \in 1..(last - 1) : SubSeq(q, 1, last - 1)[i] = q[i]
    <3> HIDE DEF last, idx
    <3>1. last - 1 \in Int /\ last - 1 >= 0
      BY <1>1
    <3> QED  BY <1>1, <2>1, <3>1, SubSeqProperties
  <2> QED  BY <1>1, <1>2, <1>3, <2>2
<1>5. d \in channels_ /\ index_[d] = last - 1
  BY <1>1 DEF Inv, IndicesAgree
<1> HIDE DEF q, d
<1>6. TypeOK'
  <2>1. index_' \in [Fds -> Int]
    BY <1>1, <1>2, <1>5 DEF Inv, TypeOK
  <2> QED  BY <1>2, <1>4, <2>1 DEF Inv, TypeOK
<1>7. ASSUME NEW g \in channels_' PROVE
        /\ index_'[g] \in 0..(Len(pollfds_') - 1)
        /\ pollfds_'[index_'[g] + 1].fd = g \/ (pollfds_'[index_'[g] + 1].fd = -g - 1 /\ events_'[g] = {})
        /\ pollfds_'[index_'[g] + 1].events = events_'[g]
        /\ Skipped(g)' <=> Skipped(g)
  <2>1. g \in channels_ /\ g # f /\ g \in Fds /\ events_'[g] = events_[g]
    BY <1>2 DEF Inv, TypeOK
  <2>2. /\ index_[g] \in 0..(last - 1) /\ index_[g] # idx
        /\ pollfds_[index_[g] + 1].fd = g \/ (pollfds_[index_[g] + 1].fd = -g - 1 /\ events_[g] = {})
        /\ pollfds_[index_[g] + 1].events = events_[g]
    BY <1>1, <2>1, OwnEntry DEF Inv, IndicesAgree
  <2>3. CASE index_[g] # last - 1
    <3>1. index_'[g] = index_[g]
      BY <1>2, <1>5, <2>1, <2>3 DEF Inv, TypeOK
    <3>2. index_[g] \in 0..(last - 2) /\ pollfds_'[index_[g] + 1] = pollfds_[index_[g] + 1]
      <4> HIDE DEF idx, last
      <4>1. index_[g] \in 0..(last - 2) /\ index_[g] + 1 \in 1..(last - 1) /\ index_[g] + 1 # idx + 1
        BY <1>1, <2>2, <2>3
      <4> QED  BY <1>4, <4>1
    <3> QED  BY <1>1, <1>4, <2>1, <2>2, <3>1, <3>2 DEF Skipped
  <2>4. CASE index_[g] = last - 1
    <3>1. g = d
      BY <1>5, <2>1, <2>4, OwnEntry
    <3>2. idx # last - 1 /\ index_'[g] = idx
      BY <1>2, <2>1, <2>2, <2>4, <3>1 DEF Inv, TypeOK
    <3>3. idx \in 0..(last - 2) /\ pollfds_'[idx + 1] = pollfds_[index_[g] + 1]
      <4> HIDE DEF idx, last
      <4>1. idx \in 0..(last - 2) /\ idx + 1 \in 1..(last - 1) /\ index_[g] + 1 = last
        BY <1>1, <2>4, <3>2
      <4> QED  BY <1>4, <4>1
    <3> QED  BY <1>1, <1>4, <2>1, <2>2, <3>2, <3>3 DEF Skipped
  <2> QED  BY <2>3, <2>4
<1>8. ASSUME NEW i \in 1..Len(pollfds_') PROVE
        /\ Descriptor(pollfds_'[i]) \in channels_'
        /\ index_'[Descriptor(pollfds_'[i])] = i - 1
  <2>1. i \in 1..(last - 1) /\ i \in 1..last /\ i # last
    BY <1>1, <1>4
  <2>2. CASE i = idx + 1
    <3>1. pollfds_'[i] = pollfds_[last] /\ idx # last - 1
      <4> HIDE DEF idx, last
      <4> QED  BY <1>1, <1>4, <2>1, <2>2
    <3>2. d # f /\ d \in Fds
      BY <1>5, <3>1 DEF Inv, TypeOK
    <3>3. d \in channels_' /\ index_'[d] = idx
      BY <1>2, <1>5, <3>1, <3>2 DEF Inv, TypeOK
    <3> QED  BY <1>1, <2>2, <3>1, <3>3 DEF d
  <2>3. CASE i # idx + 1
    <3> DEFINE e == Descriptor(pollfds_[i])
    <3>1. pollfds_'[i] = pollfds_[i]
      BY <1>4, <2>1, <2>3
    <3>2. e \in channels_ /\ index_[e] = i - 1
      BY <2>1 DEF Inv, IndicesAgree
    <3> HIDE DEF e
    <3>3. i - 1 # idx /\ i - 1 # last - 1
      BY <1>1, <2>1, <2>3
    <3>4. e # f /\ e # d /\ e \in Fds
      BY <1>5, <3>2, <3>3 DEF Inv, TypeOK
    <3>5. e \in channels_' /\ index_'[e] = i - 1
      BY <1>2, <3>2, <3>4 DEF Inv, TypeOK
    <3> QED  BY <3>1, <3>5 DEF e
  <2> QED  BY <2>2, <2>3
<1>9. IndicesAgree'
  BY <1>7, <1>8 DEF IndicesAgree
<1>10. Quiet' = Quiet \ {f}
  BY <1>2, <1>7 DEF Quiet
<1>11. f \in Quiet /\ events_[f] = {}
  <2>1. f \in Nat /\ Skipped(f)
    BY FdsAssumption DEF Remove
  <2> QED  BY <1>1, <2>1 DEF Inv, IndicesAgree, Quiet, Skipped
<1> QED  BY <1>6, <1>9, <1>10, <1>11 DEF Inv

(* A new Channel on a descriptor that is not registered changes nothing    *)
(* that the array or another channel depends on.                           *)
LEMMA ReuseStep ==
    ASSUME Inv, NEW f \in Fds, Reuse(f)
    PROVE  Inv' /\ Quiet' = Quiet
<1>1. TypeOK'
  BY DEF Reuse, NewChannel, Inv, TypeOK
<1>2. \A g \in channels_ : index_'[g] = index_[g] /\ events_'[g] = events_[g]
  BY DEF Reuse, NewChannel, Inv, TypeOK
<1>3. pollfds_' = pollfds_ /\ channels_' = channels_
  BY DEF Reuse, NewChannel
<1>4. IndicesAgree'
  BY <1>2, <1>3 DEF Inv, IndicesAgree
<1>5. Quiet' = Quiet
  BY <1>2, <1>3 DEF Quiet, Skipped
<1> QED  BY <1>1, <1>4, <1>5 DEF Inv

(* poll reports registered channels that are not skipped, and changes      *)
(* nothing but activeChannels.                                             *)
LEMMA PollStep ==
    ASSUME Inv, NEW ready \in SUBSET Fds, poll(ready)
    PROVE  Inv' /\ Quiet' = Quiet /\ activeChannels' \subseteq channels_ \ Quiet
<1>1. ASSUME NEW g \in activeChannels' PROVE g \in channels_ /\ g \notin Quiet
  <2>1. PICK i \in DOMAIN pollfds_ : pollfds_[i].fd = g /\ g \in ready
    BY DEF poll
  <2>2. i \in 1..Len(pollfds_) /\ g \in Nat
    BY <2>1, FdsAssumption DEF Inv, TypeOK
  <2>3. Descriptor(pollfds_[i]) = g
    BY <2>1, <2>2 DEF Descriptor
  <2>4. g \in channels_ /\ index_[g] = i - 1
    BY <2>2, <2>3 DEF Inv, IndicesAgree
  <2>5. index_[g] + 1 = i
    BY <2>2, <2>4
  <2> QED  BY <2>1, <2>2, <2>4, <2>5 DEF Quiet, Skipped
<1>2. pollfds_' = pollfds_ /\ channels_' = channels_ /\ index_' = index_ /\ events_' = events_
  BY DEF poll
<1>3. activeChannels' \subseteq Fds
  BY <1>1 DEF Inv, TypeOK
<1>4. Quiet' = Quiet
  BY <1>2 DEF Quiet, Skipped
<1> QED  BY <1>1, <1>2, <1>3, <1>4 DEF Inv, TypeOK, IndicesAgree

LEMMA InvInit == Init => Inv
<1> SUFFICES ASSUME Init PROVE Inv  OBVIOUS
<1>1. TypeOK
  BY DEF Init, TypeOK
<1>2. IndicesAgree
  BY DEF Init, IndicesAgree
<1> QED  BY <1>1, <1>2 DEF Inv

LEMMA InvNext == Inv /\ [Next]_vars => Inv'
<1> SUFFICES ASSUME Inv, [Next]_vars PROVE Inv'  OBVIOUS
<1>1. ASSUME NEW f \in Fds, Remove(f) PROVE Inv'
  BY <1>1, RemoveStep
<1>2. ASSUME NEW f \in Fds, Reuse(f) PROVE Inv'
  BY <1>2, ReuseStep
<1>3. ASSUME NEW f \in Fds, NEW ev \in SUBSET Events, Update(f, ev) PROVE Inv'
  BY <1>3, UpdateStep
<1>4. ASSUME NEW ready \in SUBSET Fds, poll(ready) PROVE Inv'
  BY <1>4, PollStep
<1>5. CASE UNCHANGED vars
  BY <1>5 DEF vars, Inv, TypeOK, IndicesAgree
<1> QED  BY <1>1, <1>2, <1>3, <1>4, <1>5 DEF Next

(* For any set of descriptors, every index kept by a registered channel is *)
(* the place of its own entry: the assertions of updateChannel,            *)
(* removeChannel and fillActiveChannels in PollPoller.cc hold.             *)
THEOREM IndicesCorrect == Spec => []IndicesAgree
<1>1. Inv => IndicesAgree
  BY DEF Inv
<1> QED  BY InvInit, InvNext, <1>1, PTL DEF Spec

-----------------------------------------------------------------------------
(* The table of interests, as the channels themselves remember it. *)
Table ==
    [f \in Fds |-> IF f \notin channels_ THEN Absent ELSE IF f \in Quiet THEN Muted ELSE events_[f]]

(* The array read through the indices is that table. *)
LEMMA ArrayIsTable == Inv => Interest = Table
BY DEF Inv, IndicesAgree, Interest, Table, Quiet

(* What the steps do to the table. *)
LEMMA TableUpdated ==
    ASSUME Inv, NEW f \in Fds, NEW ev \in SUBSET Events, Update(f, ev)
    PROVE  Table' = [Table EXCEPT ![f] = IF Table[f] # Absent /\ ev = {} THEN Muted ELSE ev]
<1>1. channels_' = channels_ \cup {f} /\ events_' = [events_ EXCEPT ![f] = ev]
  BY DEF Update, updateChannel, Inv, TypeOK, IndicesAgree
<1>2. Quiet' = IF f \in channels_ /\ ev = {} THEN Quiet \cup {f} ELSE Quiet \ {f}
  BY UpdateStep
<1>3. Table[f] # Absent <=> f \in channels_
  BY AbsentAssumption DEF Table, Inv, TypeOK
<1>4. Quiet \subseteq channels_
  BY DEF Quiet
<1> DEFINE new == IF Table[f] # Absent /\ ev = {} THEN Muted ELSE ev
<1>5. ASSUME NEW g \in Fds PROVE Table'[g] = IF g = f THEN new ELSE Table[g]
  <2>1. CASE g = f
    BY <1>1, <1>2, <1>3, <1>4, <2>1 DEF Table, Inv, TypeOK
  <2>2. CASE g # f
    BY <1>1, <1>2, <2>2 DEF Table, Inv, TypeOK
  <2> QED  BY <2>1, <2>2
<1> HIDE DEF new
<1>6. Table' = [g \in Fds |-> Table'[g]] /\ Table = [g \in Fds |-> Table[g]]
  BY DEF Table
<1> QED  BY <1>5, <1>6 DEF new

LEMMA TableRemoved ==
    ASSUME Inv, NEW f \in Fds, Remove(f)
    PROVE  Table[f] = Muted /\ Table' = [Table EXCEPT ![f] = Absent]
<1>1. channels_' = channels_ \ {f} /\ events_' = events_
  BY DEF Remove, removeChannel
<1>2. Quiet' = Quiet \ {f} /\ f \in Quiet
  BY RemoveStep
<1>3. Quiet \subseteq channels_
  BY DEF Quiet
<1> QED  BY <1>1, <1>2, <1>3 DEF Table

LEMMA TableSame ==
    ASSUME Inv, \/ \E f \in Fds : Reuse(f)
                \/ \E ready \in SUBSET Fds : poll(ready)
    PROVE  Table' = Table
<1>1. ASSUME NEW f \in Fds, Reuse(f) PROVE Table' = Table
  <2>1. Quiet' = Quiet
    BY <1>1, ReuseStep
  <2> QED  BY <1>1, <2>1 DEF Reuse, NewChannel, Table, Inv, TypeOK
<1>2. ASSUME NEW ready \in SUBSET Fds, poll(ready) PROVE Table' = Table
  <2>1. Quiet' = Quiet
    BY <1>2, PollStep
  <2> QED  BY <1>2, <2>1 DEF poll, Table
<1> QED  BY <1>1, <1>2

(* What poll reports is registered and not muted. *)
LEMMA TableReported ==
    ASSUME Inv, NEW g \in channels_ \ Quiet
    PROVE  g \in Fds /\ Table[g] # Absent /\ Table[g] # Muted
BY AbsentAssumption DEF Table, Inv, TypeOK

(* Every step of the array is a step of the abstract table, or leaves it   *)
(* alone.                                                                  *)
LEMMA TableStep ==
    ASSUME Inv, Inv', [Next]_vars
    PROVE  [PollAbstract!Next]_(PollAbstract!vars)
<1>1. Interest = Table
  BY ArrayIsTable
<1>2. Interest' = Table'
  BY DEF Inv, IndicesAgree, Interest, Table, Quiet
<1>3. ASSUME NEW f \in Fds, NEW ev \in SUBSET Events, Update(f, ev)
      PROVE  PollAbstract!updateChannel(f, ev)
  <2>1. activeChannels' = activeChannels
    BY <1>3 DEF Update, updateChannel
  <2>2. Table' = [Table EXCEPT ![f] = IF Table[f] # Absent /\ ev = {} THEN Muted ELSE ev]
    BY <1>3, TableUpdated
  <2>3. f \in PollAbstract!Registered <=> Table[f] # Absent
    BY <1>1 DEF PollAbstract!Registered
  <2> QED  BY <1>1, <1>2, <2>1, <2>2, <2>3 DEF PollAbstract!updateChannel
<1>4. ASSUME NEW f \in Fds, Remove(f)
      PROVE  PollAbstract!removeChannel(f)
  <2>1. activeChannels' = activeChannels
    BY <1>4 DEF Remove, removeChannel
  <2>2. Table[f] = Muted /\ Table' = [Table EXCEPT ![f] = Absent]
    BY <1>4, TableRemoved
  <2> QED  BY <1>1, <1>2, <2>1, <2>2 DEF PollAbstract!removeChannel
<1>5. ASSUME NEW f \in Fds, Reuse(f)
      PROVE  UNCHANGED PollAbstract!vars
  <2>1. Table' = Table /\ activeChannels' = activeChannels
    BY <1>5, TableSame DEF Reuse, NewChannel
  <2> QED  BY <1>1, <1>2, <2>1 DEF PollAbstract!vars
<1>6. ASSUME NEW ready \in SUBSET Fds, poll(ready)
      PROVE  PollAbstract!poll
  <2>1. Table' = Table
    BY <1>6, TableSame
  <2>2. activeChannels' \subseteq channels_ \ Quiet
    BY <1>6, PollStep
  <2>3. \A g \in activeChannels' : g \in Fds /\ Table[g] # Absent /\ Table[g] # Muted
    BY <2>2, TableReported
  <2> QED  BY <1>1, <1>2, <2>1, <2>3 DEF PollAbstract!poll, PollAbstract!Registered
<1>7. CASE UNCHANGED vars
  BY <1>7 DEF vars, PollAbstract!vars, Interest, Skipped
<1> QED  BY <1>3, <1>4, <1>5, <1>6, <1>7 DEF Next, PollAbstract!Next

(* For any set of descriptors, PollPoller.cc implements the promise of     *)
(* Poller.h: the array is a table of interests, and poll reports only      *)
(* registered channels that have not given their interest up.              *)
THEOREM PollImplementsPoller == Spec => PollIsPoller
<1>1. Init => PollAbstract!Init
  BY DEF Init, PollAbstract!Init, Interest
<1>2. Inv /\ Inv' /\ [Next]_vars => [PollAbstract!Next]_(PollAbstract!vars)
  BY TableStep
<1> QED  BY InvInit, InvNext, <1>1, <1>2, PTL DEF Spec, PollIsPoller, PollAbstract!Spec

-----------------------------------------------------------------------------
(* The two pollers side by side.                                           *)

EpollChannels ==
    [events : SUBSET Events, index : {"kNew", "kAdded", "kDeleted"},
     known : BOOLEAN, edge : BOOLEAN, failed : {{}}]

(* What the two pollers know of one channel: epoll has it in its interest  *)
(* list exactly while poll(2) does not skip its entry.                     *)
Coupled(f) ==
    /\ epollChannel[f].events = events_[f]
    /\ epollChannel[f].known <=> f \in channels_
    /\ epollChannel[f].index = "kAdded" <=> f \in channels_ \ Quiet
    /\ epollChannel[f].index = "kNew" <=> index_[f] = -1

EpollInv ==
    /\ epollChannel \in [Fds -> EpollChannels]
    /\ epollSize \in Nat \ {0} /\ epollActive \subseteq Fds
    /\ \A f \in Fds : Coupled(f)

(* EpollPoller::updateChannel for a channel with new events: its           *)
(* assertions hold, and the channel is in the interest list unless it was  *)
(* there and has no interest any more.                                     *)
LEMMA EpollUpdate ==
    ASSUME NEW c \in EpollChannels, NEW ev \in SUBSET Events,
           c.index = "kNew" => ~c.known, c.index = "kDeleted" => c.known
    PROVE  LET d == Epoll!updateChannel([c EXCEPT !.events = ev])
           IN  /\ d \in EpollChannels /\ d.events = ev
               /\ c.index = "kAdded" => d.known = c.known
               /\ c.index # "kAdded" => d.known = TRUE
               /\ d.index = IF c.index = "kAdded" /\ ev = {} THEN "kDeleted" ELSE "kAdded"
<1> DEFINE e == [c EXCEPT !.events = ev]
           d == Epoll!updateChannel(e)
<1>1. /\ e \in EpollChannels /\ e.events = ev /\ e.index = c.index /\ e.known = c.known
      /\ e.index \in {"kNew", "kAdded", "kDeleted"}
  BY DEF EpollChannels
<1> HIDE DEF e
<1>2. CASE e.index = "kNew"
  <2>1. d = [[e EXCEPT !.index = "kAdded", !.known = TRUE] EXCEPT !.edge = FALSE]
    BY <1>1, <1>2 DEF Epoll!updateChannel, Epoll!Touch, Epoll!Check, Epoll!isET
  <2> QED  BY <1>1, <1>2, <2>1 DEF EpollChannels, e
<1>3. CASE e.index = "kDeleted"
  <2>1. d = [[e EXCEPT !.index = "kAdded"] EXCEPT !.edge = FALSE]
    BY <1>1, <1>3 DEF Epoll!updateChannel, Epoll!Touch, Epoll!Check, Epoll!isET
  <2> QED  BY <1>1, <1>3, <2>1 DEF EpollChannels, e
<1>4. CASE e.index = "kAdded" /\ ev = {}
  <2>1. d = [e EXCEPT !.index = "kDeleted", !.edge = FALSE]
    BY <1>1, <1>4 DEF Epoll!updateChannel, Epoll!isNoneEvent, Epoll!kNoneEvent
  <2> QED  BY <1>1, <1>4, <2>1 DEF EpollChannels, e
<1>5. CASE e.index = "kAdded" /\ ev # {}
  <2>1. d = [e EXCEPT !.edge = FALSE]
    BY <1>1, <1>5 DEF Epoll!updateChannel, Epoll!Touch, Epoll!isET, Epoll!isNoneEvent, Epoll!kNoneEvent
  <2> QED  BY <1>1, <1>5, <2>1 DEF EpollChannels, e
<1> QED  BY <1>1, <1>2, <1>3, <1>4, <1>5 DEF e

(* A channel that is told its events by both pollers. *)
LEMMA BothUpdateStep ==
    ASSUME Inv, EpollInv, NEW f \in Fds, NEW ev \in SUBSET Events, BothUpdate(f, ev)
    PROVE  EpollInv'
<1> DEFINE c == epollChannel[f]
           d == Epoll!updateChannel([c EXCEPT !.events = ev])
<1>1. /\ c \in EpollChannels /\ c.events = events_[f]
      /\ c.index \in {"kNew", "kAdded", "kDeleted"}
      /\ c.known <=> f \in channels_
      /\ c.index = "kAdded" <=> f \in channels_ \ Quiet
      /\ c.index = "kNew" <=> index_[f] = -1
  BY DEF EpollInv, Coupled, EpollChannels
<1>2. /\ ~(ev = {} /\ f \in Quiet)
      /\ f \notin channels_ => index_[f] = -1
      /\ events_' = [events_ EXCEPT ![f] = ev]
      /\ channels_' = channels_ \cup {f}
      /\ Quiet' = IF f \in channels_ /\ ev = {} THEN Quiet \cup {f} ELSE Quiet \ {f}
  <2>1. Update(f, ev) /\ ~(ev = {} /\ f \in Quiet)
    BY DEF BothUpdate, Quiet
  <2>2. Quiet' = IF f \in channels_ /\ ev = {} THEN Quiet \cup {f} ELSE Quiet \ {f}
    BY <2>1, UpdateStep
  <2>3. events_' = [events_ EXCEPT ![f] = ev] /\ channels_' = channels_ \cup {f}
    BY <2>1 DEF Update, updateChannel, Inv, TypeOK, IndicesAgree
  <2> QED  BY <2>1, <2>2, <2>3 DEF Update
<1>3. /\ \A g \in Fds : g # f => index_'[g] = index_[g]
      /\ index_'[f] # -1
  <2>1. CASE index_[f] < 0
    BY <2>1 DEF BothUpdate, Update, updateChannel, Inv, TypeOK
  <2>2. CASE index_[f] >= 0
    BY <2>2 DEF BothUpdate, Update, updateChannel, Inv, TypeOK
  <2> QED  BY <2>1, <2>2 DEF Inv, TypeOK
<1>4. /\ epollChannel' = [epollChannel EXCEPT ![f] = d]
      /\ epollSize' = epollSize /\ epollActive' = epollActive
  BY DEF BothUpdate, Epoll!update
<1>5. f \in channels_ => index_[f] # -1
  BY DEF Inv, IndicesAgree
<1>6. (c.index = "kNew" => ~c.known) /\ (c.index = "kDeleted" => c.known)
  BY <1>1, <1>2, <1>5
<1>7. /\ d \in EpollChannels /\ d.events = ev /\ d.known = TRUE
      /\ d.index = IF c.index = "kAdded" /\ ev = {} THEN "kDeleted" ELSE "kAdded"
  <2> HIDE DEF c
  <2>1. /\ d \in EpollChannels /\ d.events = ev
        /\ c.index = "kAdded" => d.known = c.known
        /\ c.index # "kAdded" => d.known = TRUE
        /\ d.index = IF c.index = "kAdded" /\ ev = {} THEN "kDeleted" ELSE "kAdded"
    BY <1>1, <1>6, EpollUpdate
  <2>2. c.known \in BOOLEAN
    BY <1>1 DEF EpollChannels
  <2>3. c.index = "kAdded" => c.known = TRUE
    BY <1>1, <2>2
  <2> QED  BY <2>1, <2>3
<1> HIDE DEF c, d
<1>8. ASSUME NEW g \in Fds PROVE Coupled(g)'
  <2>1. CASE g = f
    <3>1. epollChannel'[f] = d /\ events_'[f] = ev /\ f \in channels_'
      BY <1>2, <1>4 DEF EpollInv, Inv, TypeOK
    <3>2. d.index = "kAdded" <=> f \in channels_' \ Quiet'
      BY <1>1, <1>2, <1>7, <3>1
    <3>3. d.index # "kNew"
      BY <1>7
    <3> QED  BY <1>3, <1>7, <2>1, <3>1, <3>2, <3>3 DEF Coupled
  <2>2. CASE g # f
    <3>1. /\ epollChannel'[g] = epollChannel[g] /\ events_'[g] = events_[g]
          /\ index_'[g] = index_[g] /\ (g \in channels_' <=> g \in channels_)
          /\ (g \in Quiet' <=> g \in Quiet)
      BY <1>2, <1>3, <1>4, <2>2 DEF EpollInv, Inv, TypeOK
    <3> QED  BY <3>1 DEF EpollInv, Coupled
  <2> QED  BY <2>1, <2>2
<1> QED  BY <1>4, <1>7, <1>8 DEF EpollInv

(* A channel that both pollers forget: it has no interest any more, so the *)
(* assertion of Channel::remove holds and epoll has it no longer.          *)
LEMMA BothRemoveStep ==
    ASSUME Inv, EpollInv, NEW f \in Fds, BothRemove(f)
    PROVE  EpollInv'
<1> DEFINE c == epollChannel[f]
           d == [c EXCEPT !.known = FALSE, !.index = "kDeleted", !.edge = FALSE]
<1>1. /\ f \in channels_ /\ events_[f] = {} /\ events_' = events_ /\ channels_' = channels_ \ {f}
      /\ Quiet' = Quiet \ {f}
  BY RemoveStep DEF BothRemove, Remove, removeChannel
<1>2. index_[f] \in Nat /\ index_'[f] # -1 /\ \A g \in Fds : index_'[g] = -1 <=> index_[g] = -1
  <2> DEFINE last == Len(pollfds_)
             e == Descriptor(pollfds_[last])
  <2>1. index_[f] \in 0..(last - 1) /\ last \in 1..last
    BY <1>1 DEF Inv, TypeOK, IndicesAgree
  <2>2. e \in channels_ /\ index_[e] = last - 1
    BY <2>1 DEF Inv, IndicesAgree
  <2> HIDE DEF e
  <2>3. index_' = IF index_[f] = last - 1 THEN index_ ELSE [index_ EXCEPT ![e] = index_[f]]
    BY DEF BothRemove, Remove, removeChannel, e
  <2> QED  BY <2>1, <2>2, <2>3 DEF Inv, TypeOK
<1>3. c \in EpollChannels /\ c.events = {}
  BY <1>1 DEF EpollInv, Coupled
<1>4. epollChannel' = [epollChannel EXCEPT ![f] = d] /\ epollSize' = epollSize /\ epollActive' = epollActive
  BY <1>3 DEF BothRemove, Epoll!removeChannel, Epoll!remove, Epoll!Check, Epoll!isNoneEvent, Epoll!kNoneEvent
<1>5. d \in EpollChannels /\ d.events = {} /\ d.known = FALSE /\ d.index = "kDeleted"
  BY <1>3 DEF EpollChannels
<1> HIDE DEF c, d
<1>6. ASSUME NEW g \in Fds PROVE Coupled(g)'
  <2>1. CASE g = f
    BY <1>1, <1>2, <1>4, <1>5, <2>1 DEF Coupled, EpollInv
  <2>2. CASE g # f
    <3>1. /\ epollChannel'[g] = epollChannel[g] /\ (g \in channels_' <=> g \in channels_)
          /\ (g \in Quiet' <=> g \in Quiet)
      BY <1>1, <1>4, <2>2 DEF EpollInv
    <3> QED  BY <1>1, <1>2, <3>1 DEF EpollInv, Coupled
  <2> QED  BY <2>1, <2>2
<1> QED  BY <1>4, <1>5, <1>6 DEF EpollInv

LEMMA BothReuseStep ==
    ASSUME Inv, EpollInv, NEW f \in Fds, BothReuse(f)
    PROVE  EpollInv'
<1>1. /\ f \notin channels_ /\ channels_' = channels_
      /\ index_' = [index_ EXCEPT ![f] = -1] /\ events_' = [events_ EXCEPT ![f] = {}]
      /\ Quiet' = Quiet
  BY ReuseStep DEF BothReuse, Reuse, NewChannel
<1>2. epollChannel' = [epollChannel EXCEPT ![f] = Epoll!NewChannel] /\ epollSize' = epollSize /\ epollActive' = epollActive
  BY DEF BothReuse, Epoll!NewChannelOn
<1>3. Epoll!NewChannel \in EpollChannels
  BY DEF Epoll!NewChannel, Epoll!kNoneEvent, EpollChannels
<1>4. ASSUME NEW g \in Fds PROVE Coupled(g)'
  <2>1. CASE g = f
    BY <1>1, <1>2, <2>1 DEF Coupled, EpollInv, Epoll!NewChannel, Epoll!kNoneEvent, Inv, TypeOK
  <2>2. CASE g # f
    <3>1. /\ epollChannel'[g] = epollChannel[g] /\ events_'[g] = events_[g] /\ index_'[g] = index_[g]
      BY <1>1, <1>2, <2>2 DEF EpollInv, Inv, TypeOK
    <3> QED  BY <1>1, <3>1 DEF EpollInv, Coupled
  <2> QED  BY <2>1, <2>2
<1> QED  BY <1>2, <1>3, <1>4 DEF EpollInv

(* Both pollers would report the same channels. *)
LEMMA SameFound ==
    ASSUME Inv, EpollInv, NEW ready \in SUBSET Fds
    PROVE  /\ {f \in ready : Epoll!Reported(epollChannel[f], {"HUP"}) # {}} =
                 {f \in ready : f \in channels_ \ Quiet}
           /\ poll(ready) => activeChannels' = {f \in ready : f \in channels_ \ Quiet}
<1>1. ASSUME NEW f \in ready
      PROVE  Epoll!Reported(epollChannel[f], {"HUP"}) # {} <=> f \in channels_ \ Quiet
  <2>1. epollChannel[f].index = "kAdded" <=> f \in channels_ \ Quiet
    BY DEF EpollInv, Coupled
  <2>2. "ET" \notin epollChannel[f].events
    BY EventsAssumption DEF EpollInv, EpollChannels
  <2>3. {"HUP"} \cap (epollChannel[f].events \cup {"ERR", "HUP"}) # {}
    OBVIOUS
  <2> QED  BY <2>1, <2>2, <2>3 DEF Epoll!Reported
<1>2. ASSUME poll(ready), NEW f \in ready, f \in channels_, f \notin Quiet
      PROVE  f \in activeChannels'
  <2>1. f \in Nat /\ ~Skipped(f)
    BY <1>2, FdsAssumption DEF Quiet
  <2>2. index_[f] + 1 \in 1..Len(pollfds_) /\ pollfds_[index_[f] + 1].fd = f
    BY <1>2, <2>1 DEF Inv, TypeOK, IndicesAgree, Skipped
  <2>3. DOMAIN pollfds_ = 1..Len(pollfds_)
    BY LenProperties DEF Inv, TypeOK
  <2> QED  BY <1>2, <2>2, <2>3 DEF poll
<1>3. ASSUME poll(ready), NEW f \in activeChannels'
      PROVE  f \in ready /\ f \in channels_ \ Quiet
  <2>1. f \in ready
    BY <1>3 DEF poll
  <2> QED  BY <1>3, <2>1, PollStep
<1> QED  BY <1>1, <1>2, <1>3

(* What epoll_wait has put into its array. *)
LEMMA BothPollStep ==
    ASSUME Inv, EpollInv, NEW ready \in SUBSET Fds, BothPoll(ready)
    PROVE  /\ EpollInv'
           /\ epollActive' \subseteq activeChannels'
           /\ epollActive' # activeChannels' => epollSize' > epollSize \/ 2 * epollSize > MaxSize
<1> DEFINE reported == {f \in ready : Epoll!Reported(epollChannel[f], {"HUP"}) # {}}
<1>1. reported = activeChannels'
  BY SameFound DEF BothPoll
<1>2. PICK events \in SUBSET reported :
        /\ events = reported \/ Epoll!Cardinality(events) = epollSize
        /\ epollActive' = events /\ epollSize' = Epoll!Grown(Epoll!Cardinality(events))
        /\ epollChannel' = epollChannel
  BY DEF BothPoll, Epoll!poll
<1> HIDE DEF reported
<1>3. epollSize \in Nat /\ epollSize > 0 /\ MaxSize \in Nat
  BY SizeAssumption DEF EpollInv
<1>4. epollSize' \in Nat /\ epollSize' > 0
  BY <1>2, <1>3 DEF Epoll!Grown
<1>5. epollActive' # activeChannels' => epollSize' > epollSize \/ 2 * epollSize > MaxSize
  BY <1>1, <1>2, <1>3 DEF Epoll!Grown
<1>6. pollfds_' = pollfds_ /\ channels_' = channels_ /\ index_' = index_ /\ events_' = events_
  BY DEF BothPoll, poll
<1>7. epollActive' \subseteq Fds
  BY <1>2 DEF reported
<1>8. EpollInv'
  BY <1>2, <1>4, <1>6, <1>7 DEF EpollInv, Coupled, Quiet, Skipped
<1> QED  BY <1>1, <1>2, <1>5, <1>8

LEMMA BothInvInit == BothInit => Inv /\ EpollInv
<1> SUFFICES ASSUME BothInit PROVE EpollInv
  BY InvInit DEF BothInit
<1>1. /\ epollChannel = [f \in Fds |-> Epoll!NewChannel] /\ epollSize = InitSize /\ epollActive = {}
      /\ channels_ = {} /\ index_ = [f \in Fds |-> -1] /\ events_ = [f \in Fds |-> {}]
  BY DEF BothInit, Init, Epoll!Init
<1>2. Epoll!NewChannel \in EpollChannels
  BY DEF Epoll!NewChannel, Epoll!kNoneEvent, EpollChannels
<1>3. \A f \in Fds : Coupled(f)
  BY <1>1 DEF Coupled, Epoll!NewChannel, Epoll!kNoneEvent
<1> QED  BY <1>1, <1>2, <1>3, SizeAssumption DEF EpollInv

(* What both do, PollPoller does. *)
LEMMA BothIsPoll == [BothNext]_allVars => [Next]_vars
BY DEF BothNext, Next, allVars, vars, BothUpdate, BothRemove, BothReuse, BothPoll

LEMMA BothInvNext == Inv /\ EpollInv /\ [BothNext]_allVars => (Inv /\ EpollInv)'
<1> SUFFICES ASSUME Inv, EpollInv, [BothNext]_allVars PROVE EpollInv'
  BY InvNext, BothIsPoll
<1>1. ASSUME NEW f \in Fds, BothRemove(f) PROVE EpollInv'
  BY <1>1, BothRemoveStep
<1>2. ASSUME NEW f \in Fds, BothReuse(f) PROVE EpollInv'
  BY <1>2, BothReuseStep
<1>3. ASSUME NEW f \in Fds, NEW ev \in SUBSET Events, BothUpdate(f, ev) PROVE EpollInv'
  BY <1>3, BothUpdateStep
<1>4. ASSUME NEW ready \in SUBSET Fds, BothPoll(ready) PROVE EpollInv'
  BY <1>4, BothPollStep
<1>5. CASE UNCHANGED allVars
  BY <1>5 DEF allVars, vars, EpollInv, Coupled, Quiet, Skipped
<1> QED  BY <1>1, <1>2, <1>3, <1>4, <1>5 DEF BothNext

-----------------------------------------------------------------------------
(* The interest list, read with channels_, is the table of the channels'   *)
(* own events.                                                             *)
EpollInterest ==
    [f \in Fds |-> IF epollChannel[f].index = "kAdded" THEN epollChannel[f].events
                   ELSE IF epollChannel[f].known THEN Muted ELSE Absent]

LEMMA ListIsTable == EpollInv => EpollInterest = Table
<1> SUFFICES ASSUME EpollInv, NEW f \in Fds
             PROVE  (IF epollChannel[f].index = "kAdded" THEN epollChannel[f].events
                     ELSE IF epollChannel[f].known THEN Muted ELSE Absent) =
                    (IF f \notin channels_ THEN Absent ELSE IF f \in Quiet THEN Muted ELSE events_[f])
  BY DEF EpollInterest, Table
<1>1. Coupled(f)
  BY DEF EpollInv
<1> QED  BY <1>1 DEF Coupled, Quiet

LEMMA ListStep ==
    ASSUME Inv, EpollInv, EpollInterest = Table, EpollInterest' = Table', [BothNext]_allVars
    PROVE  [EpollAbstract!Next]_(EpollAbstract!vars)
<1>1. EpollInterest = Table
  OBVIOUS
<1>2. EpollInterest' = Table'
  OBVIOUS
<1>3. ASSUME NEW f \in Fds, NEW ev \in SUBSET Events, BothUpdate(f, ev)
      PROVE  EpollAbstract!updateChannel(f, ev)
  <2>1. Update(f, ev) /\ epollActive' = epollActive
    BY <1>3 DEF BothUpdate, Epoll!update
  <2>2. Table' = [Table EXCEPT ![f] = IF Table[f] # Absent /\ ev = {} THEN Muted ELSE ev]
    BY <2>1, TableUpdated
  <2>3. EpollInterest' = [EpollInterest EXCEPT ![f] = IF EpollInterest[f] # Absent /\ ev = {} THEN Muted ELSE ev]
    BY <1>1, <1>2, <2>2
  <2>4. f \in EpollAbstract!Registered <=> EpollInterest[f] # Absent
    BY DEF EpollAbstract!Registered, EpollInterest
  <2> QED  BY <2>1, <2>3, <2>4 DEF EpollAbstract!updateChannel, EpollInterest
<1>4. ASSUME NEW f \in Fds, BothRemove(f)
      PROVE  EpollAbstract!removeChannel(f)
  <2>1. Remove(f) /\ epollActive' = epollActive
    BY <1>4 DEF BothRemove, Epoll!removeChannel
  <2>2. Table[f] = Muted /\ Table' = [Table EXCEPT ![f] = Absent]
    BY <2>1, TableRemoved
  <2>3. EpollInterest[f] = Muted /\ EpollInterest' = [EpollInterest EXCEPT ![f] = Absent]
    BY <1>1, <1>2, <2>2
  <2> QED  BY <2>1, <2>3 DEF EpollAbstract!removeChannel, EpollInterest
<1>5. ASSUME NEW f \in Fds, BothReuse(f)
      PROVE  UNCHANGED EpollAbstract!vars
  <2>1. Table' = Table /\ epollActive' = epollActive
    BY <1>5, TableSame DEF BothReuse, Epoll!NewChannelOn
  <2>2. EpollInterest' = EpollInterest
    BY <1>1, <1>2, <2>1
  <2> QED  BY <2>1, <2>2 DEF EpollAbstract!vars, EpollInterest
<1>6. ASSUME NEW ready \in SUBSET Fds, BothPoll(ready)
      PROVE  EpollAbstract!poll
  <2>1. poll(ready) /\ epollActive' \subseteq activeChannels'
    BY <1>6, BothPollStep DEF BothPoll
  <2>2. Table' = Table /\ activeChannels' \subseteq channels_ \ Quiet
    BY <2>1, PollStep, TableSame
  <2>3. \A g \in epollActive' : g \in Fds /\ Table[g] # Absent /\ Table[g] # Muted
    BY <2>1, <2>2, TableReported
  <2>4. EpollInterest' = EpollInterest
    BY <1>1, <1>2, <2>2
  <2>5. \A g \in epollActive' : g \in Fds /\ EpollInterest[g] # Absent /\ EpollInterest[g] # Muted
    BY <1>1, <2>3
  <2> QED  BY <2>4, <2>5 DEF EpollAbstract!poll, EpollAbstract!Registered, EpollInterest
<1>7. CASE UNCHANGED allVars
  BY <1>7 DEF allVars, EpollAbstract!vars
<1> QED  BY <1>3, <1>4, <1>5, <1>6, <1>7 DEF BothNext, EpollAbstract!Next

(* For any set of descriptors, EpollPoller.cc implements the promise of    *)
(* Poller.h as well: epoll's interest list with channels_ is the table of  *)
(* interests, across the deletion and the new addition of a channel whose  *)
(* interest comes and goes; and poll reports, of what the kernel has, only *)
(* registered channels that have not given their interest up.              *)
THEOREM EpollImplementsPoller == BothSpec => EpollIsPoller
<1>1. BothInit => EpollAbstract!Init
  BY DEF BothInit, Epoll!Init, Epoll!NewChannel, EpollAbstract!Init
<1>2. Inv /\ EpollInv /\ (EpollInterest = Table) /\ (EpollInterest = Table)' /\ [BothNext]_allVars
        => [EpollAbstract!Next]_(EpollAbstract!vars)
  BY ListStep
<1> QED  BY BothInvInit, BothInvNext, ListIsTable, <1>1, <1>2, PTL DEF BothSpec, EpollIsPoller, EpollAbstract!Spec

(* EventLoop sees the same of either poller: a poll of the same ready      *)
(* descriptors puts the same channels into activeChannels, except when     *)
(* epoll's array was full, and then the array is doubled for the next one. *)
THEOREM ReportsAgree == BothSpec => SameReports
<1>1. Inv /\ EpollInv => \A ready \in SUBSET Fds : BothPoll(ready) =>
          /\ epollActive' \subseteq activeChannels'
          /\ epollActive' # activeChannels' => epollSize' > epollSize \/ 2 * epollSize > MaxSize
  BY BothPollStep
<1> QED  BY BothInvInit, BothInvNext, <1>1, PTL DEF BothSpec, SameReports

(* The assertions of EpollPoller::updateChannel and Channel::remove never  *)
(* fail, as long as a channel does not give its interest up twice.         *)
THEOREM EpollAssertsHold == BothSpec => [](\A f \in Fds : epollChannel[f].failed = {})
<1>1. EpollInv => \A f \in Fds : epollChannel[f].failed = {}
  BY DEF EpollInv, EpollChannels
<1> QED  BY BothInvInit, BothInvNext, <1>1, PTL DEF BothSpec
=============================================================================
