----------------------------- MODULE PollPoller ------------------------------
(***************************************************************************)
(* twnl/Poller/PollPoller.cc: the array given to poll(2) and the index     *)
(* each channel keeps of its place in it.  An entry is taken out by        *)
(* moving the last one into its place; a channel that gives its interest   *)
(* up stays in the array with the descriptor fd replaced by -fd-1, which   *)
(* poll(2) skips.  Indices are the code's: they start at 0, TLA+ sequences *)
(* at 1.                                                                   *)
(***************************************************************************)
EXTENDS Integers, Sequences

CONSTANTS
    Fds, Events,
    Absent, Muted  \* in the abstract table: not registered, without interest

ASSUME FdsAssumption == Fds \subseteq Nat
ASSUME AbsentAssumption == Absent # Muted /\ \A ev \in SUBSET Events : ev # Absent /\ ev # Muted

VARIABLES
    pollfds_,      \* the array: records [fd, events]
    channels_,     \* the keys of the map from descriptors to channels
    index_,        \* Channel::index_ of the channel on each descriptor
    events_,       \* Channel::events_ of the channel on each descriptor
    activeChannels

vars == <<pollfds_, channels_, index_, events_, activeChannels>>

Init ==
    /\ pollfds_ = <<>> /\ channels_ = {} /\ activeChannels = {}
    /\ index_ = [f \in Fds |-> -1] /\ events_ = [f \in Fds |-> {}]

(* Seeded fault: a channel without interest keeps its descriptor. *)
Ignored_Never(f, ev) == f

(* The fd of the entry of a channel that is updated. *)
Ignored(f, ev) == IF ev = {} THEN -f - 1 ELSE f

(* The descriptor behind an entry, skipped by poll(2) or not. *)
Descriptor(pfd) == IF pfd.fd < 0 THEN -pfd.fd - 1 ELSE pfd.fd

(* The entry of a registered channel is skipped by poll(2). *)
Skipped(f) == pollfds_[index_[f] + 1].fd < 0

(* The channel's events_ are now ev. *)
updateChannel(f, ev) ==
    /\ events_' = [events_ EXCEPT ![f] = ev]
    /\ \/ /\ index_[f] < 0
          /\ pollfds_' = Append(pollfds_, [fd |-> f, events |-> ev])
          /\ index_' = [index_ EXCEPT ![f] = Len(pollfds_)]
          /\ channels_' = channels_ \cup {f}
       \/ /\ index_[f] >= 0
          /\ pollfds_' = [pollfds_ EXCEPT ![index_[f] + 1] = [fd |-> Ignored(f, ev), events |-> ev]]
          /\ UNCHANGED <<index_, channels_>>
    /\ UNCHANGED activeChannels

(* Seeded fault: the moved channel keeps its old index. *)
removeChannel_StaleIndex(f) ==
    /\ pollfds_' = SubSeq([pollfds_ EXCEPT ![index_[f] + 1] = pollfds_[Len(pollfds_)]],
                          1, Len(pollfds_) - 1)
    /\ channels_' = channels_ \ {f}
    /\ UNCHANGED <<index_, events_, activeChannels>>

(* The removed channel keeps its index_: it is not updated again. *)
removeChannel(f) ==
    LET idx == index_[f]
        last == Len(pollfds_)
    IN  /\ pollfds_' = SubSeq([pollfds_ EXCEPT ![idx + 1] = pollfds_[last]], 1, last - 1)
        /\ index_' = IF idx = last - 1 THEN index_
                     ELSE [index_ EXCEPT ![Descriptor(pollfds_[last])] = idx]
        /\ channels_' = channels_ \ {f}
        /\ UNCHANGED <<events_, activeChannels>>

(* poll(2) finds something on the descriptors `ready`, and                 *)
(* fillActiveChannels walks the array.                                     *)
poll(ready) ==
    /\ activeChannels' = {pollfds_[i].fd : i \in {j \in DOMAIN pollfds_ : pollfds_[j].fd \in ready}}
    /\ UNCHANGED <<pollfds_, channels_, index_, events_>>

(* A descriptor that was removed is used by a new Channel. *)
NewChannel(f) ==
    /\ index_' = [index_ EXCEPT ![f] = -1]
    /\ events_' = [events_ EXCEPT ![f] = {}]
    /\ UNCHANGED <<pollfds_, channels_, activeChannels>>

-----------------------------------------------------------------------------
(* How the rest of the library uses it.  A channel may be registered       *)
(* without interest, as the timerfd and the eventfd are while the static   *)
(* event masks are still empty.  disableAll() comes before remove(), so    *)
(* that the entry is then skipped, as removeChannel asserts; a removed     *)
(* channel is not used again.                                              *)

Update(f, ev) == (f \notin channels_ => index_[f] = -1) /\ updateChannel(f, ev)

Remove(f) == f \in channels_ /\ Skipped(f) /\ removeChannel(f)

Reuse(f) == f \notin channels_ /\ index_[f] # -1 /\ NewChannel(f)

Next ==
    \/ \E f \in Fds : Remove(f) \/ Reuse(f) \/ \E ev \in SUBSET Events : Update(f, ev)
    \/ \E ready \in SUBSET Fds : poll(ready)

Spec == Init /\ [][Next]_vars

-----------------------------------------------------------------------------
(* The variables have their types. *)
TypeOK ==
    /\ pollfds_ \in Seq([fd : Int, events : SUBSET Events])
    /\ channels_ \subseteq Fds /\ activeChannels \subseteq Fds
    /\ index_ \in [Fds -> Int] /\ events_ \in [Fds -> SUBSET Events]

(* The assertions of updateChannel, removeChannel and fillActiveChannels:  *)
(* a registered channel's index is inside the array, the entry there is    *)
(* its own with its own events, and poll(2) skips it only when the channel *)
(* has no interest; every entry belongs to a registered channel, so that   *)
(* moving the last entry finds the channel to renumber.                    *)
IndicesAgree ==
    /\ \A f \in channels_ :
          /\ index_[f] \in 0..(Len(pollfds_) - 1)
          /\ pollfds_[index_[f] + 1].fd = f \/ (pollfds_[index_[f] + 1].fd = -f - 1 /\ events_[f] = {})
          /\ pollfds_[index_[f] + 1].events = events_[f]
    /\ \A i \in 1..Len(pollfds_) :
          /\ Descriptor(pollfds_[i]) \in channels_
          /\ index_[Descriptor(pollfds_[i])] = i - 1

(* The pollfd array, read through the indices that the channels keep. *)
Interest ==
    [f \in Fds |-> IF f \notin channels_ THEN Absent
                   ELSE IF Skipped(f) THEN Muted ELSE pollfds_[index_[f] + 1].events]

PollAbstract == INSTANCE Poller WITH interest <- Interest, active <- activeChannels

(* Read that way, the array is the abstract table of interests that        *)
(* Poller.h promises: fillActiveChannels reports only registered channels, *)
(* and none from the moment it gave its interest up until it has some.     *)
PollIsPoller == PollAbstract!Spec
=============================================================================
