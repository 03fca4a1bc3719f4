------------------------------- MODULE Pollers -------------------------------
(***************************************************************************)
(* The two pollers side by side, driven by the same calls of the same      *)
(* channels: what EventLoop would see with either of them.                 *)
(***************************************************************************)
EXTENDS PollPoller, FiniteSets

CONSTANTS InitSize, MaxSize

ASSUME SizeAssumption == InitSize \in Nat \ {0} /\ MaxSize \in Nat

(* Level triggered masks: PollPoller knows no other. *)
ASSUME EventsAssumption == "ET" \notin Events

VARIABLES epollChannel, epollSize, epollActive

Epoll == INSTANCE EpollPoller WITH
    mode_ <- "LT", channel <- epollChannel, size <- epollSize, activeChannels <- epollActive

allVars == <<vars, epollChannel, epollSize, epollActive>>

BothInit == Init /\ Epoll!Init

(* A channel that gave its interest up does not do so again: EpollPoller   *)
(* would add it to epoll with an empty interest set, where PollPoller      *)
(* keeps skipping it.                                                      *)
BothUpdate(f, ev) ==
    /\ ~(ev = {} /\ f \in channels_ /\ Skipped(f))
    /\ Update(f, ev) /\ Epoll!update(f, ev)

BothRemove(f) == Remove(f) /\ Epoll!removeChannel(f)

BothReuse(f) == Reuse(f) /\ Epoll!NewChannelOn(f)

BothPoll(ready) == poll(ready) /\ Epoll!poll(ready)

BothNext ==
    \/ \E f \in Fds : BothRemove(f) \/ BothReuse(f) \/ \E ev \in SUBSET Events : BothUpdate(f, ev)
    \/ \E ready \in SUBSET Fds : BothPoll(ready)

BothSpec == BothInit /\ [][BothNext]_allVars

-----------------------------------------------------------------------------
(* The kernel's interest list, with channels_ for those that are in it     *)
(* without interest, is the abstract table of interests.                   *)
EpollAbstract == INSTANCE Poller WITH
    interest <- [f \in Fds |-> IF epollChannel[f].index = "kAdded" THEN epollChannel[f].events
                               ELSE IF epollChannel[f].known THEN Muted ELSE Absent],
    active <- epollActive

EpollIsPoller == EpollAbstract!Spec

(* A poll of the same descriptors finds the same channels with either      *)
(* poller, unless epoll's array was full; then it is doubled in time for   *)
(* the next poll, as far as the bound of the model goes.                   *)
SameReports ==
    [][\A ready \in SUBSET Fds : BothPoll(ready) =>
          /\ epollActive' \subseteq activeChannels'
          /\ epollActive' # activeChannels' => epollSize' > epollSize \/ 2 * epollSize > MaxSize]_allVars
=============================================================================
