------------------------------- MODULE Channel -------------------------------
(***************************************************************************)
(* twnl/Channel and the part of twnl/Poller/EpollPoller a channel drives:  *)
(* the interest set of one descriptor, its registration state, and the     *)
(* operations that change them, as operators on a record                   *)
(*   events  the interest set events_, as a set of epoll flag names        *)
(*   index   kNew, kAdded or kDeleted, as EpollPoller uses index_          *)
(*   known   channels_ of the poller has an entry for the descriptor       *)
(*   edge    in ET mode, epoll has an edge that it has not yet reported    *)
(*   failed  the assertions of this code that did not hold so far          *)
(* The library is built with NDEBUG, so an operation continues past an     *)
(* assertion that fails.  EPOLLPRI always goes with EPOLLIN and is folded  *)
(* into it.                                                                *)
(***************************************************************************)

VARIABLE mode_      \* the static mode_, "LT" or "ET": what initDefaultEvent was called with

isET == mode_ = "ET"

ModeFlag == IF isET THEN {"ET"} ELSE {}
kNoneEvent == {}
kReadEvent == ModeFlag \cup {"IN"}
kWriteEvent == ModeFlag \cup {"OUT"}

NewChannel ==
    [events |-> kNoneEvent, index |-> "kNew", known |-> FALSE, edge |-> FALSE, failed |-> {}]

isNoneEvent(c) == c.events = kNoneEvent
isReading(c) == c.events \cap kReadEvent # {}
isWriting(c) == c.events \cap kWriteEvent # {}

(* Something happened on the descriptor: an edge to report in ET mode. *)
Touch(c) == [c EXCEPT !.edge = isET]

Check(c, holds, assertion) == IF holds THEN c ELSE [c EXCEPT !.failed = @ \cup {assertion}]

(* Seeded fault: a channel without interest stays in the interest list. *)
updateChannel_NoDelete(c) ==
    IF c.index = "kAdded" THEN Touch(c)
    ELSE Touch([Check(c, c.known <=> c.index = "kDeleted", "updateChannel: fd known")
                   EXCEPT !.index = "kAdded", !.known = TRUE])

(* EpollPoller::updateChannel: EPOLL_CTL_ADD for a new or deleted channel, *)
(* whatever its events are; else EPOLL_CTL_DEL or EPOLL_CTL_MOD.  ADD and  *)
(* MOD make epoll look at the descriptor again.                            *)
updateChannel(c) ==
    CASE c.index = "kNew" ->
            Touch([Check(c, ~c.known, "updateChannel: fd unknown")
                      EXCEPT !.index = "kAdded", !.known = TRUE])
      [] c.index = "kDeleted" ->
            Touch([Check(c, c.known, "updateChannel: fd known") EXCEPT !.index = "kAdded"])
      [] c.index = "kAdded" /\ isNoneEvent(c) -> [c EXCEPT !.index = "kDeleted", !.edge = FALSE]
      [] OTHER -> Touch(c)

enableReading(c) == updateChannel([c EXCEPT !.events = @ \cup kReadEvent])
(* Seeded fault: the interest in writing goes with the one in reading. *)
disableReading_All(c) == updateChannel([c EXCEPT !.events = kNoneEvent])

disableReading(c) == updateChannel([c EXCEPT !.events = @ \ kReadEvent])
enableWriting(c) == updateChannel([c EXCEPT !.events = @ \cup kWriteEvent])
disableWriting(c) == updateChannel([c EXCEPT !.events = @ \ kWriteEvent])
disableAll(c) == updateChannel([c EXCEPT !.events = kNoneEvent])

(* Channel::remove and EpollPoller::removeChannel. *)
remove(c) ==
    [Check(c, isNoneEvent(c), "remove: isNoneEvent")
        EXCEPT !.known = FALSE, !.index = "kDeleted", !.edge = FALSE]

(* What epoll_wait reports for a descriptor on which `ready` holds. *)
Reported(c, ready) ==
    IF c.index = "kAdded" /\ ("ET" \in c.events => c.edge)
    THEN ready \cap (c.events \cup {"ERR", "HUP"})
    ELSE {}

(* Channel::handleEvent: which callbacks the reported events lead to. *)
Handlers(revents) ==
    {h \in {"close", "error", "read", "write"} :
        CASE h = "close" -> "HUP" \in revents /\ "IN" \notin revents
          [] h = "error" -> "ERR" \in revents
          [] h = "read"  -> "IN" \in revents
          [] h = "write" -> "OUT" \in revents}

ChannelType ==
    [events : SUBSET {"ET", "IN", "OUT"}, index : {"kNew", "kAdded", "kDeleted"},
     known : BOOLEAN, edge : BOOLEAN,
     failed : SUBSET {"updateChannel: fd unknown", "updateChannel: fd known", "remove: isNoneEvent"}]
=============================================================================
