----------------------------- MODULE EpollPoller -----------------------------
(***************************************************************************)
(* twnl/Poller/EpollPoller.cc over several descriptors: the record of      *)
(* Channel for each of them, and the array epoll_wait fills, which is      *)
(* doubled whenever a call has filled it completely.                       *)
(***************************************************************************)
EXTENDS Channel, Naturals, FiniteSets

CONSTANTS
    Fds, Events,
    InitSize,      \* kInitEventListSize
    MaxSize        \* bound: the array is not doubled beyond this

VARIABLES channel, size, activeChannels

Init == channel = [f \in Fds |-> NewChannel] /\ size = InitSize /\ activeChannels = {}

update(f, ev) ==
    /\ channel' = [channel EXCEPT ![f] = updateChannel([@ EXCEPT !.events = ev])]
    /\ UNCHANGED <<size, activeChannels>>

removeChannel(f) ==
    /\ channel' = [channel EXCEPT ![f] = remove(@)]
    /\ UNCHANGED <<size, activeChannels>>

NewChannelOn(f) ==
    /\ channel' = [channel EXCEPT ![f] = NewChannel]
    /\ UNCHANGED <<size, activeChannels>>

(* Seeded fault: a full array is not doubled. *)
Grown_Never(numEvents) == size

Grown(numEvents) == IF numEvents = size /\ 2 * size <= MaxSize THEN 2 * size ELSE size

(* epoll_wait reports descriptors of the interest list that are in error   *)
(* or hung up, as the ones in `ready` are: as many as the array holds.     *)
poll(ready) ==
    LET reported == {f \in ready : Reported(channel[f], {"HUP"}) # {}}
    IN  \E events \in SUBSET reported :
          /\ events = reported \/ (Cardinality(events) = size /\ Cardinality(reported) > size)
          /\ Cardinality(events) <= size
          /\ activeChannels' = events
          /\ size' = Grown(Cardinality(events))
          /\ UNCHANGED channel
=============================================================================
