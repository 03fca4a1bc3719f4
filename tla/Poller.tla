------------------------------- MODULE Poller --------------------------------
(***************************************************************************)
(* What twnl/Poller.h promises EventLoop, whichever implementation         *)
(* newDefaultPoller chose: the poller remembers for each registered        *)
(* descriptor the events its channel is interested in, and poll() reports  *)
(* only registered descriptors whose channel has not given its interest    *)
(* up.  A channel that was registered without any interest is not muted:   *)
(* the kernel reports errors and hang-ups on its descriptor.               *)
(***************************************************************************)
CONSTANTS
    Fds,        \* descriptors
    Events,     \* events a channel can be interested in
    Absent,     \* not registered
    Muted       \* registered, but its interest was given up

VARIABLES
    interest,   \* what each descriptor is registered for
    active      \* the descriptors the last poll() put into activeChannels

vars == <<interest, active>>

Registered == {f \in Fds : interest[f] # Absent}

Init == interest = [f \in Fds |-> Absent] /\ active = {}

updateChannel(f, ev) ==
    /\ interest' = [interest EXCEPT ![f] = IF f \in Registered /\ ev = {} THEN Muted ELSE ev]
    /\ UNCHANGED active

removeChannel(f) ==
    /\ interest[f] = Muted
    /\ interest' = [interest EXCEPT ![f] = Absent]
    /\ UNCHANGED active

poll ==
    /\ active' \subseteq {f \in Registered : interest[f] # Muted}
    /\ UNCHANGED interest

Next ==
    \/ \E f \in Fds : removeChannel(f) \/ \E ev \in SUBSET Events : updateChannel(f, ev)
    \/ poll

Spec == Init /\ [][Next]_vars
=============================================================================
