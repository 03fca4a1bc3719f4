------------------------------ MODULE Connector ------------------------------
(***************************************************************************)
(* twnl/Connector.cc: one attempt to connect after the other, with a       *)
(* growing delay.  Its functions are actions on the connector's own        *)
(* variables; TcpClient says when they are called.  TimerQueue deletes a   *)
(* timer that was cancelled or has run, but timer_ goes on pointing to it. *)
(***************************************************************************)
EXTENDS Naturals, Sequences

CONSTANTS kInitRetryDelayMs, kMaxRetryDelayMs

ASSUME DelayAssumption ==
    /\ kInitRetryDelayMs \in Nat \ {0} /\ kMaxRetryDelayMs \in Nat
    /\ kInitRetryDelayMs <= kMaxRetryDelayMs

VARIABLES
    connect_, state_,
    channel_,          \* "null", "registered" with the poller, or "removed" from it
    retryDelayMs_,
    timer_,            \* what it points to: "unset", a timer "waiting" or "due", or one that is "gone"
    attempt,           \* external: what became of the connection that is being made
    sockets,           \* external: how many descriptors of this client are open
    pendingFunctors_,
    gaveUp,            \* history: connect() met an error that it does not retry
    failed             \* history: assertions that did not hold

connectorVars == <<connect_, state_, channel_, retryDelayMs_, timer_, attempt, sockets,
                   pendingFunctors_, gaveUp, failed>>

ConnectorInit ==
    /\ connect_ = FALSE /\ state_ = "kDisconnected" /\ channel_ = "null"
    /\ retryDelayMs_ = kInitRetryDelayMs /\ timer_ = "unset"
    /\ attempt = "none" /\ sockets = 0
    /\ pendingFunctors_ = <<>> /\ gaveUp = FALSE /\ failed = {}

Failing(holds, assertion) == IF holds THEN {} ELSE {assertion}

-----------------------------------------------------------------------------
(* startInLoop().                                                          *)

(* connecting() with a new socket. *)
Connecting ==
    /\ state_' = "kConnecting" /\ channel_' = "registered"
    /\ attempt' = "pending" /\ sockets' = sockets + 1

(* Seeded fault: the timer is forgotten. *)
ScheduleRetry_Never(delay) == timer_' = "gone" /\ retryDelayMs_' = delay

(* The end of retry(): runAfter(startInLoop), and the next delay. *)
ScheduleRetry(delay) ==
    /\ timer_' = "waiting"
    /\ retryDelayMs_' = IF 2 * delay < kMaxRetryDelayMs THEN 2 * delay ELSE kMaxRetryDelayMs

(* startInLoop() and connect(), called in state s, with this delay in      *)
(* force, and with timer_ pointing to t: the attempt is under way, has to  *)
(* be repeated, or is given up; in the last two cases the new socket is    *)
(* closed at once.                                                         *)
StartInLoop(s, delay, t) ==
    LET bad == Failing(s = "kDisconnected", "startInLoop: state")
    IN  \/ /\ Connecting /\ retryDelayMs_' = delay /\ timer_' = t
           /\ failed' = failed \cup bad \cup Failing(channel_ = "null", "connecting: no channel")
           /\ UNCHANGED gaveUp
        \/ /\ state_' = "kDisconnected" /\ ScheduleRetry(delay)
           /\ failed' = failed \cup bad
           /\ UNCHANGED <<channel_, attempt, sockets, gaveUp>>
        \/ /\ state_' = s /\ retryDelayMs_' = delay /\ timer_' = t
           /\ failed' = failed \cup bad /\ gaveUp' = TRUE
           /\ UNCHANGED <<channel_, attempt, sockets>>

(* startInLoop() after stop(). *)
DoNotConnect(t) ==
    /\ failed' = failed \cup Failing(state_ = "kDisconnected", "startInLoop: state")
    /\ timer_' = t
    /\ UNCHANGED <<state_, channel_, retryDelayMs_, attempt, sockets, gaveUp>>

(* restart() *)
Restart ==
    /\ connect_' = TRUE
    /\ StartInLoop("kDisconnected", kInitRetryDelayMs, timer_)
    /\ UNCHANGED pendingFunctors_

-----------------------------------------------------------------------------
(* The handlers of the channel.                                            *)

(* Seeded fault: the channel is never reset. *)
RemoveAndResetChannel_NoReset ==
    channel_' = "removed" /\ attempt' = "none" /\ UNCHANGED pendingFunctors_

(* The channel has to outlive its own handler: a functor destroys it. *)
RemoveAndResetChannel ==
    /\ channel_' = "removed" /\ attempt' = "none"
    /\ pendingFunctors_' = Append(pendingFunctors_, "resetChannel")

(* Seeded fault: the socket stays open. *)
Retry_NoClose ==
    /\ state_' = "kDisconnected" /\ UNCHANGED sockets
    /\ IF connect_ THEN ScheduleRetry(retryDelayMs_) ELSE UNCHANGED <<timer_, retryDelayMs_>>

Retry ==
    /\ state_' = "kDisconnected" /\ sockets' = sockets - 1
    /\ IF connect_ THEN ScheduleRetry(retryDelayMs_) ELSE UNCHANGED <<timer_, retryDelayMs_>>

HandleError ==
    /\ failed' = failed \cup Failing(state_ = "kConnecting", "handleError: state")
    /\ RemoveAndResetChannel /\ Retry
    /\ UNCHANGED <<connect_, gaveUp>>

(* handleWrite() of an attempt that failed, or connected to itself. *)
HandleWriteFailed ==
    /\ state_ = "kConnecting" /\ attempt \in {"fail", "self"}
    /\ RemoveAndResetChannel /\ Retry
    /\ UNCHANGED <<connect_, gaveUp, failed>>

(* Seeded fault: handleWrite() does not look at connect_. *)
Wanted_Always == TRUE

Wanted == connect_

(* handleWrite() of an attempt that succeeded: the socket goes to the      *)
(* client, or is closed if stop() came first.                              *)
HandleWriteConnected ==
    /\ state_ = "kConnecting" /\ attempt = "ok" /\ Wanted
    /\ RemoveAndResetChannel /\ state_' = "kConnected"
    /\ UNCHANGED <<connect_, retryDelayMs_, timer_, sockets, gaveUp, failed>>

HandleWriteStopped ==
    /\ state_ = "kConnecting" /\ attempt = "ok" /\ ~Wanted
    /\ RemoveAndResetChannel /\ state_' = "kConnected" /\ sockets' = sockets - 1
    /\ UNCHANGED <<connect_, retryDelayMs_, timer_, gaveUp, failed>>

(* handleWrite() when handleError() has already dealt with the attempt. *)
HandleWriteLate ==
    /\ state_ # "kConnecting"
    /\ failed' = failed \cup Failing(state_ = "kDisconnected", "handleWrite: state")
    /\ UNCHANGED <<connect_, state_, channel_, retryDelayMs_, timer_, attempt, sockets,
                   pendingFunctors_, gaveUp>>
=============================================================================
