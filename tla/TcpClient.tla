------------------------------ MODULE TcpClient ------------------------------
(***************************************************************************)
(* twnl/TcpClient.cc on top of Connector, on one loop.  The application    *)
(* calls connect() once, stop() once, disconnect() and the connection's    *)
(* forceClose() at any time, on the loop thread or on another one.         *)
(* TimerQueue and TcpConnection are present with what they promise: a      *)
(* timer runs once when it is due, unless it is cancelled; a connection    *)
(* goes down once, and its socket is closed by connectDestroyed.  To       *)
(* cancel a timer that is not there is undefined behaviour (`misuse`) and  *)
(* ends the model.                                                         *)
(***************************************************************************)
EXTENDS Connector

CONSTANT SlowRounds    \* can a round of the loop outlast kInitRetryDelayMs?

ASSUME RoundsAssumption == SlowRounds \in BOOLEAN

VARIABLES
    retry_, clientConnect_,    \* TcpClient::retry_, TcpClient::connect_
    connection_,               \* is there a connection?
    restarting,                \* removeConnection has read connect_ and goes on to restart()
    dying,                     \* connections that are down and not yet destroyed
    pc, todo, batch,           \* the loop thread; what poll reported; functors of this round
    stopping,                  \* stop(): how far it is
    captured,                  \* the timer it cancels: timer_'s, or one that is "gone"
    started, served,           \* history: connect() was called; there has been a connection
    overridden,                \* history: restart() went ahead although stop() was called
    misuse

clientVars == <<retry_, clientConnect_, connection_, restarting, dying>>
loopVars == <<pc, todo, batch>>
stopVars == <<stopping, captured>>
history == <<started, served, overridden>>
vars == <<connectorVars, clientVars, loopVars, stopVars, history, misuse>>

Init ==
    /\ ConnectorInit
    /\ retry_ \in BOOLEAN /\ clientConnect_ = TRUE
    /\ connection_ = FALSE /\ restarting = FALSE /\ dying = 0
    /\ pc = "poll" /\ todo = {} /\ batch = 0
    /\ stopping = "no" /\ captured = "none"
    /\ started = FALSE /\ served = FALSE /\ overridden = FALSE /\ misuse = FALSE

At(place) == pc = place /\ ~restarting /\ ~misuse

-----------------------------------------------------------------------------
(* The loop thread.                                                        *)

(* External: the attempt comes to an end. *)
Resolve ==
    /\ ~misuse /\ attempt = "pending" /\ attempt' \in {"ok", "self", "fail"}
    /\ UNCHANGED <<connect_, state_, channel_, retryDelayMs_, timer_, sockets, pendingFunctors_, gaveUp,
                   failed, clientVars, loopVars, stopVars, history, misuse>>

(* External: the peer resets the connection before the handler has seen it. *)
PeerResets ==
    /\ ~misuse /\ attempt = "ok" /\ attempt' = "fail"
    /\ UNCHANGED <<connect_, state_, channel_, retryDelayMs_, timer_, sockets, pendingFunctors_, gaveUp,
                   failed, clientVars, loopVars, stopVars, history, misuse>>

(* External: the delay of the retry timer is over. *)
TimerDue ==
    /\ ~misuse /\ timer_ = "waiting" /\ timer_' = "due"
    /\ UNCHANGED <<connect_, state_, channel_, retryDelayMs_, attempt, sockets, pendingFunctors_, gaveUp,
                   failed, clientVars, loopVars, stopVars, history, misuse>>

(* External: what epoll reports for the connector's channel. *)
Reports ==
    CASE attempt = "fail" -> {"error", "write"}
      [] attempt \in {"ok", "self"} -> {"write"}
      [] OTHER -> {}

(* poll() returns.  The timerfd belongs to all timers of the loop: it is   *)
(* also reported when another one is due, and the retry timer then runs if *)
(* it is due by the time of the handler.                                   *)
Poll ==
    /\ At("poll") /\ pc' = "events"
    /\ \E down \in SUBSET (IF connection_ THEN {"down"} ELSE {}) :
          todo' = (IF timer_ = "due" \/ SlowRounds THEN {"timer"} ELSE {}) \cup Reports \cup down
    /\ UNCHANGED <<connectorVars, clientVars, batch, stopVars, history, misuse>>

Take(e) == At("events") /\ e \in todo /\ todo' = todo \ {e} /\ UNCHANGED <<pc, batch>>

ErrorEvent ==
    /\ Take("error") /\ HandleError
    /\ UNCHANGED <<clientVars, stopVars, history, misuse>>

(* Channel::handleEvent calls handleError() before handleWrite(). *)
WriteEvent ==
    /\ Take("write") /\ "error" \notin todo
    /\ HandleWriteFailed \/ HandleWriteStopped \/ HandleWriteLate
    /\ UNCHANGED <<clientVars, stopVars, history, misuse>>

(* newConnection() *)
NewConnection ==
    /\ Take("write") /\ "error" \notin todo /\ HandleWriteConnected
    /\ connection_' = TRUE /\ served' = TRUE
    /\ UNCHANGED <<retry_, clientConnect_, restarting, dying, stopVars, started, overridden, misuse>>

(* A new timer in timer_: what stop() has read before is another one. *)
Recapture == captured' = IF captured = "timer_" /\ timer_' = "waiting" THEN "gone" ELSE captured

(* TimerQueue runs the retry timer and deletes it. *)
RetryTimer ==
    /\ Take("timer")
    /\ IF timer_ # "due" THEN UNCHANGED <<connectorVars, captured>>
       ELSE /\ IF connect_ THEN StartInLoop(state_, retryDelayMs_, "gone") ELSE DoNotConnect("gone")
            /\ Recapture /\ UNCHANGED <<connect_, pendingFunctors_>>
    /\ UNCHANGED <<clientVars, stopping, history, misuse>>

(* A forceClose() of a connection that is down comes too late. *)
TooLate(queue) == [i \in DOMAIN queue |-> IF queue[i] = "forceClose" THEN "late" ELSE queue[i]]

(* Seeded fault: the client does not ask for a new connection. *)
RemoveConnection_NoRestart(queue) ==
    /\ connection_' = FALSE /\ dying' = dying + 1 /\ restarting' = FALSE
    /\ pendingFunctors_' = Append(TooLate(queue), "connectDestroyed")
    /\ UNCHANGED <<connect_, state_, channel_, retryDelayMs_, timer_, attempt, sockets, gaveUp, failed,
                   retry_, clientConnect_, stopVars, history, misuse>>

(* removeConnection(), up to the test of retry_ and connect_. *)
RemoveConnection(queue) ==
    /\ connection_' = FALSE /\ dying' = dying + 1 /\ restarting' = (retry_ /\ clientConnect_)
    /\ pendingFunctors_' = Append(TooLate(queue), "connectDestroyed")
    /\ UNCHANGED <<connect_, state_, channel_, retryDelayMs_, timer_, attempt, sockets, gaveUp, failed,
                   retry_, clientConnect_, stopVars, history, misuse>>

ConnectionDown ==
    /\ Take("down") /\ connection_
    /\ RemoveConnection(pendingFunctors_)

(* The rest of removeConnection(). *)
RestartConnector ==
    /\ restarting /\ ~misuse /\ restarting' = FALSE
    /\ Restart /\ Recapture
    /\ overridden' = (overridden \/ stopping # "no")
    /\ UNCHANGED <<retry_, clientConnect_, connection_, dying, loopVars, stopping, started, served, misuse>>

EndEvents ==
    /\ At("events") /\ todo = {} /\ pc' = "functors" /\ batch' = Len(pendingFunctors_)
    /\ UNCHANGED <<connectorVars, clientVars, todo, stopVars, history, misuse>>

(* cancelTimer(timer), on the loop thread.  Before the retry timer is run, *)
(* that may be in the callback of another timer that expired with it:      *)
(* handleRead then comes to a timer that is deleted.                       *)
Cancel(timer) ==
    /\ \/ misuse' = ~(timer = "timer_" /\ timer_ \in {"waiting", "due"})
       \/ "timer" \in todo /\ timer_ = "due" /\ misuse' = TRUE
    /\ timer_' = "gone"

Functor(f) ==
    /\ At("functors") /\ batch > 0 /\ batch' = batch - 1
    /\ Head(pendingFunctors_) = f
    /\ UNCHANGED <<pc, todo>>

Done == pendingFunctors_' = Tail(pendingFunctors_)

RunStart ==
    /\ Functor("startInLoop") /\ Done
    /\ IF connect_ THEN StartInLoop(state_, retryDelayMs_, timer_) ELSE DoNotConnect(timer_)
    /\ Recapture
    /\ UNCHANGED <<connect_, clientVars, stopping, history, misuse>>

RunCancel ==
    /\ Functor("cancel") /\ Done /\ Cancel(captured)
    /\ UNCHANGED <<connect_, state_, channel_, retryDelayMs_, attempt, sockets, gaveUp, failed, clientVars,
                   stopVars, history>>

RunResetChannel ==
    /\ Functor("resetChannel") /\ Done /\ channel_' = "null"
    /\ UNCHANGED <<connect_, state_, retryDelayMs_, timer_, attempt, sockets, gaveUp, failed, clientVars,
                   stopVars, history, misuse>>

(* connectDestroyed(), after which the last pointer to the connection goes. *)
RunConnectDestroyed ==
    /\ Functor("connectDestroyed") /\ Done
    /\ dying' = dying - 1 /\ sockets' = sockets - 1
    /\ UNCHANGED <<connect_, state_, channel_, retryDelayMs_, timer_, attempt, gaveUp, failed,
                   retry_, clientConnect_, connection_, restarting, stopVars, history, misuse>>

RunForceClose ==
    \/ Functor("forceClose") /\ RemoveConnection(Tail(pendingFunctors_))
    \/ /\ Functor("late") /\ Done
       /\ UNCHANGED <<connect_, state_, channel_, retryDelayMs_, timer_, attempt, sockets, gaveUp, failed,
                      clientVars, stopVars, history, misuse>>

EndFunctors ==
    /\ At("functors") /\ batch = 0 /\ pc' = "poll"
    /\ UNCHANGED <<connectorVars, clientVars, todo, batch, stopVars, history, misuse>>

LoopStep ==
    \/ Poll \/ ErrorEvent \/ WriteEvent \/ NewConnection \/ RetryTimer \/ ConnectionDown
    \/ RestartConnector \/ EndEvents
    \/ RunStart \/ RunCancel \/ RunResetChannel \/ RunConnectDestroyed \/ RunForceClose \/ EndFunctors

-----------------------------------------------------------------------------
(* The application.                                                        *)

(* Code of the application that runs on the loop thread. *)
UserCode == At("events") \/ At("functors")

(* connect() on the loop thread, and on another one. *)
StartHere ==
    /\ UserCode /\ ~started /\ started' = TRUE /\ connect_' = TRUE
    /\ StartInLoop(state_, retryDelayMs_, timer_)
    /\ UNCHANGED <<pendingFunctors_, clientVars, loopVars, stopVars, served, overridden, misuse>>

Start ==
    /\ ~misuse /\ ~started /\ started' = TRUE /\ connect_' = TRUE
    /\ pendingFunctors_' = Append(pendingFunctors_, "startInLoop")
    /\ UNCHANGED <<state_, channel_, retryDelayMs_, timer_, attempt, sockets, gaveUp, failed,
                   clientVars, loopVars, stopVars, served, overridden, misuse>>

(* stop() on the loop thread. *)
StopHere ==
    /\ UserCode /\ started /\ stopping = "no" /\ stopping' = "done"
    /\ clientConnect_' = FALSE /\ connect_' = FALSE
    /\ Cancel("timer_")
    /\ UNCHANGED <<state_, channel_, retryDelayMs_, attempt, sockets, pendingFunctors_, gaveUp, failed,
                   retry_, connection_, restarting, dying, loopVars, captured, history>>

(* stop() on another thread: two flags, neither of them atomic, and then   *)
(* timer_ are accessed while the loop goes on.                             *)
StopClient ==
    /\ ~misuse /\ started /\ stopping = "no" /\ stopping' = "client"
    /\ clientConnect_' = FALSE
    /\ UNCHANGED <<connectorVars, retry_, connection_, restarting, dying, loopVars, captured, history, misuse>>

StopConnector ==
    /\ ~misuse /\ stopping = "client" /\ stopping' = "connector"
    /\ connect_' = FALSE
    /\ UNCHANGED <<state_, channel_, retryDelayMs_, timer_, attempt, sockets, pendingFunctors_, gaveUp,
                   failed, clientVars, loopVars, captured, history, misuse>>

StopTimer ==
    /\ ~misuse /\ stopping = "connector" /\ stopping' = "done"
    /\ captured' = "timer_" /\ pendingFunctors_' = Append(pendingFunctors_, "cancel")
    /\ UNCHANGED <<connect_, state_, channel_, retryDelayMs_, timer_, attempt, sockets, gaveUp, failed,
                   clientVars, loopVars, history, misuse>>

(* disconnect(): of the shutdown() of the connection, what matters here is *)
(* that the connection goes down, which it may at any time.                *)
Disconnect ==
    /\ ~misuse /\ started /\ clientConnect_ /\ clientConnect_' = FALSE
    /\ UNCHANGED <<connectorVars, retry_, connection_, restarting, dying, loopVars, stopVars, history, misuse>>

(* forceClose() of the connection.  Calling it again changes nothing. *)
ForceClose ==
    /\ ~misuse /\ connection_ /\ \A i \in DOMAIN pendingFunctors_ : pendingFunctors_[i] # "forceClose"
    /\ pendingFunctors_' = Append(pendingFunctors_, "forceClose")
    /\ UNCHANGED <<connect_, state_, channel_, retryDelayMs_, timer_, attempt, sockets, gaveUp, failed,
                   clientVars, loopVars, stopVars, history, misuse>>

UserStep ==
    \/ StartHere \/ Start \/ StopHere \/ StopClient \/ StopConnector \/ StopTimer
    \/ Disconnect \/ ForceClose

Next == LoopStep \/ UserStep \/ Resolve \/ PeerResets \/ TimerDue

Spec == Init /\ [][Next]_vars

(* A peer that is tried again and again is reached at some time, accepts,  *)
(* and stops resetting what it has accepted.                               *)
PeerAccepts ==
    /\ SF_vars(LoopStep /\ attempt' = "pending")
    /\ SF_vars(Resolve /\ attempt' = "ok")
    /\ <>[][~PeerResets]_vars

(* The loop keeps running, an attempt comes to an end, and time goes on. *)
FairSpec ==
    Spec /\ PeerAccepts /\ WF_vars(LoopStep) /\ WF_vars(Resolve) /\ WF_vars(TimerDue)

-----------------------------------------------------------------------------
(* The assertions of Connector hold: an attempt starts in kDisconnected    *)
(* and without a channel, and the handlers find the state they expect.     *)
AssertsHold == failed = {}

(* Every open socket has one owner: the attempt under way, the connection, *)
(* or a connection that waits for connectDestroyed.                        *)
SocketsOwned ==
    sockets = (IF state_ = "kConnecting" THEN 1 ELSE 0) + (IF connection_ THEN 1 ELSE 0) + dying

(* There are never two efforts to get a connection at the same time; and   *)
(* while one is wanted and connect() has not given up, there is one: the   *)
(* functor of start(), a timer, an attempt under way, or a restart.        *)
Queued == \E i \in DOMAIN pendingFunctors_ : pendingFunctors_[i] = "startInLoop"
Efforts ==
    {e \in {"start", "timer", "attempt", "connection", "restart"} :
        \/ e = "start" /\ Queued
        \/ e = "timer" /\ timer_ \in {"waiting", "due"}
        \/ e = "attempt" /\ state_ = "kConnecting"
        \/ e = "connection" /\ connection_
        \/ e = "restart" /\ restarting}

ConnectionWanted == started /\ clientConnect_ /\ (retry_ \/ ~served) /\ ~gaveUp

OneEffort ==
    ~misuse => /\ \A e, f \in Efforts : e = f
               /\ ConnectionWanted => Efforts # {}

(* After stop() no connection is made any more, unless restart() was       *)
(* already on its way.                                                     *)
StopIsFinal == [][stopping = "done" /\ ~overridden => (connection_' => connection_)]_vars

(* A client that wants a connection gets one, if the peer accepts at some  *)
(* time: after an attempt that failed, and after a connection that was     *)
(* lost when retry is enabled.                                             *)
GetsConnected == ConnectionWanted ~> (connection_ \/ ~ConnectionWanted \/ misuse)
=============================================================================
