------------------------------ MODULE TcpServer ------------------------------
(***************************************************************************)
(* twnl/TcpServer.cc and Acceptor.cc with the pool of EventLoopThreadPool: *)
(* peers are accepted on the base loop, their connections live on the I/O  *)
(* loops, and the table of connections is kept by the base loop.  Every    *)
(* loop works in rounds: events, then the functors that are queued by then *)
(* (TaskQueue).  Of a connection there is what the server and the loops    *)
(* see; TcpConnection has the rest.  removeConnectionInLoop is bound to    *)
(* the server: if it runs when the server is gone, that is undefined       *)
(* behaviour (`misuse`) and ends the model.                                *)
(***************************************************************************)
EXTENDS EventLoopThreadPool, Functions

CONSTANTS
    MaxConns,      \* bound: how many peers connect
    MaxFds,        \* how many connections the process has descriptors for
    Patient        \* is the server destructed only when all its threads are in loop()?

ASSUME ServerAssumption == MaxConns \in Nat /\ MaxFds \in Nat /\ Patient \in BOOLEAN

VARIABLES
    server,            \* "new", "starting", "listening", "joining" (in the destructor), "gone"
    backlog, peers,    \* external: connections to accept; peers that have connected
    acceptReady,       \* poll has reported the listening socket
    listenEvents, edge,    \* what the listening socket is registered for; has epoll news of it?
    nextConnId_, connections_,
    state_, loopOf,    \* state of each connection, and its loop
    connEvents,        \* what each connection is registered for
    pendingFunctors_, batch,
    failed, misuse     \* history: assertions that did not hold; undefined behaviour

Conns == 1..MaxConns

acceptVars == <<backlog, peers, acceptReady, listenEvents, edge>>
connVars == <<nextConnId_, connections_, state_, loopOf, connEvents>>
queueVars == <<pendingFunctors_, batch>>
vars == <<poolVars, pc, server, acceptVars, connVars, queueVars, failed, misuse>>

Init ==
    /\ PoolInit /\ server = "new"
    /\ backlog = 0 /\ peers = 0 /\ acceptReady = FALSE /\ listenEvents = {} /\ edge = FALSE
    /\ nextConnId_ = 1 /\ connections_ = {}
    /\ state_ = [c \in Conns |-> "none"] /\ loopOf = [c \in Conns |-> 0]
    /\ connEvents = [c \in Conns |-> {}]
    /\ pendingFunctors_ = [l \in Loops |-> <<>>] /\ batch = [l \in Loops |-> 0]
    /\ failed = {} /\ misuse = FALSE

(* The base thread is in a round of its loop, not in start() or in the     *)
(* destructor, where it blocks.                                            *)
Blocked == server \in {"starting", "joining"}

At(l, place) == pc[l] = place /\ ~misuse /\ ~(l = 0 /\ Blocked)

Push(queue, l, op, c) == [queue EXCEPT ![l] = Append(@, <<op, c>>)]

Failing(holds, assertion) == IF holds THEN {} ELSE {assertion}

-----------------------------------------------------------------------------
(* start()                                                                 *)

Start ==
    /\ At(0, "events") /\ server = "new" /\ server' = "starting"
    /\ UNCHANGED <<poolVars, pc, acceptVars, connVars, queueVars, failed, misuse>>

StartThread ==
    /\ server = "starting" /\ (CreateThread \/ StartLoopReturns)
    /\ UNCHANGED <<server, acceptVars, connVars, queueVars, failed, misuse>>

(* Seeded fault: the server listens before its pool is complete. *)
Listen_Early ==
    /\ server = "starting" /\ server' = "listening"
    /\ listenEvents' = kReadEvent
    /\ UNCHANGED <<poolVars, pc, backlog, peers, acceptReady, edge, connVars, queueVars, failed, misuse>>

(* The pool is complete: Acceptor::listen(). *)
Listen ==
    /\ server = "starting" /\ Len(loops_) = numThreads_ /\ server' = "listening"
    /\ listenEvents' = kReadEvent
    /\ UNCHANGED <<poolVars, pc, backlog, peers, acceptReady, edge, connVars, queueVars, failed, misuse>>

-----------------------------------------------------------------------------
(* The listening socket.                                                   *)

(* External: a peer connects, or gives up before it is accepted. *)
PeerArrives ==
    /\ server \in {"listening", "joining"} /\ peers < MaxConns /\ ~misuse
    /\ peers' = peers + 1 /\ backlog' = backlog + 1 /\ edge' = TRUE
    /\ UNCHANGED <<poolVars, pc, server, acceptReady, listenEvents, connVars, queueVars, failed, misuse>>

PeerLeaves ==
    /\ backlog > 0 /\ backlog' = backlog - 1 /\ ~misuse
    /\ UNCHANGED <<poolVars, pc, server, peers, acceptReady, listenEvents, edge, connVars, queueVars, failed, misuse>>

Accepting == At(0, "events") /\ server = "listening" /\ acceptReady /\ acceptReady' = FALSE

OutOfFds == Cardinality({c \in Conns : state_[c] \notin {"none", "destroyed", "dropped"}}) >= MaxFds

(* Acceptor::handleRead and TcpServer::newConnection; connectEstablished   *)
(* is run at once if the connection stays on the base loop.                *)
NewConnection ==
    /\ Accepting /\ backlog > 0 /\ ~OutOfFds /\ backlog' = backlog - 1
    /\ LET c == nextConnId_
           l == getNextLoop
       IN  /\ nextConnId_' = c + 1 /\ connections_' = connections_ \cup {c}
           /\ loopOf' = [loopOf EXCEPT ![c] = l]
           /\ \/ /\ l = 0 /\ state_' = [state_ EXCEPT ![c] = "kConnected"]
                 /\ connEvents' = [connEvents EXCEPT ![c] = kReadEvent]
                 /\ UNCHANGED pendingFunctors_
              \/ /\ l # 0 /\ state_' = [state_ EXCEPT ![c] = "kConnecting"]
                 /\ pendingFunctors_' = Push(pendingFunctors_, l, "connectEstablished", c)
                 /\ UNCHANGED connEvents
    /\ Advance
    /\ UNCHANGED <<numThreads_, loops_, loop_, quit_, told, setupVars, pc, server, peers, listenEvents, edge, batch, failed, misuse>>

(* Seeded fault: the peer is left in the backlog. *)
Refuse_Keep ==
    /\ Accepting /\ backlog > 0 /\ OutOfFds
    /\ UNCHANGED <<poolVars, pc, server, backlog, peers, listenEvents, edge, connVars, queueVars, failed, misuse>>

(* EMFILE: the spare descriptor is given up for a moment, to accept the    *)
(* peer and close the connection.  No other thread is assumed to take the  *)
(* descriptor in that moment.                                              *)
Refuse ==
    /\ Accepting /\ backlog > 0 /\ OutOfFds /\ backlog' = backlog - 1
    /\ UNCHANGED <<poolVars, pc, server, peers, listenEvents, edge, connVars, queueVars, failed, misuse>>

(* EMFILE again, but errno is tested after a LOG_WARN that may have changed *)
(* it (localtime(), or a write of stdout that fails): nothing is done, and *)
(* the peer is left for the next round.                                    *)
RefuseMissed ==
    /\ Accepting /\ backlog > 0 /\ OutOfFds
    /\ UNCHANGED <<poolVars, pc, server, backlog, peers, listenEvents, edge, connVars, queueVars, failed, misuse>>

(* The peer has left before accept(). *)
AcceptFails ==
    /\ Accepting /\ backlog = 0
    /\ UNCHANGED <<poolVars, pc, server, backlog, peers, listenEvents, edge, connVars, queueVars, failed, misuse>>

-----------------------------------------------------------------------------
(* Connections.                                                            *)

(* Seeded fault: the table keeps the connection. *)
RemoveConnectionInLoop_Keep(queue, c) ==
    /\ pendingFunctors_' = Push(queue, loopOf[c], "connectDestroyed", c)
    /\ UNCHANGED connections_

(* Seeded fault: the connection's loop is not told. *)
RemoveConnectionInLoop_Forget(queue, c) ==
    connections_' = connections_ \ {c} /\ pendingFunctors_' = queue

RemoveConnectionInLoop(queue, c) ==
    /\ connections_' = connections_ \ {c}
    /\ pendingFunctors_' = Push(queue, loopOf[c], "connectDestroyed", c)

(* handleClose() and removeConnection(), in an event of the connection's   *)
(* own loop or in a functor of forceClose().                               *)
Close(c) ==
    /\ state_[c] = "kConnected" /\ (At(loopOf[c], "events") \/ At(loopOf[c], "functors"))
    /\ state_' = [state_ EXCEPT ![c] = "kDisconnected"]
    /\ \/ loopOf[c] = 0 /\ RemoveConnectionInLoop(pendingFunctors_, c)
       \/ /\ loopOf[c] # 0 /\ pendingFunctors_' = Push(pendingFunctors_, 0, "removeConnectionInLoop", c)
          /\ UNCHANGED connections_
    /\ UNCHANGED <<poolVars, pc, server, acceptVars, nextConnId_, loopOf, connEvents, batch, failed, misuse>>

(* The end of the events: doPendingFunctors takes what is queued. *)
EndEvents(l) ==
    /\ At(l, "events") /\ (l = 0 => ~acceptReady)
    /\ pc' = [pc EXCEPT ![l] = "functors"] /\ batch' = [batch EXCEPT ![l] = Len(pendingFunctors_[l])]
    /\ UNCHANGED <<poolVars, server, acceptVars, connVars, pendingFunctors_, failed, misuse>>

Functor(l, op, c) ==
    /\ At(l, "functors") /\ batch[l] > 0 /\ batch' = [batch EXCEPT ![l] = @ - 1]
    /\ Head(pendingFunctors_[l]) = <<op, c>>

Rest(l) == [pendingFunctors_ EXCEPT ![l] = Tail(@)]

ConnectEstablished(l, c) ==
    /\ Functor(l, "connectEstablished", c) /\ pendingFunctors_' = Rest(l)
    /\ failed' = failed \cup Failing(state_[c] = "kConnecting", "connectEstablished: state")
    /\ state_' = [state_ EXCEPT ![c] = "kConnected"] /\ connEvents' = [connEvents EXCEPT ![c] = kReadEvent]
    /\ UNCHANGED <<poolVars, pc, server, acceptVars, nextConnId_, connections_, loopOf, misuse>>

RunRemoveConnection(c) ==
    /\ Functor(0, "removeConnectionInLoop", c)
    /\ \/ server # "gone" /\ RemoveConnectionInLoop(Rest(0), c) /\ UNCHANGED misuse
       \/ server = "gone" /\ misuse' = TRUE /\ UNCHANGED <<connections_, pendingFunctors_>>
    /\ UNCHANGED <<poolVars, pc, server, acceptVars, nextConnId_, state_, loopOf, connEvents, failed>>

(* connectDestroyed(), after which the last pointer to the connection goes. *)
ConnectDestroyed(l, c) ==
    /\ Functor(l, "connectDestroyed", c) /\ pendingFunctors_' = Rest(l)
    /\ failed' = failed \cup Failing(state_[c] \in {"kConnected", "kDisconnected"}, "connectDestroyed: once")
    /\ state_' = [state_ EXCEPT ![c] = "destroyed"]
    /\ UNCHANGED <<poolVars, pc, server, acceptVars, nextConnId_, connections_, loopOf, connEvents, misuse>>

(* poll() reports the listening socket if a peer waits: level triggered,   *)
(* as long as one does, edge triggered, if one has come since.             *)
ListenReported ==
    /\ server = "listening" /\ backlog > 0
    /\ "IN" \in listenEvents /\ ("ET" \in listenEvents => edge)

(* The end of a round, and the poll() of the next one. *)
EndFunctors(l) ==
    /\ At(l, "functors") /\ batch[l] = 0 /\ TestQuit(l)
    /\ \/ l = 0 /\ acceptReady' = ListenReported /\ edge' = FALSE
       \/ l # 0 /\ UNCHANGED <<acceptReady, edge>>
    /\ UNCHANGED <<poolVars, server, backlog, peers, listenEvents, connVars, queueVars, failed, misuse>>

-----------------------------------------------------------------------------
(* Threads.                                                                *)

ThreadStarts(l) ==
    /\ Build(l) \/ Publish(l) \/ EnterLoop(l)
    /\ UNCHANGED <<server, acceptVars, connVars, queueVars, failed, misuse>>

(* The thread ends, and its loop goes with the functors that were left: a  *)
(* connection that only they kept is dropped without connectDestroyed.     *)
ThreadEnds(l) ==
    /\ EndThread(l)
    /\ state_' = [c \in Conns |->
                    IF \E i \in DOMAIN pendingFunctors_[l] : pendingFunctors_[l][i][2] = c
                    THEN "dropped" ELSE state_[c]]
    /\ pendingFunctors_' = [pendingFunctors_ EXCEPT ![l] = <<>>]
    /\ UNCHANGED <<server, acceptVars, nextConnId_, connections_, loopOf, connEvents, batch, failed, misuse>>

(* ~TcpServer, between two rounds of the base loop: connectDestroyed for   *)
(* every connection, at once for those of the base loop.  The order is the *)
(* one of the names in the table, of which nothing is assumed.             *)
DestroyAll(l) ==
    LET mine == {c \in connections_ : loopOf[c] = l}
        order == CHOOSE s \in Bijection(1..Cardinality(mine), mine) : TRUE
    IN  [i \in 1..Cardinality(mine) |-> <<"connectDestroyed", order[i]>>]

(* Seeded fault: the connections are left to the pool. *)
Destruct_Forget ==
    /\ At(0, "functors") /\ server \in {"new", "listening"} /\ server' = "joining"
    /\ Patient => \A l \in IoLoops : pc[l] \notin {"building", "built", "published"}
    /\ connections_' = {}
    /\ UNCHANGED <<poolVars, pc, acceptVars, nextConnId_, state_, loopOf, connEvents, queueVars, failed, misuse>>

Destruct ==
    /\ At(0, "functors") /\ server \in {"new", "listening"} /\ server' = "joining"
    /\ Patient => \A l \in IoLoops : pc[l] \notin {"building", "built", "published"}
    /\ connections_' = {}
    /\ pendingFunctors_' = [l \in Loops |-> pendingFunctors_[l] \o IF l = 0 THEN <<>> ELSE DestroyAll(l)]
    /\ state_' = [c \in Conns |-> IF c \in connections_ /\ loopOf[c] = 0 THEN "destroyed" ELSE state_[c]]
    /\ UNCHANGED <<poolVars, pc, acceptVars, nextConnId_, loopOf, connEvents, batch, failed, misuse>>

(* The members go: the pool, thread by thread, and then the acceptor. *)
Quit(l) ==
    /\ server = "joining" /\ QuitThread(l)
    /\ UNCHANGED <<server, acceptVars, connVars, queueVars, failed, misuse>>

Gone ==
    /\ server = "joining" /\ AllJoined /\ server' = "gone" /\ backlog' = 0
    /\ UNCHANGED <<poolVars, pc, peers, acceptReady, listenEvents, edge, connVars, queueVars, failed, misuse>>

-----------------------------------------------------------------------------
CreateBase ==
    /\ BuildBase
    /\ UNCHANGED <<server, acceptVars, connVars, queueVars, failed, misuse>>

BaseStep ==
    \/ CreateBase \/ StartThread \/ Listen \/ NewConnection \/ Refuse \/ RefuseMissed \/ AcceptFails
    \/ EndEvents(0) \/ EndFunctors(0)
    \/ \E c \in Conns : ConnectEstablished(0, c) \/ RunRemoveConnection(c) \/ ConnectDestroyed(0, c)
    \/ Gone \/ \E l \in IoLoops : Quit(l)

ThreadStep(l) ==
    \/ ThreadStarts(l) \/ EndEvents(l) \/ EndFunctors(l) \/ ThreadEnds(l)
    \/ \E c \in Conns : ConnectEstablished(l, c) \/ ConnectDestroyed(l, c)

Environment == Start \/ Destruct \/ PeerArrives \/ PeerLeaves \/ \E c \in Conns : Close(c)

Next == BaseStep \/ (\E l \in IoLoops : ThreadStep(l)) \/ Environment

Spec == Init /\ [][Next]_vars

(* Every thread keeps running, and logging does not change errno for ever. *)
FairSpec ==
    /\ Spec /\ WF_vars(BaseStep) /\ SF_vars(Refuse)
    /\ \A l \in IoLoops : WF_vars(ThreadStep(l))

-----------------------------------------------------------------------------
(* The assertions about connections hold: connectEstablished comes first   *)
(* and connectDestroyed last, each of them once.                           *)
AssertsHold == failed = {}

(* How often a functor is queued for a connection. *)
Queued(l, op, c) == Cardinality({i \in DOMAIN pendingFunctors_[l] : pendingFunctors_[l][i] = <<op, c>>})

(* A connection that exists is kept by exactly one of the table and a      *)
(* functor that will destroy it, on its own loop.  In the table of a       *)
(* server that runs, it is down exactly if the base loop has been told so, *)
(* once.                                                                   *)
OneKeeper ==
    ~misuse =>
        \A c \in Conns :
            LET inTable == IF c \in connections_ THEN 1 ELSE 0
            IN  /\ inTable + Queued(loopOf[c], "connectDestroyed", c)
                      = (IF state_[c] \in {"none", "destroyed", "dropped"} THEN 0 ELSE 1)
                /\ c \in connections_ =>
                      Queued(0, "removeConnectionInLoop", c) = (IF state_[c] = "kDisconnected" THEN 1 ELSE 0)

(* getNextLoop deals connections out evenly, and to the first loop first. *)
Dealt(l) == Cardinality({c \in Conns : c < nextConnId_ /\ loopOf[c] = l})

FairShare ==
    \A i, j \in DOMAIN loops_ : i < j => Dealt(loops_[i]) - Dealt(loops_[j]) \in {0, 1}

(* The pool hands out loops whose threads have built them and that can be  *)
(* woken, from the moment the server listens until its destructor, and by  *)
(* turns evenly.                                                           *)
LoopsUsable ==
    /\ FairShare
    /\ server = "listening" =>
        \A i \in DOMAIN loops_ : loop_[loops_[i]] /\ "IN" \in wakeupEvents[loops_[i]]

(* The masks are static and every loop that is built sets them again; the  *)
(* listening socket and the connections are registered with the masks that *)
(* isReading, isWriting and isET go by afterwards.                         *)
MasksAgree ==
    /\ server = "listening" => listenEvents = kReadEvent
    /\ \A c \in Conns : state_[c] = "kConnected" => connEvents[c] = kReadEvent

(* A peer that waits in the backlog is accepted or refused, also when the  *)
(* process has run out of descriptors: for every base loop that is level   *)
(* triggered, and for any base loop when there is a pool, whose loops have *)
(* set the masks to level triggered.                                       *)
PeersServed ==
    (server = "listening" /\ backlog > 0 /\ (baseMode = "LT" \/ numThreads_ > 0))
        ~> (backlog = 0 \/ server # "listening")

(* A connection that is down is destroyed, across two loops. *)
DownIsDestroyed == \A c \in Conns : (state_[c] = "kDisconnected") ~> (state_[c] # "kDisconnected")

(* ~TcpServer comes to an end, and so do all threads of the pool. *)
DestructorReturns == (server = "joining") ~> (server = "gone")

(* An EventLoop deals with timers and with work from other threads         *)
(* (EventLoop.h:5): it hears its timerfd and its eventfd.                  *)
LoopsListen ==
    \A l \in Loops : pc[l] \notin {"none", "building"} => "IN" \in timerEvents[l] \cap wakeupEvents[l]
=============================================================================
