---------------------------- MODULE TcpConnection ----------------------------
(***************************************************************************)
(* twnl/TcpConnection.cc: the life of one connection, from the moment      *)
(* TcpServer::newConnection (or TcpClient::newConnection) has created it   *)
(* until its last shared pointer is gone.  Four parties act on it:         *)
(*   - its I/O loop: poll, handleEvent, then doPendingFunctors (EventLoop  *)
(*     shows that a queued functor is run, once and in order, so only the  *)
(*     queue and the batch being run appear here);                         *)
(*   - the base loop, which owns the server's table of connections;        *)
(*   - other threads of the application that hold a TcpConnectionPtr;      *)
(*   - the kernel and the peer (external), through the socket.             *)
(* A user callback is a state of its own (`cb`), in which the application  *)
(* may call any operation of `Ops` on the connection before it returns.    *)
(* A message is a sequence of MsgLen bytes <<message, position>>.          *)
(***************************************************************************)
EXTENDS Channel, Integers, Sequences

CONSTANTS
    Msgs, MsgLen,      \* what is sent: each message at most once
    HighWaterMark,     \* highWaterMark_
    Users,             \* application threads other than the loops
    Modes,             \* what initDefaultEvent may have been called with
    Ops, UserOps,      \* operations called in callbacks, for each mode, and by Users
    OneLoop,           \* is the connection's loop also the base loop?
    Careful,           \* does the application start and stop reading only while it is connected?
    CanDrop,           \* may the application give up its TcpConnectionPtr?
    CanDestroy,        \* may TcpServer be destructed?
    MaxPending,        \* bound: functors the application queues, removals the base loop is behind
    MaxCalls,          \* bound: calls that other threads make
    MaxTrace,          \* bound: how many events `trace` remembers
    None               \* no message

ASSUME TcpConnectionAssumption ==
    /\ MsgLen \in Nat \ {0} /\ HighWaterMark \in Nat /\ MaxPending \in Nat /\ MaxTrace \in Nat /\ MaxCalls \in Nat
    /\ OneLoop \in BOOLEAN /\ Careful \in BOOLEAN /\ CanDrop \in BOOLEAN /\ CanDestroy \in BOOLEAN
    /\ None \notin Msgs
    /\ Modes \subseteq {"LT", "ET"}

VARIABLES
    state_, reading_, channel, outputBuffer_,
    sock,                  \* external: the kernel's socket and the peer
    pc, todo, cb,          \* the I/O loop: phase, handlers left, callback running
    pendingFunctors_,
    functors, next,        \* the batch doPendingFunctors runs, and how far it is
    inTable, baseQueue,    \* the server's table; removeConnectionInLoop calls queued
    server,                \* is the TcpServer alive?
    kept,                  \* does the application keep a TcpConnectionPtr?
    call, calls,           \* the call each other thread is in, and how many there were
    unsent, accepted, lost,    \* history: messages not yet sent, taken, thrown away
    trace, failed,             \* history: UP, DOWN, REMOVED; broken assertions
    tame                       \* history: other threads only sent, through a pointer that is kept

connVars == <<state_, reading_, channel, outputBuffer_>>
batchVars == <<functors, next>>
serverVars == <<inTable, baseQueue, server>>
appVars == <<kept, call, calls, tame>>
sendVars == <<unsent, accepted, lost>>
vars == <<connVars, sock, pc, todo, cb, pendingFunctors_, batchVars, serverVars,
          appVars, sendVars, trace, failed, mode_>>

StateE == {"kConnecting", "kConnected", "kDisconnected", "kDisconnecting"}

Bytes(m) == [i \in 1..MsgLen |-> <<m, i>>]

(* Seeded fault: removeConnectionInLoop binds a raw pointer. *)
SharedFunctors_RawDestroy == {"connectEstablished", "forceCloseInLoop",
                              "writeCompleteCallback", "highWaterMarkCallback"}

(* Functors bound to shared_from_this() keep the object alive; those bound *)
(* to the raw this do not.                                                 *)
RawFunctors == {"sendInLoop", "shutdownInLoop", "startReadInLoop", "stopReadInLoop"}
SharedFunctors == {"connectEstablished", "connectDestroyed", "forceCloseInLoop",
                   "writeCompleteCallback", "highWaterMarkCallback"}
Functor(f) == [fn |-> f, msg |-> None]

KeepsAlive(fs) == \E i \in DOMAIN fs : fs[i].fn \in SharedFunctors

(* Some shared pointer to the TcpConnection exists.  The vector of the     *)
(* batch being run keeps its functors until the batch ends, the caller of  *)
(* connectDestroyed has one, and so has a thread inside a call.            *)
Alive ==
    \/ inTable \/ kept \/ baseQueue > 0
    \/ KeepsAlive(pendingFunctors_) \/ KeepsAlive(functors)
    \/ cb = "destroyed" \/ \E u \in Users : call[u].op # "idle"

Idle == [op |-> "idle", msg |-> None]

(* newConnection has put the connection into the table.  The base loop     *)
(* calls connectEstablished itself when it is the I/O loop (and TcpClient  *)
(* always does), or queues it.                                             *)
Init ==
    /\ mode_ \in Modes
    /\ state_ = "kConnecting" /\ reading_ = TRUE
    /\ channel = NewChannel /\ outputBuffer_ = <<>>
    /\ sock = [wire |-> <<>>, full |-> FALSE, wrShut |-> FALSE,
               peer |-> "open", soErr |-> FALSE, unread |-> FALSE]
    /\ pc = IF OneLoop THEN "accept" ELSE "poll"
    /\ todo = {} /\ cb = "none"
    /\ pendingFunctors_ = IF OneLoop THEN <<>> ELSE <<Functor("connectEstablished")>>
    /\ functors = <<>> /\ next = 1
    /\ inTable = TRUE /\ baseQueue = 0 /\ server = TRUE
    /\ tame = TRUE /\ kept = FALSE /\ call = [u \in Users |-> Idle] /\ calls = 0
    /\ unsent = Msgs /\ accepted = <<>> /\ lost = {}
    /\ trace = <<>> /\ failed = {}

-----------------------------------------------------------------------------
(* The kernel's side of the socket (external).                             *)

(* write() of len bytes: -1 is EPIPE or ECONNRESET, 0 is EWOULDBLOCK. *)
WriteResults(len) ==
    IF sock.wrShut \/ sock.peer = "rst" THEN {-1}
    ELSE IF sock.full \/ len = 0 THEN {0} ELSE 1..len

Written(data, n) ==
    [sock EXCEPT !.wire = @ \o SubSeq(data, 1, n),
                 !.full = @ \/ n \in 0..(Len(data) - 1),
                 !.soErr = @ /\ n >= 0]

Ready ==
    {e \in {"IN", "OUT", "ERR", "HUP"} :
        CASE e = "IN"  -> sock.unread \/ sock.peer # "open"
          [] e = "OUT" -> ~sock.full \/ sock.wrShut \/ sock.peer = "rst"
          [] e = "ERR" -> sock.soErr
          [] e = "HUP" -> sock.peer = "rst" \/ (sock.peer = "fin" /\ sock.wrShut)}

PeerStep(s) ==
    /\ Alive /\ state_ # "kConnecting"
    /\ sock' = s
    /\ channel' = IF channel.index = "kAdded" THEN Touch(channel) ELSE channel
    /\ UNCHANGED <<state_, reading_, outputBuffer_, pc, todo, cb, pendingFunctors_, batchVars, mode_,
                   serverVars, appVars, sendVars, trace, failed>>

PeerSends == sock.peer = "open" /\ ~sock.unread /\ PeerStep([sock EXCEPT !.unread = TRUE])
PeerDrains == sock.full /\ sock.peer # "rst" /\ PeerStep([sock EXCEPT !.full = FALSE])
PeerCloses == sock.peer = "open" /\ PeerStep([sock EXCEPT !.peer = "fin"])
PeerResets == sock.peer # "rst" /\ PeerStep([sock EXCEPT !.peer = "rst", !.soErr = TRUE])

-----------------------------------------------------------------------------
(* TcpConnection's own operations, on the I/O loop's thread.  Each names   *)
(* the variables it may change; its callers leave the others alone.        *)

Log(event) == trace' = IF Len(trace) < MaxTrace THEN Append(trace, event) ELSE trace

Assertions == {"handleClose: state", "connectEstablished: state"}
UndefinedBehaviour == {"use after free", "removeConnection: server is gone",
                       "removeConnectionInLoop: server is gone"}

Require(holds, assertion) == failed' = IF holds THEN failed ELSE failed \cup {assertion}

(* queueInLoop of those functors whose condition holds. *)
Queue(fs) == pendingFunctors_' = pendingFunctors_ \o fs
When(cond, f) == IF cond THEN <<Functor(f)>> ELSE <<>>

CrossesHighWaterMark(oldLen, remaining) ==
    oldLen + remaining >= HighWaterMark /\ oldLen < HighWaterMark

NothingWaits == ~isWriting(channel) /\ outputBuffer_ = <<>>

(* Changes channel, outputBuffer_, sock, pendingFunctors_, accepted, lost. *)
(* The whole of the buffering sits inside the test of isWriting.           *)
SendInLoop(m) ==
    \/ /\ state_ = "kDisconnected"
       /\ UNCHANGED <<channel, outputBuffer_, sock, pendingFunctors_, accepted, lost>>
    \/ /\ state_ # "kDisconnected"
       /\ ~NothingWaits
       /\ lost' = lost \cup {m}
       /\ UNCHANGED <<channel, outputBuffer_, sock, pendingFunctors_, accepted>>
    \/ /\ state_ # "kDisconnected"
       /\ NothingWaits
       /\ \E n \in WriteResults(MsgLen) :
             LET rest == SubSeq(Bytes(m), n + 1, MsgLen)
                 buffered == n >= 0 /\ rest # <<>>
             IN  /\ sock' = Written(Bytes(m), n)
                 /\ outputBuffer_' = IF buffered THEN outputBuffer_ \o rest ELSE outputBuffer_
                 /\ channel' = IF buffered THEN enableWriting(channel) ELSE channel
                 /\ Queue(When(n = MsgLen, "writeCompleteCallback") \o
                          When(buffered /\ CrossesHighWaterMark(Len(outputBuffer_), Len(rest)),
                               "highWaterMarkCallback"))
                 /\ accepted' = IF n >= 0 THEN Append(accepted, m) ELSE accepted
       /\ UNCHANGED lost

(* Seeded fault: the write end is closed in front of buffered data. *)
ShutdownInLoop_NoCheck(s, ch) == [s EXCEPT !.wrShut = TRUE]

(* The socket after shutdownInLoop, with the channel as it is then. *)
ShutdownInLoop(s, ch) == IF isWriting(ch) THEN s ELSE [s EXCEPT !.wrShut = TRUE]

(* Seeded fault: handleWrite forgets that a shutdown is waiting. *)
AfterDrain_NoShutdown(s, ch) == s

(* handleWrite has drained the buffer: now the delayed shutdown. *)
AfterDrain(s, ch) == IF state_ = "kDisconnecting" THEN ShutdownInLoop(s, ch) ELSE s

(* Changes channel, reading_. *)
StartReadInLoop ==
    IF ~reading_ \/ ~isReading(channel)
    THEN channel' = enableReading(channel) /\ reading_' = TRUE
    ELSE UNCHANGED <<channel, reading_>>

StopReadInLoop ==
    IF reading_ \/ isReading(channel)
    THEN channel' = disableReading(channel) /\ reading_' = FALSE
    ELSE UNCHANGED <<channel, reading_>>

(* Seeded fault: the channel stays enabled. *)
HandleClose_KeepEvents ==
    /\ Require(state_ \in {"kConnected", "kDisconnecting"}, "handleClose: state")
    /\ state_' = "kDisconnected"
    /\ cb' = "down" /\ Log("DOWN")
    /\ UNCHANGED channel

(* Changes state_, channel, cb, trace, failed.  The closeCallback_ that    *)
(* follows the connection callback is in CallbackReturn.                   *)
HandleClose ==
    /\ Require(state_ \in {"kConnected", "kDisconnecting"}, "handleClose: state")
    /\ state_' = "kDisconnected"
    /\ channel' = disableAll(channel)
    /\ cb' = "down" /\ Log("DOWN")

(* Changes state_, channel, cb, trace, failed. *)
ConnectEstablished ==
    /\ Require(state_ = "kConnecting", "connectEstablished: state")
    /\ state_' = "kConnected"
    /\ channel' = enableReading(channel)
    /\ cb' = "up" /\ Log("UP")

(* Changes state_, channel, cb, trace.  After the connection callback,     *)
(* CallbackReturn goes on with the removal.                                *)
ConnectDestroyed ==
    IF state_ = "kConnected"
    THEN /\ state_' = "kDisconnected"
         /\ channel' = disableAll(channel)
         /\ cb' = "destroyed" /\ Log("DOWN")
    ELSE /\ channel' = remove(channel)
         /\ Log("REMOVED")
         /\ UNCHANGED <<state_, cb>>

(* Seeded fault: the connection leaves the table, not the poller. *)
RemoveConnectionInLoop_NoDestroy ==
    /\ Require(server, "removeConnectionInLoop: server is gone")
    /\ inTable' = FALSE
    /\ UNCHANGED pendingFunctors_

(* TcpServer::removeConnectionInLoop, on the base loop's thread.  Changes  *)
(* inTable, pendingFunctors_, failed.                                      *)
RemoveConnectionInLoop ==
    /\ Require(server, "removeConnectionInLoop: server is gone")
    /\ inTable' = FALSE
    /\ Queue(<<Functor("connectDestroyed")>>)

(* closeCallback_: TcpServer::removeConnection.  Changes inTable,          *)
(* baseQueue, pendingFunctors_, failed.                                    *)
CloseCallback ==
    \/ OneLoop /\ RemoveConnectionInLoop /\ UNCHANGED baseQueue
    \/ /\ ~OneLoop
       /\ Require(server, "removeConnection: server is gone")
       /\ baseQueue' = baseQueue + 1
       /\ UNCHANGED <<inTable, pendingFunctors_>>

-----------------------------------------------------------------------------
(* The I/O loop.                                                           *)

(* A dead object has been used: what happens from here on is undefined,    *)
(* and the model stops the I/O loop.                                       *)
Undefined == failed \cap UndefinedBehaviour # {}

InLoop(phase) == pc = phase /\ cb = "none" /\ ~Undefined

(* newConnection on the I/O loop's own thread, from the acceptor's handler. *)
Accept ==
    /\ InLoop("accept")
    /\ ConnectEstablished
    /\ pc' = "event"
    /\ UNCHANGED <<reading_, outputBuffer_, sock, todo, pendingFunctors_, batchVars, mode_,
                   serverVars, appVars, sendVars>>

(* epoll_wait reports what it has for this connection, possibly nothing.   *)
Poll ==
    /\ InLoop("poll") /\ baseQueue < MaxPending
    /\ todo' = IF Alive THEN Handlers(Reported(channel, Ready)) ELSE {}
    /\ channel' = [channel EXCEPT !.edge = FALSE]
    /\ pc' = "dispatch"
    /\ UNCHANGED <<state_, reading_, outputBuffer_, sock, cb, pendingFunctors_, batchVars, mode_,
                   serverVars, appVars, sendVars, trace, failed>>

(* The handlers of other channels come first; one of them may use this     *)
(* connection through the pointer that the application keeps.              *)
Dispatch ==
    /\ InLoop("dispatch")
    /\ pc' = "event"
    /\ cb' \in {"none"} \cup (IF kept THEN {"other"} ELSE {})
    /\ UNCHANGED <<connVars, sock, todo, pendingFunctors_, batchVars, mode_, serverVars, appVars,
                   sendVars, trace, failed>>

(* handleEvent calls its callbacks in the order close, error, read, write. *)
Handler(h, earlier) ==
    /\ InLoop("event") /\ h \in todo /\ todo \cap earlier = {}
    /\ todo' = todo \ {h}
    /\ UNCHANGED <<pc, batchVars, mode_, serverVars, appVars, sendVars, reading_>>

CloseEvent ==
    /\ Handler("close", {})
    /\ HandleClose
    /\ UNCHANGED <<outputBuffer_, sock, pendingFunctors_>>

(* handleError reads SO_ERROR, which clears it. *)
ErrorEvent ==
    /\ Handler("error", {"close"})
    /\ sock' = [sock EXCEPT !.soErr = FALSE]
    /\ UNCHANGED <<state_, channel, outputBuffer_, cb, pendingFunctors_, trace, failed>>

(* Seeded fault: end of file is taken for an empty read. *)
ReadResult_EofIsError == IF sock.unread THEN "data" ELSE "error"

(* What Buffer::readFd, or the loop of readFdET, returns to handleRead: n  *)
(* positive, zero or negative.  In ET mode the error or the end of file    *)
(* behind the data hides the data, and EAGAIN at once is a zero.           *)
ReadResult ==
    IF isET
    THEN CASE sock.soErr -> "error"
           [] ~sock.soErr /\ sock.peer = "open" /\ sock.unread -> "data"
           [] OTHER -> "eof"
    ELSE CASE sock.unread -> "data"
           [] ~sock.unread /\ ~sock.soErr /\ sock.peer # "open" -> "eof"
           [] OTHER -> "error"

ReadEvent ==
    /\ Handler("read", {"close", "error"})
    /\ sock' = [sock EXCEPT !.unread = FALSE, !.soErr = @ /\ ReadResult # "error"]
    /\ \/ /\ ReadResult = "data"
          /\ cb' = "message"
          /\ UNCHANGED <<state_, channel, trace, failed>>
       \/ /\ ReadResult = "eof"
          /\ HandleClose
       \/ /\ ReadResult = "error"
          /\ UNCHANGED <<state_, channel, cb, trace, failed>>
    /\ UNCHANGED <<outputBuffer_, pendingFunctors_>>

(* Buffer::writeFdET goes on until a write fails or returns 0: when it has *)
(* drained the buffer it returns that 0, not what it wrote.                *)
WriteReturn(n, len) == IF isET /\ n = len THEN 0 ELSE n

(* Seeded fault: a partial write empties the buffer. *)
Unwritten_Nothing(n) == IF n > 0 THEN <<>> ELSE outputBuffer_

(* outputBuffer_ after write() has returned n. *)
Unwritten(n) == IF n > 0 THEN SubSeq(outputBuffer_, n + 1, Len(outputBuffer_)) ELSE outputBuffer_

WriteEvent ==
    /\ Handler("write", {"close", "error", "read"})
    /\ \/ /\ isWriting(channel)
          /\ \E n \in WriteResults(Len(outputBuffer_)) :
                LET drained == n = Len(outputBuffer_) /\ WriteReturn(n, Len(outputBuffer_)) > 0
                    after == Written(outputBuffer_, n)
                    ch == disableWriting(channel)
                IN  /\ outputBuffer_' = Unwritten(n)
                    /\ channel' = IF drained THEN ch ELSE channel
                    /\ Queue(When(drained, "writeCompleteCallback"))
                    /\ sock' = IF drained THEN AfterDrain(after, ch) ELSE after
       \/ /\ ~isWriting(channel)
          /\ UNCHANGED <<outputBuffer_, channel, pendingFunctors_, sock>>
    /\ UNCHANGED <<state_, cb, trace, failed>>

(* doPendingFunctors takes the queue... *)
BeginPending ==
    /\ InLoop("event") /\ todo = {}
    /\ functors' = pendingFunctors_ /\ next' = 1 /\ pendingFunctors_' = <<>>
    /\ pc' = "functors"
    /\ UNCHANGED <<connVars, sock, todo, cb, serverVars, mode_, appVars, sendVars, trace, failed>>

(* ...and releases it, with the pointers bound in it, when all have run. *)
EndPending ==
    /\ InLoop("functors") /\ next > Len(functors)
    /\ functors' = <<>> /\ next' = 1
    /\ pc' = "poll"
    /\ UNCHANGED <<connVars, sock, todo, cb, pendingFunctors_, serverVars, mode_, appVars, sendVars,
                   trace, failed>>

(* The next functor of the batch is f, and the object it needs is there. *)
RunFunctor(f) ==
    /\ InLoop("functors") /\ next <= Len(functors) /\ functors[next].fn = f
    /\ Alive
    /\ next' = next + 1
    /\ UNCHANGED <<pc, todo, functors, serverVars, mode_, appVars, unsent>>

RunConnectEstablished ==
    /\ RunFunctor("connectEstablished")
    /\ ConnectEstablished
    /\ UNCHANGED <<reading_, outputBuffer_, sock, pendingFunctors_, accepted, lost>>

RunConnectDestroyed ==
    /\ RunFunctor("connectDestroyed")
    /\ ConnectDestroyed
    /\ UNCHANGED <<reading_, outputBuffer_, sock, pendingFunctors_, accepted, lost, failed>>

(* Seeded fault: the state is not tested again when the functor runs. *)
RunForceCloseInLoop_NoCheck ==
    /\ RunFunctor("forceCloseInLoop")
    /\ HandleClose
    /\ UNCHANGED <<reading_, outputBuffer_, sock, pendingFunctors_, accepted, lost>>

RunForceCloseInLoop ==
    /\ RunFunctor("forceCloseInLoop")
    /\ IF state_ \in {"kConnected", "kDisconnecting"}
       THEN HandleClose
       ELSE UNCHANGED <<state_, channel, cb, trace, failed>>
    /\ UNCHANGED <<reading_, outputBuffer_, sock, pendingFunctors_, accepted, lost>>

RunSendInLoop ==
    /\ RunFunctor("sendInLoop")
    /\ SendInLoop(functors[next].msg)
    /\ UNCHANGED <<state_, reading_, cb, trace, failed>>

RunShutdownInLoop ==
    /\ RunFunctor("shutdownInLoop")
    /\ sock' = ShutdownInLoop(sock, channel)
    /\ UNCHANGED <<connVars, cb, pendingFunctors_, accepted, lost, trace, failed>>

RunReadingInLoop ==
    /\ \/ RunFunctor("startReadInLoop") /\ StartReadInLoop
       \/ RunFunctor("stopReadInLoop") /\ StopReadInLoop
    /\ UNCHANGED <<state_, outputBuffer_, sock, cb, pendingFunctors_, accepted, lost, trace, failed>>

(* writeCompleteCallback_ and highWaterMarkCallback_ are user callbacks. *)
RunUserCallback ==
    /\ \E f \in {"writeCompleteCallback", "highWaterMarkCallback"} : RunFunctor(f)
    /\ cb' = functors[next].fn
    /\ UNCHANGED <<connVars, sock, pendingFunctors_, accepted, lost, trace, failed>>

(* A functor bound to the raw this runs after the object has gone. *)
RunOnDeadObject ==
    /\ InLoop("functors") /\ next <= Len(functors) /\ ~Alive
    /\ next' = next + 1
    /\ Require(FALSE, "use after free")
    /\ UNCHANGED <<connVars, sock, pc, todo, cb, pendingFunctors_, functors, serverVars, mode_, appVars,
                   sendVars, trace>>

(* A user callback returns.  After the connection callback, handleClose    *)
(* calls closeCallback_, that is TcpServer::removeConnection, and          *)
(* connectDestroyed removes the channel.                                   *)
CallbackReturn ==
    /\ cb # "none" /\ cb' = "none" /\ ~Undefined
    /\ IF cb = "destroyed"
       THEN channel' = remove(channel) /\ Log("REMOVED")
       ELSE UNCHANGED <<channel, trace>>
    /\ IF cb = "down" THEN CloseCallback
       ELSE UNCHANGED <<inTable, baseQueue, pendingFunctors_, failed>>
    /\ UNCHANGED <<state_, reading_, outputBuffer_, sock, pc, todo, batchVars, mode_, server, appVars,
                   sendVars>>

-----------------------------------------------------------------------------
(* The base loop's other actions: only when it is a different thread.      *)

RunRemoveConnectionInLoop ==
    /\ baseQueue > 0 /\ baseQueue' = baseQueue - 1
    /\ RemoveConnectionInLoop
    /\ UNCHANGED <<connVars, sock, pc, todo, cb, batchVars, mode_, server, appVars, sendVars, trace>>

(* Seeded fault: the table is emptied without connectDestroyed. *)
DestroyServer_NoDestroy ==
    /\ CanDestroy /\ server /\ server' = FALSE
    /\ inTable' = FALSE /\ InLoop("poll")
    /\ UNCHANGED <<connVars, cb, trace, pendingFunctors_, sock, pc, todo, batchVars, mode_, baseQueue,
                   appVars, sendVars, failed>>

(* ~TcpServer, on the base loop's thread: connectDestroyed for a           *)
(* connection still in the table, called at once on the same thread.       *)
DestroyServer ==
    /\ CanDestroy /\ server /\ server' = FALSE
    /\ inTable' = FALSE
    /\ \/ /\ OneLoop /\ InLoop("poll")
          /\ IF inTable THEN ConnectDestroyed ELSE UNCHANGED <<state_, channel, cb, trace>>
          /\ UNCHANGED pendingFunctors_
       \/ /\ ~OneLoop
          /\ Queue(When(inTable, "connectDestroyed"))
          /\ UNCHANGED <<state_, channel, cb, trace>>
    /\ UNCHANGED <<reading_, outputBuffer_, sock, pc, todo, batchVars, mode_, baseQueue, appVars, sendVars,
                   failed>>

-----------------------------------------------------------------------------
(* The application, inside a callback on the I/O loop's thread: runInLoop  *)
(* calls the operation at once.                                            *)

Here(op) ==
    /\ op \in Ops[mode_]
    /\ cb # "none" /\ (cb = "other" => kept)
    /\ UNCHANGED <<pc, todo, cb, batchVars, mode_, serverVars, appVars, trace, failed>>

(* send(data, len) and send(string_view) test state_; send(Buffer* ) calls *)
(* sendInLoop without a test.                                              *)
SendHere(m) ==
    /\ m \in unsent /\ unsent' = unsent \ {m}
    /\ (Here("send") /\ state_ = "kConnected") \/ Here("sendBuffer")
    /\ SendInLoop(m)
    /\ UNCHANGED <<state_, reading_>>

ShutdownHere ==
    /\ Here("shutdown") /\ state_ = "kConnected"
    /\ state_' = "kDisconnecting"
    /\ sock' = ShutdownInLoop(sock, channel)
    /\ UNCHANGED <<reading_, channel, outputBuffer_, pendingFunctors_, sendVars>>

ForceCloseHere ==
    /\ Here("forceClose") /\ state_ \in {"kConnected", "kDisconnecting"}
    /\ Len(pendingFunctors_) < MaxPending
    /\ state_' = "kDisconnecting"
    /\ Queue(<<Functor("forceCloseInLoop")>>)
    /\ UNCHANGED <<reading_, channel, outputBuffer_, sock, sendVars>>

(* startRead and stopRead do not look at state_. *)
ReadingHere ==
    /\ Careful => state_ = "kConnected"
    /\ (Here("startRead") /\ StartReadInLoop) \/ (Here("stopRead") /\ StopReadInLoop)
    /\ UNCHANGED <<state_, outputBuffer_, sock, pendingFunctors_, sendVars>>

(* The connection callback stores the TcpConnectionPtr; later the          *)
(* application lets go of it.                                              *)
Keep ==
    /\ cb = "up" /\ ~kept /\ kept' = TRUE
    /\ UNCHANGED <<tame, connVars, sock, pc, todo, cb, pendingFunctors_, batchVars, mode_, serverVars, call, calls,
                   sendVars, trace, failed>>

Drop ==
    /\ CanDrop /\ kept /\ kept' = FALSE /\ tame' = (tame /\ Users = {})
    /\ UNCHANGED <<connVars, sock, pc, todo, cb, pendingFunctors_, batchVars, mode_, serverVars, call, calls,
                   sendVars, trace, failed>>

-----------------------------------------------------------------------------
(* The application, on another thread: state_ is read, then written, then  *)
(* the functor is queued, and the loop runs in between.                    *)

UserFrame == <<reading_, channel, outputBuffer_, sock, pc, todo, cb, batchVars, mode_, serverVars, kept,
               accepted, lost, trace, failed>>

Enter(u, op, at, m) ==
    /\ op \in UserOps
    /\ kept /\ call[u] = Idle
    /\ calls < MaxCalls /\ calls' = calls + 1
    /\ call' = [call EXCEPT ![u] = [op |-> at, msg |-> m]]
    /\ tame' = (tame /\ op = "send")
    /\ UNCHANGED <<UserFrame, state_, pendingFunctors_>>

(* send(data, len).  The overload that takes a Buffer is not among the     *)
(* calls of other threads: it would run sendInLoop on the calling thread,  *)
(* beside the loop.                                                        *)
CallSend(u, m) ==
    /\ state_ = "kConnected" /\ m \in unsent /\ unsent' = unsent \ {m}
    /\ Enter(u, "send", "sendInLoop", m)

CallShutdown(u) ==
    /\ state_ = "kConnected" /\ UNCHANGED unsent
    /\ Enter(u, "shutdown", "shutdown", None)

CallForceClose(u) ==
    /\ state_ \in {"kConnected", "kDisconnecting"} /\ UNCHANGED unsent
    /\ Enter(u, "forceClose", "forceClose", None)

CallReading(u) ==
    /\ UNCHANGED unsent
    /\ \/ Enter(u, "startRead", "startReadInLoop", None)
       \/ Enter(u, "stopRead", "stopReadInLoop", None)

(* setState(kDisconnecting), on the strength of the earlier test. *)
SetDisconnecting(u) ==
    /\ call[u].op \in {"shutdown", "forceClose"}
    /\ state_' = "kDisconnecting"
    /\ call' = [call EXCEPT ![u].op = IF @ = "shutdown" THEN "shutdownInLoop" ELSE "forceCloseInLoop"]
    /\ UNCHANGED <<UserFrame, calls, tame, unsent, pendingFunctors_>>

QueueFunctor(u) ==
    /\ call[u].op \in RawFunctors \cup SharedFunctors
    /\ Len(pendingFunctors_) < MaxPending
    /\ Queue(<<[fn |-> call[u].op, msg |-> call[u].msg]>>)
    /\ call' = [call EXCEPT ![u] = Idle]
    /\ UNCHANGED <<UserFrame, calls, tame, state_, unsent>>

-----------------------------------------------------------------------------
LoopStep ==
    \/ Accept \/ Poll \/ Dispatch
    \/ CloseEvent \/ ErrorEvent \/ ReadEvent \/ WriteEvent
    \/ BeginPending \/ EndPending
    \/ RunConnectEstablished \/ RunConnectDestroyed \/ RunForceCloseInLoop
    \/ RunSendInLoop \/ RunShutdownInLoop \/ RunReadingInLoop \/ RunUserCallback
    \/ RunOnDeadObject
    \/ CallbackReturn

HereStep ==
    \/ \E m \in Msgs : SendHere(m)
    \/ ShutdownHere \/ ForceCloseHere \/ ReadingHere \/ Keep

UserStep(u) ==
    \/ \E m \in Msgs : CallSend(u, m)
    \/ CallShutdown(u) \/ CallForceClose(u) \/ CallReading(u)
    \/ SetDisconnecting(u) \/ QueueFunctor(u)

Next ==
    \/ LoopStep \/ RunRemoveConnectionInLoop \/ DestroyServer
    \/ HereStep \/ Drop \/ \E u \in Users : UserStep(u)
    \/ PeerSends \/ PeerDrains \/ PeerCloses \/ PeerResets

Spec == Init /\ [][Next]_vars

(* Both loops keep running, callbacks return, a thread finishes the call   *)
(* it is in, and the peer goes on taking data off the wire.                *)
Fairness ==
    /\ WF_vars(LoopStep) /\ WF_vars(RunRemoveConnectionInLoop) /\ WF_vars(PeerDrains)
    /\ \A u \in Users : WF_vars(SetDisconnecting(u) \/ QueueFunctor(u))

FairSpec == Spec /\ Fairness

-----------------------------------------------------------------------------
(* The variables have their types, and the loop's own agree: handlers are  *)
(* left only while events are handled, functors only while a batch runs.   *)
TypeOK ==
    /\ mode_ \in Modes
    /\ state_ \in StateE /\ reading_ \in BOOLEAN /\ channel \in ChannelType
    /\ outputBuffer_ \in Seq(Msgs \X (1..MsgLen))
    /\ sock \in [wire : Seq(Msgs \X (1..MsgLen)), full : BOOLEAN, wrShut : BOOLEAN,
                 peer : {"open", "fin", "rst"}, soErr : BOOLEAN, unread : BOOLEAN]
    /\ pc \in {"accept", "poll", "dispatch", "event", "functors"}
    /\ todo \subseteq {"close", "error", "read", "write"}
    /\ cb \in {"none", "up", "down", "destroyed", "message", "other",
               "writeCompleteCallback", "highWaterMarkCallback"}
    /\ pendingFunctors_ \in Seq([fn : RawFunctors \cup SharedFunctors, msg : Msgs \cup {None}])
    /\ functors \in Seq([fn : RawFunctors \cup SharedFunctors, msg : Msgs \cup {None}])
    /\ next \in 1..(Len(functors) + 1)
    /\ todo # {} => pc \in {"dispatch", "event"}
    /\ functors # <<>> => pc = "functors"
    /\ inTable \in BOOLEAN /\ baseQueue \in Nat /\ server \in BOOLEAN
    /\ tame \in BOOLEAN /\ kept \in BOOLEAN /\ calls \in 0..MaxCalls
    /\ call \in [Users -> [op : {"idle", "shutdown", "forceClose"} \cup RawFunctors \cup SharedFunctors,
                           msg : Msgs \cup {None}]]
    /\ unsent \subseteq Msgs /\ accepted \in Seq(Msgs) /\ lost \subseteq Msgs
    /\ trace \in Seq({"UP", "DOWN", "REMOVED"})
    /\ failed \subseteq Assertions \cup UndefinedBehaviour

(* As long as the server lives, no assertion of TcpConnection, Channel or  *)
(* EpollPoller fails and no functor runs on a destructed connection.       *)
AssertsHold == server => failed = {} /\ channel.failed = {}

(* Other threads may send whenever they like: with the pointer kept and    *)
(* nothing but sends from them, whatever the callbacks do, no functor runs *)
(* on a destructed connection and no assertion fails.                      *)
SendsAreSafe == tame => AssertsHold

(* connectionCallback_ says UP once, then DOWN once, and only then is the  *)
(* channel removed; no message is delivered outside of UP.  ~TcpServer may *)
(* skip DOWN for a connection that is half closed.                         *)
Lifecycle ==
    /\ \/ trace \in {<<>>, <<"UP">>, <<"UP", "DOWN">>, <<"UP", "DOWN", "REMOVED">>}
       \/ ~server /\ trace \in {<<"UP", "REMOVED">>, <<"UP", "REMOVED", "DOWN">>}
    /\ cb = "message" => trace = <<"UP">>

(* When the last TcpConnectionPtr goes, the poller has already forgotten   *)
(* the channel that goes with it: channels_ keeps no dangling pointer.     *)
NoDanglingChannel == ~Alive => ~channel.known /\ channel.index = "kDeleted"

(* epoll_wait is never called with the channel registered for nothing,     *)
(* when all it can report is a hang-up, to a connection that handleClose   *)
(* has dealt with.  EpollPoller::updateChannel does register an empty      *)
(* interest set, of a channel it had deleted.                              *)
PolledForSomething == InLoop("poll") /\ channel.index = "kAdded" => channel.events # {}

(* What is on the wire followed by what waits in outputBuffer_ is the      *)
(* concatenation of the accepted messages, whole and in the order taken:   *)
(* direct writes never overtake buffered data.                             *)
StreamIntegrity ==
    LET stream == sock.wire \o outputBuffer_
    IN  /\ Len(stream) = MsgLen * Len(accepted)
        /\ \A i \in DOMAIN stream :
              stream[i] = <<accepted[((i - 1) \div MsgLen) + 1], ((i - 1) % MsgLen) + 1>>

(* While data waits, handleWrite is registered to be called, in either     *)
(* mode; level triggered, it is registered for nothing else, so that the   *)
(* loop does not spin.  The write end is closed only when everything       *)
(* accepted has been written.                                              *)
WritingWhileBuffered ==
    /\ state_ # "kDisconnected" /\ inTable =>
        /\ outputBuffer_ # <<>> => "OUT" \in channel.events /\ channel.index = "kAdded"
        /\ ~isET /\ "OUT" \in channel.events => outputBuffer_ # <<>>
    /\ sock.wrShut => outputBuffer_ = <<>>

(* shutdown() ends: the write end is closed or the connection is down.     *)
(* (Edge triggered it does not: isWriting is true of every channel that    *)
(* reads.)                                                                 *)
ShutdownCloses ==
    (~isET /\ state_ = "kDisconnecting") ~> (sock.wrShut \/ state_ = "kDisconnected" \/ ~server)

(* A FIN or a reset from the peer is noticed by handleRead or handleClose, *)
(* in either mode, unless the application has stopped reading.             *)
PeerCloseNoticed ==
    (state_ \in {"kConnected", "kDisconnecting"} /\ sock.peer # "open")
        ~> (state_ = "kDisconnected" \/ ~reading_ \/ ~server)

(* Data that waits in outputBuffer_ is written as the peer takes it, down  *)
(* to the last byte, in either mode.                                       *)
BufferedIsSent ==
    (outputBuffer_ # <<>>) ~> (outputBuffer_ = <<>> \/ state_ = "kDisconnected" \/ ~server)

(* A connection that is down is removed from the table and from the poller.*)
DownIsRemoved ==
    (state_ = "kDisconnected") ~> ((~inTable /\ ~channel.known /\ channel.index = "kDeleted") \/ Undefined)

(* sendInLoop buffers what it cannot write at once (TcpConnection.cc:177). *)
NoMessageLost == lost = {}
=============================================================================
