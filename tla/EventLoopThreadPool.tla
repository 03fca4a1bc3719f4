------------------------- MODULE EventLoopThreadPool -------------------------
(***************************************************************************)
(* twnl/EventLoopThread.cc and EventLoopThreadPool.cc: the threads that    *)
(* run the I/O loops, from startLoop() to the join.  The owner is the      *)
(* thread of the base loop, loop 0.  The functions are actions on the      *)
(* variables of this module; TcpServer says when they are called and what  *)
(* the loops do in their rounds.                                           *)
(***************************************************************************)
EXTENDS Naturals, Sequences, FiniteSets

CONSTANT MaxThreads      \* bound: what setThreadNum is called with at most

ASSUME ThreadsAssumption == MaxThreads \in Nat

VARIABLES
    numThreads_,
    loops_, next_,       \* the loops that startLoop() has returned; the next one, from 0
    loop_,               \* EventLoopThread::loop_: is it set?
    quit_,               \* quit_ of the loop of each thread
    told,                \* how many threads their destructors have told to quit
    pc,                  \* where the thread of each loop is
    baseMode,            \* what the base loop is built with: "POLL", or EPOLL with "LT" or "ET"
    kReadEvent,          \* the static mask of Channel, shared by all loops
    timerEvents, wakeupEvents    \* what the timerfd and the eventfd of each loop are registered for

setupVars == <<baseMode, kReadEvent, timerEvents, wakeupEvents>>
poolVars == <<numThreads_, loops_, next_, loop_, quit_, told, setupVars>>

IoLoops == 1..MaxThreads
Loops == 0..MaxThreads

(* The places of an I/O thread: it does not exist; the loop is being       *)
(* built; has been built; is published; it handles events, or functors;    *)
(* loop() has returned; the thread has ended.                              *)
ThreadPlaces == {"none", "building", "built", "published", "events", "functors", "left", "ended"}

PoolInit ==
    /\ numThreads_ \in 0..MaxThreads /\ loops_ = <<>> /\ next_ = 0 /\ told = 0
    /\ loop_ = [l \in IoLoops |-> FALSE] /\ quit_ = [l \in IoLoops |-> FALSE]
    /\ pc = [l \in Loops |-> "none"]
    /\ baseMode \in {"POLL", "LT", "ET"} /\ kReadEvent = {}
    /\ timerEvents = [l \in Loops |-> {}] /\ wakeupEvents = [l \in Loops |-> {}]

-----------------------------------------------------------------------------
(* EventLoop::EventLoop.                                                   *)

initDefaultEvent(mode) == IF mode = "LT" THEN {"IN"} ELSE {"ET", "IN"}

(* The timer queue, a member, enables its channel with the masks as they   *)
(* are; then the body sets the masks, unless the loop uses poll(); the     *)
(* eventfd comes last.                                                     *)
ConstructLoop(l, mode) ==
    /\ timerEvents' = [timerEvents EXCEPT ![l] = kReadEvent]
    /\ kReadEvent' = IF mode = "POLL" THEN kReadEvent ELSE initDefaultEvent(mode)
    /\ wakeupEvents' = [wakeupEvents EXCEPT ![l] = kReadEvent']
    /\ UNCHANGED baseMode

(* The owner builds the base loop and runs it. *)
BuildBase ==
    /\ pc[0] = "none" /\ pc' = [pc EXCEPT ![0] = "events"]
    /\ ConstructLoop(0, baseMode)
    /\ UNCHANGED <<numThreads_, loops_, next_, loop_, quit_, told>>

-----------------------------------------------------------------------------
(* start() and startLoop(), on the owner's thread.                         *)

Starting == Len(loops_) + 1

CreateThread ==
    /\ Starting <= numThreads_ /\ pc[Starting] = "none"
    /\ pc' = [pc EXCEPT ![Starting] = "building"]
    /\ UNCHANGED poolVars

(* Seeded fault: startLoop() does not wait. *)
StartLoopReturns_NoWait ==
    /\ Starting <= numThreads_ /\ pc[Starting] # "none"
    /\ loops_' = Append(loops_, Starting)
    /\ UNCHANGED <<numThreads_, next_, loop_, quit_, told, setupVars, pc>>

(* The wait for loop_ is over. *)
StartLoopReturns ==
    /\ Starting <= numThreads_ /\ loop_[Starting]
    /\ loops_' = Append(loops_, Starting)
    /\ UNCHANGED <<numThreads_, next_, loop_, quit_, told, setupVars, pc>>

-----------------------------------------------------------------------------
(* threadFunc(), on the thread of loop l.                                  *)

(* A loop of the pool is built with the defaults, EPOLL and LT. *)
Build(l) ==
    /\ pc[l] = "building" /\ pc' = [pc EXCEPT ![l] = "built"]
    /\ ConstructLoop(l, "LT")
    /\ UNCHANGED <<numThreads_, loops_, next_, loop_, quit_, told>>

Publish(l) ==
    /\ pc[l] = "built" /\ pc' = [pc EXCEPT ![l] = "published"]
    /\ loop_' = [loop_ EXCEPT ![l] = TRUE]
    /\ UNCHANGED <<numThreads_, loops_, next_, quit_, told, setupVars>>

(* loop() begins by clearing quit_. *)
EnterLoop(l) ==
    /\ pc[l] = "published" /\ pc' = [pc EXCEPT ![l] = "events"]
    /\ quit_' = [quit_ EXCEPT ![l] = FALSE]
    /\ UNCHANGED <<numThreads_, loops_, next_, loop_, told, setupVars>>

(* The test of quit_ at the end of a round of loop(). *)
TestQuit(l) == pc' = [pc EXCEPT ![l] = IF l # 0 /\ quit_[l] THEN "left" ELSE "events"]

EndThread(l) ==
    /\ pc[l] = "left" /\ pc' = [pc EXCEPT ![l] = "ended"]
    /\ loop_' = [loop_ EXCEPT ![l] = FALSE]
    /\ UNCHANGED <<numThreads_, loops_, next_, quit_, told, setupVars>>

-----------------------------------------------------------------------------
(* The destructors of the threads, one after the other, on the owner's.    *)

Joined(l) == pc[l] = "ended"

(* Seeded fault: the loop is not told to quit. *)
QuitThread_Silent(l) ==
    /\ l = told + 1 /\ l <= Len(loops_) /\ (\A k \in 1..told : Joined(k)) /\ told' = l
    /\ UNCHANGED <<numThreads_, loops_, next_, loop_, quit_, setupVars, pc>>

(* ~EventLoopThread of the next thread, up to the join. *)
QuitThread(l) ==
    /\ l = told + 1 /\ l <= Len(loops_) /\ (\A k \in 1..told : Joined(k)) /\ told' = l
    /\ quit_' = [quit_ EXCEPT ![l] = quit_[l] \/ loop_[l]]
    /\ UNCHANGED <<numThreads_, loops_, next_, loop_, setupVars, pc>>

AllJoined == told = Len(loops_) /\ \A k \in 1..told : Joined(k)

-----------------------------------------------------------------------------
(* The loops the pool hands out.                                           *)

getNextLoop == IF loops_ = <<>> THEN 0 ELSE loops_[next_ + 1]

(* The change that getNextLoop() makes. *)
Advance == next_' = IF next_ + 1 < Len(loops_) THEN next_ + 1 ELSE 0
=============================================================================
