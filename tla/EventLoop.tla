------------------------------ MODULE EventLoop ------------------------------
(***************************************************************************)
(* twnl/EventLoop.cc: one loop thread that polls, dispatches the active    *)
(* channels and then runs the functors that were queued, and any number of *)
(* foreign threads that call queueInLoop / runInLoop / quit.               *)
(*                                                                         *)
(* The loop thread is cut where another thread can see its state change:   *)
(* around the mutex in doPendingFunctors and at every read of quit_.  A    *)
(* foreign thread is cut between pushing the functor (or setting quit_)    *)
(* and writing the eventfd.  A functor is an identity; `origin` remembers  *)
(* where it was queued and `ran` the order in which functors were run.     *)
(***************************************************************************)
EXTENDS Naturals, Sequences

CONSTANTS
    Threads,    \* threads other than the loop's own
    Functors    \* the functors they hand over, each at most once

ASSUME ThreadsAssumption ==
    Threads \cap {"none", "outside", "handler", "functor"} = {}

VARIABLES
    pc,                        \* where the loop thread is
    looping_, quit_, callingPendingFunctors_,
    activeChannels_,           \* channels poll() reported, still to be handled
    pendingFunctors_,          \* shared, guarded by mutex_
    functors,                  \* the local vector of doPendingFunctors, rest to run
    wakeupFd_,                 \* is the eventfd readable?
    tpc,                       \* where each foreign thread is
    origin,                    \* history: where a functor was submitted from
    ran                        \* history: functors in the order they were run

loopVars == <<looping_, quit_, callingPendingFunctors_, activeChannels_>>
queueVars == <<pendingFunctors_, functors>>
history == <<origin, ran>>
vars == <<pc, loopVars, queueVars, wakeupFd_, tpc, history>>

(* loop() is left ("outside"), tests quit_ ("check"), blocks in            *)
(* poller_->poll ("poll"), walks activeChannels_ ("dispatch"), is inside   *)
(* an I/O callback ("handler"), is in doPendingFunctors before the swap    *)
(* ("swap"), between two functors ("run") or inside one ("functor").       *)
LoopPc == {"outside", "check", "poll", "dispatch", "handler", "swap", "run", "functor"}

(* The places where code of the application runs on the loop thread. *)
UserCode == {"outside", "handler", "functor"}

Channels == {"wakeup", "io"}     \* wakeupChannel_ and any other channel

Origins == Threads \cup UserCode \cup {"none"}

Init ==
    /\ pc = "outside"
    /\ looping_ = FALSE /\ quit_ = FALSE /\ callingPendingFunctors_ = FALSE
    /\ activeChannels_ = {}
    /\ pendingFunctors_ = <<>> /\ functors = <<>>
    /\ wakeupFd_ = FALSE
    /\ tpc = [t \in Threads |-> "idle"]
    /\ origin = [f \in Functors |-> "none"]
    /\ ran = <<>>

-----------------------------------------------------------------------------
(* The loop thread: EventLoop::loop().                                     *)

EnterLoop ==
    /\ pc = "outside"
    /\ looping_' = TRUE /\ quit_' = FALSE
    /\ pc' = "check"
    /\ UNCHANGED <<callingPendingFunctors_, activeChannels_, queueVars, wakeupFd_, tpc, history>>

CheckQuit ==
    /\ pc = "check"
    /\ pc' = IF quit_ THEN "outside" ELSE "poll"
    /\ looping_' = ~quit_
    /\ activeChannels_' = {}
    /\ UNCHANGED <<quit_, callingPendingFunctors_, queueVars, wakeupFd_, tpc, history>>

(* poll() returns some of the ready channels: the event array is finite,   *)
(* so the wakeup channel may have to wait for the next round.              *)
PollReturn ==
    /\ pc = "poll"
    /\ \E ready \in SUBSET Channels :
          /\ ready # {}
          /\ "wakeup" \in ready => wakeupFd_
          /\ activeChannels_' = ready
    /\ pc' = "dispatch"
    /\ UNCHANGED <<looping_, quit_, callingPendingFunctors_, queueVars, wakeupFd_, tpc, history>>

(* kPollTimeMs elapsed, or a signal interrupted the call. *)
PollTimeout ==
    /\ pc = "poll"
    /\ pc' = "dispatch"
    /\ UNCHANGED <<loopVars, queueVars, wakeupFd_, tpc, history>>

(* EventLoop::handleRead: reading the eventfd empties it. *)
HandleWakeup ==
    /\ pc = "dispatch" /\ "wakeup" \in activeChannels_
    /\ activeChannels_' = activeChannels_ \ {"wakeup"}
    /\ wakeupFd_' = FALSE
    /\ UNCHANGED <<pc, looping_, quit_, callingPendingFunctors_, queueVars, tpc, history>>

HandleIo ==
    /\ pc = "dispatch" /\ "io" \in activeChannels_
    /\ activeChannels_' = activeChannels_ \ {"io"}
    /\ pc' = "handler"
    /\ UNCHANGED <<looping_, quit_, callingPendingFunctors_, queueVars, wakeupFd_, tpc, history>>

HandlerReturn ==
    /\ pc = "handler"
    /\ pc' = "dispatch"
    /\ UNCHANGED <<loopVars, queueVars, wakeupFd_, tpc, history>>

BeginPending ==
    /\ pc = "dispatch" /\ activeChannels_ = {}
    /\ callingPendingFunctors_' = TRUE
    /\ pc' = "swap"
    /\ UNCHANGED <<looping_, quit_, activeChannels_, queueVars, wakeupFd_, tpc, history>>

(* Seeded fault: the vector is copied out instead of swapped. *)
SwapPending_Copy ==
    /\ pc = "swap"
    /\ functors' = pendingFunctors_
    /\ pc' = "run"
    /\ UNCHANGED <<loopVars, pendingFunctors_, wakeupFd_, tpc, history>>

(* functors.swap(pendingFunctors_), under mutex_. *)
SwapPending ==
    /\ pc = "swap"
    /\ functors' = pendingFunctors_
    /\ pendingFunctors_' = functors
    /\ pc' = "run"
    /\ UNCHANGED <<loopVars, wakeupFd_, tpc, history>>

RunFunctor ==
    /\ pc = "run" /\ functors # <<>>
    /\ ran' = Append(ran, Head(functors))
    /\ functors' = Tail(functors)
    /\ pc' = "functor"
    /\ UNCHANGED <<loopVars, pendingFunctors_, wakeupFd_, tpc, origin>>

FunctorReturn ==
    /\ pc = "functor"
    /\ pc' = "run"
    /\ UNCHANGED <<loopVars, queueVars, wakeupFd_, tpc, history>>

EndPending ==
    /\ pc = "run" /\ functors = <<>>
    /\ callingPendingFunctors_' = FALSE
    /\ pc' = "check"
    /\ UNCHANGED <<looping_, quit_, activeChannels_, queueVars, wakeupFd_, tpc, history>>

-----------------------------------------------------------------------------
(* Calls made on the loop thread, by a callback, a functor, or the code    *)
(* around loop().                                                          *)

(* Seeded fault: no wakeup for functors queued by a functor. *)
MustWakeup_ForeignOnly(inLoopThread) == ~inLoopThread

(* Seeded fault: a foreign thread does not write the eventfd. *)
MustWakeup_PendingOnly(inLoopThread) == inLoopThread /\ callingPendingFunctors_

(* queueInLoop's test for writing the eventfd after the push. *)
MustWakeup(inLoopThread) == ~inLoopThread \/ callingPendingFunctors_

QueueInLoopHere(f) ==
    /\ pc \in UserCode /\ origin[f] = "none"
    /\ origin' = [origin EXCEPT ![f] = pc]
    /\ pendingFunctors_' = Append(pendingFunctors_, f)
    /\ wakeupFd_' = (wakeupFd_ \/ MustWakeup(TRUE))
    /\ UNCHANGED <<pc, loopVars, functors, tpc, ran>>

RunInLoopHere(f) ==
    /\ pc \in UserCode /\ origin[f] = "none"
    /\ origin' = [origin EXCEPT ![f] = pc]
    /\ ran' = Append(ran, f)
    /\ UNCHANGED <<pc, loopVars, queueVars, wakeupFd_, tpc>>

QuitHere ==
    /\ pc \in UserCode
    /\ quit_' = TRUE
    /\ UNCHANGED <<pc, looping_, callingPendingFunctors_, activeChannels_, queueVars, wakeupFd_, tpc, history>>

-----------------------------------------------------------------------------
(* Calls made by a foreign thread.                                         *)

(* queueInLoop, and runInLoop which falls through to it: push under mutex_. *)
QueueInLoop(t, f) ==
    /\ tpc[t] = "idle" /\ origin[f] = "none"
    /\ origin' = [origin EXCEPT ![f] = t]
    /\ pendingFunctors_' = Append(pendingFunctors_, f)
    /\ tpc' = [tpc EXCEPT ![t] = IF MustWakeup(FALSE) THEN "pushed" ELSE "idle"]
    /\ UNCHANGED <<pc, loopVars, functors, wakeupFd_, ran>>

(* Seeded fault: quit() forgets the eventfd. *)
Quit_NoWakeup(t) ==
    /\ tpc[t] = "idle"
    /\ quit_' = TRUE
    /\ UNCHANGED <<pc, looping_, callingPendingFunctors_, activeChannels_, queueVars, wakeupFd_, tpc, history>>

Quit(t) ==
    /\ tpc[t] = "idle"
    /\ quit_' = TRUE
    /\ tpc' = [tpc EXCEPT ![t] = "quitting"]
    /\ UNCHANGED <<pc, looping_, callingPendingFunctors_, activeChannels_, queueVars, wakeupFd_, history>>

(* The eventfd write that ends queueInLoop and quit. *)
Wakeup(t) ==
    /\ tpc[t] \in {"pushed", "quitting"}
    /\ wakeupFd_' = TRUE
    /\ tpc' = [tpc EXCEPT ![t] = "idle"]
    /\ UNCHANGED <<pc, loopVars, queueVars, history>>

-----------------------------------------------------------------------------
LoopStep ==
    \/ CheckQuit \/ HandleWakeup \/ HandleIo \/ HandlerReturn \/ BeginPending
    \/ SwapPending \/ RunFunctor \/ FunctorReturn \/ EndPending

UserStep == QuitHere \/ \E f \in Functors : QueueInLoopHere(f) \/ RunInLoopHere(f)

ThreadStep(t) == Quit(t) \/ Wakeup(t) \/ \E f \in Functors : QueueInLoop(t, f)

Next ==
    \/ EnterLoop \/ PollReturn \/ PollTimeout \/ LoopStep \/ UserStep
    \/ \E t \in Threads : ThreadStep(t)

(* The loop thread keeps running, its callbacks return, and epoll_wait     *)
(* returns once the eventfd is readable; a foreign thread finishes the     *)
(* call it is in.  No fairness on the poll timeout, on other I/O or on     *)
(* loop() being called: progress must come from the wakeup.                *)
Fairness ==
    /\ WF_vars(LoopStep)
    /\ WF_vars(wakeupFd_ /\ PollReturn)
    /\ \A t \in Threads : WF_vars(Wakeup(t))

Spec == Init /\ [][Next]_vars
FairSpec == Spec /\ Fairness

-----------------------------------------------------------------------------
(* The variables have their types, and the flags the loop keeps agree with  *)
(* where it is: looping_ while inside loop(), callingPendingFunctors_ only  *)
(* inside doPendingFunctors, whose local vector is empty outside its loop.  *)
TypeOK ==
    /\ pc \in LoopPc
    /\ looping_ \in BOOLEAN /\ quit_ \in BOOLEAN
    /\ callingPendingFunctors_ \in BOOLEAN
    /\ activeChannels_ \subseteq Channels
    /\ pendingFunctors_ \in Seq(Functors) /\ functors \in Seq(Functors)
    /\ wakeupFd_ \in BOOLEAN
    /\ tpc \in [Threads -> {"idle", "pushed", "quitting"}]
    /\ origin \in [Functors -> Origins]
    /\ ran \in Seq(Functors)
    /\ looping_ <=> pc # "outside"
    /\ callingPendingFunctors_ <=> pc \in {"swap", "run", "functor"}
    /\ functors # <<>> => pc \in {"run", "functor"}

(* A functor that nothing will wake the loop for, though it is pending:    *)
(* the eventfd is empty and the thread that queued it is not about to      *)
(* write to it.  Functors queued on the loop thread outside loop() are     *)
(* never announced (queueInLoop writes the eventfd only for a foreign      *)
(* thread or from inside doPendingFunctors) and wait for the poll timeout. *)
Unannounced(f) ==
    /\ ~wakeupFd_
    /\ origin[f] # "outside"
    /\ origin[f] \in Threads => tpc[origin[f]] # "pushed"

(* queueInLoop loses no wakeup: the loop thread never sits in poll() with  *)
(* a pending functor that nobody will announce, and never with quit_ set   *)
(* by a thread that has already written the eventfd.                       *)
NoLostWakeup ==
    pc = "poll" =>
        /\ \A i \in DOMAIN pendingFunctors_ : ~Unannounced(pendingFunctors_[i])
        /\ quit_ => wakeupFd_ \/ \E t \in Threads : tpc[t] = "quitting"

(* The inductive form of NoLostWakeup: it also covers the places from      *)
(* which poll() is reached without another swap of pendingFunctors_.       *)
WakeupInv ==
    /\ pc \in {"outside", "check", "poll", "run", "functor"} =>
          \A i \in DOMAIN pendingFunctors_ : ~Unannounced(pendingFunctors_[i])
    /\ pc = "poll" /\ quit_ => wakeupFd_ \/ \E t \in Threads : tpc[t] = "quitting"

(* pendingFunctors_ and the local vector of doPendingFunctors together are *)
(* one FIFO queue: whatever the interleaving of pushes and swaps, every    *)
(* functor runs exactly once and in the order of the pushes.               *)
FunctorQueue == INSTANCE TaskQueue WITH
    queue <- functors \o pendingFunctors_, done <- ran

FunctorsRunInOrder == FunctorQueue!Spec

(* A functor queued by another thread is run, or loop() is left, without   *)
(* any help from the poll timeout or from other I/O.                       *)
QueuedFunctorRuns ==
    \A f \in Functors :
        (origin[f] \in Threads) ~> (pc = "outside" \/ \E i \in DOMAIN ran : ran[i] = f)

(* quit() stops the loop that is running, whoever calls it.                *)
QuitStopsLoop == (looping_ /\ quit_) ~> ~looping_
=============================================================================
