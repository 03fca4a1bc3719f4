--------------------------- MODULE EventLoopProofs ---------------------------
(***************************************************************************)
(* Proofs about EventLoop for any set of threads and any set of functors:  *)
(* type correctness, that no wakeup is lost, and that the two vectors of   *)
(* functors implement the single FIFO queue of TaskQueue.                  *)
(***************************************************************************)
EXTENDS EventLoop, SequenceTheorems, TLAPS

-----------------------------------------------------------------------------
(* Every step keeps the variables in their types and the loop's flags in   *)
(* agreement with the place the loop thread is at.                         *)
LEMMA TypeStep == TypeOK /\ [Next]_vars => TypeOK'
<1> SUFFICES ASSUME TypeOK, [Next]_vars PROVE TypeOK'
  OBVIOUS
<1> USE DEF TypeOK, LoopPc, Channels, Origins, UserCode, vars, loopVars, queueVars, history
<1>1. CASE EnterLoop  BY <1>1 DEF EnterLoop
<1>2. CASE PollReturn  BY <1>2 DEF PollReturn
<1>3. CASE PollTimeout  BY <1>3 DEF PollTimeout
<1>4. CASE LoopStep
  <2>1. CASE CheckQuit  BY <2>1 DEF CheckQuit
  <2>2. CASE HandleWakeup  BY <2>2 DEF HandleWakeup
  <2>3. CASE HandleIo  BY <2>3 DEF HandleIo
  <2>4. CASE HandlerReturn  BY <2>4 DEF HandlerReturn
  <2>5. CASE BeginPending  BY <2>5 DEF BeginPending
  <2>6. CASE SwapPending  BY <2>6 DEF SwapPending
  <2>7. CASE RunFunctor  BY <2>7 DEF RunFunctor
  <2>8. CASE FunctorReturn  BY <2>8 DEF FunctorReturn
  <2>9. CASE EndPending  BY <2>9 DEF EndPending
  <2> QED  BY <1>4, <2>1, <2>2, <2>3, <2>4, <2>5, <2>6, <2>7, <2>8, <2>9 DEF LoopStep
<1>5. CASE UserStep
  <2>1. CASE QuitHere  BY <2>1 DEF QuitHere
  <2>2. ASSUME NEW f \in Functors, QueueInLoopHere(f) PROVE TypeOK'
    BY <2>2 DEF QueueInLoopHere, MustWakeup
  <2>3. ASSUME NEW f \in Functors, RunInLoopHere(f) PROVE TypeOK'
    BY <2>3 DEF RunInLoopHere
  <2> QED  BY <1>5, <2>1, <2>2, <2>3 DEF UserStep
<1>6. ASSUME NEW t \in Threads, ThreadStep(t) PROVE TypeOK'
  <2>1. CASE Quit(t)  BY <2>1 DEF Quit
  <2>2. CASE Wakeup(t)  BY <2>2 DEF Wakeup
  <2>3. ASSUME NEW f \in Functors, QueueInLoop(t, f) PROVE TypeOK'
    BY <2>3 DEF QueueInLoop, MustWakeup
  <2> QED  BY <1>6, <2>1, <2>2, <2>3 DEF ThreadStep
<1>7. CASE UNCHANGED vars  BY <1>7
<1> QED  BY <1>1, <1>2, <1>3, <1>4, <1>5, <1>6, <1>7 DEF Next

(* The loop's state is well formed in every reachable state, for any       *)
(* number of foreign threads and functors.                                 *)
THEOREM TypeCorrect == Spec => []TypeOK
<1>1. Init => TypeOK
  <2> SUFFICES ASSUME Init PROVE TypeOK
    OBVIOUS
  <2>1. <<>> \in Seq(Functors)
    BY EmptySeq
  <2>2. tpc \in [Threads -> {"idle", "pushed", "quitting"}]
    BY DEF Init
  <2>3. origin \in [Functors -> Origins]
    BY DEF Init, Origins
  <2> QED  BY <2>1, <2>2, <2>3 DEF Init, TypeOK, LoopPc
<1>2. QED  BY <1>1, TypeStep, PTL DEF Spec

-----------------------------------------------------------------------------
(* NoLostWakeup is not inductive: it speaks of poll() only, and what the   *)
(* loop finds there was decided in the iteration before.  WakeupInv says   *)
(* it of every place from which poll() is reached without passing through  *)
(* the swap of doPendingFunctors.                                          *)
LEMMA WakeupStep == TypeOK /\ WakeupInv /\ [Next]_vars => WakeupInv'
<1> SUFFICES ASSUME TypeOK, WakeupInv, [Next]_vars PROVE WakeupInv'
  OBVIOUS
<1> USE DEF TypeOK, WakeupInv, Unannounced, LoopPc, vars, loopVars, queueVars, history
<1>1. CASE EnterLoop  BY <1>1 DEF EnterLoop
<1>2. CASE PollReturn  BY <1>2 DEF PollReturn
<1>3. CASE PollTimeout  BY <1>3 DEF PollTimeout
<1>4. CASE LoopStep
  <2>1. CASE CheckQuit  BY <2>1 DEF CheckQuit
  <2>2. CASE HandleWakeup  BY <2>2 DEF HandleWakeup
  <2>3. CASE HandleIo  BY <2>3 DEF HandleIo
  <2>4. CASE HandlerReturn  BY <2>4 DEF HandlerReturn
  <2>5. CASE BeginPending  BY <2>5 DEF BeginPending
  <2>6. CASE SwapPending
    <3>1. pendingFunctors_' = <<>>
      BY <2>6 DEF SwapPending
    <3> QED  BY <3>1, <2>6 DEF SwapPending
  <2>7. CASE RunFunctor  BY <2>7 DEF RunFunctor
  <2>8. CASE FunctorReturn  BY <2>8 DEF FunctorReturn
  <2>9. CASE EndPending  BY <2>9 DEF EndPending
  <2> QED  BY <1>4, <2>1, <2>2, <2>3, <2>4, <2>5, <2>6, <2>7, <2>8, <2>9 DEF LoopStep
<1>5. CASE UserStep
  <2>1. CASE QuitHere  BY <2>1 DEF QuitHere, UserCode
  <2>2. ASSUME NEW f \in Functors, QueueInLoopHere(f) PROVE WakeupInv'
    <3>1. CASE pc = "functor"
      <4>1. wakeupFd_'
        BY <2>2, <3>1 DEF QueueInLoopHere, MustWakeup
      <4> QED  BY <4>1, <3>1, <2>2 DEF QueueInLoopHere
    <3>2. CASE pc = "outside"
      <4>1. \A i \in DOMAIN pendingFunctors_' :
              \/ i \in DOMAIN pendingFunctors_ /\ pendingFunctors_'[i] = pendingFunctors_[i]
              \/ pendingFunctors_'[i] = f
        BY <2>2 DEF QueueInLoopHere
      <4>2. origin'[f] = "outside"
        BY <2>2, <3>2 DEF QueueInLoopHere
      <4>3. \A g \in Functors : g # f => origin'[g] = origin[g]
        BY <2>2 DEF QueueInLoopHere
      <4>4. \A i \in DOMAIN pendingFunctors_ : pendingFunctors_[i] \in Functors
        OBVIOUS
      <4> QED  BY <4>1, <4>2, <4>3, <4>4, <3>2, <2>2 DEF QueueInLoopHere
    <3>3. CASE pc = "handler"
      BY <3>3, <2>2 DEF QueueInLoopHere
    <3> QED  BY <3>1, <3>2, <3>3, <2>2 DEF QueueInLoopHere, UserCode
  <2>3. ASSUME NEW f \in Functors, RunInLoopHere(f) PROVE WakeupInv'
    <3>1. \A i \in DOMAIN pendingFunctors_ : pendingFunctors_[i] \in Functors
      OBVIOUS
    <3>2. \A g \in Functors : origin'[g] = IF g = f THEN pc ELSE origin[g]
      BY <2>3 DEF RunInLoopHere
    <3>3. origin[f] = "none"
      BY <2>3 DEF RunInLoopHere
    <3>4. "none" \notin Threads /\ pc \in UserCode
      BY <2>3, ThreadsAssumption DEF RunInLoopHere
    <3>5. CASE wakeupFd_
      BY <3>5, <2>3 DEF RunInLoopHere
    <3>6. CASE ~wakeupFd_
      <4>1. pc \in {"outside", "functor"} =>
              \A i \in DOMAIN pendingFunctors_ : pendingFunctors_[i] # f
        BY <3>6, <3>3, <3>4
      <4> QED  BY <4>1, <3>1, <3>2, <3>4, <2>3 DEF RunInLoopHere, UserCode
    <3> QED  BY <3>5, <3>6
  <2> QED  BY <1>5, <2>1, <2>2, <2>3 DEF UserStep
<1>6. ASSUME NEW t \in Threads, ThreadStep(t) PROVE WakeupInv'
  <2>1. CASE Quit(t)  BY <2>1 DEF Quit
  <2>2. CASE Wakeup(t)  BY <2>2 DEF Wakeup
  <2>3. ASSUME NEW f \in Functors, QueueInLoop(t, f) PROVE WakeupInv'
    <3>1. \A i \in DOMAIN pendingFunctors_' :
            \/ i \in DOMAIN pendingFunctors_ /\ pendingFunctors_'[i] = pendingFunctors_[i]
            \/ pendingFunctors_'[i] = f
      BY <2>3 DEF QueueInLoop
    <3>2. origin'[f] = t /\ \A g \in Functors : g # f => origin'[g] = origin[g]
      BY <2>3 DEF QueueInLoop
    <3>3. tpc'[t] = "pushed" /\ \A u \in Threads : u # t => tpc'[u] = tpc[u]
      BY <2>3 DEF QueueInLoop, MustWakeup
    <3>4. \A i \in DOMAIN pendingFunctors_ : pendingFunctors_[i] \in Functors
      OBVIOUS
    <3>5. t # "outside"
      BY ThreadsAssumption
    <3>6. \A g \in Functors : ~Unannounced(g) => ~Unannounced(g)'
      BY <3>2, <3>3, <3>5, <2>3 DEF QueueInLoop
    <3>7. ~Unannounced(f)'
      BY <3>2, <3>3, <3>5
    <3>8. pc' = pc /\ quit_' = quit_ /\ wakeupFd_' = wakeupFd_ /\ tpc[t] = "idle"
      BY <2>3 DEF QueueInLoop
    <3> QED  BY <3>1, <3>3, <3>4, <3>6, <3>7, <3>8
  <2> QED  BY <1>6, <2>1, <2>2, <2>3 DEF ThreadStep
<1>7. CASE UNCHANGED vars  BY <1>7
<1> QED  BY <1>1, <1>2, <1>3, <1>4, <1>5, <1>6, <1>7 DEF Next

(* No thread's queueInLoop or quit leaves the loop asleep in poll(): for   *)
(* any number of threads and functors, a pending functor in poll() has a   *)
(* readable eventfd, a thread about to write it, or was queued by the loop *)
(* thread before it entered loop().                                        *)
THEOREM NoWakeupLost == Spec => []NoLostWakeup
<1>1. Init => WakeupInv
  BY DEF Init, WakeupInv
<1>2. WakeupInv => NoLostWakeup
  BY DEF WakeupInv, NoLostWakeup
<1>3. QED  BY <1>1, <1>2, WakeupStep, TypeCorrect, PTL DEF Spec

-----------------------------------------------------------------------------
(* What waits to be run: the rest of the local vector, then what was       *)
(* pushed since the swap.                                                  *)
Waiting == functors \o pendingFunctors_

Submitted(f) ==
    /\ origin[f] = "none"
    /\ \E o \in Origins \ {"none"} : origin' = [origin EXCEPT ![f] = o]

(* The effect of every step on the queue, the history and the origins. *)
QueueEffect ==
    \/ \E f \in Functors : Submitted(f) /\ Waiting' = Append(Waiting, f) /\ ran' = ran
    \/ \E f \in Functors : Submitted(f) /\ Waiting' = Waiting /\ ran' = Append(ran, f)
    \/ /\ Waiting # <<>> /\ Waiting' = Tail(Waiting)
       /\ ran' = Append(ran, Head(Waiting)) /\ origin' = origin
    \/ Waiting' = Waiting /\ ran' = ran /\ origin' = origin

(* A functor that was never handed over waits nowhere and did not run. *)
FreshInv == \A f \in Functors : origin[f] = "none" => FunctorQueue!Fresh(f)

(* Pushing, swapping and running are operations on one queue. *)
LEMMA EffectStep ==
    ASSUME TypeOK, [Next]_vars
    PROVE  QueueEffect
<1> USE DEF vars, loopVars, queueVars, history
<1>1. functors \in Seq(Functors) /\ pendingFunctors_ \in Seq(Functors)
  BY DEF TypeOK
<1>2. ASSUME NEW f \in Functors, pendingFunctors_' = Append(pendingFunctors_, f), functors' = functors
      PROVE  Waiting' = Append(Waiting, f)
  <2>1. Append(pendingFunctors_, f) = pendingFunctors_ \o <<f>>
    BY <1>1, AppendIsConcat
  <2>2. <<f>> \in Seq(Functors) /\ functors \o pendingFunctors_ \in Seq(Functors)
    BY <1>1, ConcatProperties
  <2>3. functors \o (pendingFunctors_ \o <<f>>) = (functors \o pendingFunctors_) \o <<f>>
    BY <1>1, <2>2, ConcatAssociative
  <2>4. Append(functors \o pendingFunctors_, f) = (functors \o pendingFunctors_) \o <<f>>
    BY <2>2, AppendIsConcat
  <2> QED  BY <1>2, <2>1, <2>3, <2>4 DEF Waiting
<1>3. CASE SwapPending
  <2>1. functors = <<>>
    BY <1>3 DEF SwapPending, TypeOK
  <2>2. functors' = pendingFunctors_ /\ pendingFunctors_' = <<>> /\ ran' = ran /\ origin' = origin
    BY <1>3, <2>1 DEF SwapPending
  <2>3. Waiting' = Waiting
    BY <1>1, <2>1, <2>2, ConcatEmptySeq DEF Waiting
  <2> QED  BY <2>2, <2>3 DEF QueueEffect
<1>4. CASE RunFunctor
  <2>1. /\ functors # <<>> /\ functors' = Tail(functors) /\ pendingFunctors_' = pendingFunctors_
        /\ ran' = Append(ran, Head(functors)) /\ origin' = origin
    BY <1>4 DEF RunFunctor
  <2>2. Waiting # <<>> /\ Head(Waiting) = Head(functors)
    BY <1>1, <2>1, ConcatProperties DEF Waiting
  <2>3. Tail(Waiting) = Tail(functors) \o pendingFunctors_
    BY <1>1, <2>1, <2>2 DEF Waiting
  <2> QED  BY <2>1, <2>2, <2>3 DEF QueueEffect, Waiting
<1>5. ASSUME NEW f \in Functors, QueueInLoopHere(f) PROVE QueueEffect
  <2>1. Submitted(f)
    BY <1>5 DEF QueueInLoopHere, Submitted, Origins, UserCode
  <2>2. ran' = ran /\ Waiting' = Append(Waiting, f)
    BY <1>2, <1>5 DEF QueueInLoopHere
  <2> QED  BY <2>1, <2>2 DEF QueueEffect
<1>6. ASSUME NEW f \in Functors, RunInLoopHere(f) PROVE QueueEffect
  <2>1. Submitted(f)
    BY <1>6 DEF RunInLoopHere, Submitted, Origins, UserCode
  <2>2. ran' = Append(ran, f) /\ Waiting' = Waiting
    BY <1>6 DEF RunInLoopHere, Waiting
  <2> QED  BY <2>1, <2>2 DEF QueueEffect
<1>7. ASSUME NEW t \in Threads, NEW f \in Functors, QueueInLoop(t, f) PROVE QueueEffect
  <2>1. Submitted(f)
    BY <1>7, ThreadsAssumption DEF QueueInLoop, Submitted, Origins
  <2>2. ran' = ran /\ Waiting' = Append(Waiting, f)
    BY <1>2, <1>7 DEF QueueInLoop
  <2> QED  BY <2>1, <2>2 DEF QueueEffect
<1>8. ASSUME UNCHANGED <<queueVars, history>> PROVE QueueEffect
  BY <1>8 DEF QueueEffect, Waiting
<1>9. CASE EnterLoop \/ PollReturn \/ PollTimeout \/ UNCHANGED vars
  BY <1>8, <1>9 DEF EnterLoop, PollReturn, PollTimeout
<1>10. CASE LoopStep
  <2>1. CASE CheckQuit \/ HandleWakeup \/ HandleIo \/ HandlerReturn
    BY <1>8, <2>1 DEF CheckQuit, HandleWakeup, HandleIo, HandlerReturn
  <2>2. CASE BeginPending \/ FunctorReturn \/ EndPending
    BY <1>8, <2>2 DEF BeginPending, FunctorReturn, EndPending
  <2> QED  BY <1>3, <1>4, <1>10, <2>1, <2>2 DEF LoopStep
<1>11. CASE UserStep
  <2>1. CASE QuitHere
    BY <1>8, <2>1 DEF QuitHere
  <2> QED  BY <1>5, <1>6, <1>11, <2>1 DEF UserStep
<1>12. ASSUME NEW t \in Threads, ThreadStep(t) PROVE QueueEffect
  <2>1. CASE Quit(t) \/ Wakeup(t)
    BY <1>8, <2>1 DEF Quit, Wakeup
  <2> QED  BY <1>7, <1>12, <2>1 DEF ThreadStep
<1> QED  BY <1>9, <1>10, <1>11, <1>12 DEF Next

(* Handing a functor over, and running one, leaves the others fresh. *)
LEMMA FreshStep ==
    ASSUME TypeOK, FreshInv, QueueEffect
    PROVE  FreshInv'
<1> SUFFICES ASSUME NEW g \in Functors, origin'[g] = "none"
             PROVE  FunctorQueue!Fresh(g)'
  BY DEF FreshInv
<1>1. Waiting \in Seq(Functors) /\ ran \in Seq(Functors)
  BY ConcatProperties DEF TypeOK, Waiting
<1>2. ASSUME NEW f \in Functors, Submitted(f) PROVE f # g /\ origin[g] = "none"
  BY <1>2 DEF Submitted, TypeOK
<1>3. ASSUME origin[g] = "none" PROVE
        (\A i \in DOMAIN Waiting : Waiting[i] # g) /\ (\A i \in DOMAIN ran : ran[i] # g)
  BY <1>3 DEF FreshInv, FunctorQueue!Fresh, FunctorQueue!InSeq, Waiting
<1>4. ASSUME NEW s \in Seq(Functors), NEW f \in Functors, f # g, \A i \in DOMAIN s : s[i] # g
      PROVE  \A i \in DOMAIN Append(s, f) : Append(s, f)[i] # g
  BY <1>4, AppendProperties
<1> DEFINE StillFresh == (\A i \in DOMAIN Waiting' : Waiting'[i] # g) /\ (\A i \in DOMAIN ran' : ran'[i] # g)
<1>5. StillFresh
  <2>1. ASSUME NEW f \in Functors, Submitted(f), Waiting' = Append(Waiting, f), ran' = ran PROVE StillFresh
    BY <1>1, <1>2, <1>3, <1>4, <2>1
  <2>2. ASSUME NEW f \in Functors, Submitted(f), Waiting' = Waiting, ran' = Append(ran, f) PROVE StillFresh
    BY <1>1, <1>2, <1>3, <1>4, <2>2
  <2>3. ASSUME Waiting # <<>>, Waiting' = Tail(Waiting), ran' = Append(ran, Head(Waiting)), origin' = origin
        PROVE StillFresh
    <3>1. origin[g] = "none" /\ Head(Waiting) \in Functors /\ Head(Waiting) = Waiting[1] /\ 1 \in DOMAIN Waiting
      BY <1>1, <2>3
    <3>2. Head(Waiting) # g
      BY <1>3, <3>1
    <3>3. \A i \in DOMAIN Tail(Waiting) : i + 1 \in DOMAIN Waiting /\ Tail(Waiting)[i] = Waiting[i + 1]
      BY <1>1, <2>3
    <3> QED  BY <1>1, <1>3, <1>4, <2>3, <3>1, <3>2, <3>3
  <2>4. ASSUME Waiting' = Waiting, ran' = ran, origin' = origin PROVE StillFresh
    BY <1>3, <2>4
  <2> QED  BY <2>1, <2>2, <2>3, <2>4 DEF QueueEffect
<1> QED  BY <1>5 DEF FunctorQueue!Fresh, FunctorQueue!InSeq, Waiting

(* For any number of threads and functors, pendingFunctors_ and the local  *)
(* vector of doPendingFunctors behave as one FIFO queue: every functor     *)
(* runs at most once and in the order of the pushes.                       *)
THEOREM FunctorsInOrder == Spec => FunctorsRunInOrder
<1>1. Init => FreshInv /\ FunctorQueue!Init
  <2> SUFFICES ASSUME Init PROVE FreshInv /\ FunctorQueue!Init  OBVIOUS
  <2>1. functors \o pendingFunctors_ = <<>> /\ ran = <<>>
    BY DEF Init
  <2> QED  BY <2>1 DEF FreshInv, FunctorQueue!Init, FunctorQueue!Fresh, FunctorQueue!InSeq
<1>2. TypeOK /\ FreshInv /\ [Next]_vars => FreshInv' /\ [FunctorQueue!Next]_(FunctorQueue!vars)
  <2> SUFFICES ASSUME TypeOK, FreshInv, [Next]_vars
               PROVE  FreshInv' /\ [FunctorQueue!Next]_(FunctorQueue!vars)
    OBVIOUS
  <2>1. QueueEffect
    BY EffectStep
  <2>2. FreshInv'
    BY <2>1, FreshStep
  <2>3. [FunctorQueue!Next]_(FunctorQueue!vars)
    BY <2>1 DEF QueueEffect, Submitted, FreshInv, Waiting, FunctorQueue!Next, FunctorQueue!vars,
                FunctorQueue!Submit, FunctorQueue!RunDirectly, FunctorQueue!RunOldest
  <2> QED  BY <2>2, <2>3
<1> QED  BY <1>1, <1>2, TypeCorrect, PTL DEF Spec, FunctorsRunInOrder, FunctorQueue!Spec
=============================================================================
