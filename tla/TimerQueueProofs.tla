-------------------------- MODULE TimerQueueProofs ---------------------------
(***************************************************************************)
(* Proofs about TimerQueue for any set of timers and any intervals: the    *)
(* timerfd is always set in time for the first timer that waits; and if    *)
(* the application is careful with what it cancels, a timer has one owner, *)
(* is not used after it was deleted and runs on schedule.                  *)
(***************************************************************************)
EXTENDS TimerQueue, SequenceTheorems, TLAPS

Functor == [op : {"insert", "cancel"}, timer : Timers, when : Nat]

(* Setting the timerfd for some time. *)
LEMMA SetType ==
    ASSUME now \in Nat, EndOfTime \in Nat, NEW w \in Nat, timerfdSet(w)
    PROVE  armed' = TRUE /\ deadline' \in Nat /\ (deadline' = w \/ deadline' <= now + 1)
BY DEF timerfdSet

(* An insertion keeps the types. *)
LEMMA InsertType ==
    ASSUME TypeOK, NEW t \in Timers, NEW w \in Nat, InsertInLoop(t, w)
    PROVE  timers_' \subseteq Nat \X Timers /\ armed' \in BOOLEAN /\ deadline' \in Nat
<1>1. now \in Nat /\ EndOfTime \in Nat
  BY TimeAssumption DEF TypeOK
<1>2. timers_' \subseteq Nat \X Timers
  BY DEF InsertInLoop, TypeOK
<1>3. CASE timerfdSet(w)
  BY <1>1, <1>2, <1>3, SetType
<1>4. CASE UNCHANGED fdVars
  BY <1>2, <1>4 DEF fdVars, TypeOK
<1> QED  BY <1>3, <1>4 DEF InsertInLoop

(* An insertion keeps the timerfd set in time for every timer that waits. *)
LEMMA InsertArmed ==
    ASSUME TypeOK, NEW t \in Timers, NEW w \in Nat, InsertInLoop(t, w),
           timers_ # {} => armed /\ \A e \in timers_ : deadline <= e[1] \/ deadline <= now + 1
    PROVE  armed' /\ \A e \in timers_' : deadline' <= e[1] \/ deadline' <= now + 1
<1>1. now \in Nat /\ EndOfTime \in Nat
  BY TimeAssumption DEF TypeOK
<1>2. timers_' = timers_ \cup {<<w, t>>}
  BY DEF InsertInLoop
<1>3. \A e \in timers_ : e[1] \in Nat /\ e[2] \in Timers /\ e[2] \in Nat
  BY TimersAssumption DEF TypeOK
<1>4. t \in Nat
  BY TimersAssumption
<1>5. CASE IsFirst(<<w, t>>, timers_)
  <2>1. armed' = TRUE /\ deadline' \in Nat /\ (deadline' = w \/ deadline' <= now + 1)
    BY <1>1, <1>5, SetType DEF InsertInLoop
  <2>2. \A e \in timers_ : w <= e[1]
    BY <1>3, <1>5 DEF IsFirst, Before
  <2> QED  BY <1>1, <1>2, <1>3, <2>1, <2>2
<1>6. CASE ~IsFirst(<<w, t>>, timers_)
  <2>1. armed' = armed /\ deadline' = deadline
    BY <1>6 DEF InsertInLoop, fdVars
  <2>2. PICK e \in timers_ : ~Before(<<w, t>>, e)
    BY <1>6 DEF IsFirst
  <2>3. e[1] <= w
    BY <1>3, <1>4, <2>2 DEF Before
  <2>4. armed /\ \A x \in timers_ : deadline <= x[1] \/ deadline <= now + 1
    BY <2>2
  <2>5. deadline <= w \/ deadline <= now + 1
    BY <1>1, <1>3, <2>2, <2>3, <2>4 DEF TypeOK
  <2> QED  BY <1>2, <2>1, <2>4, <2>5
<1> QED  BY <1>5, <1>6

-----------------------------------------------------------------------------
(* Every step keeps the variables in their types. *)
LEMMA TypeStep == TypeOK /\ [Next]_vars => TypeOK'
<1> SUFFICES ASSUME TypeOK, [Next]_vars PROVE TypeOK'
  OBVIOUS
<1> USE DEF vars, timerVars, fdVars, loopVars, history, At
<1>1. CASE Poll
  BY <1>1 DEF Poll, Readable, TypeOK
<1>2. CASE HandleRead
  BY <1>2 DEF HandleRead, Readable, getExpired, TypeOK
<1>3. CASE NoRead
  BY <1>3 DEF NoRead, TypeOK
<1>4. CASE RunTimer
  <2>1. PICK e \in expired :
          /\ expired' = expired \ {e} /\ misuse' = (obj[e[2]] # "live")
          /\ current' = {e[2]} /\ pc' = "callback"
          /\ runs' = [runs EXCEPT ![e[2]] = @ + 1]
    BY <1>4 DEF RunTimer
  <2>2. e[2] \in Timers
    BY DEF TypeOK
  <2>3. runs' \in [Timers -> Nat] /\ expired' \subseteq Nat \X Timers /\ current' \subseteq Timers
    BY <2>1, <2>2 DEF TypeOK
  <2> QED  BY <1>4, <2>1, <2>3 DEF RunTimer, TypeOK
<1>5. CASE CallbackReturn
  <2>1. PICK t \in current :
          /\ misuse' = (obj[t] # "live")
          /\ IF Interval[t] > 0
             THEN Reinsert(t) /\ UNCHANGED obj
             ELSE obj' = [obj EXCEPT ![t] = "deleted"] /\ UNCHANGED <<timers_, when>>
    BY <1>5 DEF CallbackReturn
  <2>2. t \in Timers /\ Interval[t] \in Nat /\ when[t] + Interval[t] \in Nat
    BY TimersAssumption DEF TypeOK
  <2>3. /\ timers_' \subseteq Nat \X Timers /\ when' \in [Timers -> Nat]
        /\ obj' \in [Timers -> {"none", "live", "deleted"}]
    <3>1. CASE Interval[t] > 0
      <4>1. when' = [when EXCEPT ![t] = when[t] + Interval[t]] /\ obj' = obj
        BY <2>1, <3>1 DEF Reinsert
      <4>2. timers_' = timers_ \cup {<<when[t] + Interval[t], t>>}
        BY <2>1, <3>1 DEF Reinsert
      <4> QED  BY <2>2, <4>1, <4>2 DEF TypeOK
    <3>2. CASE ~(Interval[t] > 0)
      BY <2>1, <2>2, <3>2 DEF TypeOK
    <3> QED  BY <3>1, <3>2
  <2> QED  BY <1>5, <2>1, <2>3 DEF CallbackReturn, TypeOK
<1>6. CASE EndRead
  <2>1. armed' \in BOOLEAN /\ deadline' \in Nat
    <3>1. CASE UNCHANGED fdVars
      BY <3>1 DEF TypeOK
    <3>2. ASSUME NEW e \in timers_, timerfdSet(e[1]) PROVE armed' \in BOOLEAN /\ deadline' \in Nat
      <4>1. e[1] \in Nat /\ now \in Nat
        BY TimeAssumption DEF TypeOK
      <4> QED  BY <3>2, <4>1, SetType, TimeAssumption
    <3> QED  BY <1>6, <3>1, <3>2 DEF EndRead
  <2> QED  BY <1>6, <2>1 DEF EndRead, TypeOK
<1>7. CASE RunFunctor
  <2> DEFINE f == Head(pendingFunctors_)
  <2>1. f \in Functor /\ Tail(pendingFunctors_) \in Seq(Functor)
    BY <1>7, HeadTailProperties DEF RunFunctor, TypeOK, Functor
  <2>2. f.timer \in Timers /\ f.when \in Nat
    BY <2>1 DEF Functor
  <2> HIDE DEF f
  <2>3. /\ timers_' \subseteq Nat \X Timers /\ armed' \in BOOLEAN /\ deadline' \in Nat
        /\ obj' \in [Timers -> {"none", "live", "deleted"}] /\ misuse' \in BOOLEAN
    <3>1. CASE InsertInLoop(f.timer, f.when) /\ UNCHANGED <<obj, misuse>>
      BY <2>2, <3>1, InsertType DEF TypeOK
    <3>2. CASE CancelInLoop(f.timer) /\ UNCHANGED fdVars
      BY <2>2, <3>2 DEF CancelInLoop, TypeOK
    <3> QED  BY <1>7, <3>1, <3>2 DEF RunFunctor, f
  <2> QED  BY <1>7, <2>1, <2>3 DEF RunFunctor, TypeOK, Functor
<1>8. CASE EndRound
  BY <1>8 DEF EndRound, TypeOK
<1>9. ASSUME NEW t \in Timers, NEW w \in Expiries(t), NewTimer(t, w)
      PROVE  /\ w \in Nat /\ when' \in [Timers -> Nat] /\ first' \in [Timers -> Nat]
             /\ obj' \in [Timers -> {"none", "live", "deleted"}]
             /\ UNCHANGED <<now, loopVars, asked, runs, misuse>>
  <2>1. w \in Nat
    BY TimeAssumption DEF Expiries
  <2> QED  BY <1>9, <2>1 DEF NewTimer, TypeOK
<1>10. ASSUME NEW t \in Timers, AddTimerHere(t) PROVE TypeOK'
  <2>1. PICK w \in Expiries(t) : NewTimer(t, w) /\ InsertInLoop(t, w)
    BY <1>10 DEF AddTimerHere
  <2>2. timers_' \subseteq Nat \X Timers /\ armed' \in BOOLEAN /\ deadline' \in Nat
    BY <1>9, <2>1, InsertType
  <2>3. pendingFunctors_' = pendingFunctors_
    BY <1>10 DEF AddTimerHere
  <2>4. /\ when' \in [Timers -> Nat] /\ first' \in [Timers -> Nat]
        /\ obj' \in [Timers -> {"none", "live", "deleted"}]
        /\ UNCHANGED <<now, loopVars, asked, runs, misuse>>
    BY <1>9, <2>1
  <2> QED  BY <2>2, <2>3, <2>4 DEF TypeOK
<1>11. ASSUME NEW t \in Timers, AddTimer(t) PROVE TypeOK'
  <2>1. PICK w \in Expiries(t) :
          /\ NewTimer(t, w)
          /\ pendingFunctors_' = Append(pendingFunctors_, [op |-> "insert", timer |-> t, when |-> w])
    BY <1>11 DEF AddTimer
  <2>2. [op |-> "insert", timer |-> t, when |-> w] \in Functor
    BY <1>9, <2>1 DEF Functor
  <2>3. pendingFunctors_' \in Seq(Functor)
    BY <2>1, <2>2, AppendProperties DEF TypeOK, Functor
  <2>4. /\ when' \in [Timers -> Nat] /\ first' \in [Timers -> Nat]
        /\ obj' \in [Timers -> {"none", "live", "deleted"}]
        /\ UNCHANGED <<now, loopVars, asked, runs, misuse>>
    BY <1>9, <2>1
  <2>5. UNCHANGED <<fdVars, timers_>>
    BY <1>11 DEF AddTimer
  <2> QED  BY <2>3, <2>4, <2>5 DEF TypeOK, Functor
<1>12. ASSUME NEW t \in Timers, CancelTimerHere(t) PROVE TypeOK'
  BY <1>12 DEF CancelTimerHere, CancelInLoop, TypeOK
<1>13. ASSUME NEW t \in Timers, CancelTimer(t) PROVE TypeOK'
  <2>1. [op |-> "cancel", timer |-> t, when |-> 0] \in Functor
    BY DEF Functor
  <2>2. pendingFunctors_' \in Seq(Functor)
    BY <1>13, <2>1, AppendProperties DEF CancelTimer, TypeOK, Functor
  <2> QED  BY <1>13, <2>2 DEF CancelTimer, TypeOK, Functor
<1>14. CASE Tick
  <2>1. now' \in 0..EndOfTime
    BY <1>14, TimeAssumption DEF Tick, TypeOK
  <2> QED  BY <1>14, <2>1 DEF Tick, TypeOK
<1>15. CASE UNCHANGED vars
  BY <1>15 DEF TypeOK
<1> QED  BY <1>1, <1>2, <1>3, <1>4, <1>5, <1>6, <1>7, <1>8, <1>10, <1>11, <1>12, <1>13, <1>14, <1>15
         DEF Next, LoopStep, UserStep

(* The state of the queue is well formed in every reachable state. *)
THEOREM TypeCorrect == Spec => []TypeOK
<1>1. Init => TypeOK
  <2> SUFFICES ASSUME Init PROVE TypeOK  OBVIOUS
  <2>1. <<>> \in Seq([op : {"insert", "cancel"}, timer : Timers, when : Nat])
    BY EmptySeq
  <2>2. when \in [Timers -> Nat] /\ first \in [Timers -> Nat] /\ runs \in [Timers -> Nat]
    BY DEF Init
  <2>3. obj \in [Timers -> {"none", "live", "deleted"}]
    BY DEF Init
  <2>4. now \in 0..EndOfTime /\ deadline \in Nat
    BY TimeAssumption DEF Init
  <2> QED  BY <2>1, <2>2, <2>3, <2>4 DEF Init, TypeOK
<1> QED  BY <1>1, TypeStep, PTL DEF Spec

-----------------------------------------------------------------------------
(* ArmedInTime says nothing while handleRead walks the expired timers and  *)
(* is established again by its last statement.                             *)
LEMMA ArmedStep == TypeOK /\ ArmedInTime /\ [Next]_vars => ArmedInTime'
<1> SUFFICES ASSUME TypeOK, ArmedInTime, [Next]_vars PROVE ArmedInTime'
  OBVIOUS
<1> USE DEF vars, timerVars, fdVars, loopVars, history, At
<1>1. now \in Nat /\ deadline \in Nat /\ \A e \in timers_ : e[1] \in Nat /\ e[2] \in Nat
  <2>1. now \in Nat /\ deadline \in Nat
    BY TimeAssumption DEF TypeOK
  <2>2. ASSUME NEW e \in timers_ PROVE e[1] \in Nat /\ e[2] \in Nat
    BY TimersAssumption DEF TypeOK
  <2> QED  BY <2>1, <2>2
<1>2. CASE Poll
  BY <1>2 DEF Poll, ArmedInTime
<1>3. CASE HandleRead \/ RunTimer \/ CallbackReturn
  BY <1>3 DEF HandleRead, RunTimer, CallbackReturn, ArmedInTime
<1>4. CASE NoRead \/ EndRound
  BY <1>4 DEF NoRead, EndRound, ArmedInTime
<1>5. CASE EndRead
  <2>1. CASE timers_ = {}
    BY <1>5, <2>1 DEF EndRead, ArmedInTime
  <2>2. ASSUME NEW e \in timers_, IsFirst(e, timers_), timerfdSet(e[1]) PROVE ArmedInTime'
    <3>1. armed' = TRUE /\ deadline' \in Nat /\ (deadline' = e[1] \/ deadline' <= now + 1)
      BY <1>1, <2>2, SetType, TimeAssumption
    <3>2. \A f \in timers_ : e[1] <= f[1]
      BY <1>1, <2>2 DEF IsFirst, Before
    <3> QED  BY <1>1, <1>5, <3>1, <3>2 DEF EndRead, ArmedInTime
  <2> QED  BY <1>5, <2>1, <2>2 DEF EndRead
<1>6. CASE RunFunctor
  <2> DEFINE f == Head(pendingFunctors_)
  <2>1. f \in Functor
    BY <1>6, HeadTailProperties DEF RunFunctor, TypeOK, Functor
  <2>2. f.timer \in Timers /\ f.when \in Nat
    BY <2>1 DEF Functor
  <2> HIDE DEF f
  <2>3. pc = "functors" /\ now' = now /\ pc' = pc
    BY <1>6 DEF RunFunctor
  <2>4. CASE InsertInLoop(f.timer, f.when)
    BY <2>2, <2>3, <2>4, InsertArmed DEF ArmedInTime
  <2>5. CASE CancelInLoop(f.timer) /\ UNCHANGED fdVars
    BY <2>3, <2>5 DEF CancelInLoop, ArmedInTime
  <2> QED  BY <1>6, <2>4, <2>5 DEF RunFunctor, f
<1>7. ASSUME NEW t \in Timers, AddTimerHere(t) PROVE ArmedInTime'
  <2>1. PICK w \in Expiries(t) : NewTimer(t, w) /\ InsertInLoop(t, w)
    BY <1>7 DEF AddTimerHere
  <2>2. w \in Nat /\ now' = now /\ pc' = pc
    BY <2>1, TimeAssumption DEF Expiries, NewTimer
  <2> QED  BY <2>1, <2>2, InsertArmed DEF ArmedInTime
<1>8. ASSUME NEW t \in Timers, AddTimer(t) PROVE ArmedInTime'
  BY <1>8 DEF AddTimer, NewTimer, ArmedInTime
<1>9. ASSUME NEW t \in Timers, CancelTimerHere(t) PROVE ArmedInTime'
  BY <1>9 DEF CancelTimerHere, CancelInLoop, ArmedInTime
<1>10. ASSUME NEW t \in Timers, CancelTimer(t) PROVE ArmedInTime'
  BY <1>10 DEF CancelTimer, ArmedInTime
<1>11. CASE Tick
  <2>1. now' = now + 1 /\ timers_' = timers_ /\ armed' = armed /\ deadline' = deadline /\ pc' = pc
    BY <1>11 DEF Tick
  <2> QED  BY <1>1, <2>1 DEF ArmedInTime
<1>12. CASE UNCHANGED vars
  BY <1>12 DEF ArmedInTime
<1> QED  BY <1>2, <1>3, <1>4, <1>5, <1>6, <1>7, <1>8, <1>9, <1>10, <1>11, <1>12
         DEF Next, LoopStep, UserStep

(* For any timers and intervals, and however additions, cancellations,     *)
(* callbacks and the clock interleave: whenever handleRead is not under    *)
(* way, the timerfd is set for no later than the first timer that waits.   *)
THEOREM AlwaysArmed == Spec => []ArmedInTime
<1>1. Init => ArmedInTime
  BY DEF Init, ArmedInTime
<1> QED  BY <1>1, ArmedStep, TypeCorrect, PTL DEF Spec

-----------------------------------------------------------------------------
(* Who owns a timer: an entry of the set, an entry that handleRead has     *)
(* taken out, the callback under way, or the functor that will insert it.  *)

Waiting(t) == <<when[t], t>> \in timers_
Due(t) == <<when[t], t>> \in expired
Running(t) == t \in current
Coming(t) == \E i \in 1..Len(pendingFunctors_) :
                 pendingFunctors_[i].op = "insert" /\ pendingFunctors_[i].timer = t

(* Entries carry the time of their timers. *)
EntriesInv == \A e \in timers_ \cup expired : e[1] = when[e[2]]

(* A timer exists exactly if it has an owner. *)
OwnedInv == \A t \in Timers : obj[t] = "live" <=> Waiting(t) \/ Due(t) \/ Running(t) \/ Coming(t)

(* It has one owner. *)
OnceInv ==
    \A t \in Timers :
        /\ Waiting(t) => ~Due(t) /\ ~Running(t) /\ ~Coming(t)
        /\ Due(t) => ~Running(t) /\ ~Coming(t)
        /\ Running(t) => ~Coming(t)

(* One callback runs at a time. *)
CallbackInv == \A t, u \in current : t = u

(* An insertion is queued once, with the time of its timer. *)
InsertsInv ==
    \A i, j \in 1..Len(pendingFunctors_) :
        LET f == pendingFunctors_[i] g == pendingFunctors_[j]
        IN  f.op = "insert" =>
                /\ f.when = when[f.timer]
                /\ g.op = "insert" /\ g.timer = f.timer => i = j

(* A cancellation is queued for a repeating timer that is still there,     *)
(* once, and behind the timer's insertion.                                 *)
CancelsInv ==
    \A i, j \in 1..Len(pendingFunctors_) :
        LET f == pendingFunctors_[i] g == pendingFunctors_[j]
        IN  f.op = "cancel" =>
                /\ f.timer \in asked /\ obj[f.timer] = "live" /\ Interval[f.timer] > 0
                /\ g.timer = f.timer /\ i # j => g.op = "insert" /\ j < i

(* A repeating timer goes only when somebody asks for it. *)
DeletedInv == \A t \in Timers : obj[t] = "deleted" /\ Interval[t] > 0 => t \in asked

OwnerInv ==
    /\ ~misuse /\ EntriesInv /\ OwnedInv /\ OnceInv
    /\ CallbackInv /\ InsertsInv /\ CancelsInv /\ DeletedInv

ownerVars == <<timers_, expired, when, obj, current, pendingFunctors_, misuse>>

(* What an entry looks like. *)
LEMMA EntryTypes ==
    ASSUME TypeOK, EntriesInv
    PROVE  \A e \in timers_ \cup expired : e[2] \in Timers /\ e = <<when[e[2]], e[2]>>
<1>1. ASSUME NEW e \in timers_ \cup expired PROVE e[2] \in Timers /\ e = <<e[1], e[2]>>
  BY DEF TypeOK
<1> QED  BY <1>1 DEF EntriesInv

(* The queue with one functor more, and with one less. *)
LEMMA FunctorAppended ==
    ASSUME TypeOK, NEW f \in Functor, pendingFunctors_' = Append(pendingFunctors_, f)
    PROVE  /\ Len(pendingFunctors_) \in Nat /\ Len(pendingFunctors_') = Len(pendingFunctors_) + 1
           /\ \A i \in 1..Len(pendingFunctors_) : pendingFunctors_'[i] = pendingFunctors_[i]
           /\ pendingFunctors_'[Len(pendingFunctors_) + 1] = f
<1>1. pendingFunctors_ \in Seq(Functor)
  BY DEF TypeOK, Functor
<1> QED  BY <1>1, AppendProperties, LenProperties

LEMMA FunctorTaken ==
    ASSUME TypeOK, pendingFunctors_ # <<>>, pendingFunctors_' = Tail(pendingFunctors_)
    PROVE  /\ Len(pendingFunctors_) \in Nat \ {0} /\ Len(pendingFunctors_') = Len(pendingFunctors_) - 1
           /\ \A i \in 1..Len(pendingFunctors_') : pendingFunctors_'[i] = pendingFunctors_[i + 1]
           /\ Head(pendingFunctors_) = pendingFunctors_[1] /\ pendingFunctors_[1] \in Functor
<1>1. pendingFunctors_ \in Seq(Functor)
  BY DEF TypeOK, Functor
<1>2. Len(pendingFunctors_) \in Nat \ {0}
  BY <1>1, EmptySeq
<1> QED  BY <1>1, <1>2, HeadTailProperties, ElementOfSeq

(* The timer of the first functor is in the queue no more. *)
LEMMA InsertTaken ==
    ASSUME TypeOK, InsertsInv, pendingFunctors_ # <<>>, pendingFunctors_' = Tail(pendingFunctors_),
           Head(pendingFunctors_).op = "insert"
    PROVE  \A t \in Timers : Coming(t)' <=> Coming(t) /\ t # Head(pendingFunctors_).timer
<1>1. /\ Len(pendingFunctors_) \in Nat \ {0} /\ Len(pendingFunctors_') = Len(pendingFunctors_) - 1
      /\ \A i \in 1..Len(pendingFunctors_') : pendingFunctors_'[i] = pendingFunctors_[i + 1]
      /\ Head(pendingFunctors_) = pendingFunctors_[1]
  BY FunctorTaken
<1>2. ASSUME NEW t \in Timers, Coming(t)' PROVE Coming(t) /\ t # Head(pendingFunctors_).timer
  <2>1. PICK i \in 1..Len(pendingFunctors_') :
          pendingFunctors_'[i].op = "insert" /\ pendingFunctors_'[i].timer = t
    BY <1>2 DEF Coming
  <2>2. i + 1 \in 1..Len(pendingFunctors_) /\ 1 \in 1..Len(pendingFunctors_) /\ i + 1 # 1
    BY <1>1
  <2>3. pendingFunctors_[i + 1].op = "insert" /\ pendingFunctors_[i + 1].timer = t
    BY <1>1, <2>1
  <2>4. Coming(t)
    BY <2>2, <2>3 DEF Coming
  <2>5. t # pendingFunctors_[1].timer
    BY <1>1, <2>2, <2>3 DEF InsertsInv
  <2> QED  BY <1>1, <2>4, <2>5
<1>3. ASSUME NEW t \in Timers, Coming(t), t # Head(pendingFunctors_).timer PROVE Coming(t)'
  <2>1. PICK i \in 1..Len(pendingFunctors_) :
          pendingFunctors_[i].op = "insert" /\ pendingFunctors_[i].timer = t
    BY <1>3 DEF Coming
  <2>2. i # 1
    BY <1>1, <1>3, <2>1
  <2>3. i - 1 \in 1..Len(pendingFunctors_') /\ pendingFunctors_'[i - 1] = pendingFunctors_[i]
    BY <1>1, <2>2
  <2> QED  BY <2>1, <2>3 DEF Coming
<1> QED  BY <1>2, <1>3

(* What is queued stays in order when the first functor is taken. *)
LEMMA QueueTaken ==
    ASSUME TypeOK, InsertsInv, CancelsInv, pendingFunctors_ # <<>>,
           pendingFunctors_' = Tail(pendingFunctors_), when' = when, asked' = asked,
           \A t \in Timers : obj'[t] = obj[t] \/
               (Head(pendingFunctors_).op = "cancel" /\ t = Head(pendingFunctors_).timer)
    PROVE  InsertsInv' /\ CancelsInv'
<1>1. /\ Len(pendingFunctors_) \in Nat \ {0} /\ Len(pendingFunctors_') = Len(pendingFunctors_) - 1
      /\ \A i \in 1..Len(pendingFunctors_') : pendingFunctors_'[i] = pendingFunctors_[i + 1]
      /\ Head(pendingFunctors_) = pendingFunctors_[1]
  BY FunctorTaken
<1>2. \A i \in 1..Len(pendingFunctors_') : i + 1 \in 1..Len(pendingFunctors_) /\ i + 1 # 1
  BY <1>1
<1>3. 1 \in 1..Len(pendingFunctors_)
  BY <1>1
<1>4. InsertsInv'
  BY <1>1, <1>2 DEF InsertsInv
<1>5. ASSUME NEW i \in 1..Len(pendingFunctors_'), NEW j \in 1..Len(pendingFunctors_'),
             pendingFunctors_'[i].op = "cancel"
      PROVE  LET f == pendingFunctors_'[i] g == pendingFunctors_'[j]
             IN  /\ f.timer \in asked' /\ obj'[f.timer] = "live" /\ Interval[f.timer] > 0
                 /\ g.timer = f.timer /\ i # j => g.op = "insert" /\ j < i
  <2> DEFINE f == pendingFunctors_[i + 1]  g == pendingFunctors_[j + 1]
  <2>1. pendingFunctors_'[i] = f /\ pendingFunctors_'[j] = g /\ f.op = "cancel"
    BY <1>1, <1>5
  <2>2. /\ f.timer \in asked /\ obj[f.timer] = "live" /\ Interval[f.timer] > 0
        /\ g.timer = f.timer /\ i + 1 # j + 1 => g.op = "insert" /\ j + 1 < i + 1
    BY <1>2, <2>1 DEF CancelsInv
  <2>3. ~(Head(pendingFunctors_).op = "cancel" /\ f.timer = Head(pendingFunctors_).timer)
    BY <1>1, <1>2, <1>3, <2>1 DEF CancelsInv
  <2>4. f.timer \in Timers
    BY <2>2 DEF TypeOK
  <2>5. obj'[f.timer] = "live"
    BY <2>2, <2>3, <2>4
  <2> HIDE DEF f, g
  <2> QED  BY <2>1, <2>2, <2>5
<1>6. CancelsInv'
  BY <1>5 DEF CancelsInv
<1> QED  BY <1>4, <1>6

(* Steps that leave the owners alone. *)
LEMMA OwnersKept ==
    ASSUME TypeOK, OwnerInv, UNCHANGED ownerVars, asked \subseteq asked'
    PROVE  OwnerInv'
<1> USE DEF ownerVars
<1>1. EntriesInv' /\ OwnedInv' /\ OnceInv' /\ CallbackInv' /\ InsertsInv'
  BY DEF OwnerInv, EntriesInv, OwnedInv, OnceInv, CallbackInv, InsertsInv, Waiting, Due, Running, Coming
<1>2. CancelsInv' /\ DeletedInv'
  BY DEF OwnerInv, CancelsInv, DeletedInv
<1> QED  BY <1>1, <1>2 DEF OwnerInv

(* An insertion on the loop thread gives the entry to the set. *)
LEMMA InsertEntry ==
    ASSUME TypeOK, EntriesInv, NEW t \in Timers, when'[t] = when[t] \/ t \notin {e[2] : e \in timers_},
           \A u \in Timers : u # t => when'[u] = when[u],
           timers_' = timers_ \cup {<<when'[t], t>>}
    PROVE  /\ \A u \in Timers : Waiting(u)' <=> Waiting(u) \/ u = t
           /\ \A e \in timers_' : e[1] = when'[e[2]]
<1>1. \A e \in timers_ : e[2] \in Timers /\ e = <<when[e[2]], e[2]>>
  BY EntryTypes
<1>2. \A e \in timers_' : e[1] = when'[e[2]]
  BY <1>1
<1>3. ASSUME NEW u \in Timers, u # t PROVE Waiting(u)' <=> Waiting(u)
  BY <1>3 DEF Waiting
<1>4. Waiting(t)'
  BY DEF Waiting
<1> QED  BY <1>2, <1>3, <1>4

(* The step of handleRead. *)
LEMMA OwnerHandleRead == ASSUME TypeOK, OwnerInv, HandleRead PROVE OwnerInv'
<1> USE DEF OwnerInv
<1>1. expired = {} /\ current = {}
  BY DEF TypeOK, HandleRead, At
<1>2. /\ timers_' = timers_ \ getExpired /\ expired' = getExpired /\ getExpired \subseteq timers_
      /\ when' = when /\ obj' = obj /\ current' = current /\ pendingFunctors_' = pendingFunctors_
      /\ asked' = asked /\ misuse' = misuse
  BY DEF HandleRead, getExpired, history
<1>3. EntriesInv' /\ CallbackInv' /\ InsertsInv' /\ CancelsInv' /\ DeletedInv'
  BY <1>2 DEF EntriesInv, CallbackInv, InsertsInv, CancelsInv, DeletedInv
<1>4. \A t \in Timers : /\ Waiting(t) <=> Waiting(t)' \/ Due(t)'
                        /\ ~(Waiting(t)' /\ Due(t)')
                        /\ ~Due(t) /\ ~Running(t) /\ ~Running(t)' /\ (Coming(t)' <=> Coming(t))
  BY <1>1, <1>2 DEF Waiting, Due, Running, Coming
<1>5. OwnedInv' /\ OnceInv'
  BY <1>2, <1>4 DEF OwnedInv, OnceInv
<1> QED  BY <1>2, <1>3, <1>5

(* The next callback: its timer is there. *)
LEMMA OwnerRunTimer == ASSUME TypeOK, OwnerInv, RunTimer PROVE OwnerInv'
<1> USE DEF OwnerInv
<1>1. PICK e \in expired : expired' = expired \ {e} /\ misuse' = (obj[e[2]] # "live") /\ current' = {e[2]}
  BY DEF RunTimer
<1>2. /\ timers_' = timers_ /\ when' = when /\ obj' = obj /\ pendingFunctors_' = pendingFunctors_
      /\ asked' = asked /\ current = {}
  BY DEF RunTimer, timerVars, TypeOK, At
<1>3. e[2] \in Timers /\ e = <<when[e[2]], e[2]>>
  BY EntryTypes
<1>4. Due(e[2]) /\ obj[e[2]] = "live" /\ misuse' = FALSE
  BY <1>1, <1>3 DEF Due, OwnedInv
<1>5. EntriesInv' /\ CallbackInv' /\ InsertsInv' /\ CancelsInv' /\ DeletedInv'
  BY <1>1, <1>2 DEF EntriesInv, CallbackInv, InsertsInv, CancelsInv, DeletedInv
<1>6. \A t \in Timers : /\ Due(t)' <=> Due(t) /\ t # e[2]
                        /\ Running(t)' <=> t = e[2]
                        /\ ~Running(t)
                        /\ (Waiting(t)' <=> Waiting(t)) /\ (Coming(t)' <=> Coming(t))
  BY <1>1, <1>2, <1>3 DEF Waiting, Due, Running, Coming
<1>7. OwnedInv' /\ OnceInv'
  BY <1>2, <1>4, <1>6 DEF OwnedInv, OnceInv
<1> QED  BY <1>4, <1>5, <1>7

(* The callback returns: a repeating timer goes back to the set under its  *)
(* new time, another one is deleted.                                       *)
LEMMA OwnerCallbackReturn == ASSUME TypeOK, OwnerInv, CallbackReturn PROVE OwnerInv'
<1> USE DEF OwnerInv
<1>1. PICK t \in current :
        /\ misuse' = (obj[t] # "live")
        /\ IF Interval[t] > 0
           THEN Reinsert(t) /\ UNCHANGED obj
           ELSE obj' = [obj EXCEPT ![t] = "deleted"] /\ UNCHANGED <<timers_, when>>
  BY DEF CallbackReturn
<1>2. /\ expired' = expired /\ pendingFunctors_' = pendingFunctors_ /\ asked' = asked /\ current' = {}
  BY DEF CallbackReturn, history
<1>3. t \in Timers /\ current = {t} /\ Running(t)
  BY DEF TypeOK, CallbackInv, Running
<1>4. obj[t] = "live" /\ misuse' = FALSE /\ ~Waiting(t) /\ ~Due(t) /\ ~Coming(t)
  BY <1>1, <1>3 DEF OwnedInv, OnceInv
<1>5. \A e \in timers_ \cup expired : e[2] \in Timers /\ e = <<when[e[2]], e[2]>>
  BY EntryTypes
<1>6. \A e \in timers_ \cup expired : e[2] # t
  BY <1>4, <1>5 DEF Waiting, Due
<1>7. CallbackInv'
  BY <1>2 DEF CallbackInv
<1>8. \A i \in 1..Len(pendingFunctors_) : pendingFunctors_[i] \in Functor
  BY ElementOfSeq DEF TypeOK, Functor
<1>9. CASE Interval[t] > 0
  <2>1. /\ when' = [when EXCEPT ![t] = @ + Interval[t]] /\ obj' = obj
        /\ timers_' = timers_ \cup {<<when[t] + Interval[t], t>>}
    BY <1>1, <1>9 DEF Reinsert
  <2>2. when'[t] = when[t] + Interval[t] /\ \A u \in Timers : u # t => when'[u] = when[u]
    BY <1>3, <2>1 DEF TypeOK
  <2>3. timers_' = timers_ \cup {<<when'[t], t>>} /\ t \notin {e[2] : e \in timers_}
    BY <1>6, <2>1, <2>2
  <2>4. /\ \A u \in Timers : Waiting(u)' <=> Waiting(u) \/ u = t
        /\ \A e \in timers_' : e[1] = when'[e[2]]
    BY <1>3, <2>2, <2>3, InsertEntry
  <2>5. EntriesInv'
    BY <1>2, <1>5, <1>6, <2>2, <2>4 DEF EntriesInv
  <2>6. \A u \in Timers : u # t => (Due(u)' <=> Due(u))
    BY <1>2, <2>2 DEF Due
  <2>7. ~Due(t)'
    BY <1>2, <1>6 DEF Due
  <2>8. \A u \in Timers : (Coming(u)' <=> Coming(u)) /\ ~Running(u)' /\ (Running(u) <=> u = t)
    BY <1>2, <1>3 DEF Coming, Running
  <2>9. OwnedInv' /\ OnceInv'
    BY <1>4, <2>1, <2>4, <2>6, <2>7, <2>8 DEF OwnedInv, OnceInv
  <2>10. \A i \in 1..Len(pendingFunctors_) : pendingFunctors_[i].op = "insert" => pendingFunctors_[i].timer # t
    BY <1>4 DEF Coming
  <2>11. InsertsInv'
    BY <1>2, <1>8, <2>2, <2>10 DEF InsertsInv, Functor
  <2>12. CancelsInv' /\ DeletedInv'
    BY <1>2, <2>1 DEF CancelsInv, DeletedInv
  <2> QED  BY <1>4, <1>7, <2>5, <2>9, <2>11, <2>12
<1>10. CASE ~(Interval[t] > 0)
  <2>1. obj' = [obj EXCEPT ![t] = "deleted"] /\ timers_' = timers_ /\ when' = when
    BY <1>1, <1>10
  <2>2. obj'[t] = "deleted" /\ \A u \in Timers : u # t => obj'[u] = obj[u]
    BY <1>3, <2>1 DEF TypeOK
  <2>3. EntriesInv' /\ InsertsInv'
    BY <1>2, <2>1 DEF EntriesInv, InsertsInv
  <2>4. \A u \in Timers : /\ (Waiting(u)' <=> Waiting(u)) /\ (Due(u)' <=> Due(u)) /\ (Coming(u)' <=> Coming(u))
                          /\ ~Running(u)' /\ (Running(u) <=> u = t)
    BY <1>2, <1>3, <2>1 DEF Waiting, Due, Coming, Running
  <2>5. OwnedInv' /\ OnceInv'
    BY <1>4, <2>2, <2>4 DEF OwnedInv, OnceInv
  <2>6. \A i \in 1..Len(pendingFunctors_) : pendingFunctors_[i].op = "cancel" => pendingFunctors_[i].timer # t
    BY <1>10 DEF CancelsInv
  <2>7. CancelsInv'
    BY <1>2, <1>8, <2>2, <2>6 DEF CancelsInv, Functor
  <2>8. DeletedInv'
    BY <1>2, <1>10, <2>2 DEF DeletedInv
  <2> QED  BY <1>4, <1>7, <2>3, <2>5, <2>7, <2>8
<1> QED  BY <1>9, <1>10

(* A cancellation takes the entry out and deletes the timer. *)
LEMMA CancelEntry ==
    ASSUME TypeOK, OwnerInv, NEW t \in Timers, Waiting(t), CancelInLoop(t), when' = when, expired' = expired
    PROVE  /\ misuse' = FALSE /\ EntriesInv'
           /\ obj'[t] = "deleted" /\ \A u \in Timers : u # t => obj'[u] = obj[u]
           /\ \A u \in Timers : (Waiting(u)' <=> Waiting(u) /\ u # t) /\ (Due(u)' <=> Due(u))
<1> USE DEF OwnerInv, CancelInLoop
<1>1. obj[t] = "live" /\ misuse' = FALSE
  BY DEF OwnedInv
<1>2. obj'[t] = "deleted" /\ \A u \in Timers : u # t => obj'[u] = obj[u]
  BY DEF TypeOK
<1>3. EntriesInv'
  BY DEF EntriesInv
<1>4. \A u \in Timers : (Waiting(u)' <=> Waiting(u) /\ u # t) /\ (Due(u)' <=> Due(u))
  BY DEF Waiting, Due
<1> QED  BY <1>1, <1>2, <1>3, <1>4

(* A functor runs. *)
LEMMA OwnerRunFunctor == ASSUME TypeOK, OwnerInv, RunFunctor PROVE OwnerInv'
<1> USE DEF OwnerInv
<1> DEFINE f == Head(pendingFunctors_)
<1>1. /\ pendingFunctors_ # <<>> /\ pendingFunctors_' = Tail(pendingFunctors_) /\ when' = when
      /\ expired' = expired /\ current' = current /\ asked' = asked /\ expired = {} /\ current = {}
  BY DEF RunFunctor, loopVars, history, TypeOK, At
<1>2. /\ Len(pendingFunctors_) \in Nat \ {0} /\ Len(pendingFunctors_') = Len(pendingFunctors_) - 1
      /\ \A i \in 1..Len(pendingFunctors_') : pendingFunctors_'[i] = pendingFunctors_[i + 1]
      /\ f = pendingFunctors_[1] /\ f \in Functor /\ 1 \in 1..Len(pendingFunctors_)
  BY <1>1, FunctorTaken
<1>3. f.timer \in Timers
  BY <1>2 DEF Functor
<1>4. CallbackInv'
  BY <1>1 DEF CallbackInv
<1>5. CASE f.op = "insert" /\ InsertInLoop(f.timer, f.when) /\ UNCHANGED <<obj, misuse>>
  <2>1. timers_' = timers_ \cup {<<when'[f.timer], f.timer>>}
    <3>1. f.when = when[f.timer]
      BY <1>2, <1>5 DEF InsertsInv
    <3> QED  BY <1>1, <1>5, <3>1 DEF InsertInLoop
  <2>2. /\ \A u \in Timers : Waiting(u)' <=> Waiting(u) \/ u = f.timer
        /\ \A e \in timers_' : e[1] = when'[e[2]]
    BY <1>1, <1>3, <2>1, InsertEntry
  <2>3. EntriesInv'
    BY <1>1, <2>2 DEF EntriesInv
  <2>4. \A u \in Timers : Coming(u)' <=> Coming(u) /\ u # f.timer
    BY <1>1, <1>5, InsertTaken
  <2>5. Coming(f.timer)
    BY <1>2, <1>5 DEF Coming
  <2>6. \A u \in Timers : (Due(u)' <=> Due(u)) /\ (Running(u)' <=> Running(u))
    BY <1>1 DEF Due, Running
  <2> HIDE DEF f
  <2>7. OwnedInv' /\ OnceInv'
    BY <1>3, <1>5, <2>2, <2>4, <2>5, <2>6 DEF OwnedInv, OnceInv
  <2>8. InsertsInv' /\ CancelsInv'
    BY <1>1, <1>5, QueueTaken
  <2>9. DeletedInv'
    BY <1>1, <1>5 DEF DeletedInv
  <2> QED  BY <1>4, <1>5, <2>3, <2>7, <2>8, <2>9
<1>6. CASE f.op = "cancel" /\ CancelInLoop(f.timer) /\ UNCHANGED fdVars
  <2>1. obj[f.timer] = "live" /\ f.timer \in asked /\ ~Coming(f.timer)
    <3>1. obj[f.timer] = "live" /\ f.timer \in asked
      BY <1>2, <1>6 DEF CancelsInv
    <3>2. \A j \in 1..Len(pendingFunctors_) :
            pendingFunctors_[j].op = "insert" /\ pendingFunctors_[j].timer = f.timer => j < 1
      BY <1>2, <1>6 DEF CancelsInv
    <3> QED  BY <1>2, <3>1, <3>2 DEF Coming
  <2>2. Waiting(f.timer)
    BY <1>1, <1>3, <2>1 DEF OwnedInv, Due, Running
  <2> HIDE DEF f
  <2>3. /\ misuse' = FALSE /\ EntriesInv'
        /\ obj'[f.timer] = "deleted" /\ \A u \in Timers : u # f.timer => obj'[u] = obj[u]
        /\ \A u \in Timers : (Waiting(u)' <=> Waiting(u) /\ u # f.timer) /\ (Due(u)' <=> Due(u))
    BY <1>1, <1>3, <1>6, <2>2, CancelEntry
  <2>4. \A u \in Timers : Coming(u)' <=> Coming(u)
    <3>1. ASSUME NEW u \in Timers, Coming(u) PROVE Coming(u)'
      <4>1. PICK i \in 1..Len(pendingFunctors_) :
              pendingFunctors_[i].op = "insert" /\ pendingFunctors_[i].timer = u
        BY <3>1 DEF Coming
      <4>2. i # 1
        BY <1>2, <1>6, <4>1
      <4>3. i - 1 \in 1..Len(pendingFunctors_') /\ pendingFunctors_'[i - 1] = pendingFunctors_[i]
        BY <1>2, <4>2
      <4> QED  BY <4>1, <4>3 DEF Coming
    <3>2. ASSUME NEW u \in Timers, Coming(u)' PROVE Coming(u)
      <4>1. PICK i \in 1..Len(pendingFunctors_') :
              pendingFunctors_'[i].op = "insert" /\ pendingFunctors_'[i].timer = u
        BY <3>2 DEF Coming
      <4>2. i + 1 \in 1..Len(pendingFunctors_) /\ pendingFunctors_'[i] = pendingFunctors_[i + 1]
        BY <1>2
      <4> QED  BY <4>1, <4>2 DEF Coming
    <3> QED  BY <3>1, <3>2
  <2>5. \A u \in Timers : Running(u)' <=> Running(u)
    BY <1>1 DEF Running
  <2>6. OwnedInv' /\ OnceInv'
    BY <1>3, <2>1, <2>2, <2>3, <2>4, <2>5 DEF OwnedInv, OnceInv
  <2>7. InsertsInv' /\ CancelsInv'
    BY <1>1, <1>6, <2>3, QueueTaken DEF f
  <2>8. DeletedInv'
    BY <1>1, <2>1, <2>3 DEF DeletedInv
  <2> QED  BY <1>4, <2>3, <2>6, <2>7, <2>8
<1> QED  BY <1>5, <1>6 DEF RunFunctor

(* A new timer has no owner yet. *)
LEMMA NewTimerIsFree ==
    ASSUME TypeOK, OwnerInv, NEW t \in Timers, NEW w \in Expiries(t), NewTimer(t, w)
    PROVE  /\ w \in Nat /\ when'[t] = w /\ \A u \in Timers : u # t => when'[u] = when[u]
           /\ obj'[t] = "live" /\ \A u \in Timers : u # t => obj'[u] = obj[u]
           /\ obj[t] = "none" /\ ~Waiting(t) /\ ~Due(t) /\ ~Running(t) /\ ~Coming(t)
           /\ \A e \in timers_ \cup expired : e[2] # t
           /\ \A i \in 1..Len(pendingFunctors_) : pendingFunctors_[i].timer # t
           /\ UNCHANGED <<now, loopVars, asked, runs, misuse>>
<1> USE DEF OwnerInv
<1>1. w \in Nat
  BY TimeAssumption DEF Expiries
<1>2. /\ when'[t] = w /\ \A u \in Timers : u # t => when'[u] = when[u]
      /\ obj'[t] = "live" /\ \A u \in Timers : u # t => obj'[u] = obj[u]
      /\ obj[t] = "none" /\ UNCHANGED <<now, loopVars, asked, runs, misuse>>
  BY DEF NewTimer, TypeOK
<1>3. ~Waiting(t) /\ ~Due(t) /\ ~Running(t) /\ ~Coming(t)
  BY <1>2 DEF OwnedInv
<1>4. \A e \in timers_ \cup expired : e[2] # t
  BY <1>3, EntryTypes DEF Waiting, Due
<1>5. ASSUME NEW i \in 1..Len(pendingFunctors_) PROVE pendingFunctors_[i].timer # t
  <2>1. pendingFunctors_[i] \in Functor
    BY ElementOfSeq DEF TypeOK, Functor
  <2>2. CASE pendingFunctors_[i].op = "insert"
    BY <1>3, <2>2 DEF Coming
  <2>3. CASE pendingFunctors_[i].op = "cancel"
    BY <1>2, <2>3 DEF CancelsInv
  <2> QED  BY <2>1, <2>2, <2>3 DEF Functor
<1> QED  BY <1>1, <1>2, <1>3, <1>4, <1>5

LEMMA OwnerAddTimerHere ==
    ASSUME TypeOK, OwnerInv, NEW t \in Timers, AddTimerHere(t) PROVE OwnerInv'
<1> USE DEF OwnerInv
<1>1. PICK w \in Expiries(t) : NewTimer(t, w) /\ InsertInLoop(t, w)
  BY DEF AddTimerHere
<1>2. /\ w \in Nat /\ when'[t] = w /\ \A u \in Timers : u # t => when'[u] = when[u]
      /\ obj'[t] = "live" /\ \A u \in Timers : u # t => obj'[u] = obj[u]
      /\ obj[t] = "none" /\ ~Waiting(t) /\ ~Due(t) /\ ~Running(t) /\ ~Coming(t)
      /\ \A e \in timers_ \cup expired : e[2] # t
      /\ \A i \in 1..Len(pendingFunctors_) : pendingFunctors_[i].timer # t
  BY <1>1, NewTimerIsFree
<1>3. expired' = expired /\ current' = current /\ asked' = asked /\ misuse' = misuse
  BY <1>1, NewTimerIsFree DEF loopVars
<1>4. pendingFunctors_' = pendingFunctors_ /\ timers_' = timers_ \cup {<<when'[t], t>>}
  BY <1>1, <1>2 DEF AddTimerHere, InsertInLoop
<1>5. \A e \in timers_ \cup expired : e[2] \in Timers /\ e = <<when[e[2]], e[2]>>
  BY EntryTypes
<1>6. /\ \A u \in Timers : Waiting(u)' <=> Waiting(u) \/ u = t
      /\ \A e \in timers_' : e[1] = when'[e[2]]
  BY <1>2, <1>4, InsertEntry
<1>7. EntriesInv'
  BY <1>2, <1>3, <1>5, <1>6 DEF EntriesInv
<1>8. \A u \in Timers : (Due(u)' <=> Due(u)) /\ (Running(u)' <=> Running(u)) /\ (Coming(u)' <=> Coming(u))
  BY <1>2, <1>3, <1>4 DEF Due, Running, Coming
<1>9. OwnedInv' /\ OnceInv'
  BY <1>2, <1>6, <1>8 DEF OwnedInv, OnceInv
<1>10. \A i \in 1..Len(pendingFunctors_) : pendingFunctors_[i] \in Functor
  BY ElementOfSeq DEF TypeOK, Functor
<1>11. \A i \in 1..Len(pendingFunctors_) : pendingFunctors_[i].timer \in Timers
  BY <1>10 DEF Functor
<1>12. InsertsInv'
  BY <1>2, <1>4, <1>11 DEF InsertsInv
<1>13. CancelsInv'
  BY <1>2, <1>3, <1>4, <1>11 DEF CancelsInv
<1>14. CallbackInv' /\ DeletedInv'
  BY <1>2, <1>3 DEF CallbackInv, DeletedInv
<1> QED  BY <1>3, <1>7, <1>9, <1>12, <1>13, <1>14

LEMMA OwnerAddTimer ==
    ASSUME TypeOK, OwnerInv, NEW t \in Timers, AddTimer(t) PROVE OwnerInv'
<1> USE DEF OwnerInv
<1>1. PICK w \in Expiries(t) :
        /\ NewTimer(t, w)
        /\ pendingFunctors_' = Append(pendingFunctors_, [op |-> "insert", timer |-> t, when |-> w])
  BY DEF AddTimer
<1>2. /\ w \in Nat /\ when'[t] = w /\ \A u \in Timers : u # t => when'[u] = when[u]
      /\ obj'[t] = "live" /\ \A u \in Timers : u # t => obj'[u] = obj[u]
      /\ obj[t] = "none" /\ ~Waiting(t) /\ ~Due(t) /\ ~Running(t) /\ ~Coming(t)
      /\ \A e \in timers_ \cup expired : e[2] # t
      /\ \A i \in 1..Len(pendingFunctors_) : pendingFunctors_[i].timer # t
  BY <1>1, NewTimerIsFree
<1>3. /\ expired' = expired /\ current' = current /\ asked' = asked /\ misuse' = misuse
      /\ timers_' = timers_
  BY <1>1, NewTimerIsFree DEF loopVars, AddTimer
<1> DEFINE new == [op |-> "insert", timer |-> t, when |-> w]
           n == Len(pendingFunctors_)
<1>4. new \in Functor /\ new.op = "insert" /\ new.timer = t /\ new.when = w
  BY <1>2 DEF Functor
<1> HIDE DEF new
<1>5. /\ n \in Nat /\ Len(pendingFunctors_') = n + 1
      /\ \A i \in 1..n : pendingFunctors_'[i] = pendingFunctors_[i]
      /\ pendingFunctors_'[n + 1] = new
  BY <1>1, <1>4, FunctorAppended DEF new
<1>6. \A i \in 1..n : pendingFunctors_[i] \in Functor
  BY ElementOfSeq DEF TypeOK, Functor
<1> HIDE DEF n
<1>7. \A u \in Timers : Coming(u)' <=> Coming(u) \/ u = t
  <2>1. ASSUME NEW u \in Timers, Coming(u)' PROVE Coming(u) \/ u = t
    <3>1. PICK i \in 1..(n + 1) : pendingFunctors_'[i].op = "insert" /\ pendingFunctors_'[i].timer = u
      BY <1>5, <2>1 DEF Coming
    <3>2. CASE i = n + 1
      BY <1>4, <1>5, <3>1, <3>2
    <3>3. CASE i \in 1..n
      BY <1>5, <3>1, <3>3 DEF Coming, n
    <3> QED  BY <1>5, <3>2, <3>3
  <2>2. ASSUME NEW u \in Timers, Coming(u) PROVE Coming(u)'
    BY <1>5, <2>2 DEF Coming, n
  <2>3. Coming(t)'
    BY <1>4, <1>5 DEF Coming
  <2> QED  BY <2>1, <2>2, <2>3
<1>8. \A u \in Timers : (Due(u)' <=> Due(u)) /\ (Running(u)' <=> Running(u)) /\ (Waiting(u)' <=> Waiting(u))
  BY <1>2, <1>3 DEF Due, Running, Waiting
<1>9. OwnedInv' /\ OnceInv'
  BY <1>2, <1>7, <1>8 DEF OwnedInv, OnceInv
<1>10. EntriesInv' /\ CallbackInv'
  BY <1>2, <1>3, EntryTypes DEF EntriesInv, CallbackInv
<1>11. \A i \in 1..(n + 1) : i \in 1..n \/ i = n + 1
  BY <1>5
<1>12. \A i \in 1..n : pendingFunctors_[i].timer \in Timers /\ pendingFunctors_[i].timer # t
  BY <1>2, <1>6 DEF Functor, n
<1>13. InsertsInv'
  BY <1>2, <1>4, <1>5, <1>11, <1>12 DEF InsertsInv, n
<1>14. CancelsInv'
  BY <1>2, <1>3, <1>4, <1>5, <1>11, <1>12 DEF CancelsInv, n
<1>15. DeletedInv'
  BY <1>2, <1>3 DEF DeletedInv
<1> QED  BY <1>3, <1>9, <1>10, <1>13, <1>14, <1>15

LEMMA OwnerCancelTimerHere ==
    ASSUME TypeOK, OwnerInv, Careful, NEW t \in Timers, CancelTimerHere(t) PROVE OwnerInv'
<1> USE DEF OwnerInv
<1>1. /\ Waiting(t) /\ CancelInLoop(t) /\ when' = when /\ expired' = expired /\ current' = current
      /\ pendingFunctors_' = pendingFunctors_ /\ t \notin asked /\ asked' = asked \cup {t}
  BY DEF CancelTimerHere, Waiting, loopVars
<1>2. /\ misuse' = FALSE /\ EntriesInv'
      /\ obj'[t] = "deleted" /\ \A u \in Timers : u # t => obj'[u] = obj[u]
      /\ \A u \in Timers : (Waiting(u)' <=> Waiting(u) /\ u # t) /\ (Due(u)' <=> Due(u))
  BY <1>1, CancelEntry
<1>3. \A u \in Timers : (Running(u)' <=> Running(u)) /\ (Coming(u)' <=> Coming(u))
  BY <1>1 DEF Running, Coming
<1>4. OwnedInv' /\ OnceInv'
  BY <1>1, <1>2, <1>3 DEF OwnedInv, OnceInv
<1>5. CallbackInv' /\ InsertsInv'
  BY <1>1 DEF CallbackInv, InsertsInv
<1>6. \A i \in 1..Len(pendingFunctors_) : pendingFunctors_[i] \in Functor
  BY ElementOfSeq DEF TypeOK, Functor
<1>7. CancelsInv'
  BY <1>1, <1>2, <1>6 DEF CancelsInv, Functor
<1>8. DeletedInv'
  BY <1>1, <1>2 DEF DeletedInv
<1> QED  BY <1>2, <1>4, <1>5, <1>7, <1>8

LEMMA OwnerCancelTimer ==
    ASSUME TypeOK, OwnerInv, Careful, NEW t \in Timers, CancelTimer(t) PROVE OwnerInv'
<1> USE DEF OwnerInv
<1> DEFINE new == [op |-> "cancel", timer |-> t, when |-> 0]
           n == Len(pendingFunctors_)
<1>1. /\ timers_' = timers_ /\ when' = when /\ obj' = obj /\ expired' = expired /\ current' = current
      /\ misuse' = misuse /\ t \notin asked /\ asked' = asked \cup {t} /\ obj[t] # "none" /\ Interval[t] > 0
      /\ pendingFunctors_' = Append(pendingFunctors_, new)
  BY DEF CancelTimer, timerVars, loopVars
<1>2. new \in Functor /\ new.op = "cancel" /\ new.timer = t
  BY DEF Functor
<1> HIDE DEF new
<1>3. /\ n \in Nat /\ Len(pendingFunctors_') = n + 1
      /\ \A i \in 1..n : pendingFunctors_'[i] = pendingFunctors_[i]
      /\ pendingFunctors_'[n + 1] = new
  BY <1>1, <1>2, FunctorAppended
<1>4. \A i \in 1..n : pendingFunctors_[i] \in Functor
  BY ElementOfSeq DEF TypeOK, Functor
<1> HIDE DEF n
<1>5. obj[t] = "live"
  BY <1>1 DEF DeletedInv, TypeOK
<1>6. \A i \in 1..(n + 1) : i \in 1..n \/ i = n + 1
  BY <1>3
<1>7. \A u \in Timers : Coming(u)' <=> Coming(u)
  <2>1. ASSUME NEW u \in Timers, Coming(u)' PROVE Coming(u)
    <3>1. PICK i \in 1..(n + 1) : pendingFunctors_'[i].op = "insert" /\ pendingFunctors_'[i].timer = u
      BY <1>3, <2>1 DEF Coming
    <3>2. i \in 1..n
      BY <1>2, <1>3, <1>6, <3>1
    <3> QED  BY <1>3, <3>1, <3>2 DEF Coming, n
  <2>2. ASSUME NEW u \in Timers, Coming(u) PROVE Coming(u)'
    BY <1>3, <2>2 DEF Coming, n
  <2> QED  BY <2>1, <2>2
<1>8. \A u \in Timers : (Due(u)' <=> Due(u)) /\ (Running(u)' <=> Running(u)) /\ (Waiting(u)' <=> Waiting(u))
  BY <1>1 DEF Due, Running, Waiting
<1>9. OwnedInv' /\ OnceInv'
  BY <1>1, <1>7, <1>8 DEF OwnedInv, OnceInv
<1>10. EntriesInv' /\ CallbackInv' /\ DeletedInv'
  BY <1>1 DEF EntriesInv, CallbackInv, DeletedInv
<1>11. InsertsInv'
  BY <1>1, <1>2, <1>3, <1>6 DEF InsertsInv, n
<1>12. \A i \in 1..n : pendingFunctors_[i].timer = t => pendingFunctors_[i].op = "insert"
  BY <1>1, <1>4 DEF CancelsInv, Functor, n
<1>13. CancelsInv'
  BY <1>1, <1>2, <1>3, <1>5, <1>6, <1>12 DEF CancelsInv, n
<1> QED  BY <1>1, <1>9, <1>10, <1>11, <1>13

(* Every step of a careful application keeps the owners in order. *)
LEMMA OwnerStep == TypeOK /\ OwnerInv /\ Careful /\ [Next]_vars => OwnerInv'
<1> SUFFICES ASSUME TypeOK, OwnerInv, Careful, [Next]_vars PROVE OwnerInv'
  OBVIOUS
<1>1. CASE Poll \/ NoRead \/ EndRead \/ EndRound \/ Tick \/ UNCHANGED vars
  <2>1. UNCHANGED ownerVars /\ asked' = asked
    BY <1>1 DEF Poll, NoRead, EndRead, EndRound, Tick, vars, ownerVars, timerVars, loopVars, history
  <2> QED  BY <2>1, OwnersKept
<1>2. CASE HandleRead
  BY <1>2, OwnerHandleRead
<1>3. CASE RunTimer
  BY <1>3, OwnerRunTimer
<1>4. CASE CallbackReturn
  BY <1>4, OwnerCallbackReturn
<1>5. CASE RunFunctor
  BY <1>5, OwnerRunFunctor
<1>6. ASSUME NEW t \in Timers, AddTimerHere(t) \/ AddTimer(t) \/ CancelTimerHere(t) \/ CancelTimer(t)
      PROVE  OwnerInv'
  BY <1>6, OwnerAddTimerHere, OwnerAddTimer, OwnerCancelTimerHere, OwnerCancelTimer
<1> QED  BY <1>1, <1>2, <1>3, <1>4, <1>5, <1>6 DEF Next, LoopStep, UserStep

(* The invariant holds from the start. *)
LEMMA OwnerInvariant == ASSUME Careful PROVE Spec => []OwnerInv
<1>1. Init => OwnerInv
  <2> SUFFICES ASSUME Init PROVE OwnerInv
    OBVIOUS
  <2>1. Len(pendingFunctors_) = 0 /\ 1..Len(pendingFunctors_) = {}
    BY DEF Init
  <2>2. InsertsInv /\ CancelsInv /\ \A t \in Timers : ~Coming(t)
    BY <2>1 DEF InsertsInv, CancelsInv, Coming
  <2>3. \A t \in Timers : obj[t] = "none" /\ ~Waiting(t) /\ ~Due(t) /\ ~Running(t)
    BY DEF Init, Waiting, Due, Running
  <2>4. OwnedInv /\ OnceInv
    BY <2>2, <2>3 DEF OwnedInv, OnceInv
  <2>5. EntriesInv /\ CallbackInv /\ DeletedInv
    BY <2>3 DEF Init, EntriesInv, CallbackInv, DeletedInv
  <2> QED  BY <2>2, <2>4, <2>5 DEF Init, OwnerInv
<1> QED  BY <1>1, OwnerStep, TypeCorrect, PTL DEF Spec

(* The owners of a timer, as a set. *)
LEMMA OwnersCounted == TypeOK /\ OwnerInv => OneOwner
<1> SUFFICES ASSUME TypeOK, OwnerInv PROVE OneOwner
  OBVIOUS
<1> USE DEF OwnerInv
<1>1. \A e \in timers_ \cup expired : e[2] \in Timers /\ e = <<when[e[2]], e[2]>>
  BY EntryTypes
<1>2. DOMAIN pendingFunctors_ = 1..Len(pendingFunctors_)
  BY LenProperties DEF TypeOK
<1> DEFINE Sets(t) == {<<"set", e>> : e \in {x \in timers_ : x[2] = t}}
           Expireds(t) == {<<"expired", e>> : e \in {x \in expired : x[2] = t}}
           Callbacks(t) == {<<"callback", t>> : x \in {y \in current : y = t}}
           Functors(t) == {<<"functor", i>> : i \in {j \in DOMAIN pendingFunctors_ :
                  pendingFunctors_[j].op = "insert" /\ pendingFunctors_[j].timer = t}}
<1>3. \A t \in Timers : Owners(t) = Sets(t) \cup Expireds(t) \cup Callbacks(t) \cup Functors(t)
  BY DEF Owners
<1>4. ASSUME NEW t \in Timers PROVE Sets(t) = IF Waiting(t) THEN {<<"set", <<when[t], t>>>>} ELSE {}
  <2>1. {x \in timers_ : x[2] = t} = IF Waiting(t) THEN {<<when[t], t>>} ELSE {}
    BY <1>1 DEF Waiting
  <2> QED  BY <2>1
<1>5. ASSUME NEW t \in Timers PROVE Expireds(t) = IF Due(t) THEN {<<"expired", <<when[t], t>>>>} ELSE {}
  <2>1. {x \in expired : x[2] = t} = IF Due(t) THEN {<<when[t], t>>} ELSE {}
    BY <1>1 DEF Due
  <2> QED  BY <2>1
<1>6. ASSUME NEW t \in Timers PROVE Callbacks(t) = IF Running(t) THEN {<<"callback", t>>} ELSE {}
  BY DEF Running
<1>7. ASSUME NEW t \in Timers PROVE ~Coming(t) => Functors(t) = {}
  BY <1>2 DEF Coming
<1>8. ASSUME NEW t \in Timers, Coming(t) PROVE \E i : Functors(t) = {<<"functor", i>>}
  <2>1. PICK i \in 1..Len(pendingFunctors_) :
          pendingFunctors_[i].op = "insert" /\ pendingFunctors_[i].timer = t
    BY <1>8 DEF Coming
  <2>2. {j \in DOMAIN pendingFunctors_ :
          pendingFunctors_[j].op = "insert" /\ pendingFunctors_[j].timer = t} = {i}
    BY <1>2, <2>1 DEF InsertsInv
  <2> QED  BY <2>2
<1> HIDE DEF Sets, Expireds, Callbacks, Functors
<1>9. ASSUME NEW t \in Timers
      PROVE  IF obj[t] = "live" THEN \E o \in Owners(t) : Owners(t) = {o} ELSE Owners(t) = {}
  <2>1. CASE obj[t] # "live"
    BY <1>3, <1>4, <1>5, <1>6, <1>7, <2>1 DEF OwnedInv
  <2>2. CASE obj[t] = "live"
    <3>1. CASE Waiting(t)
      BY <1>3, <1>4, <1>5, <1>6, <1>7, <2>2, <3>1 DEF OnceInv
    <3>2. CASE Due(t)
      BY <1>3, <1>4, <1>5, <1>6, <1>7, <2>2, <3>2 DEF OnceInv
    <3>3. CASE Running(t)
      BY <1>3, <1>4, <1>5, <1>6, <1>7, <2>2, <3>3 DEF OnceInv
    <3>4. CASE Coming(t)
      BY <1>3, <1>4, <1>5, <1>6, <1>8, <2>2, <3>4 DEF OnceInv
    <3> QED  BY <2>2, <3>1, <3>2, <3>3, <3>4 DEF OwnedInv
  <2> QED  BY <2>1, <2>2
<1> QED  BY <1>9 DEF OneOwner, EntriesInv

(* For any timers and intervals: with an application that cancels only     *)
(* what still waits, every timer that exists has exactly one owner, and    *)
(* the entry that cancelTimer erases is the one the set has.               *)
THEOREM OwnersCorrect == ASSUME Careful PROVE Spec => []OneOwner
BY OwnerInvariant, OwnersCounted, TypeCorrect, PTL

(* With the same application handleRead, the callbacks and the functors    *)
(* never use a timer that was deleted.                                     *)
THEOREM NothingUsedAfterDelete == ASSUME Careful PROVE Spec => []NoUseAfterDelete
<1>1. OwnerInv => NoUseAfterDelete
  BY DEF OwnerInv, NoUseAfterDelete
<1> QED  BY <1>1, OwnerInvariant, PTL

-----------------------------------------------------------------------------
(* When and how often a timer has run.                                     *)

(* What handleRead has taken out is due; what runs was due. *)
DueInv == (\A e \in expired : e[1] <= now) /\ (\A t \in current : when[t] <= now)

(* A timer that is not there yet has not run, nor has a one-shot timer     *)
(* that waits; one whose callback is under way has.                        *)
RunsInv ==
    \A t \in Timers :
        /\ obj[t] = "none" => runs[t] = 0
        /\ Interval[t] = 0 => runs[t] <= 1
        /\ Interval[t] = 0 /\ obj[t] = "live" /\ ~Running(t) => runs[t] = 0

(* The time of a timer: the first one asked for, and one interval more for *)
(* each callback that has returned.                                        *)
PastRuns(t) == IF Running(t) THEN runs[t] - 1 ELSE runs[t]
WhenInv == \A t \in Timers : obj[t] = "live" => when[t] = first[t] + PastRuns(t) * Interval[t]

ScheduleInv == DueInv /\ RunsInv /\ WhenInv

LEMMA ScheduleRunTimer ==
    ASSUME TypeOK, OwnerInv, ScheduleInv, RunTimer PROVE ScheduleInv'
<1> USE DEF ScheduleInv, OwnerInv
<1>1. PICK e \in expired :
        /\ expired' = expired \ {e} /\ current' = {e[2]}
        /\ runs' = [runs EXCEPT ![e[2]] = @ + 1]
  BY DEF RunTimer
<1>2. when' = when /\ obj' = obj /\ now' = now /\ first' = first /\ current = {}
  BY DEF RunTimer, timerVars, TypeOK, At
<1>3. e[2] \in Timers /\ e = <<when[e[2]], e[2]>>
  BY EntryTypes
<1> DEFINE t == e[2]
<1>4. Due(t) /\ obj[t] = "live"
  BY <1>3 DEF Due, OwnedInv
<1>5. /\ runs'[t] = runs[t] + 1 /\ runs[t] \in Nat
      /\ \A u \in Timers : u # t => runs'[u] = runs[u]
  BY <1>1, <1>3 DEF TypeOK
<1>6. \A u \in Timers : ~Running(u) /\ (Running(u)' <=> u = t)
  BY <1>1, <1>2 DEF Running
<1>7. DueInv'
  BY <1>1, <1>2, <1>3 DEF DueInv
<1> HIDE DEF t
<1>8. t \in Timers
  BY <1>3 DEF t
<1>9. RunsInv'
  BY <1>2, <1>4, <1>5, <1>6, <1>8 DEF RunsInv
<1>10. WhenInv'
  <2> SUFFICES ASSUME NEW u \in Timers, obj[u] = "live"
               PROVE  when[u] = first[u] + PastRuns(u)' * Interval[u]
    BY <1>2 DEF WhenInv
  <2>1. when[u] = first[u] + runs[u] * Interval[u]
    BY <1>6 DEF WhenInv, PastRuns
  <2>2. PastRuns(u)' = runs[u]
    BY <1>5, <1>6 DEF PastRuns
  <2> QED  BY <2>1, <2>2
<1> QED  BY <1>7, <1>9, <1>10

LEMMA ScheduleCallbackReturn ==
    ASSUME TypeOK, OwnerInv, ScheduleInv, CallbackReturn PROVE ScheduleInv'
<1> USE DEF ScheduleInv, OwnerInv
<1>1. PICK t \in current :
        IF Interval[t] > 0
        THEN Reinsert(t) /\ UNCHANGED obj
        ELSE obj' = [obj EXCEPT ![t] = "deleted"] /\ UNCHANGED <<timers_, when>>
  BY DEF CallbackReturn
<1>2. expired' = expired /\ now' = now /\ first' = first /\ runs' = runs /\ current' = {}
  BY DEF CallbackReturn, history
<1>3. t \in Timers /\ current = {t} /\ Running(t)
  BY DEF TypeOK, CallbackInv, Running
<1>4. obj[t] = "live"
  BY <1>3 DEF OwnedInv
<1>5. \A u \in Timers : (Running(u) <=> u = t) /\ ~Running(u)'
  BY <1>2, <1>3 DEF Running
<1>6. DueInv'
  BY <1>2 DEF DueInv
<1>7. Interval[t] \in Nat /\ when[t] \in Nat /\ first[t] \in Nat /\ runs[t] \in Nat
  BY <1>3, TimersAssumption DEF TypeOK
<1>8. CASE Interval[t] > 0
  <2>1. when'[t] = when[t] + Interval[t] /\ (\A u \in Timers : u # t => when'[u] = when[u]) /\ obj' = obj
    BY <1>1, <1>3, <1>8 DEF Reinsert, TypeOK
  <2>2. RunsInv'
    BY <1>2, <1>3, <1>5, <1>8, <2>1 DEF RunsInv
  <2>3. when'[t] = first[t] + runs[t] * Interval[t]
    <3>1. when[t] = first[t] + (runs[t] - 1) * Interval[t]
      BY <1>3, <1>4 DEF WhenInv, PastRuns
    <3>2. (runs[t] - 1) * Interval[t] + Interval[t] = runs[t] * Interval[t]
      BY <1>7
    <3>3. (runs[t] - 1) * Interval[t] \in Int /\ runs[t] * Interval[t] \in Int
      BY <1>7
    <3> QED  BY <1>7, <2>1, <3>1, <3>2, <3>3
  <2>4. \A u \in Timers : u # t /\ obj[u] = "live" => when'[u] = first[u] + runs[u] * Interval[u]
    BY <1>5, <2>1 DEF WhenInv, PastRuns
  <2>5. \A u \in Timers : PastRuns(u)' = runs[u]
    BY <1>2, <1>5 DEF PastRuns
  <2>6. WhenInv'
    BY <1>2, <2>1, <2>3, <2>4, <2>5 DEF WhenInv
  <2> QED  BY <1>6, <2>2, <2>6
<1>9. CASE ~(Interval[t] > 0)
  <2>1. when' = when /\ obj'[t] = "deleted" /\ \A u \in Timers : u # t => obj'[u] = obj[u]
    BY <1>1, <1>3, <1>9 DEF TypeOK
  <2>2. RunsInv'
    BY <1>2, <1>3, <1>5, <2>1 DEF RunsInv
  <2>3. WhenInv'
    BY <1>2, <1>5, <2>1 DEF WhenInv, PastRuns
  <2> QED  BY <1>6, <2>2, <2>3
<1> QED  BY <1>8, <1>9

(* The schedule does not depend on the queue. *)
LEMMA ScheduleKept ==
    ASSUME TypeOK, ScheduleInv, now' \in Nat, now <= now',
           UNCHANGED <<when, current, first, runs>>, expired' \in {expired, getExpired},
           \A t \in Timers : obj'[t] = obj[t] \/ obj'[t] = "deleted"
    PROVE  ScheduleInv'
<1> USE DEF ScheduleInv
<1>1. now \in Nat /\ when \in [Timers -> Nat] /\ current \subseteq Timers
  BY TimeAssumption DEF TypeOK
<1>2. \A e \in timers_ \cup expired : e[1] \in Nat
  BY DEF TypeOK
<1>3. DueInv'
  <2>1. \A e \in expired' : e[1] \in Nat /\ e[1] <= now
    BY <1>2 DEF DueInv, getExpired
  <2>2. \A t \in current' : when'[t] \in Nat /\ when'[t] <= now
    BY <1>1 DEF DueInv
  <2> QED  BY <1>1, <2>1, <2>2 DEF DueInv
<1>4. \A t \in Timers : Running(t)' <=> Running(t)
  BY DEF Running
<1>5. RunsInv'
  BY <1>4 DEF RunsInv
<1>6. WhenInv'
  BY <1>4 DEF WhenInv, PastRuns
<1> QED  BY <1>3, <1>5, <1>6

LEMMA ScheduleNewTimer ==
    ASSUME TypeOK, OwnerInv, ScheduleInv, NEW t \in Timers, NEW w \in Expiries(t), NewTimer(t, w)
    PROVE  ScheduleInv'
<1> USE DEF ScheduleInv
<1>1. /\ w \in Nat /\ when'[t] = w /\ \A u \in Timers : u # t => when'[u] = when[u]
      /\ obj'[t] = "live" /\ \A u \in Timers : u # t => obj'[u] = obj[u]
      /\ obj[t] = "none" /\ ~Running(t)
  BY NewTimerIsFree
<1>2. expired' = expired /\ current' = current /\ now' = now /\ runs' = runs
  BY NewTimerIsFree DEF loopVars
<1>3. first'[t] = w /\ \A u \in Timers : u # t => first'[u] = first[u]
  BY DEF NewTimer, TypeOK
<1>4. \A u \in Timers : Running(u)' <=> Running(u)
  BY <1>2 DEF Running
<1>5. DueInv'
  BY <1>1, <1>2 DEF DueInv, Running, TypeOK
<1>6. RunsInv'
  BY <1>1, <1>2, <1>4 DEF RunsInv
<1>7. WhenInv'
  <2>1. runs[t] = 0 /\ PastRuns(t)' = 0 /\ Interval[t] \in Nat
    BY <1>1, <1>2, <1>4, TimersAssumption DEF RunsInv, PastRuns
  <2>2. when'[t] = first'[t] + PastRuns(t)' * Interval[t]
    BY <1>1, <1>3, <2>1
  <2>3. \A u \in Timers : PastRuns(u)' = PastRuns(u)
    BY <1>2, <1>4 DEF PastRuns
  <2> QED  BY <1>1, <1>3, <2>2, <2>3 DEF WhenInv
<1> QED  BY <1>5, <1>6, <1>7

LEMMA ScheduleStep == TypeOK /\ OwnerInv /\ ScheduleInv /\ [Next]_vars => ScheduleInv'
<1> SUFFICES ASSUME TypeOK, OwnerInv, ScheduleInv, [Next]_vars PROVE ScheduleInv'
  OBVIOUS
<1> USE DEF vars, timerVars, loopVars, history
<1>0. now \in Nat
  BY TimeAssumption DEF TypeOK
<1>1. CASE Poll \/ NoRead \/ EndRead \/ EndRound \/ Tick \/ UNCHANGED vars
  <2>1. UNCHANGED <<when, current, first, runs>> /\ expired' = expired /\ obj' = obj
    BY <1>1 DEF Poll, NoRead, EndRead, EndRound, Tick
  <2>2. now' = now \/ now' = now + 1
    BY <1>1 DEF Poll, NoRead, EndRead, EndRound, Tick
  <2>3. now' \in Nat /\ now <= now'
    BY <1>0, <2>2
  <2> QED  BY <2>1, <2>3, ScheduleKept
<1>2. CASE HandleRead
  BY <1>0, <1>2, ScheduleKept DEF HandleRead
<1>3. CASE RunTimer
  BY <1>3, ScheduleRunTimer
<1>4. CASE CallbackReturn
  BY <1>4, ScheduleCallbackReturn
<1>5. CASE RunFunctor
  <2>1. UNCHANGED <<when, current, first, runs, expired, now>>
    BY <1>5 DEF RunFunctor
  <2>2. \A t \in Timers : obj'[t] = obj[t] \/ obj'[t] = "deleted"
    BY <1>5 DEF RunFunctor, CancelInLoop, TypeOK
  <2> QED  BY <1>0, <2>1, <2>2, ScheduleKept
<1>6. ASSUME NEW t \in Timers, AddTimerHere(t) \/ AddTimer(t) PROVE ScheduleInv'
  BY <1>6, ScheduleNewTimer DEF AddTimerHere, AddTimer
<1>7. ASSUME NEW t \in Timers, CancelTimerHere(t) \/ CancelTimer(t) PROVE ScheduleInv'
  <2>1. UNCHANGED <<when, current, first, runs, expired, now>>
    BY <1>7 DEF CancelTimerHere, CancelTimer
  <2>2. \A u \in Timers : obj'[u] = obj[u] \/ obj'[u] = "deleted"
    BY <1>7 DEF CancelTimerHere, CancelTimer, CancelInLoop, TypeOK
  <2> QED  BY <1>0, <2>1, <2>2, ScheduleKept
<1> QED  BY <1>1, <1>2, <1>3, <1>4, <1>5, <1>6, <1>7 DEF Next, LoopStep, UserStep

(* With a careful application no timer runs ahead of its time, a one-shot  *)
(* timer runs once at most, and a repeating one never drifts: the time of  *)
(* its next run is the first one plus a whole number of intervals.         *)
THEOREM ScheduleCorrect == ASSUME Careful PROVE Spec => []RunsOnSchedule
<1>1. Init => ScheduleInv
  <2> SUFFICES ASSUME Init PROVE ScheduleInv
    OBVIOUS
  <2>1. \A t \in Timers : obj[t] = "none" /\ runs[t] = 0
    BY DEF Init
  <2> QED  BY <2>1 DEF Init, ScheduleInv, DueInv, RunsInv, WhenInv
<1>2. TypeOK /\ OwnerInv /\ ScheduleInv => RunsOnSchedule
  <2> SUFFICES ASSUME TypeOK, OwnerInv, ScheduleInv, NEW t \in Timers
               PROVE  LET due == first[t] + (runs[t] - (IF current = {t} THEN 1 ELSE 0)) * Interval[t]
                      IN  /\ current = {t} => when[t] <= now
                          /\ Interval[t] = 0 => runs[t] <= 1
                          /\ obj[t] = "live" => when[t] = due
    BY DEF RunsOnSchedule
  <2>1. Running(t) <=> current = {t}
    BY DEF OwnerInv, CallbackInv, Running
  <2>2. PastRuns(t) = runs[t] - (IF current = {t} THEN 1 ELSE 0)
    BY <2>1 DEF PastRuns, TypeOK
  <2> QED  BY <2>1, <2>2 DEF ScheduleInv, DueInv, RunsInv, WhenInv
<1> QED  BY <1>1, <1>2, ScheduleStep, OwnerInvariant, TypeCorrect, PTL DEF Spec
=============================================================================
