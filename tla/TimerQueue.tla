------------------------------ MODULE TimerQueue -----------------------------
(***************************************************************************)
(* twnl/TimerQueue.cc and Timer.h: the ordered set of timers of one loop   *)
(* and the timerfd that is armed for the first of them.  Timers are added  *)
(* and cancelled on the loop thread, by handlers, timer callbacks and      *)
(* functors, or on other threads through queueInLoop; the clock moves on   *)
(* at any moment.  A timer is named by its address, which also breaks ties *)
(* in the set; an address is used once.  Timer::cancel is only called just *)
(* before the timer is deleted, so that canceled() of a timer that exists  *)
(* is false and canceled_ needs no variable.                               *)
(***************************************************************************)
EXTENDS Naturals, Sequences

CONSTANTS
    Timers,        \* addresses of the timers
    Interval,      \* interval_ of each; 0 for runAt and runAfter
    LastWhen,      \* bound: the latest time that is asked for
    EndOfTime,     \* bound: the clock stops here
    Careful        \* does the application cancel only timers that still wait?

ASSUME TimersAssumption == Timers \subseteq Nat /\ Interval \in [Timers -> Nat]
ASSUME TimeAssumption == LastWhen \in Nat /\ EndOfTime \in Nat /\ Careful \in BOOLEAN

VARIABLES
    now,                    \* clock::now()
    armed, deadline,        \* timerfd_: is it set, and for when
    timers_,                \* entries <<when, timer>>
    expired,                \* handleRead: the rest of what getExpired returned
    when,                   \* Timer::when_
    obj,                    \* is the Timer object there?
    pc, fired,              \* the loop thread; did poll report the timerfd?
    current,                \* the timer whose callback is running
    pendingFunctors_,
    asked,                  \* history: timers somebody cancelled
    first, runs,            \* history: the first expiry asked for; how often it ran
    misuse                  \* history: a deleted timer was used

timerVars == <<timers_, when, obj>>
fdVars == <<armed, deadline>>
loopVars == <<pc, fired, current, expired>>
history == <<asked, first, runs>>
vars == <<now, fdVars, timerVars, loopVars, pendingFunctors_, history, misuse>>

Init ==
    /\ now = 0 /\ armed = FALSE /\ deadline = 0
    /\ timers_ = {} /\ expired = {}
    /\ when = [t \in Timers |-> 0] /\ obj = [t \in Timers |-> "none"]
    /\ pc = "poll" /\ fired = FALSE /\ current = {}
    /\ pendingFunctors_ = <<>>
    /\ asked = {} /\ first = [t \in Timers |-> 0] /\ runs = [t \in Timers |-> 0]
    /\ misuse = FALSE

(* The order of std::set<Entry>. *)
Before(e, f) == e[1] < f[1] \/ (e[1] = f[1] /\ e[2] <= f[2])

IsFirst(e, S) == \A f \in S : Before(e, f)

Readable == armed /\ deadline <= now

(* timerfdSet: durationFromNow never asks for less than one tick.  At the  *)
(* end of the model's time there is no later tick to wait for.             *)
timerfdSet(w) ==
    /\ armed' = TRUE
    /\ deadline' = IF w <= now /\ now < EndOfTime THEN now + 1 ELSE w

-----------------------------------------------------------------------------
(* The functors of addTimer and cancelTimer, on the loop thread.           *)

(* Seeded fault: the timerfd is set for the first timer only. *)
InsertInLoop_WhenEmpty(t, w) ==
    /\ timers_' = timers_ \cup {<<w, t>>}
    /\ IF timers_ = {} THEN timerfdSet(w) ELSE UNCHANGED fdVars

InsertInLoop(t, w) ==
    /\ timers_' = timers_ \cup {<<w, t>>}
    /\ IF IsFirst(<<w, t>>, timers_) THEN timerfdSet(w) ELSE UNCHANGED fdVars

(* Seeded fault: the entry stays behind. *)
CancelInLoop_KeepEntry(t) ==
    /\ misuse' = (misuse \/ obj[t] # "live")
    /\ obj' = [obj EXCEPT ![t] = "deleted"]
    /\ UNCHANGED timers_

CancelInLoop(t) ==
    /\ misuse' = (misuse \/ obj[t] # "live")
    /\ timers_' = timers_ \ {<<when[t], t>>}
    /\ obj' = [obj EXCEPT ![t] = "deleted"]

-----------------------------------------------------------------------------
(* The loop thread.                                                        *)

At(place) == pc = place /\ ~misuse

(* poll() returns, with the timerfd if it is readable. *)
Poll ==
    /\ At("poll")
    /\ fired' = Readable /\ pc' = "other"
    /\ UNCHANGED <<now, fdVars, timerVars, current, expired, pendingFunctors_, history, misuse>>

(* Seeded fault: a timer of the next tick is taken too. *)
getExpired_Early == {e \in timers_ : e[1] <= now + 1}

getExpired == {e \in timers_ : e[1] <= now}

(* handleRead empties the timerfd, unless a handler before it in the same  *)
(* round has set it anew, and takes the expired timers out.                *)
HandleRead ==
    /\ At("other") /\ fired /\ fired' = FALSE
    /\ armed' = (armed /\ ~Readable)
    /\ expired' = getExpired /\ timers_' = timers_ \ getExpired
    /\ pc' = "expired"
    /\ UNCHANGED <<now, deadline, when, obj, current, pendingFunctors_, history, misuse>>

(* The next expired timer: canceled() is read and the callback called. *)
RunTimer ==
    /\ At("expired")
    /\ \E e \in expired :
          /\ IsFirst(e, expired)
          /\ expired' = expired \ {e}
          /\ misuse' = (obj[e[2]] # "live")
          /\ current' = {e[2]} /\ pc' = "callback"
          /\ runs' = [runs EXCEPT ![e[2]] = @ + 1]
    /\ UNCHANGED <<now, fdVars, timerVars, fired, pendingFunctors_, asked, first>>

(* Seeded fault: the entry goes back under its old time. *)
Reinsert_OldTime(t) ==
    /\ when' = [when EXCEPT ![t] = @ + Interval[t]]
    /\ timers_' = timers_ \cup {<<when[t], t>>}

Reinsert(t) ==
    /\ when' = [when EXCEPT ![t] = @ + Interval[t]]
    /\ timers_' = timers_ \cup {<<when[t] + Interval[t], t>>}

(* The callback returns: restart and insert again, or delete. *)
CallbackReturn ==
    /\ At("callback") /\ pc' = "expired" /\ current' = {}
    /\ \E t \in current :
          /\ misuse' = (obj[t] # "live")
          /\ IF Interval[t] > 0
             THEN Reinsert(t) /\ UNCHANGED obj
             ELSE obj' = [obj EXCEPT ![t] = "deleted"] /\ UNCHANGED <<timers_, when>>
    /\ UNCHANGED <<now, fdVars, expired, fired, pendingFunctors_, history>>

(* Seeded fault: the timerfd is not set again. *)
EndRead_NotArmed ==
    /\ At("expired") /\ expired = {}
    /\ pc' = "functors"
    /\ UNCHANGED <<now, fdVars, timerVars, fired, current, expired, pendingFunctors_, history, misuse>>

(* handleRead ends by setting the timerfd for the first timer left. *)
EndRead ==
    /\ At("expired") /\ expired = {}
    /\ \/ timers_ = {} /\ UNCHANGED fdVars
       \/ \E e \in timers_ : IsFirst(e, timers_) /\ timerfdSet(e[1])
    /\ pc' = "functors"
    /\ UNCHANGED <<now, timerVars, fired, current, expired, pendingFunctors_, history, misuse>>

(* Nothing was reported for the timerfd. *)
NoRead ==
    /\ At("other") /\ ~fired /\ pc' = "functors"
    /\ UNCHANGED <<now, fdVars, timerVars, fired, current, expired, pendingFunctors_, history, misuse>>

(* doPendingFunctors, one functor after the other. *)
RunFunctor ==
    /\ At("functors") /\ pendingFunctors_ # <<>>
    /\ LET f == Head(pendingFunctors_)
       IN  \/ /\ f.op = "insert" /\ InsertInLoop(f.timer, f.when)
              /\ UNCHANGED <<obj, misuse>>
           \/ f.op = "cancel" /\ CancelInLoop(f.timer) /\ UNCHANGED fdVars
    /\ pendingFunctors_' = Tail(pendingFunctors_)
    /\ UNCHANGED <<now, when, loopVars, history>>

EndRound ==
    /\ At("functors") /\ pendingFunctors_ = <<>> /\ pc' = "poll"
    /\ UNCHANGED <<now, fdVars, timerVars, fired, current, expired, pendingFunctors_, history, misuse>>

-----------------------------------------------------------------------------
(* The application: runAt, runAfter, runEvery and cancelTimer.             *)

(* The first expiry that runAt, or runEvery, asks for. *)
Expiries(t) == IF Interval[t] = 0 THEN 0..LastWhen ELSE {now + Interval[t]} \cap 0..LastWhen

NewTimer(t, w) ==
    /\ obj[t] = "none" /\ obj' = [obj EXCEPT ![t] = "live"]
    /\ when' = [when EXCEPT ![t] = w] /\ first' = [first EXCEPT ![t] = w]
    /\ UNCHANGED <<now, loopVars, asked, runs, misuse>>

(* Code of the application runs on the loop thread in handlers of other    *)
(* channels, in timer callbacks and in functors.                           *)
UserCode == At("other") \/ At("callback") \/ At("functors")

AddTimerHere(t) ==
    /\ UserCode
    /\ \E w \in Expiries(t) : NewTimer(t, w) /\ InsertInLoop(t, w)
    /\ UNCHANGED pendingFunctors_

AddTimer(t) ==
    /\ ~misuse
    /\ \E w \in Expiries(t) :
          /\ NewTimer(t, w)
          /\ pendingFunctors_' = Append(pendingFunctors_, [op |-> "insert", timer |-> t, when |-> w])
    /\ UNCHANGED <<fdVars, timers_>>

CancelTimerHere(t) ==
    /\ UserCode /\ obj[t] # "none" /\ t \notin asked
    /\ Careful => <<when[t], t>> \in timers_
    /\ asked' = asked \cup {t}
    /\ CancelInLoop(t)
    /\ UNCHANGED <<now, fdVars, when, loopVars, pendingFunctors_, first, runs>>

(* On another thread nobody can know that a timer still waits, unless it   *)
(* repeats.                                                                *)
CancelTimer(t) ==
    /\ ~misuse /\ obj[t] # "none" /\ t \notin asked
    /\ Careful => Interval[t] > 0
    /\ asked' = asked \cup {t}
    /\ pendingFunctors_' = Append(pendingFunctors_, [op |-> "cancel", timer |-> t, when |-> 0])
    /\ UNCHANGED <<now, fdVars, timerVars, loopVars, first, runs, misuse>>

Tick ==
    /\ now < EndOfTime /\ now' = now + 1
    /\ UNCHANGED <<fdVars, timerVars, loopVars, pendingFunctors_, history, misuse>>

LoopStep ==
    \/ Poll \/ HandleRead \/ NoRead \/ RunTimer \/ CallbackReturn \/ EndRead
    \/ RunFunctor \/ EndRound

UserStep == \E t \in Timers : AddTimerHere(t) \/ AddTimer(t) \/ CancelTimerHere(t) \/ CancelTimer(t)

Next == LoopStep \/ UserStep \/ Tick

Spec == Init /\ [][Next]_vars

(* The loop keeps running, callbacks return and time goes on. *)
FairSpec == Spec /\ WF_vars(LoopStep) /\ WF_vars(Tick)

-----------------------------------------------------------------------------
(* The variables have their types, and the loop's own agree: a callback    *)
(* has a timer, and nothing expired is left behind when handleRead ends.   *)
TypeOK ==
    /\ now \in 0..EndOfTime /\ armed \in BOOLEAN /\ deadline \in Nat
    /\ timers_ \subseteq Nat \X Timers /\ expired \subseteq Nat \X Timers
    /\ when \in [Timers -> Nat] /\ obj \in [Timers -> {"none", "live", "deleted"}]
    /\ pc \in {"poll", "other", "expired", "callback", "functors"} /\ fired \in BOOLEAN
    /\ current \subseteq Timers
    /\ pendingFunctors_ \in Seq([op : {"insert", "cancel"}, timer : Timers, when : Nat])
    /\ asked \subseteq Timers /\ first \in [Timers -> Nat] /\ runs \in [Timers -> Nat]
    /\ misuse \in BOOLEAN
    /\ current # {} <=> pc = "callback"
    /\ expired # {} => pc \in {"expired", "callback"}
    /\ fired => pc = "other"

(* While timers wait and handleRead is not under way, the timerfd is set,  *)
(* and for no later than the first of them: for its time, or for the next  *)
(* tick when that time has passed.                                         *)
ArmedInTime ==
    pc \notin {"expired", "callback"} /\ timers_ # {} =>
        /\ armed
        /\ \A e \in timers_ : deadline <= e[1] \/ deadline <= now + 1

(* Every timer that exists has exactly one owner: an entry of the set      *)
(* under its own time (cancelTimer's erase must find it), an entry that    *)
(* handleRead still has to run, the callback being run, or the functor     *)
(* that will insert it.  Every owner's timer exists.                       *)
Owners(t) ==
    {<<"set", e>> : e \in {x \in timers_ : x[2] = t}}
    \cup {<<"expired", e>> : e \in {x \in expired : x[2] = t}}
    \cup {<<"callback", t>> : x \in {y \in current : y = t}}
    \cup {<<"functor", i>> : i \in {j \in DOMAIN pendingFunctors_ :
              pendingFunctors_[j].op = "insert" /\ pendingFunctors_[j].timer = t}}

OneOwner ==
    /\ \A t \in Timers : IF obj[t] = "live" THEN \E o \in Owners(t) : Owners(t) = {o} ELSE Owners(t) = {}
    /\ \A e \in timers_ \cup expired : e[1] = when[e[2]]

(* No timer object is used after it was deleted, nor deleted twice. *)
NoUseAfterDelete == ~misuse

(* A timer never runs ahead of its time; a one-shot timer runs once, and a *)
(* repeating one once for each multiple of its interval, late or not.      *)
RunsOnSchedule ==
    \A t \in Timers :
        LET due == first[t] + (runs[t] - (IF current = {t} THEN 1 ELSE 0)) * Interval[t]
        IN  /\ current = {t} => when[t] <= now
            /\ Interval[t] = 0 => runs[t] <= 1
            /\ obj[t] = "live" => when[t] = due

(* A timer runs when its time has come, or somebody cancels it. *)
TimerRuns ==
    \A t \in Timers : \A n \in 0..LastWhen :
        (obj[t] = "live" /\ current # {t} /\ when[t] <= LastWhen /\ runs[t] = n)
            ~> (runs[t] > n \/ t \in asked)
=============================================================================
