---------------------------- MODULE MCTimerQueue -----------------------------
(* Model-checking instances of TimerQueue: the last timer repeats. *)
EXTENDS TimerQueue

ThreeTimers == 1..3
LastRepeats == [t \in ThreeTimers |-> IF t = 3 THEN 1 ELSE 0]
=============================================================================
