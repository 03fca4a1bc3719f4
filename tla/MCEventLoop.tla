----------------------------- MODULE MCEventLoop -----------------------------
(* Model-checking instance of EventLoop. *)
EXTENDS EventLoop

CONSTANTS t1, t2, f1, f2

TwoThreads == {t1, t2}
TwoFunctors == {f1, f2}
=============================================================================
