------------------------------ MODULE TaskQueue ------------------------------
(***************************************************************************)
(* What EventLoop promises to the code that hands it functors: one FIFO    *)
(* queue.  A functor is submitted at most once, waits in `queue`, and is   *)
(* run exactly once, in submission order; runInLoop called on the loop's   *)
(* own thread runs the functor on the spot, ahead of the queue.            *)
(***************************************************************************)
EXTENDS Sequences

CONSTANT Functors

VARIABLES
    queue,      \* submitted and not yet run, oldest first
    done        \* run, in the order they were run

vars == <<queue, done>>

InSeq(f, s) == \E i \in DOMAIN s : s[i] = f

Fresh(f) == ~InSeq(f, queue) /\ ~InSeq(f, done)

Init == queue = <<>> /\ done = <<>>

(* queueInLoop, from any thread. *)
Submit(f) ==
    /\ Fresh(f)
    /\ queue' = Append(queue, f)
    /\ UNCHANGED done

(* runInLoop on the loop's own thread. *)
RunDirectly(f) ==
    /\ Fresh(f)
    /\ done' = Append(done, f)
    /\ UNCHANGED queue

(* The loop runs the oldest submitted functor. *)
RunOldest ==
    /\ queue # <<>>
    /\ done' = Append(done, Head(queue))
    /\ queue' = Tail(queue)

Next ==
    \/ \E f \in Functors : Submit(f) \/ RunDirectly(f)
    \/ RunOldest

Spec == Init /\ [][Next]_vars
=============================================================================
