------------------------------ MODULE MCLogger ------------------------------
(* Constants of the run log: the sizes of the code, and texts that leave   *)
(* little or no room for what follows.                                     *)
EXTENDS Logger, TLC

CONSTANTS t1, t2

Interchangeable == Permutations(Threads)

Lengths ==
    [k \in Kinds |->
        CASE k = "time" -> 17 [] k = "thread" -> 17 [] k = "level" -> 6 [] k = "strerror" -> 22
          [] k = "(errno=" -> 8 [] k = ")" -> 2 [] k = "func" -> 10 [] k = " - " -> 3
          [] k = "basename" -> 11 [] OTHER -> 1]

(* 3959 characters fill the buffer behind the header of INFO but for one. *)
Strings == {[null |-> TRUE, len |-> 0]} \cup {[null |-> FALSE, len |-> n] : n \in {3928, 3959}}

(* The limits of int, and zero. *)
Numbers == {-2147483647 - 1, 0, 2147483647}

Addresses == {2147483647}
=============================================================================
