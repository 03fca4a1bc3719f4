--------------------------- MODULE MCTcpConnection ---------------------------
(* Model-checking instances of TcpConnection. *)
EXTENDS TcpConnection, TLC

CONSTANTS m1, m2, u1, u2

TwoMsgs == {m1, m2}
NoUsers == {}
TwoUsers == {u1, u2}

LevelOnly == {"LT"}
BothModes == {"LT", "ET"}

NoOps == {}
SendOps == {"send", "sendBuffer"}
CloseOps == {"shutdown", "forceClose"}
ReadingOps == {"startRead", "stopRead"}
AllOps == {"send"} \cup CloseOps \cup ReadingOps

(* Operations in callbacks, by mode.  After stopRead, forceClose is kept   *)
(* out: see the README on EpollPoller.cc:80.                               *)
LoopOps == [LT |-> SendOps \cup CloseOps, ET |-> SendOps \cup ReadingOps]
SendingOps == [LT |-> {"send"}, ET |-> {"send"}]
ClosingOps == [LT |-> CloseOps]

Interchangeable == Permutations(TwoMsgs) \cup Permutations(TwoUsers)
=============================================================================
