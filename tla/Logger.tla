------------------------------- MODULE Logger -------------------------------
(***************************************************************************)
(* twnl/Log/Logging.h and Logging.cc: threads write records through the    *)
(* LOG_ macros.  A record is built in the stream of a Logger on the stack  *)
(* of its thread and goes to the output function in one call when the      *)
(* Logger is destructed; a fatal one ends the process.  The level and the  *)
(* two functions are plain globals, which any thread may set at any time.  *)
(***************************************************************************)
EXTENDS LogStream

CONSTANTS
    Threads,
    LenOf,             \* how long the fixed pieces of a record are, by kind
    Texts,             \* strings that are logged: [null, len]
    Ints,              \* integers that are logged
    Pointers, Doubles, \* pointers that are logged; lengths of doubles
    Errnos,            \* what errno may be
    Line,              \* __LINE__
    MaxPieces,         \* bound: how many values are streamed into the records
    MaxRecords,        \* bound: LOG_ statements that are reached
    MaxSettings        \* bound: calls of setLogLevel, setOutput and setFlush

(* The fixed pieces of a record. *)
Kinds == {"time", "thread", "level", "strerror", "(errno=", ")", "func", " ", " - ", "basename", ":", "newline"}

ASSUME LengthsAssumption == LenOf \in [Kinds -> Nat] /\ \A str \in Texts : str.len \in Nat

(* "\n" is one character, and a buffer has room for more than the time, the *)
(* thread and the level: 4000 bytes for some forty.                        *)
ASSUME HeaderFits ==
    /\ LenOf["newline"] = 1
    /\ LenOf["time"] + LenOf["thread"] + LenOf["level"] < SIZE

ASSUME NumbersAssumption == Ints \cup Errnos \cup {Line} \subseteq Int /\ Pointers \subseteq Nat

(* What the types of the code allow: a number of 64 bits has at most 20    *)
(* characters, a pointer 18, and %.12g makes 19; kMaxNumericSize is 32.    *)
ASSUME NumbersFit ==
    /\ \A v \in Ints \cup Errnos \cup {Line} : Len(convert(v)) \in 0..(kMaxNumericSize - 1)
    /\ \A v \in Pointers : Len(<<"0", "x">> \o convertHex(v)) \in 0..(kMaxNumericSize - 1)
    /\ Doubles \subseteq 0..(kMaxNumericSize - 1)

(* Logger::LogLevel *)
TRACE == 0
DEBUG == 1
INFO == 2
WARN == 3
ERROR == 4
FATAL == 5
NONE == 6

Targets == {"stdout", "own"}

VARIABLES
    g_logLevel,
    g_output, g_flush,     \* the target that each of the two functions is for
    pc,                    \* of each thread: "idle", "open", "flush", "abort"
    impl_,                 \* the Logger of each thread
    written, synced,       \* of each target: how many records it got, and how many have left the process
    reached, streamed, settings,   \* how much of the bounds is used up
    fatal,                 \* history: the place of a thread's fatal record, and what was flushed for it
    aborted                \* which thread has ended the process, if any

vars == <<g_logLevel, g_output, g_flush, pc, impl_, written, synced, reached, streamed, settings, fatal, aborted>>

NoLogger == [level_ |-> NONE, stream_ |-> EmptyBuffer]

NoFatal == [target |-> "stdout", place |-> 0, flushed |-> "stdout"]

(* initLogLevel() goes by the environment. *)
Init ==
    /\ g_logLevel \in {TRACE, DEBUG, INFO} /\ g_output = "stdout" /\ g_flush = "stdout"
    /\ pc = [t \in Threads |-> "idle"] /\ impl_ = [t \in Threads |-> NoLogger]
    /\ written = [d \in Targets |-> 0] /\ synced = [d \in Targets |-> 0]
    /\ reached = 0 /\ streamed = 0 /\ settings = 0
    /\ fatal = [t \in Threads |-> NoFatal] /\ aborted = {}

At(t, place) == pc[t] = place /\ aborted = {}

-----------------------------------------------------------------------------
(* A LOG_ statement.                                                       *)

(* The test of the macros: LOG_ERROR and LOG_FATAL test for WARN. *)
Logged(level) == g_logLevel <= IF level > WARN THEN WARN ELSE level

Fixed(kind) == Piece(kind, LenOf[kind])

(* The constructors: WARN and above say what errno is, if it is set, TRACE *)
(* and DEBUG say in which function they are.                               *)
Header(level, savedErrno) ==
    LET impl == append(append(append(EmptyBuffer, Fixed("time")), Fixed("thread")), Fixed("level"))
        error == append(append(impl, Fixed("strerror")), Fixed("(errno="))
    IN  CASE level < INFO -> append(append(impl, Fixed("func")), Fixed(" "))
          [] level >= WARN /\ savedErrno # 0 -> append(formatInteger(error, savedErrno), Fixed(")"))
          [] OTHER -> impl

(* A record is begun if its level is wanted; else the thread goes on, also *)
(* after a LOG_FATAL.                                                      *)
Log(t, level, savedErrno) ==
    /\ At(t, "idle") /\ reached < MaxRecords /\ reached' = reached + 1
    /\ \/ /\ Logged(level) /\ pc' = [pc EXCEPT ![t] = "open"]
          /\ impl_' = [impl_ EXCEPT ![t] = [level_ |-> level, stream_ |-> Header(level, savedErrno)]]
       \/ ~Logged(level) /\ UNCHANGED <<pc, impl_>>
    /\ UNCHANGED <<g_logLevel, g_output, g_flush, written, synced, streamed, settings, fatal, aborted>>

(* The results of operator<< for every type. *)
Formatted(b) ==
    {formatText(b, s) : s \in Texts} \cup {formatInteger(b, v) : v \in Ints}
      \cup {formatPointer(b, v) : v \in Pointers} \cup {formatDouble(b, len) : len \in Doubles}
      \cup {append(b, Piece("char", 1))}

Stream(t) ==
    /\ At(t, "open") /\ streamed < MaxPieces /\ streamed' = streamed + 1
    /\ \E b \in Formatted(impl_[t].stream_) : impl_' = [impl_ EXCEPT ![t].stream_ = b]
    /\ UNCHANGED <<g_logLevel, g_output, g_flush, pc, written, synced, reached, settings, fatal, aborted>>

finish(b) ==
    LET where == append(append(append(b, Fixed(" - ")), Fixed("basename")), Fixed(":"))
    IN  append(formatInteger(where, Line), Fixed("newline"))

(* ~Logger up to the call of g_output with the finished stream; a fatal    *)
(* record is not done yet.                                                 *)
Output(t) ==
    /\ At(t, "open")
    /\ written' = [written EXCEPT ![g_output] = @ + 1]
    /\ \/ impl_[t].level_ # FATAL /\ pc' = [pc EXCEPT ![t] = "idle"] /\ UNCHANGED fatal
       \/ /\ impl_[t].level_ = FATAL /\ pc' = [pc EXCEPT ![t] = "flush"]
          /\ fatal' = [fatal EXCEPT ![t].target = g_output, ![t].place = written'[g_output]]
    /\ impl_' = [impl_ EXCEPT ![t] = NoLogger]
    /\ UNCHANGED <<g_logLevel, g_output, g_flush, synced, reached, streamed, settings, aborted>>

(* Seeded fault: the process is ended with its output in the buffers. *)
Flush_Skipped(t) ==
    /\ At(t, "flush") /\ pc' = [pc EXCEPT ![t] = "abort"]
    /\ fatal' = [fatal EXCEPT ![t].flushed = g_flush]
    /\ UNCHANGED <<g_logLevel, g_output, g_flush, impl_, written, synced, reached, streamed, settings, aborted>>

Flush(t) ==
    /\ At(t, "flush") /\ pc' = [pc EXCEPT ![t] = "abort"]
    /\ synced' = [synced EXCEPT ![g_flush] = written[g_flush]]
    /\ fatal' = [fatal EXCEPT ![t].flushed = g_flush]
    /\ UNCHANGED <<g_logLevel, g_output, g_flush, impl_, written, reached, streamed, settings, aborted>>

Abort(t) ==
    /\ At(t, "abort") /\ aborted' = {t}
    /\ UNCHANGED <<g_logLevel, g_output, g_flush, pc, impl_, written, synced, reached, streamed, settings, fatal>>

-----------------------------------------------------------------------------
(* External: a buffer is full and leaves the process. *)
Spill(d) ==
    /\ aborted = {} /\ synced[d] < written[d]
    /\ synced' = [synced EXCEPT ![d] = written[d]]
    /\ UNCHANGED <<g_logLevel, g_output, g_flush, pc, impl_, written, reached, streamed, settings, fatal, aborted>>

(* The levels that setLogLevel() knows by number. *)
LevelOf(level) ==
    CASE level = 1 -> TRACE [] level = 2 -> DEBUG [] level = 3 -> INFO
      [] level = 4 -> WARN [] level = 5 -> NONE [] OTHER -> INFO

Setting == aborted = {} /\ settings < MaxSettings /\ settings' = settings + 1

SetLogLevel(level) ==
    /\ Setting /\ g_logLevel' = LevelOf(level)
    /\ UNCHANGED <<g_output, g_flush, pc, impl_, written, synced, reached, streamed, fatal, aborted>>

SetOutput(d) ==
    /\ Setting /\ g_output' = d
    /\ UNCHANGED <<g_logLevel, g_flush, pc, impl_, written, synced, reached, streamed, fatal, aborted>>

SetFlush(d) ==
    /\ Setting /\ g_flush' = d
    /\ UNCHANGED <<g_logLevel, g_output, pc, impl_, written, synced, reached, streamed, fatal, aborted>>

-----------------------------------------------------------------------------
Next ==
    \/ \E t \in Threads :
          \/ \E level \in TRACE..FATAL, savedErrno \in Errnos : Log(t, level, savedErrno)
          \/ Stream(t) \/ Output(t) \/ Flush(t) \/ Abort(t)
    \/ \E d \in Targets : Spill(d) \/ SetOutput(d) \/ SetFlush(d)
    \/ \E level \in 0..5 : SetLogLevel(level)

Spec == Init /\ [][Next]_vars

-----------------------------------------------------------------------------
(* Whatever is streamed, nothing is written behind the end of data_, not   *)
(* even the NUL of convert(), and one byte is left for the NUL of          *)
(* debugString().                                                          *)
NoOverrun ==
    \A t \in Threads :
        LET text == finish(impl_[t].stream_)
        IN  text.high <= SIZE /\ text.length < SIZE

(* The record that t is about to put out has its time, thread and level in *)
(* front, whatever was streamed behind them; every number in it reads as   *)
(* the value that was given; and it ends its line, unless the pieces       *)
(* before have filled the buffer to its last byte but one.                 *)
RecordsReadable ==
    \A t \in Threads : pc[t] = "open" =>
        LET text == finish(impl_[t].stream_)
            kinds == [i \in DOMAIN text.pieces |-> text.pieces[i].kind]
        IN  /\ SubSeq(kinds, 1, 3) = <<"time", "thread", "level">>
            /\ \A i \in DOMAIN text.pieces : Denotes(text.pieces[i])
            /\ kinds[Len(kinds)] = "newline" \/ text.length = SIZE - 1

(* When a fatal record ends the process, this record and all that went to  *)
(* its target before it have left the process, if the flush function was   *)
(* the one for that target.                                                *)
FatalIsSeen ==
    \A t \in aborted : fatal[t].flushed = fatal[t].target => synced[fatal[t].target] >= fatal[t].place
=============================================================================
