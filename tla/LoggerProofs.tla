---------------------------- MODULE LoggerProofs ----------------------------
(***************************************************************************)
(* Proofs about Logger and LogStream, for any number of threads and for    *)
(* any texts and numbers that are logged: the fixed buffer of a record is  *)
(* never overrun, a fatal record has left the process when it aborts, and  *)
(* a record can be read: for every integer, convert() makes digits that    *)
(* read back as its value.  The loops of the conversions are recursive     *)
(* functions; what is said of all numbers is proved of a least             *)
(* counterexample, by LeastNumber.                                         *)
(***************************************************************************)
EXTENDS Logger, SequenceTheorems, WellFoundedInduction, TLAPS

Record == [target : Targets, place : Nat, flushed : Targets]

TypeInv ==
    /\ g_output \in Targets /\ g_flush \in Targets
    /\ pc \in [Threads -> {"idle", "open", "flush", "abort"}]
    /\ DOMAIN impl_ = Threads
    /\ written \in [Targets -> Nat] /\ synced \in [Targets -> Nat]
    /\ fatal \in [Threads -> Record]

-----------------------------------------------------------------------------
(* A buffer with room for a NUL, to whose end nothing was written. *)
Sound(b) == b.length \in Nat /\ b.high \in Nat /\ b.length < SIZE /\ b.high <= SIZE

LEMMA AddSound ==
    ASSUME NEW b, Sound(b), NEW piece, piece.len \in Nat, NEW spare \in Nat,
           b.length + piece.len < SIZE, b.length + piece.len + spare <= SIZE
    PROVE  Sound(Add(b, piece, spare))
  BY SizesAssumption DEF Sound, Add, Larger

LEMMA AppendSound ==
    ASSUME NEW b, Sound(b), NEW piece, piece.len \in Nat
    PROVE  Sound(append(b, piece))
<1>1. ASSUME avail(b) > piece.len PROVE Sound(Add(b, piece, 0))
  <2>1. b.length + piece.len < SIZE /\ b.length + piece.len + 0 <= SIZE
    BY <1>1, SizesAssumption DEF avail, Sound
  <2> QED  BY <2>1, AddSound
<1> QED  BY <1>1 DEF append

(* A number, with the NUL behind it, has its room. *)
LEMMA NumberSound ==
    ASSUME NEW b, Sound(b), NEW piece, piece.len \in 0..(kMaxNumericSize - 1), avail(b) >= kMaxNumericSize
    PROVE  Sound(Add(b, piece, 1))
<1>1. /\ piece.len \in Nat /\ b.length + piece.len < SIZE /\ b.length + piece.len + 1 <= SIZE
  BY SizesAssumption DEF avail, Sound
<1> QED  BY <1>1, AddSound

LEMMA IntegerSound ==
    ASSUME NEW b, Sound(b), NEW v \in Ints \cup Errnos \cup {Line}
    PROVE  Sound(formatInteger(b, v))
<1>1. Number("integer", v, convert(v)).len \in 0..(kMaxNumericSize - 1)
  BY NumbersFit DEF Number
<1> QED  BY <1>1, NumberSound DEF formatInteger

LEMMA FixedSound ==
    ASSUME NEW b, Sound(b), NEW kind \in Kinds
    PROVE  Sound(append(b, Fixed(kind)))
<1>1. Fixed(kind).len \in Nat
  BY LengthsAssumption DEF Fixed, Piece
<1> QED  BY <1>1, AppendSound

LEMMA HeaderSound ==
    ASSUME NEW level, NEW savedErrno \in Errnos
    PROVE  Sound(Header(level, savedErrno))
<1> DEFINE b1 == append(EmptyBuffer, Fixed("time"))
           b2 == append(b1, Fixed("thread"))
           impl == append(b2, Fixed("level"))
           e1 == append(impl, Fixed("strerror"))
           error == append(e1, Fixed("(errno="))
           f1 == append(impl, Fixed("func"))
<1>1. Sound(EmptyBuffer)
  BY SizesAssumption DEF Sound, EmptyBuffer
<1>2. Sound(b1)
  BY <1>1, FixedSound DEF Kinds
<1> HIDE DEF b1
<1>3. Sound(b2)
  BY <1>2, FixedSound DEF Kinds
<1> HIDE DEF b2
<1>4. Sound(impl)
  BY <1>3, FixedSound DEF Kinds
<1> HIDE DEF impl
<1>5. Sound(e1) /\ Sound(f1)
  BY <1>4, FixedSound DEF Kinds
<1> HIDE DEF e1, f1
<1>6. Sound(error) /\ Sound(append(f1, Fixed(" ")))
  BY <1>5, FixedSound DEF Kinds
<1> HIDE DEF error
<1>7. Sound(formatInteger(error, savedErrno))
  BY <1>6, IntegerSound
<1>8. Sound(append(formatInteger(error, savedErrno), Fixed(")")))
  BY <1>7, FixedSound DEF Kinds
<1>9. Header(level, savedErrno) =
         CASE level < INFO -> append(f1, Fixed(" "))
           [] level >= WARN /\ savedErrno # 0 -> append(formatInteger(error, savedErrno), Fixed(")"))
           [] OTHER -> impl
  BY DEF Header, b1, b2, impl, e1, error, f1
<1> QED  BY <1>4, <1>6, <1>8, <1>9

LEMMA FormattedSound ==
    ASSUME NEW b, Sound(b), NEW c \in Formatted(b)
    PROVE  Sound(c)
<1>1. CASE \E str \in Texts : c = formatText(b, str)
  <2>1. PICK str \in Texts : c = formatText(b, str)
    BY <1>1
  <2>2. Piece("null", 6).len \in Nat /\ Piece("text", str.len).len \in Nat
    BY LengthsAssumption DEF Piece
  <2> QED  BY <2>1, <2>2, AppendSound DEF formatText
<1>2. CASE \E v \in Ints : c = formatInteger(b, v)
  BY <1>2, IntegerSound
<1>3. CASE \E v \in Pointers : c = formatPointer(b, v)
  <2>1. PICK v \in Pointers : c = formatPointer(b, v)
    BY <1>3
  <2>2. Number("pointer", v, <<"0", "x">> \o convertHex(v)).len \in 0..(kMaxNumericSize - 1)
    BY NumbersFit DEF Number
  <2> QED  BY <2>1, <2>2, NumberSound DEF formatPointer
<1>4. CASE \E len \in Doubles : c = formatDouble(b, len)
  <2>1. PICK len \in Doubles : c = formatDouble(b, len)
    BY <1>4
  <2>2. Piece("double", len).len \in 0..(kMaxNumericSize - 1)
    BY NumbersFit DEF Piece
  <2> QED  BY <2>1, <2>2, NumberSound DEF formatDouble
<1>5. CASE c = append(b, Piece("char", 1))
  BY <1>5, AppendSound DEF Piece
<1> QED  BY <1>1, <1>2, <1>3, <1>4, <1>5 DEF Formatted

LEMMA FinishSound ==
    ASSUME NEW b, Sound(b)
    PROVE  Sound(finish(b))
<1> DEFINE b1 == append(b, Fixed(" - "))
           b2 == append(b1, Fixed("basename"))
           where == append(b2, Fixed(":"))
<1>1. Sound(b1)
  BY FixedSound DEF Kinds
<1> HIDE DEF b1
<1>2. Sound(b2)
  BY <1>1, FixedSound DEF Kinds
<1> HIDE DEF b2
<1>3. Sound(where)
  BY <1>2, FixedSound DEF Kinds
<1> HIDE DEF where
<1>4. Sound(formatInteger(where, Line))
  BY <1>3, IntegerSound
<1>5. Sound(append(formatInteger(where, Line), Fixed("newline")))
  BY <1>4, FixedSound DEF Kinds
<1> QED  BY <1>5 DEF finish, b1, b2, where

(* What every thread has streamed so far is sound. *)
StreamsInv == \A t \in Threads : Sound(impl_[t].stream_)

-----------------------------------------------------------------------------
(* A fatal record has its place in what was written to its target; once it *)
(* is flushed there, so much has left the process; and the process ends    *)
(* only after that.                                                        *)
FatalInv ==
    /\ \A t \in Threads :
          /\ pc[t] \in {"flush", "abort"} => fatal[t].place <= written[fatal[t].target]
          /\ pc[t] = "abort" /\ fatal[t].flushed = fatal[t].target =>
                fatal[t].place <= synced[fatal[t].target]
    /\ aborted \subseteq Threads /\ \A t \in aborted : pc[t] = "abort"
    /\ \A d \in Targets : synced[d] <= written[d]

LoggerInv == TypeInv /\ StreamsInv /\ FatalInv

LEMMA LoggerInit ==
    ASSUME Init
    PROVE  LoggerInv
<1>1. Sound(EmptyBuffer)
  BY SizesAssumption DEF Sound, EmptyBuffer
<1>2. TypeInv
  BY DEF Init, TypeInv, Targets, Record, NoFatal
<1>3. StreamsInv
  BY <1>1 DEF Init, StreamsInv, NoLogger
<1>4. FatalInv
  BY DEF Init, FatalInv, Targets, NoFatal
<1> QED  BY <1>2, <1>3, <1>4 DEF LoggerInv

LEMMA LoggerStep ==
    ASSUME LoggerInv, [Next]_vars
    PROVE  LoggerInv'
<1> USE DEF LoggerInv
<1>1. ASSUME NEW t \in Threads, NEW level \in TRACE..FATAL, NEW savedErrno \in Errnos, Log(t, level, savedErrno)
      PROVE  LoggerInv'
  <2>1. TypeInv'
    BY <1>1 DEF Log, TypeInv
  <2>2. StreamsInv'
    BY <1>1, HeaderSound DEF Log, StreamsInv, TypeInv
  <2>3. FatalInv'
    BY <1>1 DEF Log, At, FatalInv, TypeInv
  <2> QED  BY <2>1, <2>2, <2>3
<1>2. ASSUME NEW t \in Threads, Stream(t)
      PROVE  LoggerInv'
  <2>1. PICK b \in Formatted(impl_[t].stream_) : impl_' = [impl_ EXCEPT ![t].stream_ = b]
    BY <1>2 DEF Stream
  <2>2. Sound(b)
    BY FormattedSound DEF StreamsInv
  <2>3. TypeInv' /\ FatalInv'
    BY <1>2 DEF Stream, TypeInv, FatalInv
  <2>4. StreamsInv'
    BY <2>1, <2>2 DEF StreamsInv, TypeInv
  <2> QED  BY <2>3, <2>4
<1>3. ASSUME NEW t \in Threads, Output(t)
      PROVE  LoggerInv'
  <2>1. TypeInv'
    BY <1>3 DEF Output, TypeInv, Record
  <2>2. StreamsInv'
    <3>1. Sound(EmptyBuffer)
      BY SizesAssumption DEF Sound, EmptyBuffer
    <3> QED  BY <1>3, <3>1 DEF Output, StreamsInv, TypeInv, NoLogger
  <2>3. FatalInv'
    BY <1>3 DEF Output, At, FatalInv, TypeInv, Record
  <2> QED  BY <2>1, <2>2, <2>3
<1>4. ASSUME NEW t \in Threads, Flush(t)
      PROVE  LoggerInv'
  <2>1. TypeInv' /\ StreamsInv'
    BY <1>4 DEF Flush, TypeInv, StreamsInv, Record
  <2>2. FatalInv'
    BY <1>4 DEF Flush, At, FatalInv, TypeInv, Record
  <2> QED  BY <2>1, <2>2
<1>5. ASSUME NEW t \in Threads, Abort(t)
      PROVE  LoggerInv'
  BY <1>5 DEF Abort, At, TypeInv, StreamsInv, FatalInv
<1>6. ASSUME NEW d \in Targets, Spill(d)
      PROVE  LoggerInv'
  <2>1. TypeInv' /\ StreamsInv'
    BY <1>6 DEF Spill, TypeInv, StreamsInv
  <2>2. FatalInv'
    BY <1>6 DEF Spill, FatalInv, TypeInv, Record
  <2> QED  BY <2>1, <2>2
<1>7. ASSUME NEW d \in Targets, SetOutput(d) \/ SetFlush(d)
      PROVE  LoggerInv'
  BY <1>7 DEF SetOutput, SetFlush, TypeInv, StreamsInv, FatalInv
<1>8. ASSUME NEW level \in 0..5, SetLogLevel(level)
      PROVE  LoggerInv'
  BY <1>8 DEF SetLogLevel, TypeInv, StreamsInv, FatalInv
<1>9. CASE UNCHANGED vars
  BY <1>9 DEF vars, TypeInv, StreamsInv, FatalInv
<1> QED  BY <1>1, <1>2, <1>3, <1>4, <1>5, <1>6, <1>7, <1>8, <1>9 DEF Next

-----------------------------------------------------------------------------
(* Whatever a thread streams into a record, in whatever order, convert(),  *)
(* snprintf() and append() write inside the fixed buffer, and there is     *)
(* always a byte left for a NUL.                                           *)
THEOREM BufferIsNotOverrun == Spec => []NoOverrun
<1>1. Init => LoggerInv
  BY LoggerInit
<1>2. LoggerInv /\ [Next]_vars => LoggerInv'
  BY LoggerStep
<1>3. LoggerInv => NoOverrun
  <2> SUFFICES ASSUME LoggerInv, NEW t \in Threads
               PROVE  Sound(finish(impl_[t].stream_))
    BY DEF NoOverrun, Sound
  <2> QED  BY FinishSound DEF LoggerInv, StreamsInv
<1> QED  BY <1>1, <1>2, <1>3, PTL DEF Spec

(* When the destructor of a fatal record aborts, this record has left the  *)
(* process, with all that its target got before, if g_flush was for that   *)
(* target; whatever other threads log, set or flush meanwhile.             *)
THEOREM FatalRecordIsSeen == Spec => []FatalIsSeen
<1>1. Init => LoggerInv
  BY LoggerInit
<1>2. LoggerInv /\ [Next]_vars => LoggerInv'
  BY LoggerStep
<1>3. LoggerInv => FatalIsSeen
  <2> SUFFICES ASSUME LoggerInv, NEW t \in aborted, fatal[t].flushed = fatal[t].target
               PROVE  synced[fatal[t].target] >= fatal[t].place
    BY DEF FatalIsSeen
  <2>1. t \in Threads /\ fatal[t].place <= synced[fatal[t].target]
    BY DEF LoggerInv, FatalInv
  <2>2. fatal[t].place \in Nat /\ synced[fatal[t].target] \in Nat
    BY <2>1 DEF LoggerInv, TypeInv, Record
  <2> QED  BY <2>1, <2>2
<1> QED  BY <1>1, <1>2, <1>3, PTL DEF Spec

-----------------------------------------------------------------------------
(* The loops of convert() and convertHex() as functions that call          *)
(* themselves for the quotient: such a function exists.                    *)

(* A set of natural numbers has a least element. *)
LEMMA LeastNumber ==
    ASSUME NEW T, T \subseteq Nat, T # {}
    PROVE  \E x \in T : \A y \in T : x <= y
<1> DEFINE R == {p \in Nat \X Nat : p[1] < p[2]}
<1>1. R = OpToRel(<, Nat)
  BY DEF OpToRel
<1>2. IsWellFoundedOn(R, Nat)
  BY <1>1, NatLessThanWellFounded
<1> HIDE DEF R
<1>3. PICK x \in T : \A y \in T : ~(<<y, x>> \in R)
  BY <1>2, WFMin
<1>4. ASSUME NEW y \in T PROVE x <= y
  <2>1. x \in Nat /\ y \in Nat /\ <<y, x>> \in Nat \X Nat
    OBVIOUS
  <2>2. ~(y < x)
    BY <1>3, <2>1 DEF R
  <2> QED  BY <2>1, <2>2
<1> QED  BY <1>4

Magnitude(i) == IF i < 0 THEN -i ELSE i

LEMMA MagnitudeType == \A i \in Int : Magnitude(i) \in Nat
BY DEF Magnitude

(* Each quotient is smaller than the number, or there is none. *)
Descends(D, q) ==
    /\ D \subseteq Int /\ q \in [D -> D]
    /\ \A i \in D : q[i] = 0 \/ Magnitude(q[i]) < Magnitude(i)

(* One round: a character, and what is made of the quotient. *)
Round(g, q, d, i) == <<d[i]>> \o IF q[i] = 0 THEN <<>> ELSE g[q[i]]

Within(D, n) == {i \in D : Magnitude(i) < n}

(* g is what is made of the numbers below n. *)
MadeBelow(D, q, d, n, g) == \A i \in Within(D, n) : g[i] = Round(g, q, d, i)

LEMMA MadeAlike ==
    ASSUME NEW D, NEW q, Descends(D, q), NEW d, NEW n \in Nat, NEW m \in Nat, NEW g, NEW h,
           MadeBelow(D, q, d, n, g), MadeBelow(D, q, d, m, h),
           NEW i \in D, Magnitude(i) < n, Magnitude(i) < m
    PROVE  g[i] = h[i]
<1> SUFFICES ASSUME g[i] # h[i] PROVE FALSE
  OBVIOUS
<1> DEFINE T == {k \in Nat : \E j \in D : Magnitude(j) = k /\ k < n /\ k < m /\ g[j] # h[j]}
<1>1. Magnitude(i) \in T
  BY MagnitudeType DEF Descends
<1>2. PICK k \in T : \A l \in T : k <= l
  <2> HIDE DEF T
  <2>1. T \subseteq Nat
    BY DEF T
  <2> QED  BY <1>1, <2>1, LeastNumber
<1>3. PICK j \in D : Magnitude(j) = k /\ k < n /\ k < m /\ g[j] # h[j]
  OBVIOUS
<1>4. g[j] = Round(g, q, d, j) /\ h[j] = Round(h, q, d, j)
  BY <1>3 DEF MadeBelow, Within
<1>5. q[j] # 0 /\ g[q[j]] # h[q[j]]
  BY <1>3, <1>4 DEF Round
<1>6. q[j] \in D /\ q[j] \in Int /\ Magnitude(q[j]) < Magnitude(j) /\ Magnitude(q[j]) \in Nat
  BY <1>5, MagnitudeType DEF Descends
<1>7. Magnitude(q[j]) \in T
  BY <1>3, <1>5, <1>6
<1>8. k <= Magnitude(q[j])
  BY <1>2, <1>7
<1> QED  BY <1>3, <1>6, <1>8

LEMMA SomeMade ==
    ASSUME NEW D, NEW q, Descends(D, q), NEW d, NEW n \in Nat
    PROVE  \E g : MadeBelow(D, q, d, n, g)
<1> SUFFICES ASSUME ~\E g : MadeBelow(D, q, d, n, g) PROVE FALSE
  OBVIOUS
<1> DEFINE T == {k \in Nat : ~\E g : MadeBelow(D, q, d, k, g)}
<1>1. PICK k \in T : \A l \in T : k <= l
  <2>1. n \in T
    OBVIOUS
  <2>2. T \subseteq Nat
    OBVIOUS
  <2> HIDE DEF T
  <2> QED  BY <2>1, <2>2, LeastNumber
<1>2. CASE k = 0
  <2>1. ASSUME NEW i \in Within(D, k) PROVE FALSE
    <3>1. i \in Int /\ Magnitude(i) < 0
      BY <1>2 DEF Within, Descends
    <3> QED  BY <3>1, MagnitudeType
  <2> QED  BY <2>1 DEF MadeBelow
<1>3. CASE k # 0
  <2>1. k - 1 \in Nat /\ ~(k <= k - 1)
    BY <1>3
  <2>2. PICK g : MadeBelow(D, q, d, k - 1, g)
    BY <1>1, <2>1
  <2> DEFINE h == [i \in Within(D, k) |-> Round(g, q, d, i)]
  <2>3. ASSUME NEW i \in Within(D, k) PROVE h[i] = Round(h, q, d, i)
    <3>1. h[i] = Round(g, q, d, i)
      OBVIOUS
    <3>2. i \in D /\ i \in Int /\ Magnitude(i) < k /\ Magnitude(i) \in Nat /\ q[i] \in D
      BY MagnitudeType DEF Within, Descends
    <3>3. CASE q[i] = 0
      BY <3>1, <3>3 DEF Round
    <3>4. CASE q[i] # 0
      <4>1. Magnitude(q[i]) < Magnitude(i) /\ Magnitude(q[i]) \in Nat
        BY <3>2, <3>4, MagnitudeType DEF Descends
      <4>2. q[i] \in Within(D, k) /\ q[i] \in Within(D, k - 1)
        BY <3>2, <4>1 DEF Within
      <4>3. h[q[i]] = g[q[i]]
        BY <2>2, <4>2 DEF MadeBelow
      <4> QED  BY <3>1, <4>3 DEF Round
    <3> QED  BY <3>3, <3>4
  <2>4. MadeBelow(D, q, d, k, h)
    BY <2>3 DEF MadeBelow
  <2> QED  BY <2>4
<1> QED  BY <1>2, <1>3

(* f is the loop for all of D. *)
IsLoop(f, D, q, d) == f = [i \in D |-> Round(f, q, d, i)]

LEMMA LoopExists ==
    ASSUME NEW D, NEW q, Descends(D, q), NEW d
    PROVE  \E f : IsLoop(f, D, q, d)
<1> DEFINE G(i) == CHOOSE g : MadeBelow(D, q, d, Magnitude(i) + 1, g)
           f == [i \in D |-> G(i)[i]]
<1>1. ASSUME NEW i \in D PROVE i \in Int /\ Magnitude(i) \in Nat /\ MadeBelow(D, q, d, Magnitude(i) + 1, G(i))
  <2>1. i \in Int /\ Magnitude(i) \in Nat /\ Magnitude(i) + 1 \in Nat
    BY MagnitudeType DEF Descends
  <2>2. \E g : MadeBelow(D, q, d, Magnitude(i) + 1, g)
    BY <2>1, SomeMade
  <2> QED  BY <2>1, <2>2
<1>2. \A i \in D : f[i] = G(i)[i]
  OBVIOUS
<1> HIDE DEF G
<1>3. ASSUME NEW i \in D PROVE f[i] = Round(f, q, d, i)
  <2>1. i \in Within(D, Magnitude(i) + 1)
    BY <1>1 DEF Within
  <2>2. f[i] = Round(G(i), q, d, i)
    BY <1>1, <1>2, <2>1 DEF MadeBelow
  <2>3. CASE q[i] = 0
    BY <2>2, <2>3 DEF Round
  <2>4. CASE q[i] # 0
    <3>1. q[i] \in D /\ Magnitude(q[i]) < Magnitude(i)
      BY <2>4 DEF Descends
    <3>2. Magnitude(q[i]) < Magnitude(i) + 1 /\ Magnitude(q[i]) < Magnitude(q[i]) + 1
      BY <1>1, <3>1
    <3>3. Magnitude(i) + 1 \in Nat /\ Magnitude(q[i]) + 1 \in Nat
      BY <1>1, <3>1
    <3>4. G(i)[q[i]] = G(q[i])[q[i]]
      <4> DEFINE j == q[i] g == G(i) h == G(j) n == Magnitude(i) + 1 m == Magnitude(j) + 1
      <4>1. MadeBelow(D, q, d, n, g) /\ MadeBelow(D, q, d, m, h) /\ j \in D /\ n \in Nat /\ m \in Nat
        BY <1>1, <3>1, <3>3
      <4>2. Magnitude(j) < n /\ Magnitude(j) < m
        BY <3>2
      <4> HIDE DEF j, g, h, n, m
      <4>3. g[j] = h[j]
        BY <4>1, <4>2, MadeAlike
      <4> QED  BY <4>3 DEF j, g, h
    <3>5. f[q[i]] = G(i)[q[i]]
      BY <1>2, <3>1, <3>4
    <3> QED  BY <2>2, <3>5 DEF Round
  <2> QED  BY <2>3, <2>4
<1>4. f = [i \in D |-> Round(f, q, d, i)]
  <2> HIDE DEF f
  <2> QED  BY <1>3 DEF f
<1> QED  BY <1>4 DEF IsLoop

-----------------------------------------------------------------------------
(* The value of a text, read from the left.                                *)

Horner(g, b, a, n) == \A k \in 0..n : g[k] = IF k = 0 THEN 0 ELSE b * g[k - 1] + a[k]

HasHorner(b, a, n) == \E g : g = [k \in 0..n |-> IF k = 0 THEN 0 ELSE b * g[k - 1] + a[k]]

LEMMA HornerExists ==
    ASSUME NEW n \in Nat, NEW b, NEW a
    PROVE  HasHorner(b, a, n)
<1> DEFINE Rule(g, k) == IF k = 0 THEN 0 ELSE b * g[k - 1] + a[k]
           Obeys(g, m) == g = [k \in 0..m |-> Rule(g, k)]
           T == {m \in Nat : ~\E g : Obeys(g, m)}
<1> SUFFICES ASSUME ~\E g : Obeys(g, n) PROVE FALSE
  BY DEF HasHorner
<1>1. PICK m \in T : \A l \in T : m <= l
  <2>1. n \in T /\ T \subseteq Nat
    OBVIOUS
  <2> HIDE DEF T
  <2> QED  BY <2>1, LeastNumber
<1>2. CASE m = 0
  <2> DEFINE h == [k \in 0..m |-> 0]
  <2>1. h = [k \in 0..m |-> Rule(h, k)]
    BY <1>2
  <2> QED  BY <2>1
<1>3. CASE m # 0
  <2>1. m - 1 \in Nat /\ ~(m <= m - 1)
    BY <1>3
  <2>2. PICK g : Obeys(g, m - 1)
    BY <1>1, <2>1
  <2> DEFINE h == [k \in 0..m |-> Rule(g, k)]
  <2>3. ASSUME NEW k \in 0..m PROVE h[k] = Rule(h, k)
    <3>1. CASE k = 0
      BY <3>1
    <3>2. CASE k # 0
      <4>1. k - 1 \in 0..m /\ k - 1 \in 0..(m - 1)
        BY <3>2
      <4>2. h[k - 1] = Rule(g, k - 1) /\ g[k - 1] = Rule(g, k - 1)
        <5>1. h[k - 1] = Rule(g, k - 1)
          BY <4>1
        <5>2. \A j \in 0..(m - 1) : g[j] = Rule(g, j)
          <6> HIDE DEF Rule
          <6> QED  BY <2>2
        <5> QED  BY <4>1, <5>1, <5>2
      <4> QED  BY <3>2, <4>2
    <3> QED  BY <3>1, <3>2
  <2>4. Obeys(h, m)
    <3> HIDE DEF Rule
    <3>1. h = [k \in 0..m |-> h[k]]
      OBVIOUS
    <3> HIDE DEF h
    <3> QED  BY <2>3, <3>1
  <2> QED  BY <2>4
<1> QED  BY <1>2, <1>3

LEMMA HornerUnique ==
    ASSUME NEW n \in Nat, NEW b, NEW a, NEW g, NEW h, Horner(g, b, a, n), Horner(h, b, a, n)
    PROVE  g[n] = h[n]
<1> DEFINE T == {m \in Nat : m <= n /\ g[m] # h[m]}
<1> SUFFICES ASSUME g[n] # h[n] PROVE FALSE
  OBVIOUS
<1>1. PICK m \in T : \A l \in T : m <= l
  <2>1. n \in T /\ T \subseteq Nat
    OBVIOUS
  <2> HIDE DEF T
  <2> QED  BY <2>1, LeastNumber
<1>2. m \in 0..n /\ g[m] # h[m]
  OBVIOUS
<1>3. m # 0 /\ g[m - 1] # h[m - 1]
  BY <1>2 DEF Horner
<1>4. m - 1 \in T /\ ~(m <= m - 1)
  BY <1>2, <1>3
<1> QED  BY <1>1, <1>4

Chars == {digitsHex[i] : i \in 1..16}

LEMMA DigitOfChar == \A i \in 1..16 : DigitOf(digitsHex[i]) = i - 1
<1> SUFFICES ASSUME NEW i \in 1..16 PROVE DigitOf(digitsHex[i]) = i - 1
  OBVIOUS
<1>1. DOMAIN digitsHex = 1..16
  BY DEF digitsHex
<1>2. ASSUME NEW j \in 1..16, digitsHex[j] = digitsHex[i] PROVE i = j
  <2>1. /\ i \in {1, 2, 3, 4, 5, 6, 7, 8, 9, 10, 11, 12, 13, 14, 15, 16}
        /\ j \in {1, 2, 3, 4, 5, 6, 7, 8, 9, 10, 11, 12, 13, 14, 15, 16}
    OBVIOUS
  <2> QED  BY <1>2, <2>1 DEF digitsHex
<1> DEFINE j == CHOOSE k \in DOMAIN digitsHex : digitsHex[k] = digitsHex[i]
<1>3. j \in 1..16 /\ digitsHex[j] = digitsHex[i]
  BY <1>1
<1>4. j = i
  BY <1>2, <1>3
<1> QED  BY <1>4 DEF DigitOf

LEMMA DigitType == \A c \in Chars : DigitOf(c) \in 0..15
BY DigitOfChar DEF Chars

LEMMA ValueOfText ==
    ASSUME NEW b, NEW sg, NEW t \in Seq(Chars)
    PROVE  \E g : ValueOf(b, sg, t) = g[Len(t)] /\ Horner(g, b, [k \in 1..Len(t) |-> sg * DigitOf(t[k])], Len(t))
<1> DEFINE n == Len(t)
           a == [k \in 1..n |-> sg * DigitOf(t[k])]
           upTo[k \in 0..n] == IF k = 0 THEN 0 ELSE b * upTo[k - 1] + sg * DigitOf(t[k])
<1>1. n \in Nat
  BY LenProperties
<1>2. ValueOf(b, sg, t) = upTo[n]
  BY DEF ValueOf
<1>3. \E g : g = [k \in 0..n |-> IF k = 0 THEN 0 ELSE b * g[k - 1] + sg * DigitOf(t[k])]
  <2>1. PICK g : g = [k \in 0..n |-> IF k = 0 THEN 0 ELSE b * g[k - 1] + a[k]]
    <3> HIDE DEF n, a, upTo
    <3>1. HasHorner(b, a, n)
      BY <1>1, HornerExists
    <3> QED  BY <3>1, Zenon DEF HasHorner
  <2>2. \A k \in 0..n : k # 0 => a[k] = sg * DigitOf(t[k])
    BY <1>1
  <2>3. [k \in 0..n |-> IF k = 0 THEN 0 ELSE b * g[k - 1] + a[k]] =
        [k \in 0..n |-> IF k = 0 THEN 0 ELSE b * g[k - 1] + sg * DigitOf(t[k])]
    <3> HIDE DEF n, a
    <3> QED  BY <2>2
  <2> QED  BY <2>1, <2>3
<1>4. upTo = [k \in 0..n |-> IF k = 0 THEN 0 ELSE b * upTo[k - 1] + sg * DigitOf(t[k])]
  <2> HIDE DEF n
  <2> QED  BY <1>3
<1> HIDE DEF upTo, n
<1>5. Horner(upTo, b, a, n)
  <2> SUFFICES ASSUME NEW k \in 0..n
               PROVE  upTo[k] = IF k = 0 THEN 0 ELSE b * upTo[k - 1] + a[k]
    BY DEF Horner
  <2>1. upTo[k] = IF k = 0 THEN 0 ELSE b * upTo[k - 1] + sg * DigitOf(t[k])
    BY <1>4
  <2>2. k # 0 => a[k] = sg * DigitOf(t[k])
    BY <1>1
  <2> QED  BY <2>1, <2>2
<1> QED  BY <1>2, <1>5 DEF n

LEMMA ValueEmpty ==
    ASSUME NEW b, NEW sg
    PROVE  ValueOf(b, sg, <<>>) = 0
<1>1. <<>> \in Seq(Chars) /\ Len(<<>>) = 0
  OBVIOUS
<1>2. PICK g : ValueOf(b, sg, <<>>) = g[0] /\ Horner(g, b, [k \in 1..0 |-> sg * DigitOf(<<>>[k])], 0)
  BY <1>1, ValueOfText
<1> QED  BY <1>2 DEF Horner

LEMMA ValueAppend ==
    ASSUME NEW b, NEW sg, NEW t \in Seq(Chars), NEW c \in Chars
    PROVE  ValueOf(b, sg, Append(t, c)) = b * ValueOf(b, sg, t) + sg * DigitOf(c)
<1> DEFINE n == Len(t)
           u == Append(t, c)
           A(s) == [k \in 1..Len(s) |-> sg * DigitOf(s[k])]
<1>1. n \in Nat /\ u \in Seq(Chars) /\ Len(u) = n + 1 /\ u[n + 1] = c /\ \A k \in 1..n : u[k] = t[k]
  BY AppendProperties, LenProperties
<1> HIDE DEF u
<1>2. PICK g : ValueOf(b, sg, t) = g[Len(t)] /\ Horner(g, b, A(t), Len(t))
  BY ValueOfText
<1>3. PICK h : ValueOf(b, sg, u) = h[Len(u)] /\ Horner(h, b, A(u), Len(u))
  BY <1>1, ValueOfText
<1>4. \A k \in 1..n : A(u)[k] = A(t)[k]
  BY <1>1
<1>5. A(u)[n + 1] = sg * DigitOf(c)
  BY <1>1
<1> HIDE DEF A, n
<1>6. Horner(h, b, A(t), n)
  BY <1>1, <1>3, <1>4 DEF Horner
<1>7. Horner(g, b, A(t), n)
  BY <1>2 DEF n
<1>8. h[n] = g[n]
  BY <1>1, <1>6, <1>7, HornerUnique
<1>9. h[n + 1] = b * h[n] + A(u)[n + 1]
  BY <1>1, <1>3 DEF Horner
<1> QED  BY <1>1, <1>2, <1>3, <1>5, <1>8, <1>9 DEF u, n

-----------------------------------------------------------------------------
(* Reverse turns the first character into the last.                        *)

LEMMA ReverseIs ==
    ASSUME NEW S, NEW s \in Seq(S)
    PROVE  /\ Reverse(s) \in Seq(S) /\ Len(Reverse(s)) = Len(s)
           /\ \A i \in 1..Len(s) : Reverse(s)[i] = s[Len(s) - i + 1]
<1>1. Len(s) \in Nat /\ \A i \in 1..Len(s) : Len(s) - i + 1 \in 1..Len(s)
  BY LenProperties
<1>2. \A i \in 1..Len(s) : s[i] \in S
  BY ElementOfSeq
<1> DEFINE n == Len(s)
           r == [i \in 1..n |-> s[n - i + 1]]
<1>3. Reverse(s) = r
  BY DEF Reverse
<1>4. \A i \in 1..n : r[i] \in S
  BY <1>1, <1>2
<1>5. r \in Seq(S) /\ Len(r) = n
  <2> HIDE DEF n
  <2>1. n \in Nat
    BY <1>1 DEF n
  <2> QED  BY <1>4, <2>1
<1> QED  BY <1>3, <1>5

LEMMA ReverseLoop ==
    ASSUME NEW S, NEW z \in S, NEW s \in Seq(S)
    PROVE  /\ Reverse(s) \in Seq(S) /\ Len(Reverse(s)) = Len(s)
           /\ Reverse(<<z>> \o s) = Append(Reverse(s), z)
<1> DEFINE n == Len(s)
           w == <<z>> \o s
           r == Reverse(s)
           x == Reverse(w)
           y == Append(r, z)
<1>1. n \in Nat /\ w \in Seq(S) /\ Len(w) = n + 1 /\ w[1] = z /\ \A i \in 1..n : w[i + 1] = s[i]
  BY ConcatProperties, LenProperties
<1>2. r \in Seq(S) /\ Len(r) = n /\ \A i \in 1..n : r[i] = s[n - i + 1]
  BY ReverseIs
<1>3. x \in Seq(S) /\ Len(x) = n + 1 /\ \A i \in 1..(n + 1) : x[i] = w[(n + 1) - i + 1]
  <2> HIDE DEF w
  <2> QED  BY <1>1, ReverseIs
<1>4. y \in Seq(S) /\ Len(y) = n + 1 /\ y[n + 1] = z /\ \A i \in 1..n : y[i] = r[i]
  <2> HIDE DEF r
  <2> QED  BY <1>1, <1>2, AppendProperties
<1> HIDE DEF n, w, r, x, y
<1>5. ASSUME NEW i \in 1..(n + 1) PROVE x[i] = y[i]
  <2>1. CASE i = n + 1
    BY <1>1, <1>3, <1>4, <2>1
  <2>2. CASE i # n + 1
    <3>1. i \in 1..n /\ n - i + 1 \in 1..n /\ (n + 1) - i + 1 = (n - i + 1) + 1
      BY <1>1, <2>2
    <3>2. x[i] = w[(n - i + 1) + 1]
      BY <1>3, <3>1
    <3>3. w[(n - i + 1) + 1] = s[n - i + 1]
      BY <1>1, <3>1
    <3>4. y[i] = s[n - i + 1]
      BY <1>2, <1>4, <3>1
    <3> QED  BY <3>2, <3>3, <3>4
  <2> QED  BY <2>1, <2>2
<1>6. x = y
  BY <1>3, <1>4, <1>5, SeqEqual
<1> QED  BY <1>2, <1>6 DEF x, y, w, r, n

-----------------------------------------------------------------------------
(* Read from the left, the characters of the loop are the number again.    *)

(* Each number is made up of its quotient and its character. *)
Splits(E, q, d, b, sg) ==
    \A i \in E : /\ q[i] = 0 \/ q[i] \in E
                 /\ d[i] \in Chars /\ i = b * q[i] + sg * DigitOf(d[i])

(* What the loop should make of i, its last character first. *)
MadeOf(i, s, b, sg) ==
    /\ s \in Seq(Chars) /\ s # <<>>
    /\ ValueOf(b, sg, Reverse(s)) = i
    /\ s[Len(s)] = "0" => i = 0 /\ Len(s) = 1

LEMMA ZeroChar == "0" \in Chars /\ DigitOf("0") = 0
<1>1. "0" = digitsHex[1]
  BY DEF digitsHex
<1> QED  BY <1>1, DigitOfChar DEF Chars

(* The last round. *)
LEMMA LastRound ==
    ASSUME NEW b \in Int, NEW sg \in Int, NEW z \in Chars
    PROVE  MadeOf(sg * DigitOf(z), <<z>>, b, sg)
<1>1. <<>> \in Seq(Chars) /\ Reverse(<<>>) = <<>>
  BY DEF Reverse
<1>2. Reverse(<<z>> \o <<>>) = Append(Reverse(<<>>), z)
  BY <1>1, ReverseLoop
<1>3. <<z>> \o <<>> = <<z>> /\ <<z>> \in Seq(Chars)
  OBVIOUS
<1>4. Reverse(<<z>>) = Append(<<>>, z)
  BY <1>1, <1>2, <1>3
<1>5. ValueOf(b, sg, Append(<<>>, z)) = b * ValueOf(b, sg, <<>>) + sg * DigitOf(z)
  BY <1>1, ValueAppend
<1>6. DigitOf(z) \in Int
  BY DigitType
<1>7. ValueOf(b, sg, Append(<<>>, z)) = sg * DigitOf(z)
  BY <1>5, <1>6, ValueEmpty
<1>8. z = "0" => sg * DigitOf(z) = 0
  BY ZeroChar
<1>9. Len(<<z>>) = 1 /\ <<z>>[1] = z /\ <<z>> # <<>>
  OBVIOUS
<1> QED  BY <1>3, <1>4, <1>7, <1>8, <1>9 DEF MadeOf

(* A round before the last one. *)
LEMMA EarlierRound ==
    ASSUME NEW b \in Int, NEW sg \in Int, NEW z \in Chars, NEW j \in Int, j # 0, NEW s, MadeOf(j, s, b, sg)
    PROVE  MadeOf(b * j + sg * DigitOf(z), <<z>> \o s, b, sg)
<1> DEFINE w == <<z>> \o s
           r == Reverse(s)
<1>1. s \in Seq(Chars) /\ s # <<>> /\ ValueOf(b, sg, r) = j /\ s[Len(s)] # "0"
  BY DEF MadeOf
<1>2. Len(s) \in Nat /\ Len(s) # 0
  BY <1>1, EmptySeq, LenProperties
<1>3. /\ w \in Seq(Chars) /\ Len(w) = Len(s) + 1
      /\ w[Len(s) + 1] = s[Len(s)]
  BY <1>1, <1>2
<1>4. r \in Seq(Chars) /\ Reverse(w) = Append(r, z)
  BY <1>1, ReverseLoop
<1> HIDE DEF r, w
<1>5. ValueOf(b, sg, Append(r, z)) = b * ValueOf(b, sg, r) + sg * DigitOf(z)
  BY <1>4, ValueAppend
<1>6. ValueOf(b, sg, Reverse(w)) = b * j + sg * DigitOf(z)
  BY <1>1, <1>4, <1>5
<1>7. w # <<>> /\ w[Len(w)] # "0"
  BY <1>1, <1>2, <1>3
<1>8. MadeOf(b * j + sg * DigitOf(z), w, b, sg)
  BY <1>3, <1>6, <1>7 DEF MadeOf
<1> QED  BY <1>8 DEF w

LEMMA LoopMakes ==
    ASSUME NEW D, NEW q, Descends(D, q), NEW d, NEW E, E \subseteq D,
           NEW b \in Int, NEW sg \in Int, Splits(E, q, d, b, sg),
           NEW f, IsLoop(f, D, q, d),
           NEW v \in E
    PROVE  MadeOf(v, f[v], b, sg)
<1> SUFFICES ASSUME ~MadeOf(v, f[v], b, sg) PROVE FALSE
  OBVIOUS
<1> DEFINE T == {k \in Nat : \E j \in E : Magnitude(j) = k /\ ~MadeOf(j, f[j], b, sg)}
<1>1. Magnitude(v) \in T
  BY MagnitudeType DEF Descends
<1>2. PICK k \in T : \A l \in T : k <= l
  <2> HIDE DEF T
  <2>1. T \subseteq Nat
    BY DEF T
  <2> QED  BY <1>1, <2>1, LeastNumber
<1>3. PICK i \in E : Magnitude(i) = k /\ ~MadeOf(i, f[i], b, sg)
  OBVIOUS
<1>4. /\ q[i] = 0 \/ q[i] \in E
      /\ d[i] \in Chars /\ i = b * q[i] + sg * DigitOf(d[i])
  BY DEF Splits
<1>5. f[i] = Round(f, q, d, i)
  BY DEF IsLoop
<1>6. DigitOf(d[i]) \in Int
  BY <1>4, DigitType
<1>7. CASE q[i] = 0
  <2>1. f[i] = <<d[i]>>
    BY <1>5, <1>7 DEF Round
  <2>2. i = sg * DigitOf(d[i])
    BY <1>4, <1>6, <1>7
  <2>3. MadeOf(sg * DigitOf(d[i]), <<d[i]>>, b, sg)
    <3> DEFINE z == d[i]
    <3>1. z \in Chars
      BY <1>4
    <3> HIDE DEF z
    <3>2. MadeOf(sg * DigitOf(z), <<z>>, b, sg)
      BY <3>1, LastRound
    <3> QED  BY <3>2 DEF z
  <2> QED  BY <1>3, <2>1, <2>2, <2>3
<1>8. CASE q[i] # 0
  <2>1. q[i] \in E /\ q[i] \in Int /\ Magnitude(q[i]) < Magnitude(i) /\ Magnitude(q[i]) \in Nat
    BY <1>4, <1>8, MagnitudeType DEF Descends
  <2>2. Magnitude(q[i]) \notin T
    BY <1>2, <1>3, <2>1
  <2>3. MadeOf(q[i], f[q[i]], b, sg)
    BY <2>1, <2>2
  <2>4. f[i] = <<d[i]>> \o f[q[i]]
    BY <1>5, <1>8 DEF Round
  <2>5. MadeOf(b * q[i] + sg * DigitOf(d[i]), <<d[i]>> \o f[q[i]], b, sg)
    <3> DEFINE z == d[i]
               j == q[i]
               s == f[j]
    <3>1. z \in Chars /\ j \in Int /\ j # 0 /\ MadeOf(j, s, b, sg)
      BY <1>4, <1>8, <2>1, <2>3
    <3> HIDE DEF z, j, s
    <3>2. MadeOf(b * j + sg * DigitOf(z), <<z>> \o s, b, sg)
      BY <3>1, EarlierRound
    <3> QED  BY <3>2 DEF z, j, s
  <2> QED  BY <1>3, <1>4, <2>4, <2>5
<1> QED  BY <1>7, <1>8

-----------------------------------------------------------------------------
(* convert().                                                              *)

LEMMA QuotRem ==
    ASSUME NEW i \in Int
    PROVE  /\ Quot(i) \in Int /\ Rem(i) \in Int /\ i = 10 * Quot(i) + Rem(i)
           /\ i >= 0 => Rem(i) \in 0..9 /\ Quot(i) >= 0 /\ Quot(i) <= i /\ (Quot(i) # 0 => Quot(i) < i)
           /\ i < 0 => Rem(i) \in -9..0 /\ Quot(i) <= 0 /\ Quot(i) > i
<1> DEFINE m == i % 10
           h == i \div 10
<1>1. m \in 0..9 /\ h \in Int /\ i = 10 * h + m
  OBVIOUS
<1>2. Quot(i) = (IF i < 0 /\ m # 0 THEN h + 1 ELSE h) /\ Rem(i) = (IF i < 0 /\ m # 0 THEN m - 10 ELSE m)
  BY DEF Quot, Rem
<1> HIDE DEF m, h
<1>3. CASE i < 0 /\ m # 0
  BY <1>1, <1>2, <1>3
<1>4. CASE ~(i < 0 /\ m # 0)
  BY <1>1, <1>2, <1>4
<1> QED  BY <1>3, <1>4

LEMMA ZeroDigit ==
    ASSUME NEW r \in -9..9
    PROVE  zero(r) \in Chars /\ DigitOf(zero(r)) = Magnitude(r)
<1>1. zero(r) = digitsHex[Magnitude(r) + 1]
  <2>1. r \in {-9, -8, -7, -6, -5, -4, -3, -2, -1, 0, 1, 2, 3, 4, 5, 6, 7, 8, 9}
    OBVIOUS
  <2> QED  BY <2>1 DEF zero, digits, digitsHex, Magnitude
<1>2. Magnitude(r) + 1 \in 1..16 /\ (Magnitude(r) + 1) - 1 = Magnitude(r)
  BY DEF Magnitude
<1> QED  BY <1>1, <1>2, DigitOfChar DEF Chars

Quotients == [i \in Int |-> Quot(i)]
Digits == [i \in Int |-> zero(Rem(i))]

LEMMA QuotientsDescend == Descends(Int, Quotients)
<1>1. ASSUME NEW i \in Int PROVE Quot(i) \in Int /\ (Quot(i) = 0 \/ Magnitude(Quot(i)) < Magnitude(i))
  <2>1. /\ Quot(i) \in Int
        /\ i >= 0 => Quot(i) >= 0 /\ (Quot(i) # 0 => Quot(i) < i)
        /\ i < 0 => Quot(i) <= 0 /\ Quot(i) > i
    BY QuotRem
  <2> QED  BY <2>1 DEF Magnitude
<1>2. Quotients \in [Int -> Int] /\ \A i \in Int : Quotients[i] = Quot(i)
  BY <1>1 DEF Quotients
<1> QED  BY <1>1, <1>2 DEF Descends

Negative == {i \in Int : i < 0}

LEMMA QuotientsSplit == Splits(Nat, Quotients, Digits, 10, 1) /\ Splits(Negative, Quotients, Digits, 10, -1)
<1>1. ASSUME NEW i \in Int PROVE Quotients[i] = Quot(i) /\ Digits[i] = zero(Rem(i))
  BY DEF Quotients, Digits
<1>2. ASSUME NEW i \in Nat
      PROVE  /\ Quotients[i] = 0 \/ Quotients[i] \in Nat
             /\ Digits[i] \in Chars /\ i = 10 * Quotients[i] + 1 * DigitOf(Digits[i])
  <2>1. i \in Int /\ i >= 0
    OBVIOUS
  <2>2. Quot(i) \in Int /\ Rem(i) \in 0..9 /\ Quot(i) >= 0 /\ i = 10 * Quot(i) + Rem(i)
    BY <2>1, QuotRem
  <2>3. zero(Rem(i)) \in Chars /\ DigitOf(zero(Rem(i))) = Rem(i)
    BY <2>2, ZeroDigit DEF Magnitude
  <2> QED  BY <1>1, <2>1, <2>2, <2>3
<1>3. ASSUME NEW i \in Negative
      PROVE  /\ Quotients[i] = 0 \/ Quotients[i] \in Negative
             /\ Digits[i] \in Chars /\ i = 10 * Quotients[i] + (-1) * DigitOf(Digits[i])
  <2>1. i \in Int /\ i < 0
    BY DEF Negative
  <2>2. Quot(i) \in Int /\ Rem(i) \in -9..0 /\ Quot(i) <= 0 /\ i = 10 * Quot(i) + Rem(i)
    BY <2>1, QuotRem
  <2>3. zero(Rem(i)) \in Chars /\ DigitOf(zero(Rem(i))) = Magnitude(Rem(i))
    BY <2>2, ZeroDigit
  <2>4. Magnitude(Rem(i)) \in Int /\ Rem(i) = (-1) * Magnitude(Rem(i))
    BY <2>2 DEF Magnitude
  <2>5. Quot(i) = 0 \/ Quot(i) \in Negative
    BY <2>2 DEF Negative
  <2> QED  BY <1>1, <2>1, <2>2, <2>3, <2>4, <2>5
<1> QED  BY <1>2, <1>3 DEF Splits

LEMMA LsdFirstLoops == \E f : IsLoop(f, Int, Quotients, Digits) /\ \A v \in Int : LsdFirst(v) = f[v]
<1> DEFINE from[i \in Int] == <<zero(Rem(i))>> \o IF Quot(i) = 0 THEN <<>> ELSE from[Quot(i)]
<1>1. \A v \in Int : LsdFirst(v) = from[v]
  BY DEF LsdFirst
<1>2. ASSUME NEW f, NEW i \in Int
      PROVE  Round(f, Quotients, Digits, i) = <<zero(Rem(i))>> \o IF Quot(i) = 0 THEN <<>> ELSE f[Quot(i)]
  BY DEF Round, Quotients, Digits
<1>3. PICK f : IsLoop(f, Int, Quotients, Digits)
  BY QuotientsDescend, LoopExists
<1>4. f = [i \in Int |-> <<zero(Rem(i))>> \o IF Quot(i) = 0 THEN <<>> ELSE f[Quot(i)]]
  BY <1>2, <1>3 DEF IsLoop
<1>5. from = [i \in Int |-> <<zero(Rem(i))>> \o IF Quot(i) = 0 THEN <<>> ELSE from[Quot(i)]]
  BY <1>4
<1> HIDE DEF from
<1>6. IsLoop(from, Int, Quotients, Digits)
  BY <1>2, <1>5 DEF IsLoop
<1> QED  BY <1>1, <1>6

LEMMA LsdFirstMakes ==
    ASSUME NEW v \in Int
    PROVE  MadeOf(v, LsdFirst(v), 10, IF v < 0 THEN -1 ELSE 1)
<1>1. PICK from : IsLoop(from, Int, Quotients, Digits) /\ \A i \in Int : LsdFirst(i) = from[i]
  BY LsdFirstLoops
<1>2. ASSUME NEW E, E \subseteq Int, v \in E, NEW sg \in Int, Splits(E, Quotients, Digits, 10, sg)
      PROVE  MadeOf(v, from[v], 10, sg)
  <2> DEFINE b == 10
  <2>1. b \in Int /\ Splits(E, Quotients, Digits, b, sg)
    BY <1>2
  <2> HIDE DEF b
  <2>2. MadeOf(v, from[v], b, sg)
    BY <1>1, <1>2, <2>1, QuotientsDescend, LoopMakes, Zenon
  <2> QED  BY <2>2 DEF b
<1>3. CASE v >= 0
  <2>1. MadeOf(v, from[v], 10, 1)
    BY <1>2, <1>3, QuotientsSplit
  <2> QED  BY <1>1, <1>3, <2>1
<1>4. CASE v < 0
  <2>1. v \in Negative /\ Negative \subseteq Int /\ -1 \in Int
    BY <1>4 DEF Negative
  <2>2. MadeOf(v, from[v], 10, -1)
    BY <1>2, <2>1, QuotientsSplit
  <2> QED  BY <1>1, <1>4, <2>2
<1> QED  BY <1>3, <1>4

(* A text without its sign, as convert() leaves it. *)
LEMMA ReversedReads ==
    ASSUME NEW b \in Int, NEW sg \in Int, NEW v, NEW s, MadeOf(v, s, b, sg)
    PROVE  /\ Reverse(s) \in Seq(Chars)
           /\ NoLeadingZero(Reverse(s))
           /\ ValueOf(b, sg, Reverse(s)) = v
<1> DEFINE r == Reverse(s)
<1>1. s \in Seq(Chars) /\ s # <<>> /\ ValueOf(b, sg, r) = v /\ (s[Len(s)] = "0" => Len(s) = 1)
  BY DEF MadeOf
<1>2. r \in Seq(Chars) /\ Len(r) = Len(s) /\ \A i \in 1..Len(s) : r[i] = s[Len(s) - i + 1]
  BY <1>1, ReverseIs
<1>3. Len(s) \in Nat /\ Len(s) # 0
  BY <1>1, EmptySeq, LenProperties
<1> HIDE DEF r
<1>4. r # <<>> /\ r[1] = s[Len(s)]
  BY <1>2, <1>3
<1>5. Head(r) = r[1]
  BY <1>2, <1>4
<1>6. NoLeadingZero(r)
  BY <1>1, <1>2, <1>4, <1>5 DEF NoLeadingZero
<1> QED  BY <1>1, <1>2, <1>6 DEF r

LEMMA ReverseSign ==
    ASSUME NEW s \in Seq(Chars)
    PROVE  /\ Reverse(s \o <<"-">>) = <<"-">> \o Reverse(s)
           /\ Head(<<"-">> \o Reverse(s)) = "-" /\ Tail(<<"-">> \o Reverse(s)) = Reverse(s)
<1> DEFINE S == Chars \cup {"-"}
           n == Len(s)
           w == s \o <<"-">>
           r == Reverse(s)
           x == Reverse(w)
           y == <<"-">> \o r
<1>1. s \in Seq(S) /\ "-" \in S
  OBVIOUS
<1>2. n \in Nat /\ w \in Seq(S) /\ Len(w) = n + 1 /\ w[n + 1] = "-" /\ \A i \in 1..n : w[i] = s[i]
  <2> HIDE DEF S
  <2> QED  BY <1>1
<1>3. r \in Seq(S) /\ Len(r) = n /\ \A i \in 1..n : r[i] = s[n - i + 1]
  <2> HIDE DEF S
  <2> QED  BY <1>1, ReverseIs
<1>4. x \in Seq(S) /\ Len(x) = n + 1 /\ \A i \in 1..(n + 1) : x[i] = w[(n + 1) - i + 1]
  <2> HIDE DEF S, w
  <2> QED  BY <1>2, ReverseIs
<1> HIDE DEF S, n, w, r, x
<1>5. /\ y \in Seq(S) /\ Len(y) = n + 1 /\ y[1] = "-"
      /\ \A i \in 1..(n + 1) : i # 1 => y[i] = r[i - 1]
  BY <1>1, <1>2, <1>3
<1>6. Head(y) = "-" /\ Tail(y) = r
  BY <1>1, <1>2, <1>3
<1> HIDE DEF y
<1>7. ASSUME NEW i \in 1..(n + 1) PROVE x[i] = y[i]
  <2>1. CASE i = 1
    <3>1. (n + 1) - i + 1 = n + 1
      BY <1>2, <2>1
    <3> QED  BY <1>2, <1>4, <1>5, <2>1, <3>1
  <2>2. CASE i # 1
    <3>1. (n + 1) - i + 1 \in 1..n /\ i - 1 \in 1..n /\ n - (i - 1) + 1 = (n + 1) - i + 1
      BY <1>2, <2>2
    <3>2. x[i] = s[(n + 1) - i + 1]
      BY <1>2, <1>4, <3>1
    <3>3. r[i - 1] = s[(n + 1) - i + 1]
      BY <1>3, <3>1
    <3> QED  BY <1>5, <2>2, <3>2, <3>3
  <2> QED  BY <2>1, <2>2
<1>8. x = y
  BY <1>4, <1>5, <1>7, SeqEqual
<1> QED  BY <1>6, <1>8 DEF x, y, w, r

(* convert() makes of every integer, whatever its width, its decimal       *)
(* digits: they read back as the value, with the sign in front and no      *)
(* superfluous zero.                                                       *)
THEOREM IntegersReadBack == \A v \in Int : Denotes(Number("integer", v, convert(v)))
<1> SUFFICES ASSUME NEW v \in Int PROVE Denotes(Number("integer", v, convert(v)))
  OBVIOUS
<1> DEFINE s == LsdFirst(v)
           p == Number("integer", v, convert(v))
<1>1. p.kind = "integer" /\ p.value = v /\ p.text = convert(v)
  BY DEF Number
<1>4. p.value < 0 => (Denotes(p) <=> /\ Head(p.text) = "-" /\ NoLeadingZero(Tail(p.text))
                                    /\ ValueOf(10, -1, Tail(p.text)) = p.value)
  <2> HIDE DEF p
  <2> QED  BY <1>1 DEF Denotes
<1>5. ~(p.value < 0) => (Denotes(p) <=> NoLeadingZero(p.text) /\ ValueOf(10, 1, p.text) = p.value)
  <2> HIDE DEF p
  <2> QED  BY <1>1 DEF Denotes
<1> HIDE DEF p
<1>2. CASE v < 0
  <2> DEFINE sg == -1
  <2>1. MadeOf(v, s, 10, sg) /\ sg \in Int
    BY <1>2, LsdFirstMakes
  <2>2. Reverse(s) \in Seq(Chars) /\ NoLeadingZero(Reverse(s)) /\ ValueOf(10, sg, Reverse(s)) = v
    <3> HIDE DEF s, sg
    <3> QED  BY <2>1, ReversedReads
  <2>3. s \in Seq(Chars)
    BY <2>1 DEF MadeOf
  <2>4. convert(v) = Reverse(s \o <<"-">>)
    BY <1>2 DEF convert
  <2> HIDE DEF s
  <2>5. convert(v) = <<"-">> \o Reverse(s) /\ Head(convert(v)) = "-" /\ Tail(convert(v)) = Reverse(s)
    BY <2>3, <2>4, ReverseSign
  <2> QED  BY <1>1, <1>2, <1>4, <2>2, <2>5 DEF p
<1>3. CASE ~(v < 0)
  <2>1. MadeOf(v, s, 10, 1)
    BY <1>3, LsdFirstMakes
  <2>2. s \in Seq(Chars)
    BY <2>1 DEF MadeOf
  <2>3. convert(v) = Reverse(s \o <<>>)
    BY <1>3 DEF convert
  <2> HIDE DEF s
  <2>4. convert(v) = Reverse(s)
    BY <2>2, <2>3
  <2>5. NoLeadingZero(Reverse(s)) /\ ValueOf(10, 1, Reverse(s)) = v
    BY <2>1, ReversedReads
  <2> QED  BY <1>1, <1>3, <1>5, <2>4, <2>5 DEF p
<1> QED  BY <1>2, <1>3

-----------------------------------------------------------------------------
(* convertHex().                                                           *)

HexQuotients == [i \in Nat |-> i \div 16]
HexDigits == [i \in Nat |-> digitsHex[(i % 16) + 1]]

LEMMA HexQuotRem ==
    ASSUME NEW i \in Nat
    PROVE  /\ i \div 16 \in Nat /\ i % 16 \in 0..15 /\ i = 16 * (i \div 16) + (i % 16)
           /\ i \div 16 = 0 \/ i \div 16 < i
<1> DEFINE m == i % 16
           h == i \div 16
<1>1. m \in 0..15 /\ h \in Int /\ i = 16 * h + m
  OBVIOUS
<1> HIDE DEF m, h
<1>2. h \in Nat /\ (h = 0 \/ h < i)
  BY <1>1
<1> QED  BY <1>1, <1>2 DEF m, h

LEMMA HexDescends == Descends(Nat, HexQuotients)
<1>1. ASSUME NEW i \in Nat
      PROVE  HexQuotients[i] \in Nat /\ (HexQuotients[i] = 0 \/ Magnitude(HexQuotients[i]) < Magnitude(i))
  <2> DEFINE h == HexQuotients[i]
  <2>1. h \in Nat /\ (h = 0 \/ h < i)
    BY HexQuotRem DEF HexQuotients
  <2> HIDE DEF h
  <2>2. h = 0 \/ Magnitude(h) < Magnitude(i)
    BY <2>1 DEF Magnitude
  <2> QED  BY <2>1, <2>2 DEF h
<1>2. HexQuotients \in [Nat -> Nat]
  BY HexQuotRem DEF HexQuotients
<1> QED  BY <1>1, <1>2 DEF Descends

LEMMA HexSplit == Splits(Nat, HexQuotients, HexDigits, 16, 1)
<1> SUFFICES ASSUME NEW i \in Nat
             PROVE  /\ HexQuotients[i] = 0 \/ HexQuotients[i] \in Nat
                    /\ HexDigits[i] \in Chars /\ i = 16 * HexQuotients[i] + 1 * DigitOf(HexDigits[i])
  BY DEF Splits
<1> DEFINE m == i % 16
           h == i \div 16
<1>1. h \in Nat /\ m \in 0..15 /\ i = 16 * h + m
  BY HexQuotRem
<1>2. HexQuotients[i] = h /\ HexDigits[i] = digitsHex[m + 1]
  BY DEF HexQuotients, HexDigits
<1> HIDE DEF m, h
<1>3. m + 1 \in 1..16 /\ (m + 1) - 1 = m
  BY <1>1
<1>4. digitsHex[m + 1] \in Chars /\ DigitOf(digitsHex[m + 1]) = m
  BY <1>3, DigitOfChar DEF Chars
<1> QED  BY <1>1, <1>2, <1>4

LEMMA ConvertHexLoops ==
    \E f : IsLoop(f, Nat, HexQuotients, HexDigits) /\ \A v \in Nat : convertHex(v) = Reverse(f[v])
<1> DEFINE from[i \in Nat] == <<digitsHex[(i % 16) + 1]>> \o IF i \div 16 = 0 THEN <<>> ELSE from[i \div 16]
<1>1. \A v \in Nat : convertHex(v) = Reverse(from[v])
  BY DEF convertHex
<1>2. ASSUME NEW f, NEW i \in Nat
      PROVE  Round(f, HexQuotients, HexDigits, i) =
                 <<digitsHex[(i % 16) + 1]>> \o IF i \div 16 = 0 THEN <<>> ELSE f[i \div 16]
  BY DEF Round, HexQuotients, HexDigits
<1>3. PICK f : IsLoop(f, Nat, HexQuotients, HexDigits)
  BY HexDescends, LoopExists
<1>4. f = [i \in Nat |-> <<digitsHex[(i % 16) + 1]>> \o IF i \div 16 = 0 THEN <<>> ELSE f[i \div 16]]
  BY <1>2, <1>3 DEF IsLoop
<1>5. from = [i \in Nat |-> <<digitsHex[(i % 16) + 1]>> \o IF i \div 16 = 0 THEN <<>> ELSE from[i \div 16]]
  BY <1>4
<1> HIDE DEF from
<1>6. IsLoop(from, Nat, HexQuotients, HexDigits)
  BY <1>2, <1>5 DEF IsLoop
<1> QED  BY <1>1, <1>6

LEMMA ConvertHexReads ==
    ASSUME NEW v \in Nat
    PROVE  /\ convertHex(v) \in Seq(Chars) /\ NoLeadingZero(convertHex(v))
           /\ ValueOf(16, 1, convertHex(v)) = v
<1>1. PICK from : IsLoop(from, Nat, HexQuotients, HexDigits) /\ \A i \in Nat : convertHex(i) = Reverse(from[i])
  BY ConvertHexLoops
<1> DEFINE b == 16
           sg == 1
<1>2. b \in Int /\ sg \in Int /\ Splits(Nat, HexQuotients, HexDigits, b, sg) /\ Nat \subseteq Nat
  BY HexSplit
<1> HIDE DEF b, sg
<1>3. MadeOf(v, from[v], b, sg)
  BY <1>1, <1>2, HexDescends, LoopMakes, Zenon
<1> DEFINE s == from[v]
<1>4. MadeOf(v, s, b, sg)
  BY <1>3
<1> HIDE DEF s
<1>5. Reverse(s) \in Seq(Chars) /\ NoLeadingZero(Reverse(s)) /\ ValueOf(b, sg, Reverse(s)) = v
  BY <1>2, <1>4, ReversedReads
<1> QED  BY <1>1, <1>5 DEF s, b, sg

(* convertHex() makes of every pointer its hexadecimal digits: behind the  *)
(* 0x they read back as the value, with no superfluous zero.               *)
THEOREM PointersReadBack == \A v \in Nat : Denotes(Number("pointer", v, <<"0", "x">> \o convertHex(v)))
<1> SUFFICES ASSUME NEW v \in Nat PROVE Denotes(Number("pointer", v, <<"0", "x">> \o convertHex(v)))
  OBVIOUS
<1> DEFINE s == convertHex(v)
           p == Number("pointer", v, <<"0", "x">> \o s)
           u == SubSeq(p.text, 3, Len(p.text))
<1>1. p.kind = "pointer" /\ p.value = v /\ p.text = <<"0", "x">> \o s
  BY DEF Number
<1>2. s \in Seq(Chars) /\ NoLeadingZero(s) /\ ValueOf(16, 1, s) = v
  BY ConvertHexReads
<1>3. Denotes(p) <=> NoLeadingZero(u) /\ ValueOf(16, 1, u) = p.value
  <2> HIDE DEF p
  <2> QED  BY <1>1 DEF Denotes
<1> HIDE DEF p, s
<1>4. u = s
  <2>1. u = SubSeq(<<"0", "x">> \o s, 3, Len(<<"0", "x">> \o s))
    BY <1>1
  <2>2. /\ <<"0", "x">> \o s \in Seq(Chars \cup {"x"}) /\ Len(<<"0", "x">> \o s) = Len(s) + 2 /\ Len(s) \in Nat
        /\ \A i \in 1..Len(s) : (<<"0", "x">> \o s)[i + 2] = s[i]
    BY <1>2, ZeroChar
  <2> DEFINE w == <<"0", "x">> \o s
  <2> HIDE DEF w
  <2>3. u = SubSeq(w, 3, Len(s) + 2)
    BY <2>1, <2>2 DEF w
  <2>4. /\ u \in Seq(Chars \cup {"x"}) /\ Len(u) = Len(s)
        /\ \A i \in 1..Len(s) : u[i] = w[i + 2]
    BY <2>2, <2>3 DEF w
  <2>5. \A i \in 1..Len(s) : u[i] = s[i]
    BY <2>2, <2>4 DEF w
  <2>6. s \in Seq(Chars \cup {"x"})
    BY <1>2
  <2> HIDE DEF u
  <2> QED  BY <2>4, <2>5, <2>6, SeqEqual
<1> QED  BY <1>1, <1>2, <1>3, <1>4 DEF p, s

-----------------------------------------------------------------------------
(* How long the texts are.                                                 *)

(* A number of magnitude below m has at most n characters. *)
Short(f, D, m, n) == \A i \in D : Magnitude(i) < m => f[i] \in Seq(Chars) /\ Len(f[i]) <= n

(* For numbers up to c times as large it takes k more. *)
Longer(f, D, c, k) == \A m, n \in Nat : Short(f, D, m, n) => Short(f, D, c * m, n + k)

(* Each quotient is the number divided by b. *)
Shrinks(D, q, d, b) == \A i \in D : d[i] \in Chars /\ b * Magnitude(q[i]) <= Magnitude(i)

LEMMA OneDigit ==
    ASSUME NEW D, NEW q, Descends(D, q), NEW d, NEW b \in {10, 16}, Shrinks(D, q, d, b),
           NEW f, IsLoop(f, D, q, d)
    PROVE  Short(f, D, b, 1)
<1> SUFFICES ASSUME NEW i \in D, Magnitude(i) < b
             PROVE  f[i] \in Seq(Chars) /\ Len(f[i]) <= 1
  BY DEF Short
<1>1. i \in Int /\ q[i] \in Int
  BY DEF Descends
<1>2. b * Magnitude(q[i]) <= Magnitude(i) /\ d[i] \in Chars
  BY DEF Shrinks
<1>3. Magnitude(q[i]) \in Nat /\ Magnitude(i) \in Nat
  BY <1>1, MagnitudeType
<1>4. q[i] = 0
  <2>1. Magnitude(q[i]) = 0
    BY <1>2, <1>3
  <2> QED  BY <1>1, <2>1 DEF Magnitude
<1>5. f[i] = <<d[i]>>
  <2>1. f[i] = Round(f, q, d, i)
    BY DEF IsLoop
  <2> QED  BY <1>4, <2>1 DEF Round
<1> QED  BY <1>2, <1>5

LEMMA OneMore ==
    ASSUME NEW D, NEW q, Descends(D, q), NEW d, NEW b \in {10, 16}, Shrinks(D, q, d, b),
           NEW f, IsLoop(f, D, q, d)
    PROVE  Longer(f, D, b, 1)
<1> SUFFICES ASSUME NEW m \in Nat, NEW n \in Nat, Short(f, D, m, n), NEW i \in D, Magnitude(i) < b * m
             PROVE  f[i] \in Seq(Chars) /\ Len(f[i]) <= n + 1
  BY DEF Longer, Short
<1>1. i \in Int /\ q[i] \in Int /\ q[i] \in D
  BY DEF Descends
<1>2. b * Magnitude(q[i]) <= Magnitude(i) /\ d[i] \in Chars
  BY DEF Shrinks
<1>3. Magnitude(q[i]) \in Nat /\ Magnitude(i) \in Nat
  BY <1>1, MagnitudeType
<1>4. Magnitude(q[i]) < m
  BY <1>2, <1>3
<1>5. f[q[i]] \in Seq(Chars) /\ Len(f[q[i]]) <= n
  BY <1>1, <1>4 DEF Short
<1>6. f[i] = Round(f, q, d, i)
  BY DEF IsLoop
<1>7. CASE q[i] = 0
  <2>1. f[i] = <<d[i]>>
    BY <1>6, <1>7 DEF Round
  <2> QED  BY <1>2, <2>1
<1>8. CASE q[i] # 0
  <2>1. f[i] = <<d[i]>> \o f[q[i]]
    BY <1>6, <1>8 DEF Round
  <2> DEFINE s == f[q[i]]
  <2>2. s \in Seq(Chars) /\ Len(s) <= n /\ f[i] = <<d[i]>> \o s
    BY <1>5, <2>1
  <2> HIDE DEF s
  <2>3. <<d[i]>> \o s \in Seq(Chars) /\ Len(<<d[i]>> \o s) = 1 + Len(s) /\ Len(s) \in Nat
    BY <1>2, <2>2
  <2> QED  BY <2>2, <2>3
<1> QED  BY <1>7, <1>8

LEMMA LongerTimes ==
    ASSUME NEW f, NEW D, NEW c \in Nat, NEW k \in Nat, NEW e \in Nat, NEW l \in Nat,
           Longer(f, D, c, k), Longer(f, D, e, l)
    PROVE  Longer(f, D, c * e, k + l)
<1> SUFFICES ASSUME NEW m \in Nat, NEW n \in Nat, Short(f, D, m, n)
             PROVE  Short(f, D, (c * e) * m, n + (k + l))
  BY DEF Longer
<1>1. Short(f, D, e * m, n + l)
  BY DEF Longer
<1>2. e * m \in Nat /\ n + l \in Nat
  OBVIOUS
<1>3. Short(f, D, c * (e * m), (n + l) + k)
  BY <1>1, <1>2 DEF Longer
<1>4. c * (e * m) = (c * e) * m /\ (n + l) + k = n + (k + l)
  OBVIOUS
<1> QED  BY <1>3, <1>4

Tera == 1000000000000
Two52 == 4503599627370496
Two53 == 9007199254740992

(* Two64 is 18446744073709551616 = 2^64, Two63 is the half of it. *)
Two63 == 1024 * Two53
Two64 == 2048 * Two53

LEMMA Powers ==
    /\ Tera \in Nat /\ Two52 \in Nat /\ Two53 \in Nat
    /\ Two53 = 2 * Two52 /\ Two53 <= 9008 * Tera
BY SMT DEF Tera, Two52, Two53

LEMMA DecimalsShort == \A v \in Int :
    /\ Magnitude(v) < 10000000 * Tera => Len(LsdFirst(v)) <= 19
    /\ Magnitude(v) < 100000000 * Tera => Len(LsdFirst(v)) <= 20
<1>1. PICK f : IsLoop(f, Int, Quotients, Digits) /\ \A v \in Int : LsdFirst(v) = f[v]
  BY LsdFirstLoops
<1>2. Shrinks(Int, Quotients, Digits, 10)
  <2> SUFFICES ASSUME NEW i \in Int
               PROVE  Digits[i] \in Chars /\ 10 * Magnitude(Quotients[i]) <= Magnitude(i)
    BY DEF Shrinks
  <2>1. Quotients[i] = Quot(i) /\ Digits[i] = zero(Rem(i))
    BY DEF Quotients, Digits
  <2>2. /\ Quot(i) \in Int /\ Rem(i) \in Int /\ i = 10 * Quot(i) + Rem(i)
        /\ i >= 0 => Rem(i) \in 0..9 /\ Quot(i) >= 0
        /\ i < 0 => Rem(i) \in -9..0 /\ Quot(i) <= 0
    BY QuotRem
  <2>3. Rem(i) \in -9..9
    BY <2>2
  <2>4. 10 * Magnitude(Quot(i)) <= Magnitude(i)
    BY <2>2 DEF Magnitude
  <2> QED  BY <2>1, <2>3, <2>4, ZeroDigit
<1> DEFINE G(c, k) == Longer(f, Int, c, k)
           S(m, n) == Short(f, Int, m, n)
<1>3. S(10, 1) /\ G(10, 1)
  BY <1>1, <1>2, QuotientsDescend, OneDigit, OneMore
<1>4. \A c, k, e, l \in Nat : G(c, k) /\ G(e, l) => G(c * e, k + l)
  BY LongerTimes
<1>5. \A m, n, c, k \in Nat : S(m, n) /\ G(c, k) => S(c * m, n + k)
  BY DEF Longer
<1> HIDE DEF G, S
<1>6. G(100, 2)
  BY <1>3, <1>4, SMT
<1>7. G(10000, 4)
  BY <1>4, <1>6, SMT
<1>8. G(100000000, 8)
  BY <1>4, <1>7, SMT
<1>9. G(1000000, 6)
  BY <1>4, <1>6, <1>7, SMT
<1>10. G(10000000, 7)
  BY <1>3, <1>4, <1>9, SMT
<1>11. S(100, 2)
  BY <1>3, <1>5, SMT
<1>12. S(10000, 4)
  BY <1>5, <1>6, <1>11, SMT
<1>13. S(Tera, 12)
  BY <1>5, <1>8, <1>12, SMT DEF Tera
<1>14. S(10000000 * Tera, 19)
  BY <1>5, <1>10, <1>13, Powers, SMT
<1>15. S(100000000 * Tera, 20)
  BY <1>5, <1>8, <1>13, Powers, SMT
<1> QED  BY <1>1, <1>14, <1>15, SMT DEF S, Short

LEMMA HexShort == \A v \in Nat : v < Two64 => Len(convertHex(v)) <= 16
<1>1. PICK f : IsLoop(f, Nat, HexQuotients, HexDigits) /\ \A v \in Nat : convertHex(v) = Reverse(f[v])
  BY ConvertHexLoops
<1>2. Shrinks(Nat, HexQuotients, HexDigits, 16)
  <2> SUFFICES ASSUME NEW i \in Nat
               PROVE  HexDigits[i] \in Chars /\ 16 * Magnitude(HexQuotients[i]) <= Magnitude(i)
    BY DEF Shrinks
  <2> DEFINE m == i % 16
             h == i \div 16
  <2>1. h \in Nat /\ m \in 0..15 /\ i = 16 * h + m
    BY HexQuotRem
  <2>2. HexQuotients[i] = h /\ HexDigits[i] = digitsHex[m + 1]
    BY DEF HexQuotients, HexDigits
  <2> HIDE DEF m, h
  <2>3. m + 1 \in 1..16 /\ 16 * Magnitude(h) <= Magnitude(i)
    BY <2>1 DEF Magnitude
  <2> QED  BY <2>2, <2>3 DEF Chars
<1> DEFINE G(c, k) == Longer(f, Nat, c, k)
           S(m, n) == Short(f, Nat, m, n)
<1>3. S(16, 1) /\ G(16, 1)
  BY <1>1, <1>2, HexDescends, OneDigit, OneMore
<1>4. \A c, k, e, l \in Nat : G(c, k) /\ G(e, l) => G(c * e, k + l)
  BY LongerTimes
<1>5. \A m, n, c, k \in Nat : S(m, n) /\ G(c, k) => S(c * m, n + k)
  BY DEF Longer
<1> HIDE DEF G, S
<1>6. G(256, 2)
  BY <1>3, <1>4, SMT
<1>7. G(4096, 3)
  BY <1>3, <1>4, <1>6, SMT
<1>8. G(16777216, 6)
  BY <1>4, <1>7, SMT
<1>9. G(281474976710656, 12)
  BY <1>4, <1>8, SMT
<1>10. S(Two52, 13)
  BY <1>3, <1>5, <1>9, SMT DEF Two52
<1>11. S(4096 * Two52, 16)
  BY <1>5, <1>7, <1>10, Powers, SMT
<1>12. 4096 * Two52 = Two64
  BY Powers, SMT DEF Two64
<1> SUFFICES ASSUME NEW v \in Nat, v < Two64
             PROVE  Len(convertHex(v)) <= 16
  OBVIOUS
<1>13. Magnitude(v) = v
  BY DEF Magnitude
<1>14. f[v] \in Seq(Chars) /\ Len(f[v]) <= 16
  BY <1>11, <1>12, <1>13 DEF S, Short
<1> DEFINE s == f[v]
<1>15. s \in Seq(Chars) /\ Len(s) <= 16 /\ convertHex(v) = Reverse(s)
  BY <1>1, <1>14
<1> HIDE DEF s
<1> QED  BY <1>15, ReverseIs

(* The integers of C++, signed or unsigned, and its pointers. *)
Integers64 == {v \in Int : -Two63 <= v /\ v < Two64}
Pointers64 == {v \in Nat : v < Two64}

(* What NumbersFit takes for granted of the code's types: no integer of    *)
(* 64 bits, signed or unsigned, has more than 20 characters, no pointer    *)
(* more than 18, so that kMaxNumericSize = 32 leaves room for the NUL.     *)
THEOREM NumbersOf64BitsFit ==
    /\ \A v \in Integers64 : Len(convert(v)) \in 0..20
    /\ \A v \in Pointers64 : Len(<<"0", "x">> \o convertHex(v)) \in 0..18
<1>1. ASSUME NEW v \in Integers64 PROVE Len(convert(v)) \in 0..20
  <2> DEFINE s == LsdFirst(v)
             sign == IF v < 0 THEN <<"-">> ELSE <<>>
             S == Chars \cup {"-"}
  <2>1. v \in Int
    BY DEF Integers64
  <2>2. s \in Seq(S) /\ sign \in Seq(S)
    <3>1. s \in Seq(Chars)
      BY <2>1, LsdFirstMakes DEF MadeOf
    <3> HIDE DEF s
    <3>2. s \in Seq(S)
      BY <3>1
    <3>3. <<"-">> \in Seq(S) /\ <<>> \in Seq(S)
      OBVIOUS
    <3> QED  BY <3>2, <3>3
  <2>3. Len(s) + Len(sign) <= 20
    <3>1. CASE v < 0
      <4>1. Magnitude(v) < 10000000 * Tera
        BY <2>1, <3>1, Powers, SMT DEF Integers64, Magnitude, Two63
      <4>2. Len(s) <= 19 /\ Len(s) \in Nat
        BY <2>1, <2>2, <4>1, DecimalsShort, LenProperties
      <4>3. Len(sign) = 1
        BY <3>1
      <4> HIDE DEF s, sign
      <4> QED  BY <4>2, <4>3
    <3>2. CASE ~(v < 0)
      <4>1. Magnitude(v) < 100000000 * Tera
        BY <2>1, <3>2, Powers, SMT DEF Integers64, Magnitude, Two64
      <4>2. Len(s) <= 20 /\ Len(s) \in Nat
        BY <2>1, <2>2, <4>1, DecimalsShort, LenProperties
      <4>3. Len(sign) = 0
        BY <3>2
      <4> HIDE DEF s, sign
      <4> QED  BY <4>2, <4>3
    <3> QED  BY <3>1, <3>2
  <2>4. convert(v) = Reverse(s \o sign)
    BY DEF convert
  <2> HIDE DEF s, sign, S
  <2>5. s \o sign \in Seq(S) /\ Len(s \o sign) = Len(s) + Len(sign) /\ Len(s \o sign) \in Nat
    BY <2>2
  <2>6. Len(Reverse(s \o sign)) = Len(s \o sign)
    BY <2>5, ReverseIs
  <2> DEFINE n == Len(s \o sign)
  <2>7. n \in Nat /\ n <= 20 /\ Len(convert(v)) = n
    BY <2>3, <2>4, <2>5, <2>6, Zenon
  <2> HIDE DEF n
  <2> QED  BY <2>7
<1>2. ASSUME NEW v \in Pointers64 PROVE Len(<<"0", "x">> \o convertHex(v)) \in 0..18
  <2> DEFINE s == convertHex(v)
             S == Chars \cup {"x"}
  <2>1. v \in Nat /\ v < Two64
    BY DEF Pointers64
  <2>2. s \in Seq(Chars) /\ Len(s) <= 16
    BY <2>1, ConvertHexReads, HexShort
  <2> HIDE DEF s
  <2>3. s \in Seq(S) /\ <<"0", "x">> \in Seq(S) /\ Len(<<"0", "x">>) = 2
    BY <2>2, ZeroChar
  <2> HIDE DEF S
  <2>4. Len(<<"0", "x">> \o s) = 2 + Len(s) /\ Len(s) \in Nat
    BY <2>3
  <2>5. Len(<<"0", "x">> \o s) \in 0..18
    BY <2>2, <2>4
  <2> QED  BY <2>5 DEF s
<1> QED  BY <1>1, <1>2

-----------------------------------------------------------------------------
(* A record in the making.                                                 *)

Letters == Chars \cup {"-", "x"}

Words == Kinds \cup {"integer", "pointer", "double", "null", "text", "char"}

Readable == {p \in [kind : Words, len : Nat, value : Int, text : Seq(Letters)] : Denotes(p)}

(* Pieces that can be read, time, thread and level first. *)
Begun(b) ==
    /\ b.pieces \in Seq(Readable) /\ Len(b.pieces) >= 3
    /\ b.pieces[1].kind = "time" /\ b.pieces[2].kind = "thread" /\ b.pieces[3].kind = "level"

LEMMA IntegerReadable ==
    ASSUME NEW v \in Int
    PROVE  Number("integer", v, convert(v)) \in Readable
<1> DEFINE s == LsdFirst(v)
           sg == IF v < 0 THEN -1 ELSE 1
<1>1. MadeOf(v, s, 10, sg)
  BY LsdFirstMakes
<1>2. s \in Seq(Letters)
  <2>1. s \in Seq(Chars)
    BY <1>1 DEF MadeOf
  <2> HIDE DEF s
  <2> QED  BY <2>1 DEF Letters
<1> HIDE DEF s
<1>3. s \o (IF v < 0 THEN <<"-">> ELSE <<>>) \in Seq(Letters)
  <2>1. "-" \in Letters
    BY DEF Letters
  <2>2. CASE v < 0
    <3>1. s \o <<"-">> \in Seq(Letters)
      BY <1>2, <2>1
    <3> QED  BY <2>2, <3>1
  <2>3. CASE ~(v < 0)
    <3>1. s \o <<>> \in Seq(Letters)
      BY <1>2
    <3> QED  BY <2>3, <3>1
  <2> QED  BY <2>2, <2>3
<1>4. convert(v) \in Seq(Letters)
  BY <1>3, ReverseIs DEF convert, s
<1>5. Len(convert(v)) \in Nat
  BY <1>4, LenProperties
<1>6. Number("integer", v, convert(v)) \in [kind : Words, len : Nat, value : Int, text : Seq(Letters)]
  BY <1>4, <1>5 DEF Number, Words
<1> QED  BY <1>6, IntegersReadBack DEF Readable

LEMMA PointerReadable ==
    ASSUME NEW v \in Nat
    PROVE  Number("pointer", v, <<"0", "x">> \o convertHex(v)) \in Readable
<1> DEFINE s == convertHex(v)
           w == <<"0", "x">> \o s
<1>1. s \in Seq(Letters)
  <2>1. s \in Seq(Chars)
    BY ConvertHexReads
  <2> HIDE DEF s
  <2> QED  BY <2>1 DEF Letters
<1> HIDE DEF s
<1>2. w \in Seq(Letters) /\ Len(w) \in Nat
  BY <1>1, ZeroChar DEF Letters
<1> HIDE DEF w
<1>3. Number("pointer", v, w) \in [kind : Words, len : Nat, value : Int, text : Seq(Letters)]
  BY <1>2 DEF Number, Words
<1>4. Denotes(Number("pointer", v, w))
  BY PointersReadBack DEF w, s
<1>5. Number("pointer", v, w) \in Readable
  BY <1>3, <1>4 DEF Readable
<1> QED  BY <1>5 DEF w, s

LEMMA PieceReadable ==
    ASSUME NEW kind \in Words, kind # "integer", kind # "pointer", NEW len \in Nat
    PROVE  Piece(kind, len) \in Readable
<1> DEFINE p == Piece(kind, len)
<1>1. p \in [kind : Words, len : Nat, value : Int, text : Seq(Letters)] /\ p.kind = kind
  BY DEF Piece
<1> HIDE DEF p
<1>2. Denotes(p)
  BY <1>1 DEF Denotes
<1>3. p \in Readable
  BY <1>1, <1>2 DEF Readable
<1> QED  BY <1>3 DEF p

LEMMA FixedReadable ==
    ASSUME NEW kind \in Kinds
    PROVE  Fixed(kind) \in Readable /\ Fixed(kind).kind = kind /\ Fixed(kind).len = LenOf[kind]
<1>1. kind \in Words /\ kind # "integer" /\ kind # "pointer"
  BY DEF Kinds, Words
<1>2. LenOf[kind] \in Nat
  BY LengthsAssumption
<1>3. Piece(kind, LenOf[kind]) \in Readable
  BY <1>1, <1>2, PieceReadable
<1> QED  BY <1>3 DEF Fixed, Piece

LEMMA AddBegun ==
    ASSUME NEW b, Begun(b), NEW p \in Readable, NEW spare
    PROVE  Begun(Add(b, p, spare))
<1> DEFINE s == b.pieces
<1>1. s \in Seq(Readable) /\ Len(s) \in Nat /\ Len(s) >= 3
  BY LenProperties DEF Begun
<1>2. Add(b, p, spare).pieces = Append(s, p)
  BY DEF Add
<1> HIDE DEF s
<1>3. Append(s, p) \in Seq(Readable) /\ Len(Append(s, p)) = Len(s) + 1 /\ \A i \in 1..3 : Append(s, p)[i] = s[i]
  BY <1>1
<1>4. s[1].kind = "time" /\ s[2].kind = "thread" /\ s[3].kind = "level"
  BY DEF s, Begun
<1>5. Append(s, p)[1] = s[1] /\ Append(s, p)[2] = s[2] /\ Append(s, p)[3] = s[3]
  <2>1. 1 \in 1..3 /\ 2 \in 1..3 /\ 3 \in 1..3
    OBVIOUS
  <2> DEFINE w == Append(s, p)
  <2>2. \A i \in 1..3 : w[i] = s[i]
    BY <1>3
  <2> HIDE DEF w
  <2>3. w[1] = s[1] /\ w[2] = s[2] /\ w[3] = s[3]
    BY <2>1, <2>2
  <2> QED  BY <2>3 DEF w
<1> QED  BY <1>1, <1>2, <1>3, <1>4, <1>5 DEF Begun

LEMMA AppendBegun ==
    ASSUME NEW b, Begun(b), NEW p \in Readable
    PROVE  Begun(append(b, p))
BY AddBegun DEF append

LEMMA IntegerBegun ==
    ASSUME NEW b, Begun(b), NEW v \in Int
    PROVE  Begun(formatInteger(b, v))
BY AddBegun, IntegerReadable DEF formatInteger

LEMMA FormattedBegun ==
    ASSUME NEW b, Begun(b), NEW c \in Formatted(b)
    PROVE  Begun(c)
<1>1. CASE \E str \in Texts : c = formatText(b, str)
  <2>1. PICK str \in Texts : c = formatText(b, str)
    BY <1>1
  <2>2. Piece("null", 6) \in Readable
    BY PieceReadable DEF Words
  <2>3. Piece("text", str.len) \in Readable
    BY PieceReadable, LengthsAssumption DEF Words
  <2> QED  BY <2>1, <2>2, <2>3, AppendBegun DEF formatText
<1>2. CASE \E v \in Ints : c = formatInteger(b, v)
  BY <1>2, IntegerBegun, NumbersAssumption
<1>3. CASE \E v \in Pointers : c = formatPointer(b, v)
  BY <1>3, PointerReadable, AddBegun, NumbersAssumption DEF formatPointer
<1>4. CASE \E len \in Doubles : c = formatDouble(b, len)
  <2>1. PICK len \in Doubles : c = formatDouble(b, len)
    BY <1>4
  <2>2. len \in Nat
    BY NumbersFit, SizesAssumption
  <2>3. Piece("double", len) \in Readable
    BY <2>2, PieceReadable DEF Words
  <2> QED  BY <2>1, <2>3, AddBegun DEF formatDouble
<1>5. CASE c = append(b, Piece("char", 1))
  <2>1. Piece("char", 1) \in Readable
    BY PieceReadable DEF Words
  <2> QED  BY <1>5, <2>1, AppendBegun
<1> QED  BY <1>1, <1>2, <1>3, <1>4, <1>5 DEF Formatted

LEMMA HeaderBegun ==
    ASSUME NEW level, NEW savedErrno \in Errnos
    PROVE  Begun(Header(level, savedErrno))
<1> DEFINE b1 == append(EmptyBuffer, Fixed("time"))
           b2 == append(b1, Fixed("thread"))
           impl == append(b2, Fixed("level"))
           e1 == append(impl, Fixed("strerror"))
           error == append(e1, Fixed("(errno="))
           f1 == append(impl, Fixed("func"))
           T == LenOf["time"]
           H == LenOf["thread"]
           L == LenOf["level"]
<1>1. T \in Nat /\ H \in Nat /\ L \in Nat /\ T + H + L < SIZE /\ SIZE \in Nat
  BY LengthsAssumption, HeaderFits, SizesAssumption DEF Kinds
<1>2. \A k \in {"time", "thread", "level", "strerror", "(errno=", ")", "func", " "} :
         Fixed(k) \in Readable /\ Fixed(k).kind = k /\ Fixed(k).len = LenOf[k]
  BY FixedReadable DEF Kinds
<1> DEFINE p1 == Fixed("time")
           p2 == Fixed("thread")
           p3 == Fixed("level")
<1>3. /\ p1 \in Readable /\ p1.kind = "time" /\ p1.len = T
      /\ p2 \in Readable /\ p2.kind = "thread" /\ p2.len = H
      /\ p3 \in Readable /\ p3.kind = "level" /\ p3.len = L
  BY <1>2
<1> HIDE DEF T, H, L, p1, p2, p3
<1> DEFINE s1 == b1.pieces
           s2 == b2.pieces
           s3 == impl.pieces
<1>4. b1.length = T /\ s1 \in Seq(Readable) /\ Len(s1) = 1 /\ s1[1] = p1
  <2>1. avail(EmptyBuffer) > p1.len
    BY <1>1, <1>3 DEF avail, EmptyBuffer
  <2>2. b1 = Add(EmptyBuffer, p1, 0)
    BY <2>1 DEF append, p1
  <2>3. b1.length = T /\ s1 = Append(<<>>, p1)
    BY <1>1, <1>3, <2>2 DEF Add, EmptyBuffer
  <2> HIDE DEF b1, s1
  <2> QED  BY <1>3, <2>3
<1> HIDE DEF b1
<1>5. b2.length = T + H /\ s2 \in Seq(Readable) /\ Len(s2) = 2 /\ s2[1] = p1 /\ s2[2] = p2
  <2>1. avail(b1) > p2.len
    BY <1>1, <1>3, <1>4 DEF avail
  <2>2. b2 = Add(b1, p2, 0)
    BY <2>1 DEF append, p2
  <2>3. b2.length = T + H /\ s2 = Append(s1, p2)
    BY <1>3, <1>4, <2>2 DEF Add
  <2> HIDE DEF b2, s1, s2
  <2>4. s2 \in Seq(Readable) /\ Len(s2) = Len(s1) + 1 /\ s2[Len(s1) + 1] = p2
    <3>1. s1 \in Seq(Readable) /\ p2 \in Readable
      BY <1>3, <1>4
    <3>2. /\ Append(s1, p2) \in Seq(Readable) /\ Len(Append(s1, p2)) = Len(s1) + 1
          /\ Append(s1, p2)[Len(s1) + 1] = p2
      BY <3>1, AppendProperties
    <3> QED  BY <2>3, <3>2
  <2>5. 1 \in 1..Len(s1) /\ s2[1] = s1[1]
    BY <1>3, <1>4, <2>3
  <2> QED  BY <1>4, <2>3, <2>4, <2>5
<1> HIDE DEF b2, s1
<1>6. s3 \in Seq(Readable) /\ Len(s3) = 3 /\ s3[1] = p1 /\ s3[2] = p2 /\ s3[3] = p3
  <2>1. avail(b2) > p3.len
    BY <1>1, <1>3, <1>5 DEF avail
  <2>2. impl = Add(b2, p3, 0)
    BY <2>1 DEF append, p3
  <2>3. s3 = Append(s2, p3)
    BY <2>2 DEF Add
  <2> HIDE DEF impl, s2, s3
  <2>4. s3 \in Seq(Readable) /\ Len(s3) = Len(s2) + 1 /\ s3[Len(s2) + 1] = p3
    <3>1. s2 \in Seq(Readable) /\ p3 \in Readable
      BY <1>3, <1>5
    <3>2. /\ Append(s2, p3) \in Seq(Readable) /\ Len(Append(s2, p3)) = Len(s2) + 1
          /\ Append(s2, p3)[Len(s2) + 1] = p3
      BY <3>1, AppendProperties
    <3> QED  BY <2>3, <3>2
  <2>5. 1 \in 1..Len(s2) /\ s3[1] = s2[1]
    BY <1>3, <1>5, <2>3
  <2>6. 2 \in 1..Len(s2) /\ s3[2] = s2[2]
    BY <1>3, <1>5, <2>3
  <2> QED  BY <1>5, <2>3, <2>4, <2>5, <2>6
<1> HIDE DEF impl
<1>7. Begun(impl)
  BY <1>3, <1>6 DEF Begun
<1>8. Begun(e1) /\ Begun(f1)
  BY <1>2, <1>7, AppendBegun
<1> HIDE DEF e1, f1
<1>9. Begun(error) /\ Begun(append(f1, Fixed(" ")))
  BY <1>2, <1>8, AppendBegun
<1> HIDE DEF error
<1>10. Begun(formatInteger(error, savedErrno))
  BY <1>9, IntegerBegun, NumbersAssumption
<1>11. Begun(append(formatInteger(error, savedErrno), Fixed(")")))
  BY <1>2, <1>10, AppendBegun
<1>12. Header(level, savedErrno) =
         CASE level < INFO -> append(f1, Fixed(" "))
           [] level >= WARN /\ savedErrno # 0 -> append(formatInteger(error, savedErrno), Fixed(")"))
           [] OTHER -> impl
  BY DEF Header, b1, b2, impl, e1, error, f1
<1> QED  BY <1>7, <1>9, <1>11, <1>12

LEMMA FinishBegun ==
    ASSUME NEW b, Begun(b), Sound(b)
    PROVE  /\ Begun(finish(b))
           /\ finish(b).pieces[Len(finish(b).pieces)].kind = "newline" \/ finish(b).length = SIZE - 1
<1> DEFINE b1 == append(b, Fixed(" - "))
           b2 == append(b1, Fixed("basename"))
           b3 == append(b2, Fixed(":"))
           b4 == formatInteger(b3, Line)
           p == Fixed("newline")
<1>1. \A k \in {" - ", "basename", ":", "newline"} : k \in Kinds /\ Fixed(k) \in Readable /\ Fixed(k).kind = k
  BY FixedReadable DEF Kinds
<1>2. Begun(b1) /\ Sound(b1)
  BY <1>1, AppendBegun, FixedSound
<1> HIDE DEF b1
<1>3. Begun(b2) /\ Sound(b2)
  BY <1>1, <1>2, AppendBegun, FixedSound
<1> HIDE DEF b2
<1>4. Begun(b3) /\ Sound(b3)
  BY <1>1, <1>3, AppendBegun, FixedSound
<1> HIDE DEF b3
<1>5. Begun(b4) /\ Sound(b4)
  BY <1>4, IntegerBegun, IntegerSound, NumbersAssumption
<1> HIDE DEF b4
<1>6. finish(b) = append(b4, p)
  BY DEF finish, b1, b2, b3, b4
<1>7. p.kind = "newline" /\ p.len = 1 /\ p \in Readable
  BY <1>1, HeaderFits, FixedReadable
<1> HIDE DEF p
<1>8. Begun(append(b4, p))
  BY <1>5, <1>7, AppendBegun
<1>9. CASE avail(b4) > 1
  <2>1. append(b4, p).pieces = Append(b4.pieces, p)
    BY <1>7, <1>9 DEF append, Add
  <2>2. b4.pieces \in Seq(Readable)
    BY <1>5 DEF Begun
  <2> DEFINE s == b4.pieces
  <2> HIDE DEF s
  <2>3. Append(s, p)[Len(Append(s, p))] = p
    BY <1>7, <2>2 DEF s
  <2>4. append(b4, p).pieces[Len(append(b4, p).pieces)].kind = "newline"
    BY <1>7, <2>1, <2>3 DEF s
  <2> QED  BY <1>6, <1>8, <2>4
<1>10. CASE ~(avail(b4) > 1)
  <2>1. append(b4, p) = b4
    BY <1>7, <1>10 DEF append
  <2>2. b4.length = SIZE - 1
    BY <1>5, <1>10, SizesAssumption DEF avail, Sound
  <2> QED  BY <1>6, <1>8, <2>1, <2>2
<1> QED  BY <1>9, <1>10

(* The record of a thread that is streaming. *)
RecordsInv == \A t \in Threads : pc[t] = "open" => Begun(impl_[t].stream_)

LEMMA RecordsStep ==
    ASSUME LoggerInv, RecordsInv, [Next]_vars
    PROVE  RecordsInv'
<1> USE DEF LoggerInv
<1>1. ASSUME NEW t \in Threads, NEW level \in TRACE..FATAL, NEW savedErrno \in Errnos, Log(t, level, savedErrno)
      PROVE  RecordsInv'
  BY <1>1, HeaderBegun DEF Log, RecordsInv, TypeInv
<1>2. ASSUME NEW t \in Threads, Stream(t)
      PROVE  RecordsInv'
  <2>1. PICK b \in Formatted(impl_[t].stream_) : impl_' = [impl_ EXCEPT ![t].stream_ = b]
    BY <1>2 DEF Stream
  <2>2. Begun(b)
    BY <1>2, FormattedBegun DEF RecordsInv, Stream, At
  <2>3. pc' = pc
    BY <1>2 DEF Stream
  <2> QED  BY <2>1, <2>2, <2>3 DEF RecordsInv, TypeInv
<1>3. ASSUME NEW t \in Threads, Output(t)
      PROVE  RecordsInv'
  BY <1>3 DEF Output, RecordsInv, TypeInv
<1>4. ASSUME NEW t \in Threads, Flush(t)
      PROVE  RecordsInv'
  BY <1>4 DEF Flush, RecordsInv, TypeInv
<1>5. ASSUME NEW t \in Threads, Abort(t)
      PROVE  RecordsInv'
  BY <1>5 DEF Abort, RecordsInv
<1>6. ASSUME NEW d \in Targets, Spill(d) \/ SetOutput(d) \/ SetFlush(d)
      PROVE  RecordsInv'
  BY <1>6 DEF Spill, SetOutput, SetFlush, RecordsInv
<1>7. ASSUME NEW level \in 0..5, SetLogLevel(level)
      PROVE  RecordsInv'
  BY <1>7 DEF SetLogLevel, RecordsInv
<1>8. CASE UNCHANGED vars
  BY <1>8 DEF vars, RecordsInv
<1> QED  BY <1>1, <1>2, <1>3, <1>4, <1>5, <1>6, <1>7, <1>8 DEF Next

LEMMA BegunReads ==
    ASSUME NEW s \in Seq(Readable), Len(s) >= 3,
           s[1].kind = "time", s[2].kind = "thread", s[3].kind = "level"
    PROVE  LET kinds == [i \in DOMAIN s |-> s[i].kind]
           IN  /\ SubSeq(kinds, 1, 3) = <<"time", "thread", "level">>
               /\ \A i \in DOMAIN s : Denotes(s[i])
               /\ kinds[Len(kinds)] = s[Len(s)].kind
<1> DEFINE n == Len(s)
           kinds == [i \in 1..n |-> s[i].kind]
<1>1. n \in Nat /\ DOMAIN s = 1..n /\ \A i \in 1..n : s[i] \in Readable
  BY LenProperties, ElementOfSeq
<1>2. \A i \in 1..n : s[i].kind \in Words /\ Denotes(s[i])
  BY <1>1 DEF Readable
<1>3. kinds \in Seq(Words) /\ Len(kinds) = n /\ kinds[1] = "time" /\ kinds[2] = "thread" /\ kinds[3] = "level"
  <2> HIDE DEF n
  <2>1. n >= 3
    BY DEF n
  <2> QED  BY <1>1, <1>2, <2>1
<1>4. kinds[n] = s[n].kind
  BY <1>1
<1> DEFINE k3 == SubSeq(kinds, 1, 3)
<1> HIDE DEF kinds
<1>5. k3 \in Seq(Words) /\ Len(k3) = 3 /\ k3[1] = kinds[1] /\ k3[2] = kinds[2] /\ k3[3] = kinds[3]
  BY <1>1, <1>3
<1> HIDE DEF k3
<1>6. k3 = <<"time", "thread", "level">>
  <2> DEFINE x == <<"time", "thread", "level">>
  <2>1. x \in Seq(Words) /\ Len(x) = 3 /\ \A i \in 1..3 : k3[i] = x[i]
    BY <1>3, <1>5
  <2> HIDE DEF x
  <2>2. k3 = x
    BY <1>5, <2>1, SeqEqual
  <2> QED  BY <2>2 DEF x
<1> QED  BY <1>1, <1>2, <1>3, <1>4, <1>6 DEF k3, kinds

(* A record that a thread puts out has its time, thread and level in front *)
(* whatever was streamed; each of its numbers, for every integer and every *)
(* pointer, reads as the value that was given; and it ends its line unless *)
(* the pieces before have filled the buffer.                               *)
THEOREM RecordsAreReadable == Spec => []RecordsReadable
<1>1. Init => LoggerInv /\ RecordsInv
  <2>1. Init => RecordsInv
    BY DEF Init, RecordsInv
  <2> QED  BY <2>1, LoggerInit
<1>2. LoggerInv /\ RecordsInv /\ [Next]_vars => LoggerInv' /\ RecordsInv'
  BY LoggerStep, RecordsStep
<1>3. LoggerInv /\ RecordsInv => RecordsReadable
  <2> SUFFICES ASSUME LoggerInv, RecordsInv, NEW t \in Threads, pc[t] = "open"
               PROVE  LET text == finish(impl_[t].stream_)
                          kinds == [i \in DOMAIN text.pieces |-> text.pieces[i].kind]
                      IN  /\ SubSeq(kinds, 1, 3) = <<"time", "thread", "level">>
                          /\ \A i \in DOMAIN text.pieces : Denotes(text.pieces[i])
                          /\ kinds[Len(kinds)] = "newline" \/ text.length = SIZE - 1
    BY DEF RecordsReadable
  <2> DEFINE text == finish(impl_[t].stream_)
             s == text.pieces
             kinds == [i \in DOMAIN s |-> s[i].kind]
  <2>1. Begun(text) /\ (s[Len(s)].kind = "newline" \/ text.length = SIZE - 1)
    BY FinishBegun DEF LoggerInv, StreamsInv, RecordsInv
  <2> HIDE DEF text
  <2>2. /\ s \in Seq(Readable) /\ Len(s) >= 3
        /\ s[1].kind = "time" /\ s[2].kind = "thread" /\ s[3].kind = "level"
    BY <2>1 DEF Begun
  <2> HIDE DEF s
  <2>3. /\ SubSeq(kinds, 1, 3) = <<"time", "thread", "level">>
        /\ \A i \in DOMAIN s : Denotes(s[i])
        /\ kinds[Len(kinds)] = s[Len(s)].kind
    BY <2>2, BegunReads
  <2> QED  BY <2>1, <2>3 DEF s, text
<1> QED  BY <1>1, <1>2, <1>3, PTL DEF Spec
=============================================================================
