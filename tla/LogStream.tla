------------------------------ MODULE LogStream ------------------------------
(***************************************************************************)
(* twnl/Log/LogStream.h and LogStream.cc: text goes into a buffer of a     *)
(* fixed size, piece by piece; a piece that has no room is left out.  A    *)
(* piece is known by its kind and its length, a number also by its value   *)
(* and by the characters that convert() makes of it.                       *)
(***************************************************************************)
EXTENDS Integers, SequencesExt

CONSTANTS
    SIZE,               \* kSmallBuffer
    kMaxNumericSize

ASSUME SizesAssumption == SIZE \in Nat \ {0} /\ kMaxNumericSize \in Nat

-----------------------------------------------------------------------------
(* convert() and convertHex().                                             *)

digits == <<"9", "8", "7", "6", "5", "4", "3", "2", "1", "0",
            "1", "2", "3", "4", "5", "6", "7", "8", "9">>

zero(lsd) == digits[10 + lsd]

digitsHex == <<"0", "1", "2", "3", "4", "5", "6", "7", "8", "9", "A", "B", "C", "D", "E", "F">>

(* i / 10 and i % 10 of C++, which round towards zero: a negative i has a  *)
(* negative remainder.                                                     *)
Rem(i) == IF i < 0 /\ i % 10 # 0 THEN (i % 10) - 10 ELSE i % 10

Quot(i) == IF i < 0 /\ i % 10 # 0 THEN (i \div 10) + 1 ELSE i \div 10

(* Seeded fault: while instead of do while. *)
LsdFirst_While(value) ==
    LET from[i \in Int] == IF i = 0 THEN <<>> ELSE <<zero(Rem(i))>> \o from[Quot(i)]
    IN  from[value]

LsdFirst(value) ==
    LET from[i \in Int] ==
            <<zero(Rem(i))>> \o IF Quot(i) = 0 THEN <<>> ELSE from[Quot(i)]
    IN  from[value]

convert(value) == Reverse(LsdFirst(value) \o IF value < 0 THEN <<"-">> ELSE <<>>)

convertHex(value) ==
    LET from[i \in Nat] ==
            <<digitsHex[(i % 16) + 1]>> \o IF i \div 16 = 0 THEN <<>> ELSE from[i \div 16]
    IN  Reverse(from[value])

-----------------------------------------------------------------------------
(* FixedBuffer.  `high` is the end of what was ever written to data_,      *)
(* which may be beyond cur_.                                               *)

EmptyBuffer == [length |-> 0, high |-> 0, pieces |-> <<>>]

avail(b) == SIZE - b.length

Piece(kind, len) == [kind |-> kind, len |-> len, value |-> 0, text |-> <<>>]

Larger(i, j) == IF i > j THEN i ELSE j

(* len characters are written and kept, with `spare` more behind them. *)
Add(b, piece, spare) ==
    [length |-> b.length + piece.len,
     high |-> Larger(b.high, b.length + piece.len + spare),
     pieces |-> Append(b.pieces, piece)]

(* Seeded fault: the last byte is used, too. *)
append_Full(b, piece) == IF avail(b) >= piece.len THEN Add(b, piece, 0) ELSE b

append(b, piece) == IF avail(b) > piece.len THEN Add(b, piece, 0) ELSE b

-----------------------------------------------------------------------------
(* operator<<.  convert() and snprintf() put a NUL behind the number.      *)

Number(kind, value, text) ==
    [kind |-> kind, len |-> Len(text), value |-> value, text |-> text]

formatInteger(b, v) ==
    IF avail(b) >= kMaxNumericSize THEN Add(b, Number("integer", v, convert(v)), 1) ELSE b

formatPointer(b, v) ==
    IF avail(b) >= kMaxNumericSize
    THEN Add(b, Number("pointer", v, <<"0", "x">> \o convertHex(v)), 1) ELSE b

formatDouble(b, len) ==
    IF avail(b) >= kMaxNumericSize THEN Add(b, Piece("double", len), 1) ELSE b

(* const char* and std::string, of any length; a null pointer is "(null)". *)
formatText(b, str) ==
    append(b, IF str.null THEN Piece("null", 6) ELSE Piece("text", str.len))

-----------------------------------------------------------------------------
(* What a number must look like: read from the left it is the value again, *)
(* and it does not begin with a superfluous zero.                          *)

DigitOf(c) == (CHOOSE i \in DOMAIN digitsHex : digitsHex[i] = c) - 1

ValueOf(base, sign, text) ==
    LET upTo[k \in 0..Len(text)] == IF k = 0 THEN 0 ELSE base * upTo[k - 1] + sign * DigitOf(text[k])
    IN  upTo[Len(text)]

NoLeadingZero(text) == text # <<>> /\ (Head(text) = "0" => Len(text) = 1)

Denotes(p) ==
    CASE p.kind = "integer" ->
             LET negative == p.value < 0
                 text == IF negative THEN Tail(p.text) ELSE p.text
             IN  /\ negative => Head(p.text) = "-"
                 /\ NoLeadingZero(text)
                 /\ ValueOf(10, IF negative THEN -1 ELSE 1, text) = p.value
      [] p.kind = "pointer" ->
             /\ NoLeadingZero(SubSeq(p.text, 3, Len(p.text)))
             /\ ValueOf(16, 1, SubSeq(p.text, 3, Len(p.text))) = p.value
      [] OTHER -> TRUE
=============================================================================
