------------------------------- MODULE Strings -------------------------------
(***************************************************************************)
(* The values of mydss (class String of src/include/cmd/string.hpp and     *)
(* src/src/cmd/string.cpp), the conversions between texts and integers     *)
(* they rest on, and the pieces of a reply (src/src/module/piece.cpp).     *)
(*                                                                         *)
(* A text is a sequence of characters.  A digit is its value, the other    *)
(* characters that the conversions know have names, and Other stands for   *)
(* all the rest.  The code's base 10 and 64 bits are constants.            *)
(***************************************************************************)
EXTENDS Integers, Sequences

CONSTANTS
  Radix,   \* 10
  MaxInt   \* INT64_MAX

ASSUME StringsAssumption == Radix \in Nat \ {0, 1} /\ MaxInt \in Nat \ {0}

MinInt == -MaxInt - 1
Int64 == MinInt .. MaxInt

\* A number as uint64_t.
Unsigned(n) == n % (2 * (MaxInt + 1))

\* SIZE_MAX
MaxSize == 2 * (MaxInt + 1) - 1

Digit == 0 .. Radix - 1
Minus == -1
Plus == -2
Blank == -3
Other == -4
Char == Digit \cup {Minus, Plus, Blank, Other}
Text == Seq(Char)

-----------------------------------------------------------------------------
(* The C++ library. *)

Numeral[n \in Nat] ==
  IF n < Radix THEN <<n>> ELSE Append(Numeral[n \div Radix], n % Radix)

\* std::to_string of an integer.
ToText(n) == IF n < 0 THEN <<Minus>> \o Numeral[-n] ELSE Numeral[n]

\* std::to_string makes texts, not empty, of a size that size_t holds.
ToTextTyped == \A n \in Int64 : ToText(n) \in Text /\ Len(ToText(n)) \in 1 .. MaxSize

Saturated(n) == IF n \in Int64 THEN n ELSE IF n > MaxInt THEN MaxInt ELSE MinInt

\* Blanks are skipped, a sign is read, and digits up to the first character
\* that is none; 0 when there is no digit.
Scanned(text) ==
  LET skip[i \in Nat] ==
        IF i <= Len(text) /\ text[i] = Blank THEN skip[i + 1] ELSE i
      at == skip[1]
      signed == at <= Len(text) /\ text[at] \in {Minus, Plus}
      read[x \in Nat \X Nat] ==  \* the next character, the number before it
        IF x[1] <= Len(text) /\ text[x[1]] \in Digit
        THEN read[<<x[1] + 1, x[2] * Radix + text[x[1]]>>] ELSE x[2]
      size == read[<<IF signed THEN at + 1 ELSE at, 0>>]
  IN IF signed /\ text[at] = Minus THEN -size ELSE size

\* atoll
Atoll(text) == Saturated(Scanned(text))

-----------------------------------------------------------------------------
(* Arguments and values. *)

\* The test that the commands make of an integer argument: "0" itself, or
\* anything that atoll does not make 0.
IsInteger(text) == text = <<0>> \/ Atoll(text) # 0

Number(n) == [encoding |-> "int", n |-> n, str |-> <<>>]
Raw(text) == [encoding |-> "raw", n |-> 0, str |-> text]

\* String::SetValue.  "0" is made a number and then a text again; of a text
\* that begins with a number only the number is kept.
SetValue(text) == IF Atoll(text) # 0 THEN Number(Atoll(text)) ELSE Raw(text)

\* What every command that looks at a value makes of it.
TextOf(value) == IF value.encoding = "int" THEN ToText(value.n) ELSE value.str

\* Object::encoding(), which StringIncrBy looks at.  The member of the base
\* class is set by the constructor and hidden by the one that String changes.
ObjectEncoding(value) == "raw"

I64AddOverflow(a, b) ==
  \/ a > 0 /\ b > 0 /\ a > MaxInt - b
  \/ a < 0 /\ b < 0 /\ a < MinInt - b

-----------------------------------------------------------------------------
(* GETRANGE. *)

\* A negative index counts from the end.
FromEnd(i, size) == LET j == IF i < 0 THEN i + size ELSE i IN IF j < 0 THEN 0 ELSE j

\* Variant with a mistake: the last index may be the size.
ClippedLate(i, size) == IF i > Unsigned(size) THEN Unsigned(size) ELSE i

\* Variant with a mistake: an index behind the end is left as it is.
Unclipped(i, size) == i

\* An index that is not negative, against the unsigned size() - 1.
Clipped(i, size) == IF i > Unsigned(size - 1) THEN Unsigned(size - 1) ELSE i

First(start, size) == Clipped(FromEnd(start, size), size)
Last(end, size) == Clipped(FromEnd(end, size), size)

EmptyRange(start, end, size) == FromEnd(start, size) > FromEnd(end, size)

\* string::substr throws when it starts behind the end.
RangeThrows(start, end, size) == ~EmptyRange(start, end, size) /\ First(start, size) > size

\* The result otherwise; substr stops at the end of the text.
RangeOf(text, start, end) ==
  LET size == Len(text)
      last == Last(end, size)
  IN IF EmptyRange(start, end, size) THEN <<>>
     ELSE SubSeq(text, First(start, size) + 1, IF last < size THEN last + 1 ELSE size)

-----------------------------------------------------------------------------
(* Pieces. *)

Piece(type, n, text) == [type |-> type, n |-> n, text |-> text]
Integer(n) == Piece("integer", n, <<>>)
Array(n) == Piece("array", n, <<>>)
Bulk(text) == Piece("bulk", 0, text)
Null == Piece("null", 0, <<>>)

\* Simple strings, errors and words of the program; of their text only the
\* kind is kept.
Word(kind) == [type |-> "word", kind |-> kind]
Simple(kind) == [type |-> "simple", kind |-> kind]
Error(kind) == [type |-> "error", kind |-> kind]

U64StrLen[n \in Nat] == IF n < Radix THEN 1 ELSE 1 + U64StrLen[n \div Radix]

\* Variant with a mistake: the sign is not counted.
I64StrLenUnsigned(n) == U64StrLen[IF n >= 0 THEN n ELSE Unsigned(-n)]

\* The sign is taken off in uint64_t, for the sake of INT64_MIN.
I64StrLen(n) == IF n >= 0 THEN U64StrLen[n] ELSE 1 + U64StrLen[Unsigned(-n)]

\* Size(), the bytes that Session::Send provides for.
Size(piece) ==
  CASE piece.type \in {"integer", "array"} -> 1 + I64StrLen(piece.n) + 2
    [] piece.type = "bulk" -> 1 + U64StrLen[Len(piece.text)] + 2 + Len(piece.text) + 2
    [] piece.type = "null" -> 5

\* Serialize(), the bytes that it writes.
Written(piece) ==
  CASE piece.type \in {"integer", "array"} -> 1 + Len(ToText(piece.n)) + 2
    [] piece.type = "bulk" -> 1 + Len(ToText(Len(piece.text))) + 2 + Len(piece.text) + 2
    [] piece.type = "null" -> 5

=============================================================================
