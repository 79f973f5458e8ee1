--------------------------- MODULE CommandsProofs ---------------------------
(***************************************************************************)
(* Theorems about Strings and Commands, for any radix and width, any keys, *)
(* limits and texts.                                                       *)
(*                                                                         *)
(* std::to_string and atoll are recursions over digits and characters; the *)
(* first part is about digits.  Then the invariant of Commands and what    *)
(* follows from it; then that to_string and atoll do what Texts says of    *)
(* decimal texts; and last that every command is a step of Texts.          *)
(***************************************************************************)
EXTENDS Commands, Recursions, SequenceTheorems, FiniteSetTheorems, TLAPS

-----------------------------------------------------------------------------
(* Numbers and their digits.                                                 *)

USE StringsAssumption

\* The digits before the last one, and the last one.
LEMMA DivMod ==
  ASSUME NEW n \in Nat
  PROVE  /\ n \div Radix \in Nat /\ n % Radix \in Digit
         /\ n = Radix * (n \div Radix) + (n % Radix)
         /\ n >= Radix => n \div Radix \in 1 .. n - 1
<1>1. n \div Radix \in Int /\ n % Radix \in 0 .. Radix - 1 /\ n = Radix * (n \div Radix) + (n % Radix)
  BY Z3
<1> DEFINE q == n \div Radix
           s == n % Radix
<1>2. q \in Int /\ s \in 0 .. Radix - 1 /\ n = Radix * q + s
  BY <1>1
<1> HIDE DEF q, s
<1>3. q >= 0
  <2> SUFFICES ASSUME q <= -1 PROVE FALSE
    BY <1>2
  <2>1. Radix * q <= -Radix
    BY <1>2, Z3
  <2> QED
    BY <1>2, <2>1
<1>4. ASSUME n >= Radix PROVE q \in 1 .. n - 1
  <2>1. q # 0
    BY <1>2, <1>4
  <2>2. q >= 1
    BY <1>2, <1>3, <2>1
  <2>3. Radix * q >= 2 * q
    BY <1>2, <2>2, Z3
  <2> QED
    BY <1>2, <2>2, <2>3
<1> QED
  BY <1>2, <1>3, <1>4 DEF q, s, Digit

\* A number without its last digit, and that digit.
Front(n) == n \div Radix
End(n) == n % Radix

\* A number of several digits: the ones before the last are a smaller number.
LEMMA Shorter ==
  ASSUME NEW n \in Nat
  PROVE  /\ Front(n) \in Nat /\ End(n) \in Digit
         /\ n >= Radix => Front(n) \in 1 .. n - 1
BY DivMod DEF Front, End

\* Taking off the last digit comes to an end.
Fronts == [n \in Nat |-> Front(n)]

\* The digits of a number come to an end.
LEMMA DigitDescends == Descends(Nat, Digit, Fronts, Itself)
<1>1. Fronts \in [Nat -> Nat] /\ Itself \in [Nat -> Nat]
  BY Shorter DEF Fronts, Itself
<1>2. ASSUME NEW n \in Nat, n \notin Digit PROVE Itself[Fronts[n]] < Itself[n]
  <2> DEFINE q == Front(n)
  <2>1. q \in 1 .. n - 1
    BY <1>2, Shorter DEF Digit
  <2>2. Fronts[n] = q
    BY DEF Fronts
  <2> HIDE DEF q
  <2> QED
    BY <2>1, <2>2 DEF Itself
<1> QED
  BY <1>1, <1>2 DEF Descends

\* What is true of each number whose front has it, if it has one, is true of all.
LEMMA DigitInduction ==
  ASSUME NEW S, \A n \in Nat : (n >= Radix => Front(n) \in S) => n \in S
  PROVE  \A n \in Nat : n \in S
<1>1. ASSUME NEW n \in Nat, n \in Digit \/ Fronts[n] \in S PROVE n \in S
  BY <1>1 DEF Fronts, Digit
<1> QED
  BY <1>1, DigitDescends, Descent

-----------------------------------------------------------------------------
(* std::to_string and the sizes.                                             *)

\* The numeral of a number is what its definition says.
LEMMA NumeralIs ==
  /\ \A n \in Nat : /\ n < Radix => Numeral[n] = <<n>>
                    /\ n >= Radix => Numeral[n] = Append(Numeral[Front(n)], End(n))
  /\ Numeral \in [Nat -> Seq(Digit)]
<1> DEFINE V == Seq(Digit)
           a == [n \in Nat |-> IF n \in Digit THEN <<n>> ELSE <<0>>]
           F == [p \in V \X Nat |-> Append(p[1], End(p[2]))]
<1>1. a \in [Nat -> V]
  <2>1. ASSUME NEW n \in Digit PROVE <<n>> \in V
    OBVIOUS
  <2>2. 0 \in Digit
    BY DEF Digit
  <2> HIDE DEF V
  <2> QED
    BY <2>1, <2>2
<1>2. F \in [V \X Nat -> V]
  <2>1. ASSUME NEW s \in V, NEW n \in Nat PROVE Append(s, End(n)) \in V
    <3>1. End(n) \in Digit
      BY Shorter
    <3> QED
      BY <3>1
  <2> HIDE DEF V
  <2>2. \A p \in V \X Nat : Append(p[1], End(p[2])) \in V
    BY <2>1
  <2> QED
    BY <2>2
<1>3. PICK f \in [Nat -> V] : Obeys(f, Nat, Digit, Fronts, a, F)
  <2> HIDE DEF V, a, F
  <2> QED
    BY <1>1, <1>2, DigitDescends, Recursion
<1> DEFINE G(n) == IF n < Radix THEN <<n>> ELSE Append(f[Front(n)], End(n))
<1>4. ASSUME NEW n \in Nat PROVE f[n] = G(n)
  <2> DEFINE q == Front(n)
  <2>1. q \in Nat /\ f[q] \in V /\ Fronts[n] = q
    BY <1>3, Shorter DEF Fronts
  <2>2. F[<<f[q], n>>] = Append(f[q], End(n))
    <3> HIDE DEF q, V
    <3> QED
      BY <2>1
  <2>3. n \in Digit => a[n] = <<n>>
    OBVIOUS
  <2>4. f[n] = IF n \in Digit THEN a[n] ELSE F[<<f[q], n>>]
    BY <1>3, <2>1 DEF Obeys, Turn
  <2>5. n \in Digit <=> n < Radix
    BY DEF Digit
  <2> HIDE DEF q, a, F
  <2>6. f[n] = IF n < Radix THEN <<n>> ELSE Append(f[q], End(n))
    BY <2>2, <2>3, <2>4, <2>5, Zenon
  <2> QED
    BY <2>6 DEF q
<1>5. f = [n \in Nat |-> G(n)]
  <2>1. f = [n \in Nat |-> f[n]]
    BY <1>3
  <2> HIDE DEF G
  <2> QED
    BY <1>4, <2>1
<1>6. \E g : g = [n \in Nat |-> IF n < Radix THEN <<n>> ELSE Append(g[Front(n)], End(n))]
  BY <1>5
<1>7. Numeral = [n \in Nat |-> IF n < Radix THEN <<n>> ELSE Append(Numeral[Front(n)], End(n))]
  BY <1>6 DEF Numeral, Front, End
<1> HIDE DEF G
<1>8. ASSUME NEW n \in Nat
      PROVE  /\ n < Radix => Numeral[n] = <<n>>
             /\ n >= Radix => Numeral[n] = Append(Numeral[Front(n)], End(n))
  <2>1. Numeral[n] = IF n < Radix THEN <<n>> ELSE Append(Numeral[Front(n)], End(n))
    BY <1>7
  <2>2. n >= Radix => ~(n < Radix)
    OBVIOUS
  <2> QED
    BY <2>1, <2>2, Zenon
<1> DEFINE S == {n \in Nat : Numeral[n] \in Seq(Digit)}
<1> HIDE DEF V, a, F
<1>9. ASSUME NEW n \in Nat, n >= Radix => Front(n) \in S PROVE n \in S
  <2>1. CASE n < Radix
    <3>1. n \in Digit
      BY <2>1 DEF Digit
    <3>2. <<n>> \in Seq(Digit)
      BY <3>1
    <3>3. Numeral[n] = <<n>>
      BY <1>8, <2>1, Zenon
    <3> QED
      BY <3>2, <3>3, Zenon
  <2>2. CASE n >= Radix
    <3> DEFINE front == Numeral[Front(n)]
    <3>1. Numeral[n] = Append(front, End(n))
      BY <1>8, <2>2, Zenon
    <3>2. front \in Seq(Digit)
      BY <1>9, <2>2, Zenon
    <3>3. End(n) \in Digit
      BY Shorter
    <3> HIDE DEF front
    <3>4. Append(front, End(n)) \in Seq(Digit)
      BY <3>2, <3>3
    <3> QED
      BY <3>1, <3>4, Zenon
  <2> QED
    BY <2>1, <2>2
<1>10. \A n \in Nat : n \in S
  <2> HIDE DEF S
  <2> QED
    BY <1>9, DigitInduction
<1>11. DOMAIN Numeral = Nat /\ \A n \in Nat : Numeral[n] \in Seq(Digit)
  BY <1>7, <1>10
<1>12. Numeral = [n \in Nat |-> Numeral[n]]
  BY <1>7
<1>13. Numeral \in [Nat -> Seq(Digit)]
  BY <1>11, <1>12
<1> QED
  BY <1>8, <1>13

\* How many digits a number has.
Places(n) == Len(Numeral[n])

\* One digit, or one more than the front has.
LEMMA PlacesIs ==
  ASSUME NEW n \in Nat
  PROVE  /\ Places(n) \in Nat
         /\ n < Radix => Places(n) = 1
         /\ n >= Radix => Places(n) = 1 + Places(Front(n))
<1>1. Numeral[n] \in Seq(Digit)
  BY NumeralIs
<1>2. Len(Numeral[n]) \in Nat
  BY <1>1
<1>3. ASSUME n < Radix PROVE Len(Numeral[n]) = 1
  <2>1. Numeral[n] = <<n>>
    BY <1>3, NumeralIs, Zenon
  <2> QED
    BY <2>1
<1>4. ASSUME n >= Radix PROVE Len(Numeral[n]) = 1 + Len(Numeral[Front(n)])
  <2> DEFINE front == Numeral[Front(n)]
  <2>1. front \in Seq(Digit)
    <3>1. Front(n) \in Nat
      BY Shorter
    <3> QED
      BY <3>1, NumeralIs
  <2>2. Numeral[n] = Append(front, End(n))
    BY <1>4, NumeralIs, Zenon
  <2> HIDE DEF front
  <2>3. Len(Append(front, End(n))) = 1 + Len(front)
    BY <2>1
  <2> QED
    BY <2>2, <2>3 DEF front
<1> QED
  BY <1>2, <1>3, <1>4, Zenon DEF Places

\* A number in decimal form has no more digits than the number says, but for 0.
LEMMA NumeralLength ==
  ASSUME NEW n \in Nat
  PROVE  Places(n) >= 1 /\ (n >= 1 => Places(n) <= n)
<1> DEFINE S == {i \in Nat : Places(i) >= 1 /\ (i >= 1 => Places(i) <= i)}
<1>1. ASSUME NEW i \in Nat, i >= Radix => Front(i) \in S PROVE i \in S
  BY <1>1, PlacesIs, Shorter
<1>2. \A i \in Nat : i \in S
  <2> HIDE DEF S
  <2> QED
    BY <1>1, DigitInduction
<1> QED
  BY <1>2

\* std::to_string makes texts, not empty and never longer than a string can be,
\* of every integer of 64 bits.
THEOREM ToTextCorrect == ToTextTyped
<1> SUFFICES ASSUME NEW n \in Int64
             PROVE  ToText(n) \in Text /\ Len(ToText(n)) \in 1 .. MaxSize
  BY DEF ToTextTyped
<1>1. n \in Int /\ -MaxInt - 1 <= n /\ n <= MaxInt /\ MaxInt \in Nat /\ MaxInt >= 1
  BY DEF Int64, MinInt
<1>2. Seq(Digit) \subseteq Text /\ <<Minus>> \in Text
  BY DEF Text, Char
<1>3. CASE n >= 0
  <2>1. ToText(n) = Numeral[n]
    BY <1>1, <1>3 DEF ToText
  <2>2. n \in Nat
    BY <1>1, <1>3
  <2>3. Numeral[n] \in Seq(Digit) /\ Len(Numeral[n]) \in Nat
    BY <2>2, NumeralIs
  <2>4. Places(n) >= 1 /\ (n >= 1 => Places(n) <= n) /\ (n = 0 => Places(n) = 1)
    BY <2>2, NumeralLength, PlacesIs
  <2>5. Places(n) \in 1 .. MaxSize
    BY <1>1, <2>2, <2>4, PlacesIs DEF MaxSize
  <2> QED
    BY <1>2, <2>1, <2>3, <2>5 DEF Places
<1>4. CASE n < 0
  <2> DEFINE m == -n
             text == Numeral[m]
  <2>1. ToText(n) = <<Minus>> \o text
    BY <1>4 DEF ToText
  <2>2. m \in 1 .. MaxInt + 1 /\ m \in Nat
    BY <1>1, <1>4
  <2> HIDE DEF m
  <2>3. text \in Seq(Digit) /\ Len(text) \in Nat
    BY <2>2, NumeralIs
  <2>4. Len(text) >= 1 /\ Len(text) <= m
    BY <2>2, NumeralLength DEF Places
  <2> HIDE DEF text
  <2>5. <<Minus>> \o text \in Text
    BY <1>2, <2>3 DEF Text
  <2>6. Len(<<Minus>> \o text) = Len(text) + 1
    BY <2>3
  <2> QED
    BY <1>1, <2>1, <2>2, <2>3, <2>4, <2>5, <2>6 DEF MaxSize
<1> QED
  BY <1>1, <1>3, <1>4

\* U64StrLen counts the digits of std::to_string.
LEMMA U64StrLenIs ==
  ASSUME NEW n \in Nat
  PROVE  U64StrLen[n] = Len(Numeral[n])
<1> DEFINE f == [i \in Nat |-> Places(i)]
           G(i) == IF i < Radix THEN 1 ELSE 1 + f[Front(i)]
           S == {i \in Nat : U64StrLen[i] = Places(i)}
<1>1. f = [i \in Nat |-> G(i)]
  <2>1. ASSUME NEW i \in Nat PROVE Places(i) = G(i)
    BY PlacesIs, Shorter
  <2> HIDE DEF G
  <2> QED
    BY <2>1
<1> HIDE DEF f
<1>2. \E g : g = [i \in Nat |-> IF i < Radix THEN 1 ELSE 1 + g[Front(i)]]
  BY <1>1
<1>3. U64StrLen = [i \in Nat |-> IF i < Radix THEN 1 ELSE 1 + U64StrLen[Front(i)]]
  BY <1>2 DEF U64StrLen, Front
<1>4. ASSUME NEW i \in Nat PROVE U64StrLen[i] = IF i < Radix THEN 1 ELSE 1 + U64StrLen[Front(i)]
  BY <1>3
<1>5. ASSUME NEW i \in Nat, i >= Radix => Front(i) \in S PROVE i \in S
  BY <1>4, <1>5, PlacesIs
<1>6. \A i \in Nat : i \in S
  <2> HIDE DEF S
  <2> QED
    BY <1>5, DigitInduction
<1> QED
  BY <1>6 DEF Places

-----------------------------------------------------------------------------
(* Arithmetic. *)

\* The limits of the integers.
LEMMA Limits == MaxInt \in Nat /\ MaxInt > 0 /\ MinInt = -MaxInt - 1 /\ 0 \in Int64
BY StringsAssumption DEF MinInt, Int64

\* atoll returns an int64_t, whatever the text is.
LEMMA AtollTyped == \A text : Atoll(text) \in Int64
<1>1. ASSUME NEW n PROVE Saturated(n) \in Int64
  <2>1. MaxInt \in Int64 /\ MinInt \in Int64 BY Limits DEF Int64
  <2> QED BY <2>1 DEF Saturated
<1> QED BY <1>1 DEF Atoll

\* I64AddOverflow says exactly when a sum leaves the range, and computes
\* nothing that leaves it on the way (string.cpp:35 to 47).
THEOREM OverflowExact ==
  ASSUME NEW a \in Int64, NEW b \in Int64
  PROVE  /\ I64AddOverflow(a, b) <=> a + b \notin Int64
         /\ b > 0 => MaxInt - b \in Int64
         /\ b < 0 => MinInt - b \in Int64
BY Limits DEF I64AddOverflow, Int64

\* The clipped start of a range is behind the end of a text only if the text is
\* empty and the start is not 0: substr throws for nothing else.
LEMMA RangeThrowsOnlyEmpty ==
  ASSUME NEW text \in Text, NEW start \in Int64, NEW end \in Int64,
         Len(text) <= MaxSize, RangeThrows(start, end, Len(text))
  PROVE  Len(text) = 0 /\ start > 0
<1> DEFINE size == Len(text)
<1>1. size \in Nat /\ size <= 2 * (MaxInt + 1) - 1 BY DEF Text, MaxSize
<1>2. start \in Int /\ end \in Int /\ MaxInt \in Nat BY Limits DEF Int64
<1> HIDE DEF size
<1>3. FromEnd(start, size) \in Nat
  BY <1>1, <1>2 DEF FromEnd
<1>4. First(start, size) > size
  BY DEF RangeThrows, size
<1>5. size = 0
  <2> SUFFICES ASSUME size > 0 PROVE FALSE
    BY <1>1
  <2>1. size - 1 \in 0 .. 2 * (MaxInt + 1) - 1
    BY <1>1, <1>2
  <2>2. (size - 1) % (2 * (MaxInt + 1)) = size - 1
    BY <2>1, <1>2
  <2>3. Clipped(FromEnd(start, size), size) <= size
    BY <2>2, <1>1, <1>3 DEF Clipped, Unsigned
  <2>4. First(start, size) <= size BY <2>3 DEF First
  <2>5. First(start, size) \in Int
    BY <2>2, <1>1, <1>3 DEF First, Clipped, Unsigned
  <2> QED BY <2>4, <2>5, <1>4, <1>1
<1>6. start > 0
  <2> SUFFICES ASSUME start <= 0 PROVE FALSE
    BY <1>2
  <2>1. FromEnd(start, size) = 0
    BY <1>2, <1>5 DEF FromEnd
  <2>2. Unsigned(size - 1) \in Nat
    BY <1>1, <1>2 DEF Unsigned
  <2>3. Clipped(0, size) <= 0
    BY <2>2 DEF Clipped
  <2>4. First(start, size) <= 0 /\ First(start, size) > 0
    BY <2>1, <2>3, <1>4, <1>5 DEF First
  <2>5. First(start, size) \in Int
    BY <2>1, <2>2 DEF First, Clipped
  <2> QED BY <2>4, <2>5
<1> QED BY <1>5, <1>6 DEF size

-----------------------------------------------------------------------------
(* Replies. *)

\* What StringIncrBy, which INCR, DECR, INCRBY and DECRBY share, sends.
LEMMA IncrReplies ==
  ASSUME NEW key, NEW n, StringIncrBy(key, n)
  PROVE  Whole(out')
BY DEF StringIncrBy, Finish, Reply, Whole, Integer, NotInteger, Error, Piece

\* One piece that starts no array is a whole reply.
LEMMA OnePiece ==
  ASSUME NEW piece, piece.type # "array", out' = <<piece>>
  PROVE  Whole(out')
BY DEF Whole

\* Each request but the three kinds that are refused in silence gets exactly one
\* whole reply, whatever the keys hold, unless it ends the process.
THEOREM RepliesWhole == Spec => RepliesAreWhole
<1>1. ASSUME Next, up', ~Silent(call') PROVE Whole(out')
  <2> USE <1>1
  <2> USE DEF Finish, Reply
  <2>1. ASSUME NEW key \in Keys,
               Get(key) \/ GetDel(key) \/ StrLen(key) \/ ObjectEncodingOf(key)
        PROVE  Whole(out')
    <3>1. \E piece : piece.type # "array" /\ out' = <<piece>>
      BY <2>1 DEF Get, GetDel, StrLen, ObjectEncodingOf, Item, Bulk, Null, Integer, Word, Piece
    <3> QED BY <3>1, OnePiece
  <2>2. ASSUME NEW key \in Keys, Incr(key) \/ Decr(key)
        PROVE  Whole(out')
    BY <2>2, IncrReplies DEF Incr, Decr
  <2>3. ASSUME NEW key \in Keys, NEW text \in Inputs, Set(key, text) \/ AppendTo(key, text)
        PROVE  Whole(out')
    <3>1. \E piece : piece.type # "array" /\ out' = <<piece>>
      BY <2>3 DEF Set, AppendTo, Ok, Simple, Integer, Piece
    <3> QED BY <3>1, OnePiece
  <2>4. ASSUME NEW key \in Keys, NEW text \in Inputs, IncrBy(key, text)
        PROVE  Whole(out')
    <3>1. call'.cmd = "incrby" /\ call'.texts[1] = text
      BY <2>4 DEF IncrBy, Request
    <3>2. StringIncrBy(key, Atoll(text))
      BY <2>4, <3>1 DEF IncrBy, Silent
    <3> QED BY <3>2, IncrReplies
  <2>5. ASSUME NEW key \in Keys, NEW text \in Inputs, DecrBy(key, text)
        PROVE  Whole(out')
    <3>1. CASE StringIncrBy(key, -Atoll(text)) BY <3>1, IncrReplies
    <3>2. CASE out' = <<NotInteger>>
      BY <3>2, OnePiece DEF NotInteger, Error
    <3> QED BY <2>5, <3>1, <3>2 DEF DecrBy
  <2>6. ASSUME NEW key \in Keys, NEW from \in Indexes, NEW to \in Indexes,
               GetRange(key, from, to)
        PROVE  Whole(out')
    <3>1. \E piece : piece.type # "array" /\ out' = <<piece>>
      BY <2>6 DEF GetRange, Fall, NotInteger, Error, Bulk, Piece
    <3> QED BY <3>1, OnePiece
  <2>7. ASSUME NEW keys \in KeySeqs, MGet(keys)
        PROVE  Whole(out')
    <3>1. PICK n \in 0 .. MaxArgs : keys \in [1 .. n -> Keys]
      BY DEF KeySeqs
    <3>2. n \in Nat /\ Len(keys) = n
      BY <3>1, CommandsAssumption
    <3> DEFINE items == [i \in 1 .. Len(keys) |-> Item(keys[i])]
    <3>3. items \in Seq({Item(key) : key \in Keys}) /\ Len(items) = n
      BY <3>1, <3>2
    <3>4. out' = <<Array(Len(keys))>> \o items
      BY <2>7 DEF MGet
    <3> HIDE DEF items
    <3>5. out' # <<>> /\ Len(out') = n + 1 /\ out'[1] = Array(n)
      BY <3>2, <3>3, <3>4
    <3>6. ASSUME NEW i \in 2 .. Len(out') PROVE out'[i].type # "array"
      <4>1. out'[i] = items[i - 1] /\ i - 1 \in 1 .. n
        BY <3>2, <3>3, <3>4, <3>5
      <4>2. PICK key \in Keys : out'[i] = Item(key)
        BY <3>3, <4>1
      <4> QED BY <4>2 DEF Item, Bulk, Null, Piece
    <3>7. out'[1].type = "array" /\ out'[1].n = n
      BY <3>5 DEF Array, Piece
    <3> QED BY <3>5, <3>6, <3>7 DEF Whole
  <2>8. ASSUME NEW keys \in KeySeqs, NEW texts, MSet(keys, texts)
        PROVE  Whole(out')
    BY <2>8, OnePiece DEF MSet, Ok, Simple
  <2>9. ASSUME NEW text \in Inputs, Select(text) \/ Echo(text)
        PROVE  Whole(out')
    <3>1. \E piece : piece.type # "array" /\ out' = <<piece>>
      BY <2>9 DEF Select, Echo, NotInteger, Error, Ok, Simple, Bulk, Piece
    <3> QED BY <3>1, OnePiece
  <2>10. CASE GetDelNothing \/ Ping \/ ClientSetName \/ ClientGetName \/ ClientId \/ Refuse
    <3>1. \E piece : piece.type # "array" /\ out' = <<piece>>
      BY <2>10 DEF GetDelNothing, Ping, ClientSetName, ClientGetName, ClientId, Refuse, Fall,
                   Item, Ok, Simple, Null, Bulk, Integer, Arity, Error, Piece
    <3> QED BY <3>1, OnePiece
  <2>11. ~RefuseSilently
    <3>1. ASSUME RefuseSilently PROVE call'.cmd = "refuse silently"
      <4>1. call' = Request("refuse silently", <<>>, <<>>) BY <3>1 DEF RefuseSilently
      <4> QED BY <4>1 DEF Request
    <3> QED BY <3>1 DEF Silent
  <2> QED BY <2>1, <2>2, <2>3, <2>4, <2>5, <2>6, <2>7, <2>8, <2>9, <2>10, <2>11 DEF Next
<1>2. [Next]_vars => [up' /\ ~Silent(call') => Whole(out')]_vars
  BY <1>1
<1> QED BY <1>2, PTL DEF Spec, RepliesAreWhole

-----------------------------------------------------------------------------
(* What the keys hold. *)

\* A value that is kept as a text begins with no number but 0.
Plain(value) == value.encoding = "raw" => Atoll(value.str) = 0

\* A database of values whose texts are not longer than a string can be.
Held(objs) ==
  /\ DOMAIN objs \subseteq Keys
  /\ \A k \in DOMAIN objs :
       objs[k] \in Values /\ Len(TextOf(objs[k])) <= MaxSize /\ Plain(objs[k])

\* The inductive invariant.
HoldsTexts == TypeOK /\ \A d \in Dbs : Held(dbs[d])

\* A number that is stored.
LEMMA NumberHeld ==
  ASSUME NEW n \in Int64
  PROVE  /\ Number(n) \in Values /\ Plain(Number(n))
         /\ TextOf(Number(n)) = ToText(n) /\ Len(ToText(n)) <= MaxSize
<1>1. Number(n) \in Values
  BY EmptySeq DEF Number, Values, Text
<1>2. Len(ToText(n)) \in 1 .. MaxSize /\ MaxSize \in Int
  BY Limits, ToTextCorrect DEF ToTextTyped, MaxSize
<1>3. TextOf(Number(n)) = ToText(n) /\ Plain(Number(n))
  BY DEF Number, TextOf, Plain
<1> QED BY <1>1, <1>2, <1>3

\* A text that is stored.
LEMMA SetValueHeld ==
  ASSUME NEW text \in Text, Len(text) <= MaxSize
  PROVE  /\ SetValue(text) \in Values /\ Plain(SetValue(text))
         /\ Len(TextOf(SetValue(text))) <= MaxSize
<1>1. CASE Atoll(text) # 0
  <2>1. SetValue(text) = Number(Atoll(text)) BY <1>1 DEF SetValue
  <2> QED BY <2>1, AtollTyped, NumberHeld
<1>2. CASE Atoll(text) = 0
  <2>1. SetValue(text) = Raw(text) BY <1>2 DEF SetValue
  <2>2. Raw(text) \in Values BY Limits DEF Raw, Values
  <2>3. TextOf(Raw(text)) = text /\ Plain(Raw(text)) BY <1>2 DEF Raw, TextOf, Plain
  <2> QED BY <2>1, <2>2, <2>3
<1> QED BY <1>1, <1>2

\* What a key holds is a text.
LEMMA TextOfTyped ==
  ASSUME NEW value \in Values
  PROVE  TextOf(value) \in Text
BY ToTextCorrect DEF ToTextTyped, TextOf, Values

\* The selected database is one of those that hold texts.
LEMMA DbHeld ==
  ASSUME HoldsTexts
  PROVE  cur_db \in Dbs /\ Held(Db)
BY DEF HoldsTexts, TypeOK, Db

\* One more value, and one less.
LEMMA PutHeld ==
  ASSUME NEW objs, Held(objs), NEW key \in Keys, NEW value \in Values,
         Len(TextOf(value)) <= MaxSize, Plain(value)
  PROVE  Held(Put(objs, key, value)) /\ Held(Without(objs, key))
BY DEF Held, Put, Without

\* A request that leaves such a database preserves the invariant.
LEMMA FinishHolds ==
  ASSUME HoldsTexts, NEW objs, Held(objs), NEW pieces, Finish(objs, pieces)
  PROVE  HoldsTexts'
<1>1. /\ up' = up /\ cur_db' = cur_db /\ DOMAIN dbs' = Dbs
      /\ \A d \in Dbs : dbs'[d] = IF d = cur_db THEN objs ELSE dbs[d]
  BY DEF Finish, HoldsTexts, TypeOK
<1>2. \A d \in Dbs : Held(dbs'[d])
  BY <1>1 DEF HoldsTexts
<1>3. (\A d \in Dbs : Held(dbs[d]))'
  BY <1>2 DEF Held, Dbs, Values
<1> QED BY <1>1, <1>2, <1>3 DEF HoldsTexts, TypeOK, Held, Dbs, Values

\* INCR and its like add at most one number.
LEMMA IncrHolds ==
  ASSUME HoldsTexts, NEW key \in Keys, NEW n \in Int64, StringIncrBy(key, n)
  PROVE  HoldsTexts'
<1>1. CASE ~Has(key)
  <2>1. Number(n) \in Values /\ Len(TextOf(Number(n))) <= MaxSize /\ Plain(Number(n))
    BY NumberHeld
  <2>2. Held(Put(Db, key, Number(n)))
    BY <2>1, DbHeld, PutHeld
  <2> QED BY <1>1, <2>2, FinishHolds DEF StringIncrBy
<1>2. CASE Has(key)
  <2>1. Finish(Db, <<NotInteger>>)
    BY <1>2 DEF StringIncrBy, ObjectEncoding, Reply
  <2> QED BY <2>1, DbHeld, FinishHolds
<1> QED BY <1>1, <1>2

\* Every command preserves the invariant.
LEMMA HoldsStep ==
  ASSUME HoldsTexts, [Next]_vars
  PROVE  HoldsTexts'
<1>1. cur_db \in Dbs /\ Held(Db)
  BY DbHeld
<1>2. \A text \in Inputs \cup Pairs : text \in Text /\ Len(text) <= MaxSize
  BY CommandsAssumption
<1>3. \A text : Atoll(text) \in Int64
  BY AtollTyped
<1>4. \A key : Held(Without(Db, key))
  BY <1>1 DEF Held, Without
<1>5. ASSUME Fall PROVE HoldsTexts'
  BY <1>5 DEF Fall, HoldsTexts, TypeOK, Held, Dbs, Values
<1>6. ASSUME NEW pieces, Finish(Db, pieces) PROVE HoldsTexts'
  BY <1>1, <1>6, FinishHolds
<1>7. ASSUME NEW piece, Reply(piece) PROVE HoldsTexts'
  BY <1>6, <1>7 DEF Reply
<1>8. ASSUME NEW key \in Keys, Incr(key) \/ Decr(key) PROVE HoldsTexts'
  <2>1. 1 \in Int64 /\ -1 \in Int64 BY Limits DEF Int64
  <2> QED BY <1>8, <2>1, IncrHolds DEF Incr, Decr
<1>9. ASSUME NEW key, GetDel(key) PROVE HoldsTexts'
  BY <1>4, <1>9, FinishHolds DEF GetDel
<1>10. ASSUME NEW key \in Keys, NEW text \in Inputs, Set(key, text) PROVE HoldsTexts'
  <2>1. Held(Put(Db, key, SetValue(text)))
    BY <1>1, <1>2, SetValueHeld, PutHeld
  <2> QED BY <1>10, <2>1, FinishHolds DEF Set
<1>11. ASSUME NEW key \in Keys, NEW text \in Inputs, AppendTo(key, text) PROVE HoldsTexts'
  <2>1. CASE ~Has(key)
    <3>1. Held(Put(Db, key, SetValue(text)))
      BY <1>1, <1>2, SetValueHeld, PutHeld
    <3> QED BY <1>11, <2>1, <3>1, FinishHolds DEF AppendTo
  <2>2. CASE Has(key)
    <3>1. Db[key] \in Values BY <1>1, <2>2 DEF Held, Has
    <3>2. TextOf(Db[key]) \in Text /\ text \in Text
      BY <3>1, <1>2, TextOfTyped
    <3>3. Joined(Db[key], text) \in Text
          /\ Len(Joined(Db[key], text)) = Len(TextOf(Db[key])) + Len(text)
      BY <3>2 DEF Joined, Text
    <3>4. Len(TextOf(Db[key])) + Len(text) <= MaxText
      BY <1>11, <2>2 DEF AppendTo
    <3>5. Len(Joined(Db[key], text)) <= MaxSize
      <4>1. MaxText \in 0 .. MaxSize /\ MaxSize \in Int
        BY Limits, CommandsAssumption DEF MaxSize
      <4>2. Len(TextOf(Db[key])) \in Nat /\ Len(text) \in Nat
        BY <3>2 DEF Text
      <4> QED BY <3>3, <3>4, <4>1, <4>2
    <3>6. Held(Put(Db, key, SetValue(Joined(Db[key], text))))
      BY <1>1, <3>3, <3>5, SetValueHeld, PutHeld
    <3> QED BY <1>11, <2>2, <3>6, FinishHolds DEF AppendTo
  <2> QED BY <2>1, <2>2
<1>12. ASSUME NEW key \in Keys, NEW text \in Inputs, IncrBy(key, text) PROVE HoldsTexts'
  BY <1>3, <1>6, <1>12, IncrHolds DEF IncrBy
<1>13. ASSUME NEW key \in Keys, NEW text \in Inputs, DecrBy(key, text) PROVE HoldsTexts'
  <2>1. \A n \in Int64 : n # MinInt => -n \in Int64
    BY Limits DEF Int64
  <2> QED BY <1>3, <1>7, <1>13, <2>1, IncrHolds DEF DecrBy
<1>14. ASSUME NEW keys \in KeySeqs, NEW texts \in [DOMAIN keys -> Pairs], MSet(keys, texts)
       PROVE  HoldsTexts'
  <2> DEFINE last(i, key) == keys[i] = key /\ \A j \in i + 1 .. Len(keys) : keys[j] # key
             named == {key \in Keys : \E i \in DOMAIN keys : last(i, key)}
             value(key) == SetValue(texts[CHOOSE i \in DOMAIN keys : last(i, key)])
             objs == [key \in DOMAIN Db \cup named |->
                        IF key \in named THEN value(key) ELSE Db[key]]
  <2>1. Finish(objs, <<Ok>>) BY <1>14 DEF MSet
  <2>2. ASSUME NEW key \in named
        PROVE  value(key) \in Values /\ Len(TextOf(value(key))) <= MaxSize /\ Plain(value(key))
    <3> DEFINE i == CHOOSE i \in DOMAIN keys : last(i, key)
    <3>1. i \in DOMAIN keys BY <2>2
    <3>2. texts[i] \in Pairs BY <3>1
    <3>3. texts[i] \in Text /\ Len(texts[i]) <= MaxSize BY <1>2, <3>2
    <3> HIDE DEF i
    <3>4. SetValue(texts[i]) \in Values /\ Len(TextOf(SetValue(texts[i]))) <= MaxSize
          /\ Plain(SetValue(texts[i]))
      BY <3>3, SetValueHeld
    <3> QED BY <3>4 DEF i
  <2>3. named \subseteq Keys OBVIOUS
  <2> HIDE DEF named, value
  <2>4. Held(objs) BY <1>1, <2>2, <2>3 DEF Held
  <2> HIDE DEF objs
  <2> QED BY <2>1, <2>4, FinishHolds
<1>15. ASSUME NEW text \in Inputs, Select(text) PROVE HoldsTexts'
  <2>1. CASE ~IsInteger(text) BY <1>7, <1>15, <2>1 DEF Select
  <2>2. CASE IsInteger(text)
    <3>1. UNCHANGED <<up, dbs>>
          /\ \/ cur_db' = cur_db
             \/ InstSelect(Narrowed(Atoll(text))) /\ cur_db' = Narrowed(Atoll(text))
      BY <1>15, <2>2 DEF Select
    <3>2. Narrowed(Atoll(text)) \in Int
      BY <1>3, Limits, CommandsAssumption DEF Narrowed, Int64
    <3>3. cur_db' \in Dbs
      BY <1>1, <3>1, <3>2, CommandsAssumption DEF InstSelect, Dbs
    <3> QED BY <3>1, <3>3 DEF HoldsTexts, TypeOK, Held, Dbs, Values
  <2> QED BY <2>1, <2>2
<1>16. ASSUME NEW key \in Keys, NEW from \in Indexes, NEW to \in Indexes, GetRange(key, from, to)
       PROVE  HoldsTexts'
  BY <1>5, <1>7, <1>16 DEF GetRange
<1>17. CASE GetDelNothing
  BY <1>4, <1>5, <1>17, FinishHolds DEF GetDelNothing
<1>18. CASE \/ \E key \in Keys : Get(key) \/ StrLen(key) \/ ObjectEncodingOf(key)
            \/ \E keys \in KeySeqs : MGet(keys)
            \/ \E text \in Inputs : Echo(text)
            \/ Ping \/ ClientSetName \/ ClientGetName \/ ClientId \/ Refuse \/ RefuseSilently
  BY <1>5, <1>6, <1>7, <1>18 DEF Get, StrLen, ObjectEncodingOf, MGet, Echo, Ping, ClientSetName,
       ClientGetName, ClientId, Refuse, RefuseSilently
<1>19. CASE UNCHANGED vars
  BY <1>19 DEF vars, HoldsTexts, TypeOK, Held, Dbs, Values
<1> QED BY <1>8, <1>9, <1>10, <1>11, <1>12, <1>13, <1>14, <1>15, <1>16, <1>17, <1>18, <1>19
        DEF Next

\* HoldsTexts is an inductive invariant: no text is longer than a string can be, and
\* what is kept as a text begins with no number but 0.
THEOREM HoldsAlways == Spec => []HoldsTexts
<1>1. Init => HoldsTexts
  <2>1. 0 \in Dbs BY CommandsAssumption, Limits DEF Dbs
  <2> QED BY <2>1 DEF Init, HoldsTexts, TypeOK, Held, Dbs
<1>2. HoldsTexts /\ [Next]_vars => HoldsTexts'
  BY HoldsStep
<1> QED BY <1>1, <1>2, PTL DEF Spec

\* Values stay values, and SELECT never leaves the databases, although the
\* index is narrowed to an int on the way.
THEOREM CommandsTypeCorrect == Spec => []TypeOK
<1>1. Spec => []HoldsTexts
  BY HoldsAlways
<1>2. HoldsTexts => TypeOK
  BY DEF HoldsTexts
<1> QED BY <1>1, <1>2, PTL

\* The only requests that can end the process are the three of
\* DownOnlyByStrayRead, whatever the texts, the indexes and the limits are.
THEOREM CommandsDownCorrect == Spec => DownOnlyByStrayRead
<1> DEFINE Stray ==
      up /\ ~up' =>
       \/ call'.cmd = "getname"
       \/ call'.cmd = "getdel" /\ call'.keys = <<>>
       \/ /\ call'.cmd = "getrange"
          /\ LET key == call'.keys[1]
             IN Has(key) /\ TextOf(Db[key]) = <<>> /\ Atoll(call'.texts[1]) > 0
<1>1. Spec => []HoldsTexts
  BY HoldsAlways
<1>2. ASSUME HoldsTexts, [Next]_vars PROVE [Stray]_vars
  <2> SUFFICES ASSUME Next, up, ~up' PROVE Stray
    BY <1>2
  <2>1. ASSUME NEW key \in Keys, NEW from \in Indexes, NEW to \in Indexes, GetRange(key, from, to)
        PROVE  Stray
    <3>1. call' = Request("getrange", <<key>>, <<from, to>>) BY <2>1 DEF GetRange
    <3>2. call'.cmd = "getrange" /\ call'.keys[1] = key /\ call'.texts[1] = from
      BY <3>1 DEF Request
    <3>3. Has(key) /\ RangeThrows(Atoll(from), Atoll(to), Len(TextOf(Db[key])))
      BY <2>1 DEF GetRange, Reply, Finish
    <3>4. Db[key] \in Values /\ Len(TextOf(Db[key])) <= MaxSize
      BY <1>2, <3>3, DbHeld DEF Held, Has
    <3>5. TextOf(Db[key]) \in Text BY <3>4, TextOfTyped
    <3>6. Len(TextOf(Db[key])) = 0 /\ Atoll(from) > 0
      BY <3>3, <3>4, <3>5, AtollTyped, RangeThrowsOnlyEmpty
    <3>7. TextOf(Db[key]) = <<>> BY <3>5, <3>6 DEF Text
    <3> QED BY <3>2, <3>3, <3>6, <3>7
  <2>2. CASE GetDelNothing BY <2>2 DEF GetDelNothing, Request
  <2>3. CASE ClientGetName BY <2>3 DEF ClientGetName, Request
  <2>4. ASSUME NEW pieces, NEW objs, Finish(objs, pieces) PROVE FALSE
    BY <2>4 DEF Finish
  <2>5. ASSUME NEW key, NEW n, StringIncrBy(key, n) PROVE FALSE
    BY <2>4, <2>5 DEF StringIncrBy, Reply
  <2>6. CASE \/ \E key \in Keys : Get(key) \/ GetDel(key) \/ StrLen(key) \/ Incr(key) \/ Decr(key)
                                  \/ ObjectEncodingOf(key)
             \/ \E key \in Keys, text \in Inputs :
                  Set(key, text) \/ AppendTo(key, text) \/ IncrBy(key, text) \/ DecrBy(key, text)
    BY <2>4, <2>5, <2>6 DEF Get, GetDel, StrLen, Incr, Decr, ObjectEncodingOf, Set, AppendTo, IncrBy,
                            DecrBy, Reply
  <2>7. CASE \/ \E keys \in KeySeqs : MGet(keys)
             \/ \E keys \in KeySeqs \ {<<>>} : \E texts \in [DOMAIN keys -> Pairs] : MSet(keys, texts)
             \/ \E text \in Inputs : Select(text) \/ Echo(text)
             \/ Ping \/ ClientSetName \/ ClientId \/ Refuse \/ RefuseSilently
    BY <2>4, <2>7 DEF MGet, MSet, Select, Echo, Ping, ClientSetName, ClientId, Refuse, RefuseSilently,
                      Reply
  <2> QED BY <2>1, <2>2, <2>3, <2>6, <2>7 DEF Next
<1> QED BY <1>1, <1>2, PTL DEF Spec, DownOnlyByStrayRead

-----------------------------------------------------------------------------
(* The sizes of pieces.                                                      *)

\* The piece is as long as it says.
Sized(piece) == piece.type \in {"integer", "array", "bulk", "null"} => Size(piece) = Written(piece)

\* An integer of 64 bits, and a count, are as long as I64StrLen says.
LEMMA StrLenIs ==
  ASSUME NEW n \in Int, n >= MinInt
  PROVE  I64StrLen(n) = Len(ToText(n))
<1>1. MaxInt \in Nat /\ -MaxInt - 1 <= n
  BY DEF MinInt
<1>2. CASE n >= 0
  <2>1. ToText(n) = Numeral[n] /\ I64StrLen(n) = U64StrLen[n]
    BY <1>2 DEF ToText, I64StrLen
  <2>2. n \in Nat
    BY <1>2
  <2> QED
    BY <2>1, <2>2, U64StrLenIs
<1>3. CASE n < 0
  <2> DEFINE m == -n
             text == Numeral[m]
  <2>1. ToText(n) = <<Minus>> \o text /\ I64StrLen(n) = 1 + U64StrLen[Unsigned(m)]
    BY <1>3 DEF ToText, I64StrLen
  <2>2. m \in 0 .. 2 * (MaxInt + 1) - 1 /\ m \in Nat
    BY <1>1, <1>3
  <2> HIDE DEF m
  <2>3. Unsigned(m) = m
    BY <1>1, <2>2 DEF Unsigned
  <2>4. text \in Seq(Digit) /\ U64StrLen[m] = Len(text)
    BY <2>2, NumeralIs, U64StrLenIs
  <2> HIDE DEF text
  <2>5. Len(<<Minus>> \o text) = 1 + Len(text)
    BY <2>4
  <2> QED
    BY <2>1, <2>3, <2>4, <2>5
<1> QED
  BY <1>2, <1>3

\* The reply with an integer, and that with the length of an array.
LEMMA IntegerSized ==
  ASSUME NEW n \in Int, n >= MinInt
  PROVE  Sized(Integer(n)) /\ Sized(Array(n))
BY StrLenIs DEF Sized, Integer, Array, Piece, Size, Written

\* A count is a number that Size can take.
LEMMA CountSized ==
  ASSUME NEW n \in Nat
  PROVE  n \in Int /\ n >= MinInt
BY DEF MinInt

\* The reply with a text, and that with its length.
LEMMA BulkSized ==
  ASSUME NEW text \in Text
  PROVE  Sized(Bulk(text)) /\ Sized(Integer(Len(text)))
<1> DEFINE n == Len(text)
<1>1. n \in Nat
  BY DEF Text
<1>2. I64StrLen(n) = Len(ToText(n)) /\ Sized(Integer(n))
  BY <1>1, CountSized, StrLenIs, IntegerSized
<1>3. U64StrLen[n] = Len(ToText(n))
  BY <1>1, <1>2 DEF I64StrLen
<1> HIDE DEF n
<1>4. Sized(Bulk(text))
  BY <1>3 DEF n, Sized, Bulk, Piece, Size, Written
<1> QED
  BY <1>2, <1>4 DEF n

\* The replies whose words are those of the program.
LEMMA WordSized ==
  /\ Sized(Null)
  /\ \A kind : Sized(Simple(kind)) /\ Sized(Error(kind)) /\ Sized(Word(kind))
BY DEF Sized, Null, Simple, Error, Word, Piece, Size, Written

\* A reply to what a key holds.
LEMMA ItemSized ==
  ASSUME HoldsTexts, NEW key
  PROVE  Sized(Item(key))
<1>1. CASE Has(key)
  <2>1. TextOf(Db[key]) \in Text
    BY <1>1, DbHeld, TextOfTyped DEF Held, Has
  <2> QED
    BY <1>1, <2>1, BulkSized DEF Item
<1>2. CASE ~Has(key)
  BY <1>2, WordSized DEF Item
<1> QED
  BY <1>1, <1>2

\* A part of a text is a text.
LEMMA RangeTyped ==
  ASSUME NEW text \in Text, NEW start \in Int64, NEW end \in Int64
  PROVE  RangeOf(text, start, end) \in Text
<1> DEFINE size == Len(text)
<1>1. size \in Nat /\ start \in Int /\ end \in Int /\ MaxInt \in Nat
  BY Limits DEF Text, Int64
<1> HIDE DEF size
<1>2. Unsigned(size - 1) \in Nat
  BY <1>1 DEF Unsigned
<1>3. ASSUME NEW i \in Int PROVE FromEnd(i, size) \in Nat /\ Clipped(FromEnd(i, size), size) \in Nat
  <2>1. FromEnd(i, size) \in Nat
    BY <1>1 DEF FromEnd
  <2> QED
    BY <1>2, <2>1 DEF Clipped
<1>4. First(start, size) \in Nat /\ Last(end, size) \in Nat
  BY <1>1, <1>3 DEF First, Last
<1> DEFINE from == First(start, size) + 1
           to == IF Last(end, size) < size THEN Last(end, size) + 1 ELSE size
<1>5. from \in 1 .. from /\ from \in Nat /\ to \in Nat /\ to <= size
  BY <1>1, <1>4
<1>6. RangeOf(text, start, end) = IF EmptyRange(start, end, size) THEN <<>> ELSE SubSeq(text, from, to)
  BY DEF RangeOf, size
<1> HIDE DEF from, to
<1>7. SubSeq(text, from, to) \in Text
  <2>1. \A i \in from .. to : text[i] \in Char
    BY <1>5 DEF Text, size
  <2> QED
    BY <1>5, <2>1, SubSeqProperties DEF Text, size
<1>8. <<>> \in Text
  BY DEF Text
<1> QED
  BY <1>6, <1>7, <1>8

\* Session::Send makes a slice of as many bytes as Serialize fills: for every
\* reply to every request, with numbers and texts of any length (piece.cpp:27).
THEOREM SizesRight == Spec => SizesAgree
<1> DEFINE AllSized(pieces) == \A i \in DOMAIN pieces : Sized(pieces[i])
<1>1. Spec => []HoldsTexts
  BY HoldsAlways
<1>2. ASSUME HoldsTexts, Next PROVE AllSized(out')
  <2> USE <1>2
  <2>1. ASSUME NEW piece, Sized(piece), out' = <<piece>> PROVE AllSized(out')
    <3>1. DOMAIN <<piece>> = {1} /\ <<piece>>[1] = piece
      OBVIOUS
    <3> QED
      BY <2>1, <3>1
  <2>2. ASSUME out' = <<>> PROVE AllSized(out')
    BY <2>2
  <2>3. \A text \in Inputs \cup Indexes \cup Pairs : text \in Text
    BY CommandsAssumption
  <2> HIDE DEF AllSized
  <2>4. ASSUME NEW key, Get(key) \/ GetDel(key) PROVE AllSized(out')
    BY <2>1, <2>4, ItemSized DEF Get, GetDel, Reply, Finish
  <2>5. ASSUME NEW key, NEW n \in Int64, StringIncrBy(key, n) PROVE AllSized(out')
    <3>1. Sized(Integer(n)) /\ Sized(NotInteger)
      BY IntegerSized, WordSized DEF Int64, NotInteger
    <3>2. out' = <<Integer(n)>> \/ out' = <<NotInteger>>
      BY <2>5 DEF StringIncrBy, ObjectEncoding, Reply, Finish
    <3> QED
      BY <2>1, <3>1, <3>2
  <2>6. ASSUME NEW key, StrLen(key) PROVE AllSized(out')
    <3> DEFINE n == IF Has(key) THEN Len(TextOf(Db[key])) ELSE 0
    <3>1. n \in Nat
      <4>1. Has(key) => TextOf(Db[key]) \in Text
        BY DbHeld, TextOfTyped DEF Held, Has
      <4> QED
        BY <4>1 DEF Text
    <3>2. out' = <<Integer(n)>>
      BY <2>6 DEF StrLen, Reply, Finish
    <3> HIDE DEF n
    <3> QED
      BY <2>1, <3>1, <3>2, CountSized, IntegerSized
  <2>7. ASSUME NEW key, ObjectEncodingOf(key) PROVE AllSized(out')
    <3>1. \E piece : Sized(piece) /\ out' = <<piece>>
      BY <2>7, WordSized DEF ObjectEncodingOf, Reply, Finish
    <3> QED
      BY <2>1, <3>1
  <2>8. ASSUME NEW key, Incr(key) \/ Decr(key) PROVE AllSized(out')
    <3>1. 1 \in Int64 /\ -1 \in Int64 BY Limits DEF Int64
    <3> QED
      BY <2>5, <2>8, <3>1 DEF Incr, Decr
  <2>9. ASSUME NEW key, NEW text \in Inputs, Set(key, text) \/ AppendTo(key, text)
        PROVE  AllSized(out')
    <3>1. Sized(Ok) /\ Sized(Integer(Len(text))) /\ Sized(Integer(0))
      BY <2>3, WordSized, BulkSized, CountSized, IntegerSized DEF Ok
    <3>2. out' = <<Ok>> \/ out' = <<Integer(Len(text))>> \/ out' = <<Integer(0)>>
      BY <2>9 DEF Set, AppendTo, Finish
    <3> QED
      BY <2>1, <3>1, <3>2
  <2>10. ASSUME NEW key, NEW text \in Inputs, IncrBy(key, text) \/ DecrBy(key, text)
         PROVE  AllSized(out')
    <3>1. Atoll(text) \in Int64 /\ (Atoll(text) # MinInt => -Atoll(text) \in Int64)
      <4>1. \A n \in Int64 : n # MinInt => -n \in Int64
        BY Limits DEF Int64
      <4> QED
        BY <4>1, AtollTyped
    <3>2. \/ \E n \in Int64 : StringIncrBy(key, n)
          \/ out' = <<>>
          \/ out' = <<NotInteger>>
      BY <2>10, <3>1 DEF IncrBy, DecrBy, Reply, Finish
    <3>3. Sized(NotInteger)
      BY WordSized DEF NotInteger
    <3> QED
      BY <2>1, <2>2, <2>5, <3>2, <3>3
  <2>11. ASSUME NEW key, NEW from \in Indexes, NEW to \in Indexes, GetRange(key, from, to)
         PROVE  AllSized(out')
    <3> DEFINE text == TextOf(Db[key])
    <3>1. \/ out' = <<NotInteger>> \/ out' = <<Bulk(<<>>)>> \/ out' = <<>>
          \/ Has(key) /\ out' = <<Bulk(RangeOf(text, Atoll(from), Atoll(to)))>>
      BY <2>11 DEF GetRange, Fall, Reply, Finish
    <3>2. Has(key) => text \in Text
      BY DbHeld, TextOfTyped DEF Held, Has
    <3>3. <<>> \in Text
      BY DEF Text
    <3> HIDE DEF text
    <3>4. Has(key) => Sized(Bulk(RangeOf(text, Atoll(from), Atoll(to))))
      BY <3>2, AtollTyped, RangeTyped, BulkSized
    <3>5. Sized(NotInteger) /\ Sized(Bulk(<<>>))
      BY <3>3, WordSized, BulkSized DEF NotInteger
    <3> QED
      BY <2>1, <2>2, <3>1, <3>4, <3>5
  <2>12. ASSUME NEW keys \in KeySeqs, MGet(keys) PROVE AllSized(out')
    <3> DEFINE items == [i \in 1 .. Len(keys) |-> Item(keys[i])]
               n == Len(keys)
    <3>1. PICK m \in 0 .. MaxArgs : keys \in [1 .. m -> Keys]
      BY DEF KeySeqs
    <3>2. n = m /\ n \in Nat
      BY <3>1, CommandsAssumption
    <3>3. out' = <<Array(n)>> \o items
      BY <2>12 DEF MGet, Finish
    <3>4. \A i \in 1 .. n : items[i] = Item(keys[i])
      OBVIOUS
    <3>5. items \in Seq({Item(keys[i]) : i \in 1 .. n}) /\ Len(items) = n
      <4>1. items = [i \in 1 .. n |-> items[i]] /\ \A i \in 1 .. n : items[i] \in {Item(keys[j]) : j \in 1 .. n}
        OBVIOUS
      <4> HIDE DEF items, n
      <4> QED
        BY <3>2, <4>1
    <3> HIDE DEF items, n
    <3>6. \A i \in 1 .. n : Sized(items[i])
      BY <3>4, ItemSized
    <3>7. Sized(Array(n))
      BY <3>2, CountSized, IntegerSized
    <3>8. DOMAIN out' = 1 .. n + 1 /\ out'[1] = Array(n) /\ \A i \in 2 .. n + 1 : out'[i] = items[i - 1]
      BY <3>2, <3>3, <3>5
    <3>9. \A i \in 1 .. n + 1 : i = 1 \/ (i \in 2 .. n + 1 /\ i - 1 \in 1 .. n)
      BY <3>2
    <3> QED
      BY <3>6, <3>7, <3>8, <3>9 DEF AllSized
  <2>13. ASSUME NEW keys, NEW texts, MSet(keys, texts) PROVE AllSized(out')
    BY <2>1, <2>13, WordSized DEF MSet, Finish, Ok
  <2>14. ASSUME NEW text \in Inputs, Select(text) PROVE AllSized(out')
    <3>1. out' = <<NotInteger>> \/ out' = <<Error("index")>> \/ out' = <<Ok>>
      BY <2>14 DEF Select, Reply, Finish
    <3> QED
      BY <2>1, <3>1, WordSized DEF NotInteger, Ok
  <2>15. ASSUME NEW text \in Inputs, Echo(text) PROVE AllSized(out')
    BY <2>1, <2>3, <2>15, BulkSized DEF Echo, Reply, Finish
  <2>16. CASE GetDelNothing
    BY <2>1, <2>2, <2>16, ItemSized DEF GetDelNothing, Fall, Finish
  <2>17. CASE Ping \/ ClientSetName \/ Refuse
    <3>1. \E kind : out' = <<Simple(kind)>> \/ out' = <<Error(kind)>>
      BY <2>17 DEF Ping, ClientSetName, Refuse, Reply, Finish, Ok, Arity
    <3> QED
      BY <2>1, <3>1, WordSized
  <2>18. CASE ClientGetName
    <3>1. out' = <<Null>> \/ out' = <<>> \/ \E text \in Inputs : out' = <<Bulk(text)>>
      BY <2>18 DEF ClientGetName, Fall, Reply, Finish
    <3> QED
      BY <2>1, <2>2, <2>3, <3>1, WordSized, BulkSized
  <2>19. CASE ClientId
    <3>1. \E id \in Int64 : out' = <<Integer(id)>>
      BY <2>19 DEF ClientId, Reply, Finish
    <3> QED
      BY <2>1, <3>1, IntegerSized DEF Int64
  <2>20. CASE RefuseSilently
    BY <2>2, <2>20 DEF RefuseSilently, Finish
  <2> QED
    BY <2>4, <2>6, <2>7, <2>8, <2>9, <2>10, <2>11, <2>12, <2>13, <2>14, <2>15, <2>16, <2>17,
       <2>18, <2>19, <2>20 DEF Next
<1>3. HoldsTexts /\ [Next]_vars =>
        [\A i \in DOMAIN out' : out'[i].type \in {"integer", "array", "bulk", "null"}
                                  => Size(out'[i]) = Written(out'[i])]_vars
  BY <1>2 DEF Sized
<1> QED
  BY <1>1, <1>3, PTL DEF Spec, SizesAgree

-----------------------------------------------------------------------------
(* Powers of the base.                                                       *)

\* A power is what its definition says.
LEMMA PowerIs ==
  /\ T!Power \in [Nat -> Nat]
  /\ T!Power[0] = 1
  /\ \A k \in Nat : T!Power[k + 1] = Radix * T!Power[k]
<1> DEFINE B == {0}
           pre == [k \in Nat |-> IF k = 0 THEN 0 ELSE k - 1]
           size == [k \in Nat |-> k]
           a == [k \in Nat |-> 1]
           F == [p \in Nat \X Nat |-> Radix * p[1]]
           G(f) == [k \in Nat |-> IF k = 0 THEN 1 ELSE Radix * f[k - 1]]
<1>1. Descends(Nat, B, pre, size)
  BY DEF Descends
<1>2. a \in [Nat -> Nat] /\ F \in [Nat \X Nat -> Nat]
  <2>1. \A p \in Nat \X Nat : Radix * p[1] \in Nat
    BY Z3
  <2> QED
    BY <2>1
<1>3. PICK f \in [Nat -> Nat] : Obeys(f, Nat, B, pre, a, F)
  <2> HIDE DEF B, pre, size, a, F
  <2> QED
    BY <1>1, <1>2, Recursion
<1>4. \A k \in Nat : f[k] = IF k = 0 THEN 1 ELSE Radix * f[k - 1]
  <2>1. ASSUME NEW k \in Nat PROVE f[k] = IF k \in B THEN a[k] ELSE F[<<f[pre[k]], k>>]
    BY <1>3, Zenon DEF Obeys, Turn
  <2>2. ASSUME NEW k \in Nat PROVE f[pre[k]] \in Nat /\ F[<<f[pre[k]], k>>] = Radix * f[pre[k]]
    BY <1>3
  <2> QED
    BY <2>1, <2>2
<1>5. f = G(f)
  <2>1. f = [k \in Nat |-> f[k]]
    BY <1>3
  <2> QED
    BY <1>4, <2>1
<1>6. T!Power = CHOOSE g : g = G(g)
  BY DEF T!Power
<1> HIDE DEF G
<1>7. T!Power = G(T!Power)
  BY <1>5, <1>6
<1>8. \A k \in Nat : T!Power[k] = IF k = 0 THEN 1 ELSE Radix * T!Power[k - 1]
  BY <1>7 DEF G
<1> DEFINE S == {k \in Nat : T!Power[k] \in Nat}
<1>9. ASSUME NEW k \in Nat, k \in B \/ pre[k] \in S PROVE k \in S
  <2>1. k = 0 \/ k - 1 \in S
    BY <1>9
  <2>2. CASE k = 0
    BY <1>8, <2>2
  <2>3. CASE k # 0
    <3> DEFINE p == T!Power[k - 1]
    <3>1. p \in Nat /\ T!Power[k] = Radix * p
      BY <1>8, <2>1, <2>3
    <3> HIDE DEF p
    <3>2. Radix * p \in Nat
      BY <3>1, Z3
    <3> QED
      BY <3>1, <3>2
  <2> QED
    BY <2>2, <2>3
<1>10. \A k \in Nat : k \in S
  <2> HIDE DEF B, pre, size, S
  <2> QED
    BY <1>1, <1>9, Descent
<1>11. T!Power \in [Nat -> Nat]
  BY <1>7, <1>10 DEF G
<1>12. T!Power[0] = 1
  BY <1>8
<1>13. ASSUME NEW k \in Nat PROVE T!Power[k + 1] = Radix * T!Power[k]
  <2>1. k + 1 \in Nat /\ k + 1 # 0 /\ (k + 1) - 1 = k
    OBVIOUS
  <2> QED
    BY <1>8, <2>1
<1> QED
  BY <1>11, <1>12, <1>13

\* A greater exponent makes a power that is not smaller.
LEMMA PowerGrows ==
  ASSUME NEW j \in Nat, NEW k \in Nat, j <= k
  PROVE  1 <= T!Power[j] /\ T!Power[j] <= T!Power[k]
<1> DEFINE pre == [i \in Nat |-> IF i = 0 THEN 0 ELSE i - 1]
           size == [i \in Nat |-> i]
           B == {0}
           S == {i \in Nat : 1 <= T!Power[i] /\ (j <= i => T!Power[j] <= T!Power[i])}
<1>1. Descends(Nat, B, pre, size)
  BY DEF Descends
<1>2. ASSUME NEW i \in Nat, i \in B \/ pre[i] \in S PROVE i \in S
  <2>1. i = 0 \/ i - 1 \in S
    BY <1>2
  <2>2. CASE i = 0
    BY <2>2, PowerIs
  <2>3. CASE i # 0
    <3> DEFINE p == T!Power[i - 1]
    <3>1. i - 1 \in Nat /\ p \in Nat /\ 1 <= p /\ (j <= i - 1 => T!Power[j] <= p)
      BY <2>1, <2>3, PowerIs
    <3>2. T!Power[i] = Radix * p
      <4>1. (i - 1) + 1 = i
        OBVIOUS
      <4> QED
        BY <3>1, <4>1, PowerIs
    <3> HIDE DEF p
    <3>3. Radix * p \in Nat /\ p <= Radix * p
      BY <3>1, Z3
    <3>4. T!Power[j] \in Nat
      BY PowerIs
    <3> QED
      BY <3>1, <3>2, <3>3, <3>4
  <2> QED
    BY <2>2, <2>3
<1>3. \A i \in Nat : i \in S
  <2> HIDE DEF B, pre, size, S
  <2> QED
    BY <1>1, <1>2, Descent
<1>4. 1 <= T!Power[j] /\ 1 <= T!Power[k] /\ T!Power[j] <= T!Power[k]
  BY <1>3
<1> QED
  BY <1>4

\* What the quotient and the rest of a division are.
LEMMA Quotient ==
  ASSUME NEW b \in Nat \ {0}, NEW d \in Nat, NEW s \in 0 .. b - 1
  PROVE  (b * d + s) \div b = d /\ (b * d + s) % b = s
<1> DEFINE a == b * d + s
           q == a \div b
           r == a % b
<1>1. a \in Nat
  BY Z3
<1>2. q \in Int /\ r \in 0 .. b - 1 /\ a = b * q + r
  <2> HIDE DEF a
  <2> QED
    BY <1>1, Z3
<1>3. a = b * d + s
  OBVIOUS
<1> HIDE DEF a, q, r
<1>4. ~(q < d)
  <2> SUFFICES ASSUME q + 1 <= d PROVE FALSE
    BY <1>2
  <2>1. b * (q + 1) <= b * d
    BY <1>2, Z3
  <2>2. b * (q + 1) = b * q + b
    BY <1>2, Z3
  <2>3. b * q \in Int /\ b * d \in Int
    BY <1>2, Z3
  <2> QED
    BY <1>2, <1>3, <2>1, <2>2, <2>3
<1>5. ~(d < q)
  <2> SUFFICES ASSUME d + 1 <= q PROVE FALSE
    BY <1>2
  <2>1. b * (d + 1) <= b * q
    BY <1>2, Z3
  <2>2. b * (d + 1) = b * d + b
    BY <1>2, Z3
  <2>3. b * q \in Int /\ b * d \in Int
    BY <1>2, Z3
  <2> QED
    BY <1>2, <1>3, <2>1, <2>2, <2>3
<1>6. q = d
  BY <1>2, <1>4, <1>5
<1>7. b * d \in Int
  BY Z3
<1>8. r = s
  BY <1>2, <1>3, <1>6, <1>7
<1> QED
  BY <1>6, <1>8 DEF a, q, r

\* Dividing by the base and then by p is dividing by their product.
LEMMA Divided ==
  ASSUME NEW n \in Nat, NEW p \in Nat \ {0}
  PROVE  n \div (Radix * p) = Front(n) \div p
<1> DEFINE q == Front(n)
           s == End(n)
           d == q \div p
           r == q % p
<1>1. q \in Nat /\ s \in 0 .. Radix - 1 /\ n = Radix * q + s
  BY DivMod DEF Front, End, Digit
<1>2. d \in Int /\ r \in 0 .. p - 1 /\ q = p * d + r
  <2> HIDE DEF q
  <2> QED
    BY <1>1, Z3
<1> HIDE DEF q, s, d, r
<1>3. d \in Nat
  <2> SUFFICES ASSUME d <= -1 PROVE FALSE
    BY <1>2
  <2>1. p * d <= -p
    BY <1>2, Z3
  <2> QED
    BY <1>1, <1>2, <2>1
<1> DEFINE b == Radix * p
           rest == Radix * r + s
<1>4. b \in Nat \ {0}
  BY Z3
<1>5. rest \in 0 .. b - 1
  <2>1. Radix * r >= 0 /\ Radix * r <= Radix * (p - 1) /\ Radix * r \in Int
    BY <1>2, Z3
  <2>2. Radix * (p - 1) = b - Radix
    BY Z3
  <2> HIDE DEF b
  <2> QED
    BY <1>1, <1>4, <2>1, <2>2
<1>6. n = b * d + rest
  <2>1. Radix * (p * d + r) = b * d + Radix * r
    BY <1>2, <1>3, Z3
  <2>2. b * d \in Int /\ Radix * r \in Int
    BY <1>2, <1>3, <1>4, Z3
  <2> HIDE DEF b
  <2> QED
    BY <1>1, <1>2, <2>1, <2>2
<1>7. n \div b = d
  <2> HIDE DEF b, rest
  <2> QED
    BY <1>3, <1>4, <1>5, <1>6, Quotient
<1> QED
  BY <1>7 DEF b, d, q

\* A number of c places is below the c-th power, and not below the one before.
LEMMA PlacesBound ==
  ASSUME NEW n \in Nat
  PROVE  /\ n < T!Power[Places(n)]
         /\ Places(n) = 1 \/ n >= T!Power[Places(n) - 1]
<1> DEFINE S == {m \in Nat : /\ m < T!Power[Places(m)]
                             /\ Places(m) = 1 \/ m >= T!Power[Places(m) - 1]}
<1>1. ASSUME NEW m \in Nat, m >= Radix => Front(m) \in S PROVE m \in S
  <2>1. CASE m < Radix
    <3>1. Places(m) = 1 /\ T!Power[1] = Radix
      <4>1. T!Power[0 + 1] = Radix * T!Power[0] /\ T!Power[0] = 1
        BY PowerIs
      <4> QED
        BY <2>1, <4>1, PlacesIs
    <3> QED
      BY <2>1, <3>1
  <2>2. CASE m >= Radix
    <3> DEFINE q == Front(m)
               s == End(m)
               c == Places(q)
    <3>1. q \in Nat /\ q >= 1 /\ s \in 0 .. Radix - 1 /\ m = Radix * q + s
      BY <2>2, DivMod DEF Front, End, Digit
    <3>2. c \in Nat /\ c >= 1 /\ Places(m) = c + 1
      BY <2>2, Shorter, PlacesIs, NumeralLength
    <3>3. q < T!Power[c] /\ (c = 1 \/ q >= T!Power[c - 1])
      BY <1>1, <2>2
    <3> HIDE DEF q, s, c
    <3> DEFINE p == T!Power[c]
    <3>4. p \in Nat /\ T!Power[c + 1] = Radix * p
      BY <3>2, PowerIs
    <3>5. m < Radix * p
      <4> HIDE DEF p
      <4>1. Radix * (q + 1) <= Radix * p
        BY <3>1, <3>3, <3>4, Z3 DEF p
      <4>2. Radix * (q + 1) = Radix * q + Radix /\ Radix * q \in Int /\ Radix * p \in Int
        BY <3>1, <3>4, Z3
      <4> QED
        BY <3>1, <4>1, <4>2
    <3>6. m >= p
      <4>1. CASE c = 1
        <5>1. T!Power[0 + 1] = Radix * T!Power[0] /\ T!Power[0] = 1
          BY PowerIs
        <5> QED
          BY <2>2, <4>1, <5>1
      <4>2. CASE c # 1
        <5> DEFINE o == T!Power[c - 1]
        <5>1. o \in Nat /\ p = Radix * o
          <6>1. c - 1 \in Nat /\ (c - 1) + 1 = c
            BY <3>2
          <6> QED
            BY <6>1, PowerIs
        <5>2. q >= o
          BY <3>3, <4>2
        <5> HIDE DEF p, o
        <5>3. Radix * q >= Radix * o /\ Radix * q \in Int /\ Radix * o \in Int
          BY <3>1, <5>1, <5>2, Z3
        <5> QED
          BY <3>1, <5>1, <5>3
      <4> QED
        BY <4>1, <4>2
    <3>7. (c + 1) - 1 = c
      BY <3>2
    <3> QED
      BY <3>2, <3>4, <3>5, <3>6, <3>7
  <2> QED
    BY <2>1, <2>2
<1>2. \A m \in Nat : m \in S
  <2> HIDE DEF S
  <2> QED
    BY <1>1, DigitInduction
<1> QED
  BY <1>2

\* The number of places is the only one with such bounds.
LEMMA PlacesOnly ==
  ASSUME NEW n \in Nat, NEW c \in Nat \ {0},
         n < T!Power[c], c = 1 \/ n >= T!Power[c - 1]
  PROVE  c = Places(n)
<1> DEFINE d == Places(n)
<1>1. d \in Nat /\ d >= 1 /\ n < T!Power[d] /\ (d = 1 \/ n >= T!Power[d - 1])
  BY PlacesBound, PlacesIs, NumeralLength
<1> HIDE DEF d
<1>2. ASSUME c < d PROVE FALSE
  <2>1. T!Power[c] <= T!Power[d - 1] /\ n >= T!Power[d - 1]
    BY <1>1, <1>2, PowerGrows
  <2>2. T!Power[c] \in Nat /\ T!Power[d - 1] \in Nat
    BY <1>1, PowerIs
  <2> QED
    BY <2>1, <2>2
<1>3. ASSUME d < c PROVE FALSE
  <2>1. T!Power[d] <= T!Power[c - 1] /\ n >= T!Power[c - 1]
    BY <1>1, <1>3, PowerGrows
  <2>2. T!Power[d] \in Nat /\ T!Power[c - 1] \in Nat
    BY <1>1, PowerIs
  <2> QED
    BY <1>1, <2>1, <2>2
<1> QED
  BY <1>1, <1>2, <1>3 DEF d

\* Each digit of a numeral, by its place.
LEMMA NumeralDigits ==
  ASSUME NEW n \in Nat, NEW i \in 1 .. Places(n)
  PROVE  Numeral[n][i] = (n \div T!Power[Places(n) - i]) % Radix
<1> DEFINE digit(m, j) == (m \div T!Power[Places(m) - j]) % Radix
           S == {m \in Nat : \A j \in 1 .. Places(m) : Numeral[m][j] = digit(m, j)}
<1>1. ASSUME NEW m \in Nat, m >= Radix => Front(m) \in S, NEW j \in 1 .. Places(m)
      PROVE  Numeral[m][j] = digit(m, j)
  <2>1. Places(m) \in Nat /\ T!Power[0] = 1 /\ m \div 1 = m
    <3>1. m \div 1 = m
      BY Z3
    <3> QED
      BY <3>1, PlacesIs, PowerIs
  <2>2. CASE m < Radix
    <3>1. Places(m) = 1 /\ Numeral[m] = <<m>>
      BY <2>2, PlacesIs, NumeralIs, Zenon
    <3>2. j = 1 /\ Places(m) - j = 0
      BY <3>1
    <3>3. m % Radix = m
      <4>1. (Radix * 0 + m) % Radix = m
        <5>1. m \in 0 .. Radix - 1 /\ Radix \in Nat \ {0}
          BY <2>2
        <5> QED
          BY <5>1, Quotient
      <4> QED
        BY <4>1
    <3> QED
      BY <2>1, <3>1, <3>2, <3>3
  <2>3. CASE m >= Radix
    <3> DEFINE q == Front(m)
               c == Places(q)
    <3>1. q \in Nat /\ Numeral[q] \in Seq(Digit) /\ Len(Numeral[q]) = c /\ c \in Nat
      BY Shorter, NumeralIs, PlacesIs DEF Places
    <3>2. Places(m) = c + 1 /\ Numeral[m] = Append(Numeral[q], End(m))
      <4>1. Places(m) = 1 + c
        BY <2>3, PlacesIs
      <4>2. Numeral[m] = Append(Numeral[q], End(m))
        BY <2>3, NumeralIs, Zenon
      <4> QED
        BY <3>1, <4>1, <4>2
    <3>3. q \in S
      BY <1>1, <2>3
    <3>4. CASE j = c + 1
      <4>1. Numeral[m][j] = End(m)
        <5> DEFINE front == Numeral[q]
        <5> HIDE DEF front
        <5>1. Append(front, End(m))[Len(front) + 1] = End(m)
          BY <3>1 DEF front
        <5> QED
          BY <3>1, <3>2, <3>4, <5>1 DEF front
      <4>2. Places(m) - j = 0
        BY <3>1, <3>2, <3>4
      <4> QED
        BY <2>1, <4>1, <4>2 DEF End
    <3>5. CASE j # c + 1
      <4>1. j \in 1 .. c
        BY <3>1, <3>2, <3>5
      <4>2. Numeral[m][j] = Numeral[q][j]
        <5> DEFINE front == Numeral[q]
        <5> HIDE DEF front
        <5>1. j \in 1 .. Len(front)
          BY <3>1, <4>1 DEF front
        <5>2. Append(front, End(m))[j] = front[j]
          BY <3>1, <5>1 DEF front
        <5> QED
          BY <3>2, <5>2 DEF front
      <4>3. Numeral[q][j] = (q \div T!Power[c - j]) % Radix
        BY <3>3, <4>1
      <4> DEFINE k == c - j
                 p == T!Power[k]
      <4>4. k \in Nat /\ Places(m) - j = k + 1
        BY <3>1, <3>2, <4>1
      <4>5. p \in Nat \ {0} /\ T!Power[k + 1] = Radix * p
        <5> HIDE DEF k
        <5>1. k \in Nat /\ k <= k
          BY <4>4
        <5>2. p \in Nat /\ 1 <= p
          BY <5>1, PowerIs, PowerGrows
        <5> QED
          BY <4>4, <5>2, PowerIs
      <4>6. m \div (Radix * p) = q \div p
        <5> HIDE DEF p
        <5> QED
          BY <4>5, Divided
      <4> QED
        BY <4>2, <4>3, <4>4, <4>5, <4>6
    <3> QED
      BY <3>4, <3>5
  <2> QED
    BY <2>2, <2>3
<1>2. \A m \in Nat : m \in S
  <2>1. ASSUME NEW m \in Nat, m >= Radix => Front(m) \in S PROVE m \in S
    BY <1>1, <2>1
  <2> HIDE DEF S
  <2> QED
    BY <2>1, DigitInduction
<1> QED
  BY <1>2

\* std::to_string makes the decimal form: its recursion finds the digits that
\* Texts defines one by one.
THEOREM ToTextIs ==
  ASSUME NEW n \in Int64
  PROVE  ToText(n) = T!Decimal(n)
<1> DEFINE size == IF n < 0 THEN -n ELSE n
           fits(c) == size < T!Power[c] /\ (c = 1 \/ size >= T!Power[c - 1])
           count == CHOOSE c \in 1 .. size + 1 : fits(c)
           digits == [i \in 1 .. count |-> (size \div T!Power[count - i]) % Radix]
<1>1. size \in Nat
  BY Limits DEF Int64
<1>2. count = Places(size)
  <2>1. Places(size) \in 1 .. size + 1
    <3> HIDE DEF size
    <3>1. Places(size) \in Nat /\ Places(size) >= 1 /\ (size >= 1 => Places(size) <= size)
          /\ (size = 0 => Places(size) = 1)
      BY <1>1, PlacesIs, NumeralLength
    <3> QED
      BY <1>1, <3>1
  <2>2. fits(Places(size))
    <3> HIDE DEF size
    <3> QED
      BY <1>1, PlacesBound
  <2> HIDE DEF size
  <2>3. \A c \in 1 .. size + 1 : fits(c) => c = Places(size)
    <3>1. ASSUME NEW c \in 1 .. size + 1, fits(c) PROVE c = Places(size)
      <4>1. c \in Nat \ {0}
        BY <1>1
      <4> QED
        BY <1>1, <3>1, <4>1, PlacesOnly
    <3> QED
      BY <3>1
  <2> HIDE DEF fits
  <2> QED
    BY <2>1, <2>2, <2>3
<1>3. T!Decimal(n) = IF n < 0 THEN <<Minus>> \o digits ELSE digits
  BY Zenon DEF T!Decimal, T!Minus, Minus
<1> HIDE DEF size, count
<1>4. Numeral[size] = digits
  <2>1. Numeral[size] \in Seq(Digit) /\ Len(Numeral[size]) = count
    BY <1>1, <1>2, NumeralIs DEF Places
  <2>2. \A i \in 1 .. count : Numeral[size][i] = (size \div T!Power[count - i]) % Radix
    BY <1>1, <1>2, NumeralDigits
  <2>3. Numeral[size] = [i \in 1 .. count |-> Numeral[size][i]]
    BY <2>1
  <2> QED
    BY <2>2, <2>3
<1>5. ToText(n) = IF n < 0 THEN <<Minus>> \o Numeral[size] ELSE Numeral[size]
  BY DEF ToText, size
<1> HIDE DEF digits
<1> QED
  BY <1>3, <1>4, <1>5, Zenon

-----------------------------------------------------------------------------
(* Sums over sets.                                                           *)

\* The element of a set that a sum takes off first, and the sets that are left.
Chosen(s) == CHOOSE x \in s : TRUE
Rests(S) == [s \in SUBSET S |-> s \ {Chosen(s)}]
Sizes(S) == [s \in SUBSET S |-> Cardinality(s)]

\* The sums of weights over the subsets of S.
Sums(sum, S, w) ==
  sum = [s \in SUBSET S |-> IF s = {} THEN 0 ELSE w[Chosen(s)] + sum[s \ {Chosen(s)}]]

\* The same, of a finite set and of natural numbers.
SumsUp(sum, S, w) ==
  IsFiniteSet(S) /\ w \in [S -> Nat] /\ sum \in [SUBSET S -> Nat] /\ Sums(sum, S, w)

\* Taking off elements comes to an end.
LEMMA SetDescends ==
  ASSUME NEW S, IsFiniteSet(S)
  PROVE  Descends(SUBSET S, {{}}, Rests(S), Sizes(S))
<1>1. \A s \in SUBSET S : IsFiniteSet(s) /\ Cardinality(s) \in Nat
  BY FS_Subset, FS_CardinalityType
<1>2. Rests(S) \in [SUBSET S -> SUBSET S] /\ Sizes(S) \in [SUBSET S -> Nat]
  BY <1>1 DEF Rests, Sizes
<1>3. ASSUME NEW s \in SUBSET S, s # {} PROVE Sizes(S)[Rests(S)[s]] < Sizes(S)[s]
  <2> DEFINE x == Chosen(s)
  <2>1. x \in s
    BY <1>3 DEF Chosen
  <2>2. Rests(S)[s] = s \ {x} /\ s \ {x} \in SUBSET S
    BY DEF Rests
  <2> HIDE DEF x
  <2>3. Cardinality(s \ {x}) = Cardinality(s) - 1
    BY <1>1, <2>1, FS_RemoveElement
  <2>4. Cardinality(s) - 1 < Cardinality(s)
    BY <1>1
  <2> QED
    BY <2>2, <2>3, <2>4 DEF Sizes
<1> QED
  BY <1>2, <1>3 DEF Descends

\* There are such sums.
LEMMA SumsExist ==
  ASSUME NEW S, IsFiniteSet(S), NEW w \in [S -> Nat]
  PROVE  \E sum \in [SUBSET S -> Nat] : Sums(sum, S, w)
<1> DEFINE D == SUBSET S
           a == [s \in D |-> 0]
           weight(s) == IF s = {} THEN 0 ELSE w[Chosen(s)]
           F == [p \in Nat \X D |-> weight(p[2]) + p[1]]
<1>1. ASSUME NEW s \in D PROVE weight(s) \in Nat
  <2>1. s # {} => Chosen(s) \in s
    BY DEF Chosen
  <2> QED
    BY <2>1
<1>2. a \in [D -> Nat] /\ F \in [Nat \X D -> Nat]
  BY <1>1
<1>3. PICK sum \in [D -> Nat] : Obeys(sum, D, {{}}, Rests(S), a, F)
  <2> HIDE DEF D, a, F
  <2>1. Descends(D, {{}}, Rests(S), Sizes(S))
    BY SetDescends DEF D
  <2> QED
    BY <1>2, <2>1, Recursion
<1>4. ASSUME NEW s \in D
      PROVE  sum[s] = IF s = {} THEN 0 ELSE w[Chosen(s)] + sum[s \ {Chosen(s)}]
  <2>1. Rests(S)[s] = s \ {Chosen(s)} /\ Rests(S)[s] \in D
    BY DEF Rests
  <2>2. sum[s] = IF s \in {{}} THEN a[s] ELSE F[<<sum[Rests(S)[s]], s>>]
    BY <1>3, Zenon DEF Obeys, Turn
  <2>3. F[<<sum[Rests(S)[s]], s>>] = weight(s) + sum[Rests(S)[s]]
    BY <1>3, <2>1
  <2>4. a[s] = 0
    OBVIOUS
  <2> HIDE DEF a, F
  <2> QED
    BY <2>1, <2>2, <2>3, <2>4
<1>5. sum = [s \in D |-> sum[s]]
  BY <1>3
<1> QED
  BY <1>3, <1>4, <1>5 DEF Sums

\* Any element can be taken off first.
LEMMA SumsAny ==
  ASSUME NEW S, NEW w, NEW sum, SumsUp(sum, S, w)
  PROVE  /\ sum[{}] = 0
         /\ \A s \in SUBSET S : \A x \in s : sum[s] = w[x] + sum[s \ {x}]
<1>a. IsFiniteSet(S) /\ w \in [S -> Nat] /\ sum \in [SUBSET S -> Nat] /\ Sums(sum, S, w)
  BY DEF SumsUp
<1> DEFINE Fails(s) == \E x \in s : sum[s] # w[x] + sum[s \ {x}]
           Rest == {m \in Nat : \E s \in SUBSET S : Cardinality(s) = m /\ Fails(s)}
<1>1. \A s \in SUBSET S : IsFiniteSet(s) /\ Cardinality(s) \in Nat
  BY <1>a, FS_Subset, FS_CardinalityType
<1>2. \A s \in SUBSET S : sum[s] = IF s = {} THEN 0 ELSE w[Chosen(s)] + sum[s \ {Chosen(s)}]
  BY <1>a DEF Sums
<1>3. \A s \in SUBSET S : ~Fails(s)
  <2> SUFFICES ASSUME NEW t \in SUBSET S, Fails(t) PROVE FALSE
    OBVIOUS
  <2>1. Rest \subseteq Nat /\ Rest # {}
    BY <1>1
  <2>2. PICK m \in Rest : \A k \in Rest : m <= k
    <3> HIDE DEF Rest
    <3> QED
      BY <2>1, Least
  <2>3. PICK s \in SUBSET S : Cardinality(s) = m /\ Fails(s)
    OBVIOUS
  <2>4. PICK x \in s : sum[s] # w[x] + sum[s \ {x}]
    BY <2>3
  <2> DEFINE c == Chosen(s)
             sx == s \ {x}
             sc == s \ {c}
             both == s \ {x, c}
  <2>5. c \in s /\ sum[s] = w[c] + sum[sc]
    BY <1>2 DEF Chosen
  <2>6. x # c
    BY <2>4, <2>5
  <2>7. m \in Nat
    OBVIOUS
  <2> HIDE DEF Rest, Fails, c
\* Smaller sets do not fail.
  <2>8. ASSUME NEW y \in s PROVE ~Fails(s \ {y})
    <3>1. Cardinality(s \ {y}) = m - 1 /\ Cardinality(s \ {y}) \in Nat
      BY <1>1, <2>3, FS_RemoveElement
    <3>2. ~(m <= m - 1)
      BY <2>7
    <3>3. m - 1 \notin Rest
      BY <2>2, <3>2
    <3>4. s \ {y} \in SUBSET S
      OBVIOUS
    <3> QED
      BY <3>1, <3>3, <3>4 DEF Rest
  <2>9. sum[sc] = w[x] + sum[both]
    <3>1. x \in sc /\ sc \ {x} = both
      BY <2>6
    <3> QED
      BY <2>5, <2>8, <3>1 DEF Fails
  <2>10. sum[sx] = w[c] + sum[both]
    <3>1. c \in sx /\ sx \ {c} = both
      BY <2>5, <2>6
    <3> QED
      BY <2>8, <3>1 DEF Fails
  <2>11. w[x] \in Nat /\ w[c] \in Nat /\ sum[both] \in Nat
    BY <1>a, <2>5
  <2> HIDE DEF sx, sc, both
  <2> QED
    BY <2>4, <2>5, <2>9, <2>10, <2>11 DEF sx
<1> QED
  BY <1>2, <1>3

-----------------------------------------------------------------------------
(* atoll.                                                                    *)

\* The weights of the digits of a number, and the sums of weights, of which the
\* whole one is the value of the number.
Weighs(text, s, e, w, sum) ==
  LET span == s + 1 .. e
  IN /\ w \in [span -> Nat] /\ sum \in [SUBSET span -> Nat]
     /\ \A i \in span : w[i] = text[i] * T!Power[e - i]
     /\ sum[{}] = 0
     /\ \A t \in SUBSET span : \A x \in t : sum[t] = w[x] + sum[t \ {x}]
     /\ T!DigitsValue(text, s, e) = sum[span]

\* Such weights and sums exist for every row of digits.
LEMMA DigitsValueIs ==
  ASSUME NEW text, NEW s \in Nat, NEW e \in Nat, \A i \in s + 1 .. e : text[i] \in Digit
  PROVE  \E w, sum : Weighs(text, s, e, w, sum)
<1> DEFINE S == s + 1 .. e
           W(i) == text[i] * T!Power[e - i]
           w == [i \in S |-> W(i)]
           G(f) == [t \in SUBSET S |-> IF t = {} THEN 0 ELSE W(Chosen(t)) + f[t \ {Chosen(t)}]]
           sum == CHOOSE f : f = G(f)
<1>1. w \in [S -> Nat]
  <2>1. ASSUME NEW i \in S PROVE W(i) \in Nat
    <3>1. i \in Int /\ e - i \in Nat /\ text[i] \in Nat
      BY DEF Digit
    <3> DEFINE p == T!Power[e - i]
    <3>2. p \in Nat
      BY <3>1, PowerIs
    <3> HIDE DEF p
    <3>3. text[i] * p \in Nat
      BY <3>1, <3>2, Z3
    <3> QED
      BY <3>3 DEF p
  <2> HIDE DEF W
  <2> QED
    BY <2>1
<1>2. IsFiniteSet(S)
  BY FS_Interval
<1>3. T!DigitsValue(text, s, e) = sum[S]
  BY Zenon DEF T!DigitsValue, T!MapThenSumSet, T!MapThenFoldSet, Chosen
<1> HIDE DEF S
<1>4. PICK f \in [SUBSET S -> Nat] : Sums(f, S, w)
  <2> HIDE DEF w
  <2> QED
    BY <1>1, <1>2, SumsExist
<1>5. ASSUME NEW g PROVE g = G(g) <=> Sums(g, S, w)
  <2>1. \A t \in SUBSET S : t # {} => w[Chosen(t)] = W(Chosen(t))
    <3>1. \A t \in SUBSET S : t # {} => Chosen(t) \in S
      BY DEF Chosen
    <3> HIDE DEF W
    <3> QED
      BY <3>1
  <2> DEFINE H == [t \in SUBSET S |-> IF t = {} THEN 0 ELSE w[Chosen(t)] + g[t \ {Chosen(t)}]]
  <2>2. G(g) = H
    <3> HIDE DEF w, W
    <3> QED
      BY <2>1
  <2> HIDE DEF w, W
  <2> QED
    BY <2>2 DEF Sums
<1>6. f = G(f)
  BY <1>4, <1>5
<1> HIDE DEF G
<1>7. sum = G(sum)
  BY <1>6
<1>8. Sums(sum, S, w)
  BY <1>5, <1>7
<1>9. sum \in [SUBSET S -> Nat]
  <2> DEFINE Same == {t \in SUBSET S : sum[t] = f[t]}
  <2> HIDE DEF w, sum
  <2>1. ASSUME NEW t \in SUBSET S, t \in {{}} \/ Rests(S)[t] \in Same PROVE t \in Same
    <3>1. t = {} \/ sum[t \ {Chosen(t)}] = f[t \ {Chosen(t)}]
      BY <2>1 DEF Rests
    <3>2. ASSUME NEW g, Sums(g, S, w)
          PROVE  g[t] = IF t = {} THEN 0 ELSE w[Chosen(t)] + g[t \ {Chosen(t)}]
      BY <3>2 DEF Sums
    <3> QED
      BY <1>4, <1>8, <3>1, <3>2
  <2>2. \A t \in SUBSET S : t \in Same
    <3> DEFINE D == SUBSET S
               B == {{}}
               pre == Rests(S)
    <3>1. Descends(D, B, pre, Sizes(S))
      BY <1>2, SetDescends
    <3>2. \A t \in D : (t \in B \/ pre[t] \in Same) => t \in Same
      BY <2>1
    <3> HIDE DEF Same, D, B, pre
    <3>3. \A t \in D : t \in Same
      BY <3>1, <3>2, Descent
    <3> QED
      BY <3>3 DEF D
  <2>3. \A t \in SUBSET S : sum[t] \in Nat
    BY <2>2
  <2>4. sum = [t \in SUBSET S |-> sum[t]]
    BY <1>8 DEF Sums
  <2> QED
    BY <2>3, <2>4
<1> HIDE DEF sum, w
<1>10. /\ sum[{}] = 0
       /\ \A t \in SUBSET S : \A x \in t : sum[t] = w[x] + sum[t \ {x}]
  <2>1. SumsUp(sum, S, w)
    BY <1>1, <1>2, <1>8, <1>9 DEF SumsUp
  <2> QED
    BY <2>1, SumsAny
<1>11. \A i \in S : w[i] = text[i] * T!Power[e - i]
  BY DEF w
<1> QED
  BY <1>1, <1>3, <1>9, <1>10, <1>11 DEF S, Weighs

\* The loops of atoll: over the blanks, and over the digits.
SkipOf(text) ==
  LET skip[i \in Nat] == IF i <= Len(text) /\ text[i] = Blank THEN skip[i + 1] ELSE i
  IN skip

ReadOf(text) ==
  LET read[x \in Nat \X Nat] ==
        IF x[1] <= Len(text) /\ text[x[1]] \in Digit
        THEN read[<<x[1] + 1, x[2] * Radix + text[x[1]]>>] ELSE x[2]
  IN read

\* atoll, by its loops: over the blanks, a sign, and over the digits.
LEMMA ScannedIs ==
  ASSUME NEW text
  PROVE  Scanned(text) =
           LET at == SkipOf(text)[1]
               signed == at <= Len(text) /\ text[at] \in {Minus, Plus}
               size == ReadOf(text)[<<IF signed THEN at + 1 ELSE at, 0>>]
           IN IF signed /\ text[at] = Minus THEN -size ELSE size
BY Zenon DEF Scanned, SkipOf, ReadOf

\* The places that are left to read from the place i on.
Ahead(text, i) == IF i <= Len(text) THEN Len(text) + 1 - i ELSE 0

\* The loops do what they say.
LEMMA SkipIs ==
  ASSUME NEW text \in Text, NEW i \in Nat
  PROVE  SkipOf(text)[i] = IF i <= Len(text) /\ text[i] = Blank THEN SkipOf(text)[i + 1] ELSE i
<1> DEFINE on(j) == j <= Len(text) /\ text[j] = Blank
           B == {j \in Nat : ~on(j)}
           pre == [j \in Nat |-> j + 1]
           size == [j \in Nat |-> Ahead(text, j)]
           a == [j \in Nat |-> j]
           F == [p \in Nat \X Nat |-> p[1]]
           G(f) == [j \in Nat |-> IF j <= Len(text) /\ text[j] = Blank THEN f[j + 1] ELSE j]
<1>1. Len(text) \in Nat
  BY DEF Text
<1>2. Descends(Nat, B, pre, size)
  BY <1>1 DEF Descends, Ahead
<1>3. a \in [Nat -> Nat] /\ F \in [Nat \X Nat -> Nat]
  OBVIOUS
<1>4. PICK f \in [Nat -> Nat] : Obeys(f, Nat, B, pre, a, F)
  <2> HIDE DEF B, pre, size, a, F
  <2> QED
    BY <1>2, <1>3, Recursion
<1>5. ASSUME NEW j \in Nat PROVE f[j] = IF on(j) THEN f[j + 1] ELSE j
  <2>1. f[j] = IF j \in B THEN a[j] ELSE F[<<f[pre[j]], j>>]
    BY <1>4, Zenon DEF Obeys, Turn
  <2>2. pre[j] = j + 1 /\ F[<<f[j + 1], j>>] = f[j + 1] /\ a[j] = j
    <3>1. f[j + 1] \in Nat
      BY <1>4
    <3> QED
      BY <3>1
  <2>3. j \in B <=> ~on(j)
    OBVIOUS
  <2> HIDE DEF on, B, pre, a, F
  <2> QED
    BY <2>1, <2>2, <2>3
<1>6. f = G(f)
  <2>1. f = [j \in Nat |-> f[j]]
    BY <1>4
  <2> QED
    BY <1>5, <2>1
<1>7. SkipOf(text) = CHOOSE f_1 : f_1 = G(f_1)
  BY DEF SkipOf
<1> HIDE DEF G
<1>8. SkipOf(text) = G(SkipOf(text))
  BY <1>6, <1>7
<1> QED
  BY <1>8 DEF G

\* The loop over the digits takes a digit to the number read before it.
LEMMA ReadIs ==
  ASSUME NEW text \in Text, NEW i \in Nat, NEW n \in Nat
  PROVE  /\ i <= Len(text) /\ text[i] \in Digit =>
              ReadOf(text)[<<i, n>>] = ReadOf(text)[<<i + 1, n * Radix + text[i]>>]
         /\ ~(i <= Len(text) /\ text[i] \in Digit) => ReadOf(text)[<<i, n>>] = n
<1> DEFINE D == Nat \X Nat
           on(j) == j <= Len(text) /\ text[j] \in Digit
           next(x) == <<x[1] + 1, x[2] * Radix + text[x[1]]>>
           B == {x \in D : ~on(x[1])}
           pre == [x \in D |-> IF on(x[1]) THEN next(x) ELSE x]
           size == [x \in D |-> Ahead(text, x[1])]
           a == [x \in D |-> x[2]]
           F == [p \in Nat \X D |-> p[1]]
           G(f) == [x \in D |-> IF x[1] <= Len(text) /\ text[x[1]] \in Digit
                                THEN f[<<x[1] + 1, x[2] * Radix + text[x[1]]>>] ELSE x[2]]
<1>1. Len(text) \in Nat
  BY DEF Text
<1>2. ASSUME NEW x \in D, on(x[1]) PROVE next(x) \in D
  <2>1. text[x[1]] \in Nat /\ x[2] \in Nat /\ x[1] + 1 \in Nat
    BY <1>2 DEF Digit
  <2>2. x[2] * Radix \in Nat
    <3> DEFINE m == x[2]
    <3> HIDE DEF m
    <3>1. m \in Nat
      BY <2>1 DEF m
    <3>2. m * Radix \in Nat
      BY <3>1, Z3
    <3> QED
      BY <3>2 DEF m
  <2>3. x[2] * Radix + text[x[1]] \in Nat
    BY <2>1, <2>2
  <2> QED
    BY <2>1, <2>3
<1>3. Descends(D, B, pre, size)
  <2>1. pre \in [D -> D]
    <3> HIDE DEF on, next
    <3> QED
      BY <1>2
  <2>2. size \in [D -> Nat]
    BY <1>1 DEF Ahead
  <2>3. ASSUME NEW x \in D, x \notin B PROVE size[pre[x]] < size[x]
    <3>1. on(x[1]) /\ pre[x] = next(x) /\ next(x) \in D
      BY <1>2, <2>3
    <3>2. next(x)[1] = x[1] + 1 /\ x[1] \in Nat
      OBVIOUS
    <3>3. size[pre[x]] = Ahead(text, x[1] + 1) /\ size[x] = Ahead(text, x[1])
      <4> HIDE DEF next, pre, on
      <4> QED
        BY <3>1, <3>2
    <3> QED
      BY <1>1, <3>1, <3>2, <3>3 DEF Ahead
  <2> HIDE DEF B, pre, size
  <2> QED
    BY <2>1, <2>2, <2>3 DEF Descends
<1>4. a \in [D -> Nat] /\ F \in [Nat \X D -> Nat]
  OBVIOUS
<1>5. PICK f \in [D -> Nat] : Obeys(f, D, B, pre, a, F)
  <2> HIDE DEF D, B, pre, size, a, F
  <2> QED
    BY <1>3, <1>4, Recursion
<1>6. ASSUME NEW x \in D PROVE f[x] = IF on(x[1]) THEN f[next(x)] ELSE x[2]
  <2>1. f[x] = IF x \in B THEN a[x] ELSE F[<<f[pre[x]], x>>]
    BY <1>5, Zenon DEF Obeys, Turn
  <2>2. on(x[1]) => pre[x] = next(x) /\ next(x) \in D
    BY <1>2
  <2>3. x \in B <=> ~on(x[1])
    OBVIOUS
  <2>4. a[x] = x[2] /\ \A m \in Nat : F[<<m, x>>] = m
    OBVIOUS
  <2>5. \A y \in D : f[y] \in Nat
    BY <1>5
  <2> HIDE DEF D, on, next, B, pre, a, F
  <2> QED
    BY <2>1, <2>2, <2>3, <2>4, <2>5
<1>7. f = G(f)
  <2>1. f = [x \in D |-> f[x]]
    BY <1>5
  <2> HIDE DEF D
  <2> QED
    BY <1>6, <2>1
<1>8. ReadOf(text) = CHOOSE f_1 : f_1 = G(f_1)
  BY DEF ReadOf
<1> HIDE DEF G
<1>9. ReadOf(text) = G(ReadOf(text))
  BY <1>7, <1>8
<1>10. <<i, n>> \in D
  OBVIOUS
<1> QED
  BY <1>9, <1>10 DEF G

\* From every place of a text, the characters of a kind go up to some place.
LEMMA RunEnds ==
  ASSUME NEW text \in Text, NEW s \in 0 .. Len(text), NEW kind
  PROVE  \E e \in s .. Len(text) : /\ \A i \in s + 1 .. e : text[i] \in kind
                                   /\ e < Len(text) => text[e + 1] \notin kind
<1> DEFINE L == Len(text)
           Rest == {j \in s .. L : j < L => text[j + 1] \notin kind}
<1>1. L \in Nat /\ s \in Nat /\ s <= L
  BY DEF Text
<1>2. Rest \subseteq Nat /\ L \in Rest
  BY <1>1
<1>3. PICK e \in Rest : \A j \in Rest : e <= j
  <2> HIDE DEF Rest
  <2> QED
    BY <1>2, Least
<1>4. e \in s .. L /\ (e < L => text[e + 1] \notin kind)
  OBVIOUS
<1>5. ASSUME NEW i \in s + 1 .. e PROVE text[i] \in kind
  <2>1. i - 1 \in s .. L /\ i - 1 < L /\ (i - 1) + 1 = i /\ ~(e <= i - 1)
    BY <1>1, <1>4
  <2>2. i - 1 \notin Rest
    BY <1>3, <2>1
  <2> QED
    BY <2>1, <2>2
<1> QED
  BY <1>4, <1>5

\* The first loop ends behind the blanks.
LEMMA SkipTo ==
  ASSUME NEW text \in Text, NEW b \in 0 .. Len(text),
         \A i \in 1 .. b : text[i] = Blank, b < Len(text) => text[b + 1] # Blank
  PROVE  SkipOf(text)[1] = b + 1
<1> DEFINE S == {k \in Nat : k <= b => SkipOf(text)[b + 1 - k] = b + 1}
<1>1. Len(text) \in Nat /\ b \in Nat /\ b <= Len(text)
  BY DEF Text
<1>2. 0 \in S
  <2>1. b + 1 \in Nat /\ (b + 1 <= Len(text) => b < Len(text)) /\ b + 1 - 0 = b + 1
    BY <1>1
  <2>2. SkipOf(text)[b + 1] = b + 1
    BY <2>1, SkipIs
  <2> QED
    BY <2>1, <2>2
<1>3. ASSUME NEW k \in Nat, k \in S PROVE k + 1 \in S
  <2> SUFFICES ASSUME k + 1 <= b PROVE SkipOf(text)[b + 1 - (k + 1)] = b + 1
    OBVIOUS
  <2> DEFINE i == b + 1 - (k + 1)
  <2>1. i \in Nat /\ i \in 1 .. b /\ i <= Len(text) /\ i + 1 = b + 1 - k /\ k <= b
    BY <1>1
  <2> HIDE DEF i
  <2>2. SkipOf(text)[i] = SkipOf(text)[i + 1]
    BY <2>1, SkipIs
  <2> QED
    BY <1>3, <2>1, <2>2 DEF i
<1>4. \A k \in Nat : k \in S
  <2> HIDE DEF S
  <2> QED
    BY <1>2, <1>3, CountInduction
<1>5. b + 1 - b = 1
  BY <1>1
<1> QED
  BY <1>1, <1>4, <1>5

\* One more digit.
LEMMA OneDigit ==
  ASSUME NEW n \in Nat, NEW c \in Digit, NEW p \in Nat, NEW rest \in Nat
  PROVE  /\ n * Radix + c \in Nat
         /\ (n * Radix + c) * p + rest = n * (Radix * p) + (c * p + rest)
<1>1. c \in Nat
  BY DEF Digit
<1>2. n * Radix \in Nat /\ n * (Radix * p) \in Int /\ c * p \in Int
  BY <1>1, Z3
<1>3. (n * Radix + c) * p = n * (Radix * p) + c * p
  BY <1>1, Z3
<1>4. n * Radix + c \in Nat
  BY <1>1, <1>2
<1> QED
  BY <1>2, <1>3, <1>4

\* The second loop reads the value of the digits.
LEMMA ReadTo ==
  ASSUME NEW text \in Text, NEW s \in Nat, NEW e \in Nat, s <= e, e <= Len(text),
         \A i \in s + 1 .. e : text[i] \in Digit, e < Len(text) => text[e + 1] \notin Digit
  PROVE  /\ ReadOf(text)[<<s + 1, 0>>] = T!DigitsValue(text, s, e)
         /\ T!DigitsValue(text, s, e) \in Nat
<1> DEFINE Span == s + 1 .. e
           W(i) == text[i] * T!Power[e - i]
<1>1. Len(text) \in Nat
  BY DEF Text
<1>2. \A i \in s + 1 .. e : text[i] \in Digit
  OBVIOUS
<1>3. PICK w, sum : Weighs(text, s, e, w, sum)
  BY <1>2, DigitsValueIs
<1>4. /\ w \in [Span -> Nat] /\ sum \in [SUBSET Span -> Nat]
      /\ \A i \in Span : w[i] = W(i)
      /\ sum[{}] = 0
      /\ \A t \in SUBSET Span : \A x \in t : sum[t] = w[x] + sum[t \ {x}]
      /\ T!DigitsValue(text, s, e) = sum[Span]
  BY <1>3 DEF Weighs
<1> DEFINE Left(k) == e + 1 - k .. e
           Read(k, n) == ReadOf(text)[<<e + 1 - k, n>>]
           S == {k \in Nat : k <= e - s => \A n \in Nat : Read(k, n) = n * T!Power[k] + sum[Left(k)]}
<1>5. 0 \in S
  <2> SUFFICES ASSUME NEW n \in Nat PROVE Read(0, n) = n * T!Power[0] + sum[Left(0)]
    OBVIOUS
  <2>1. Left(0) = {} /\ n * T!Power[0] = n
    BY PowerIs
  <2>2. e + 1 - 0 = e + 1 /\ e + 1 \in Nat /\ (e + 1 <= Len(text) => e < Len(text))
    BY <1>1
  <2>3. Read(0, n) = n
    <3> DEFINE i == e + 1
    <3>1. i \in Nat /\ ~(i <= Len(text) /\ text[i] \in Digit)
      BY <2>2
    <3> HIDE DEF i
    <3>2. ReadOf(text)[<<i, n>>] = n
        BY <3>1, ReadIs
    <3> QED
      BY <2>2, <3>2 DEF i

  <2> QED
    BY <1>4, <2>1, <2>3
<1>6. ASSUME NEW k \in Nat, k \in S PROVE k + 1 \in S
  <2> SUFFICES ASSUME k + 1 <= e - s, NEW n \in Nat
               PROVE  Read(k + 1, n) = n * T!Power[k + 1] + sum[Left(k + 1)]
    OBVIOUS
  <2> DEFINE i == e + 1 - (k + 1)
             c == text[i]
             p == T!Power[k]
             rest == sum[Left(k)]
  <2>1. /\ i \in Span /\ i \in Nat /\ i <= Len(text)
        /\ i + 1 = e + 1 - k /\ e - i = k /\ k <= e - s
    BY <1>1
  <2>2. Left(k) \in SUBSET Span /\ Left(k + 1) \in SUBSET Span
        /\ i \in Left(k + 1) /\ Left(k + 1) \ {i} = Left(k)
    BY <2>1
  <2>3. Read(k + 1, n) = ReadOf(text)[<<i, n>>]
    OBVIOUS
  <2>4. \A m \in Nat : ReadOf(text)[<<i + 1, m>>] = m * p + rest
    <3>1. \A m \in Nat : Read(k, m) = m * p + rest
      BY <1>6, <2>1
    <3> QED
      BY <2>1, <3>1
  <2>5. c \in Digit
    <3>1. \A j \in Span : text[j] \in Digit
      OBVIOUS
    <3> HIDE DEF i, Span
    <3> QED
      BY <2>1, <3>1
  <2>6. p \in Nat /\ T!Power[k + 1] = Radix * p
    BY PowerIs
  <2>7. w[i] = c * p
    <3>1. w[i] = W(i)
      <4> HIDE DEF i, Span, W
      <4> QED
        BY <1>4, <2>1
    <3> QED
      BY <2>1, <3>1
  <2> HIDE DEF Span, Left, Read, W, i, p, S
  <2>8. rest \in Nat /\ sum[Left(k + 1)] = c * p + rest
    <3>1. sum \in [SUBSET Span -> Nat]
      BY <1>4
    <3>2. \A t \in SUBSET Span : \A x \in t : sum[t] = w[x] + sum[t \ {x}]
      BY <1>4
    <3>3. sum[Left(k + 1)] = w[i] + rest
      BY <2>2, <3>2
    <3>4. rest \in Nat
      BY <2>2, <3>1
    <3> QED
      BY <2>7, <3>3, <3>4
  <2>9. ReadOf(text)[<<i, n>>] = ReadOf(text)[<<i + 1, n * Radix + c>>]
    BY <2>1, <2>5, ReadIs
  <2> HIDE DEF c, rest
  <2>10. ReadOf(text)[<<i + 1, n * Radix + c>>] = (n * Radix + c) * p + rest
    BY <2>4, <2>5, <2>6, <2>8, OneDigit
  <2>11. (n * Radix + c) * p + rest = n * (Radix * p) + (c * p + rest)
    BY <2>5, <2>6, <2>8, OneDigit
  <2> QED
    BY <2>3, <2>6, <2>8, <2>9, <2>10, <2>11
<1>7. \A k \in Nat : k \in S
  <2> HIDE DEF S
  <2> QED
    BY <1>5, <1>6, CountInduction
<1> DEFINE k0 == e - s
<1>8. k0 \in Nat /\ k0 <= e - s /\ Left(k0) = Span /\ e + 1 - k0 = s + 1
  OBVIOUS
<1>9. Read(k0, 0) = 0 * T!Power[k0] + sum[Left(k0)]
  <2> HIDE DEF k0, Read, Left
  <2> QED
    BY <1>7, <1>8
<1>10. sum[Span] \in Nat
  <2> HIDE DEF Span
  <2> QED
    BY <1>4
<1>11. 0 * T!Power[k0] = 0
  <2>1. T!Power[k0] \in Nat
    BY <1>8, PowerIs
  <2> QED
    BY <2>1
<1>12. Read(k0, 0) = ReadOf(text)[<<s + 1, 0>>]
  BY <1>8
<1> HIDE DEF k0, Read, Left, Span
<1> QED
  BY <1>4, <1>8, <1>9, <1>10, <1>11, <1>12

\* Zero is its own opposite.
LEMMA ZeroIs ==
  ASSUME NEW n \in Int, n <= 0, n >= 0
  PROVE  -n = 0
<1> DEFINE m == -n
<1>1. m <= 0 /\ m >= 0 /\ m \in Int
  OBVIOUS
<1> HIDE DEF m
<1>2. m = 0
  BY <1>1
<1> QED
  BY <1>2 DEF m

\* atoll reads the number that a text begins with, and the nearest end of the
\* range for one that 64 bits do not hold, whatever the base and the width are.
THEOREM AtollIs ==
  ASSUME NEW text \in Text
  PROVE  Atoll(text) = T!Prefix(text)
<1> DEFINE L == Len(text)
<1>1. L \in Nat /\ 0 \in 0 .. L
  BY DEF Text
<1>2. PICK b \in 0 .. L : /\ \A i \in 0 + 1 .. b : text[i] \in {Blank}
                          /\ b < L => text[b + 1] \notin {Blank}
  BY <1>1, RunEnds
<1> DEFINE at == b + 1
           signed == at <= L /\ text[at] \in {Minus, Plus}
           s == IF signed THEN at ELSE b
<1>3. b \in Nat /\ s \in Nat /\ s \in 0 .. L /\ (s = b \/ s = b + 1) /\ (signed <=> s = b + 1)
  BY <1>1
<1> HIDE DEF s
<1>4. PICK e \in s .. L : /\ \A i \in s + 1 .. e : text[i] \in Digit
                          /\ e < L => text[e + 1] \notin Digit
  BY <1>3, RunEnds
<1> DEFINE size == T!DigitsValue(text, s, e)
           minus == signed /\ text[at] = Minus
<1>5. e \in Nat /\ s <= e /\ e <= L
  BY <1>1, <1>3
<1>6. ReadOf(text)[<<s + 1, 0>>] = size /\ size \in Nat
  BY <1>3, <1>4, <1>5, ReadTo
<1>7. SkipOf(text)[1] = at
  <2>1. (\A i \in 1 .. b : text[i] = Blank) /\ (b < L => text[b + 1] # Blank)
    BY <1>2
  <2> QED
    BY <2>1, SkipTo
<1>8. Scanned(text) = IF minus THEN -size ELSE size
  <2>1. s + 1 = IF signed THEN at + 1 ELSE at
    BY <1>3
  <2> HIDE DEF size
  <2>2. Scanned(text) =
          LET size_1 == ReadOf(text)[<<IF signed THEN at + 1 ELSE at, 0>>]
          IN IF minus THEN -size_1 ELSE size_1
    BY <1>7, ScannedIs
  <2> QED
    BY <1>6, <2>1, <2>2
\* There is no digit among the blanks and the signs.
<1>9. Blank \notin Digit /\ Minus \notin Digit /\ Plus \notin Digit /\ Blank \notin {Minus, Plus}
  BY DEF Blank, Minus, Plus, Digit
<1>10. T!Digit = Digit /\ T!Blank = Blank /\ T!Minus = Minus /\ T!Plus = Plus
  BY DEF T!Digit, Digit, T!Blank, Blank, T!Minus, Minus, T!Plus, Plus
\* There is no other split.
<1>11. ASSUME NEW b1 \in 0 .. L, NEW s1 \in 0 .. L, NEW e1 \in 0 .. L,
              b1 <= s1, s1 < e1, T!IsSplit(text, b1, s1, e1)
       PROVE  b1 = b /\ s1 = s /\ e1 = e
  <2>1. /\ \A i \in 1 .. b1 : text[i] = Blank
        /\ s1 = b1 \/ (s1 = b1 + 1 /\ text[s1] \in {Minus, Plus})
        /\ \A i \in s1 + 1 .. e1 : text[i] \in Digit
        /\ e1 < L => text[e1 + 1] \notin Digit
    BY <1>10, <1>11 DEF T!IsSplit
  <2>2. text[s1 + 1] \in Digit /\ s1 + 1 <= L
    BY <1>1, <1>11, <2>1
  <2>3. ~(b1 < b)
    <3> SUFFICES ASSUME b1 < b PROVE FALSE
      OBVIOUS
    <3>1. b1 + 1 \in 0 + 1 .. b
      BY <1>3
    <3>2. text[b1 + 1] = Blank
      BY <1>2, <3>1
    <3> QED
      BY <1>9, <2>1, <2>2, <3>2
  <2>4. ~(b < b1)
    <3> SUFFICES ASSUME b < b1 PROVE FALSE
      OBVIOUS
    <3>1. b + 1 \in 1 .. b1 /\ b < L
      BY <1>1, <1>3
    <3> QED
      BY <1>2, <2>1, <3>1
  <2>5. b1 = b
    BY <1>3, <2>3, <2>4
  <2>6. s1 = s
    <3>1. CASE s1 = b
      <4>1. ~signed
        BY <1>9, <2>2, <3>1
      <4> QED
        BY <1>3, <3>1, <4>1
    <3>2. CASE s1 = b + 1 /\ text[s1] \in {Minus, Plus}
      BY <1>3, <3>2
    <3> QED
      BY <2>1, <2>5, <3>1, <3>2
  <2>7. ~(e1 < e)
    <3> SUFFICES ASSUME e1 < e PROVE FALSE
      OBVIOUS
    <3>1. e1 + 1 \in s + 1 .. e /\ e1 < L
      BY <1>1, <1>3, <1>5, <1>11, <2>6
    <3> QED
      BY <1>4, <2>1, <3>1
  <2>8. ~(e < e1)
    <3> SUFFICES ASSUME e < e1 PROVE FALSE
      OBVIOUS
    <3>1. e + 1 \in s1 + 1 .. e1 /\ e < L
      BY <1>1, <1>3, <1>5, <1>11, <2>6
    <3> QED
      BY <1>4, <2>1, <3>1
  <2> QED
    BY <1>5, <2>5, <2>6, <2>7, <2>8
<1> DEFINE split == <<b, s, e>>
<1>12. \A x \in T!Splits(text) : x = split
  <2> SUFFICES ASSUME NEW x \in T!Splits(text) PROVE x = split
    OBVIOUS
  <2>1. /\ x \in (0 .. L) \X (0 .. L) \X (0 .. L)
        /\ x[1] <= x[2] /\ x[2] < x[3] /\ T!IsSplit(text, x[1], x[2], x[3])
    BY DEF T!Splits
  <2>2. x[1] = b /\ x[2] = s /\ x[3] = e
    BY <1>11, <2>1
  <2> QED
    BY <2>1, <2>2
<1>13. split \in T!Splits(text) <=> s < e
  <2>1. s < e => T!IsSplit(text, b, s, e)
    <3>1. \A i \in 1 .. b : text[i] = Blank
      BY <1>2
    <3>2. s = b \/ (s = b + 1 /\ text[s] \in {Minus, Plus})
      BY <1>3
    <3> QED
      BY <1>4, <1>10, <3>1, <3>2 DEF T!IsSplit
  <2>2. b \in 0 .. L /\ s \in 0 .. L /\ e \in 0 .. L /\ b <= s
    BY <1>1, <1>3, <1>5
  <2>3. split \in (0 .. L) \X (0 .. L) \X (0 .. L)
        /\ split[1] = b /\ split[2] = s /\ split[3] = e
    BY <2>2
  <2> HIDE DEF split
  <2> QED
    BY <2>1, <2>2, <2>3 DEF T!Splits
<1>14. minus <=> \E i \in 1 .. s : text[i] = T!Minus
  <2>1. ASSUME NEW i \in 1 .. s, text[i] = Minus PROVE minus
    <3>1. ~(i <= b)
      <4>1. i <= b => i \in 0 + 1 .. b
        BY <1>3
      <4>2. Minus # Blank
        BY <1>9
      <4> QED
        BY <1>2, <2>1, <4>1, <4>2
    <3>2. i = at /\ signed
      BY <1>3, <3>1
    <3> QED
      BY <2>1, <3>2
  <2>2. ASSUME minus PROVE at \in 1 .. s /\ text[at] = Minus
    BY <1>3, <2>2
  <2> QED
    BY <1>10, <2>1, <2>2
<1>15. Atoll(text) = Saturated(IF minus THEN -size ELSE size)
  BY <1>8 DEF Atoll
<1> HIDE DEF minus, size, split
<1>16. CASE s < e
  <2>1. T!Splits(text) # {} /\ (CHOOSE x \in T!Splits(text) : TRUE) = split
    BY <1>12, <1>13, <1>16
  <2>2. split[2] = s /\ split[3] = e
    BY DEF split
  <2>3. T!Prefix(text) =
          LET x == CHOOSE x \in T!Splits(text) : TRUE
              n == T!DigitsValue(text, x[2], x[3])
          IN T!Nearest(IF \E i \in 1 .. x[2] : text[i] = T!Minus THEN -n ELSE n)
    BY <2>1, Zenon DEF T!Prefix
  <2>4. T!Prefix(text) = T!Nearest(IF minus THEN -size ELSE size)
    BY <1>14, <2>1, <2>2, <2>3 DEF size
  <2> DEFINE n == IF minus THEN -size ELSE size
  <2>5. n \in Int
    BY <1>6
  <2> HIDE DEF n
  <2>6. Saturated(n) = T!Nearest(n)
    BY <2>5, Limits DEF Saturated, T!Nearest, T!MinInt, Int64, MinInt
  <2> QED
    BY <1>15, <2>4, <2>6 DEF n
<1>17. CASE ~(s < e)
  <2>1. T!Splits(text) = {}
    BY <1>12, <1>13, <1>17
  <2>2. T!Prefix(text) = 0
    BY <2>1 DEF T!Prefix
  <2>3. s + 1 \in Nat /\ ~(s + 1 <= L /\ text[s + 1] \in Digit)
    <3>1. e = s
      BY <1>3, <1>5, <1>17
    <3> QED
      BY <1>1, <1>3, <1>4, <3>1
  <2>4. size = 0
    <3>1. ReadOf(text)[<<s + 1, 0>>] = 0
      BY <2>3, ReadIs
    <3> QED
      BY <1>6, <3>1
  <2>5. (IF minus THEN -size ELSE size) = 0
    <3>1. -size = 0
      <4>1. size \in Int /\ size <= 0 /\ size >= 0
        BY <2>4
      <4> QED
        BY <4>1, ZeroIs
    <3> QED
      BY <2>4, <3>1, Zenon
  <2>6. Saturated(0) = 0
    BY Limits DEF Saturated
  <2> QED
    BY <1>15, <2>2, <2>5, <2>6
<1> QED
  BY <1>16, <1>17

\* Dividing by p and then by the base is dividing by their product, too.
LEMMA DividedAfter ==
  ASSUME NEW n \in Nat, NEW p \in Nat \ {0}
  PROVE  /\ n \div p \in Nat
         /\ Front(n \div p) = n \div (Radix * p)
<1> DEFINE q == n \div p
           r == n % p
           d == Front(q)
           s == End(q)
<1>1. q \in Int /\ r \in 0 .. p - 1 /\ n = p * q + r
  BY Z3
<1> HIDE DEF q, r
<1>2. q \in Nat
  <2> SUFFICES ASSUME q <= -1 PROVE FALSE
    BY <1>1
  <2>1. p * q <= -p
    BY <1>1, Z3
  <2> QED
    BY <1>1, <2>1
<1>3. d \in Nat /\ s \in 0 .. Radix - 1 /\ q = Radix * d + s
  BY <1>2, DivMod DEF Front, End, Digit
<1> HIDE DEF d, s
<1> DEFINE b == Radix * p
           rest == p * s + r
<1>4. b \in Nat \ {0}
  BY Z3
<1>5. rest \in 0 .. b - 1
  <2>1. p * s >= 0 /\ p * s <= p * (Radix - 1) /\ p * s \in Int
    BY <1>3, Z3
  <2>2. p * (Radix - 1) = b - p
    BY Z3
  <2> HIDE DEF b
  <2> QED
    BY <1>1, <1>4, <2>1, <2>2
<1>6. n = b * d + rest
  <2>1. p * (Radix * d + s) = b * d + p * s
    BY <1>3, Z3
  <2>2. b * d \in Int /\ p * s \in Int
    BY <1>3, <1>4, Z3
  <2> HIDE DEF b
  <2> QED
    BY <1>1, <1>3, <2>1, <2>2
<1>7. n \div b = d
  <2> HIDE DEF b, rest
  <2> QED
    BY <1>3, <1>4, <1>5, <1>6, Quotient
<1> QED
  BY <1>2, <1>7 DEF b, d, q

\* The second loop reads the number that a numeral is of.
LEMMA ReadNumeral ==
  ASSUME NEW text \in Text, NEW s \in Nat, NEW m \in Nat,
         Len(text) = s + Places(m), \A i \in 1 .. Places(m) : text[s + i] = Numeral[m][i]
  PROVE  ReadOf(text)[<<s + 1, 0>>] = m
<1> DEFINE c == Places(m)
           Upto(j) == m \div T!Power[c - j]
           S == {j \in Nat : j <= c => ReadOf(text)[<<s + 1, 0>>] = ReadOf(text)[<<s + 1 + j, Upto(j)>>]}
<1>1. c \in Nat /\ c >= 1
  BY PlacesIs, NumeralLength
<1>2. \A k \in Nat : T!Power[k] \in Nat \ {0} /\ T!Power[k + 1] = Radix * T!Power[k]
  <2>1. ASSUME NEW k \in Nat PROVE T!Power[k] \in Nat \ {0} /\ T!Power[k + 1] = Radix * T!Power[k]
    <3>1. k <= k
      OBVIOUS
    <3>2. T!Power[k] \in Nat /\ 1 <= T!Power[k]
      BY <3>1, PowerIs, PowerGrows
    <3> QED
      BY <3>2, PowerIs
  <2> QED
    BY <2>1
<1> HIDE DEF c
<1>3. 0 \in S
  <2> DEFINE p == T!Power[c]
  <2>1. p \in Nat \ {0} /\ m \in 0 .. p - 1
    <3>1. p \in Nat \ {0}
      BY <1>1, <1>2
    <3>2. m < p
      BY PlacesBound DEF c
    <3> HIDE DEF p
    <3> QED
      BY <3>1, <3>2
  <2> HIDE DEF p
  <2>2. (p * 0 + m) \div p = 0
    BY <2>1, Quotient
  <2>3. p * 0 + m = m
    BY <2>1
  <2>4. c - 0 = c /\ s + 1 + 0 = s + 1
    BY <1>1
  <2>5. Upto(0) = 0
    BY <2>2, <2>3, <2>4 DEF p
  <2> QED
    BY <2>4, <2>5
<1>4. ASSUME NEW j \in Nat, j \in S PROVE j + 1 \in S
  <2> SUFFICES ASSUME j + 1 <= c
               PROVE  ReadOf(text)[<<s + 1, 0>>] = ReadOf(text)[<<s + 1 + (j + 1), Upto(j + 1)>>]
    OBVIOUS
  <2> DEFINE k == c - (j + 1)
             p == T!Power[k]
             q == Upto(j + 1)
             i == s + 1 + j
  <2>1. k \in Nat /\ c - j = k + 1 /\ i \in Nat /\ i + 1 = s + 1 + (j + 1) /\ i <= Len(text)
        /\ i = s + (j + 1) /\ j + 1 \in 1 .. c /\ j <= c
    BY <1>1 DEF c
  <2>2. p \in Nat \ {0} /\ T!Power[k + 1] = Radix * p
    BY <1>2, <2>1
  <2>3. q \in Nat /\ Upto(j) = Front(q)
    <3> HIDE DEF p, k
    <3>1. m \div p \in Nat /\ Front(m \div p) = m \div (Radix * p)
      BY <2>2, DividedAfter
    <3> QED
      BY <2>1, <2>2, <3>1 DEF p, k
  <2>4. text[i] = End(q)
    <3>1. text[i] = Numeral[m][j + 1]
      BY <2>1 DEF c
    <3>2. Numeral[m][j + 1] = (m \div T!Power[c - (j + 1)]) % Radix
      BY <2>1, NumeralDigits DEF c
    <3> QED
      BY <3>1, <3>2 DEF End
  <2> HIDE DEF k, p, q, i
  <2>5. q = Radix * Front(q) + End(q) /\ End(q) \in Digit /\ Front(q) \in Nat
    BY <2>3, DivMod DEF Front, End
  <2>6. Front(q) * Radix + End(q) = q
    <3>1. Front(q) * Radix = Radix * Front(q)
      BY <2>5
    <3> QED
      BY <2>5, <3>1
  <2>7. ReadOf(text)[<<i, Front(q)>>] = ReadOf(text)[<<i + 1, Front(q) * Radix + text[i]>>]
    <3> DEFINE f == Front(q)
    <3>1. f \in Nat /\ i \in Nat /\ i <= Len(text) /\ text[i] \in Digit
      BY <2>1, <2>4, <2>5
    <3> HIDE DEF f
    <3>2. ReadOf(text)[<<i, f>>] = ReadOf(text)[<<i + 1, f * Radix + text[i]>>]
      BY <3>1, ReadIs
    <3> QED
      BY <3>2 DEF f
  <2>8. ReadOf(text)[<<i, Front(q)>>] = ReadOf(text)[<<i + 1, q>>]
    BY <2>4, <2>6, <2>7
  <2> QED
    BY <1>4, <2>1, <2>3, <2>8 DEF q, i
<1>5. \A j \in Nat : j \in S
  <2> HIDE DEF S
  <2> QED
    BY <1>3, <1>4, CountInduction
<1>6. ReadOf(text)[<<s + 1, 0>>] = ReadOf(text)[<<s + 1 + c, Upto(c)>>]
  <2>1. c <= c
    BY <1>1
  <2> QED
    BY <1>1, <1>5, <2>1
<1>7. Upto(c) = m
  <2>1. c - c = 0 /\ T!Power[0] = 1
    BY <1>1, PowerIs
  <2>2. m \div 1 = m
    BY Z3
  <2> QED
    BY <2>1, <2>2
<1>8. ReadOf(text)[<<s + 1 + c, m>>] = m
  <2>1. s + 1 + c \in Nat /\ ~(s + 1 + c <= Len(text))
    BY <1>1 DEF c
  <2> QED
    BY <2>1, ReadIs
<1> QED
  BY <1>6, <1>7, <1>8

\* atoll reads what std::to_string wrote, so a number survives being kept as a
\* text, the ends of the range included.
THEOREM RoundTrip ==
  ASSUME NEW n \in Int64
  PROVE  Atoll(ToText(n)) = n
<1> DEFINE text == ToText(n)
           m == IF n < 0 THEN -n ELSE n
           s == IF n < 0 THEN 1 ELSE 0
           digits == Numeral[m]
<1>1. n \in Int /\ m \in Nat
  BY Limits DEF Int64
<1>2. text \in Text
  BY ToTextCorrect DEF ToTextTyped
<1>3. text = IF n < 0 THEN <<Minus>> \o digits ELSE digits
  BY DEF ToText
<1>4. digits \in Seq(Digit) /\ Len(digits) = Places(m) /\ Places(m) \in Nat /\ Places(m) >= 1
  BY <1>1, NumeralIs, PlacesIs, NumeralLength DEF Places
<1>5. \A i \in 1 .. Places(m) : digits[i] \in Digit
  BY <1>4
<1> HIDE DEF text, digits
<1>6. /\ Len(text) = s + Places(m)
      /\ \A i \in 1 .. Places(m) : text[s + i] = digits[i]
      /\ n < 0 => text[1] = Minus
  <2>1. CASE n < 0
    <3>1. text = <<Minus>> \o digits
      BY <1>3, <2>1
    <3>2. Len(<<Minus>> \o digits) = 1 + Len(digits) /\ (<<Minus>> \o digits)[1] = Minus
      BY <1>4
    <3>3. \A i \in 1 .. Len(digits) : (<<Minus>> \o digits)[1 + i] = digits[i]
      BY <1>4
    <3>4. s = 1
      BY <2>1
    <3> HIDE DEF s
    <3> QED
      BY <1>4, <3>1, <3>2, <3>3, <3>4
  <2>2. CASE ~(n < 0)
    <3>1. text = digits /\ s = 0
      BY <1>3, <2>2
    <3> HIDE DEF s
    <3> QED
      BY <1>4, <2>2, <3>1
  <2> QED
    BY <2>1, <2>2
<1>7. ReadOf(text)[<<s + 1, 0>>] = m
  <2> HIDE DEF m
  <2>1. s \in Nat
    OBVIOUS
  <2> HIDE DEF s
  <2> QED
    BY <1>1, <1>2, <1>6, <2>1, ReadNumeral DEF digits
<1>8. text[1] # Blank /\ (n < 0 <=> text[1] \in {Minus, Plus}) /\ (n < 0 <=> text[1] = Minus)
  <2>1. ~(n < 0) => text[1] \in Digit
    <3>1. ~(n < 0) => s + 1 = 1
      OBVIOUS
    <3> QED
      BY <1>4, <1>5, <1>6, <3>1
  <2>2. Minus # Blank /\ Blank \notin Digit /\ Minus \notin Digit /\ Plus \notin Digit
    BY DEF Blank, Minus, Plus, Digit
  <2> QED
    BY <1>6, <2>1, <2>2
<1>9. SkipOf(text)[1] = 1
  <2>1. 0 \in 0 .. Len(text) /\ 0 + 1 = 1
    BY <1>4, <1>6
  <2> QED
    BY <1>2, <1>8, <2>1, SkipTo
<1>10. Scanned(text) = IF n < 0 THEN -m ELSE m
  <2>1. 1 <= Len(text)
    BY <1>4, <1>6
  <2>2. Scanned(text) =
          LET at == SkipOf(text)[1]
              signed == at <= Len(text) /\ text[at] \in {Minus, Plus}
              size == ReadOf(text)[<<IF signed THEN at + 1 ELSE at, 0>>]
          IN IF signed /\ text[at] = Minus THEN -size ELSE size
    BY ScannedIs
  <2>3. (IF 1 <= Len(text) /\ text[1] \in {Minus, Plus} THEN 1 + 1 ELSE 1) = s + 1
    BY <1>8, <2>1
  <2> HIDE DEF m, s
  <2> QED
    BY <1>7, <1>8, <1>9, <2>1, <2>2, <2>3
<1>11. Scanned(text) = n
  BY <1>1, <1>10
<1> QED
  BY <1>11 DEF Atoll, Saturated, text

-----------------------------------------------------------------------------
(* Texts in place of values.                                                 *)

\* A database as a client sees it.
TextsIn(objs) == [k \in DOMAIN objs |-> TextOf(objs[k])]

\* Pieces are the same in both.
LEMMA PiecesAre ==
  /\ T!Null = Null
  /\ \A n : T!Integer(n) = Integer(n) /\ T!Array(n) = Array(n)
  /\ \A text : T!Bulk(text) = Bulk(text)
  /\ \A kind : T!Word(kind) = Word(kind) /\ T!Simple(kind) = Simple(kind) /\ T!Error(kind) = Error(kind)
BY DEF T!Null, Null, T!Integer, Integer, T!Array, Array, T!Bulk, Bulk, T!Word, Word,
       T!Simple, Simple, T!Error, Error, T!Piece, Piece

\* What is kept of a text, and which texts are integers.
LEMMA KeptIs ==
  ASSUME NEW text \in Text
  PROVE  /\ TextOf(SetValue(text)) = T!Kept(text)
         /\ IsInteger(text) <=> T!Numeric(text)
<1>1. Atoll(text) = T!Prefix(text) /\ Atoll(text) \in Int64
  BY AtollIs, AtollTyped
<1>2. TextOf(SetValue(text)) = IF Atoll(text) # 0 THEN ToText(Atoll(text)) ELSE text
  BY DEF TextOf, SetValue, Number, Raw
<1>3. ToText(Atoll(text)) = T!Decimal(Atoll(text))
  BY <1>1, ToTextIs
<1> QED
  BY <1>1, <1>2, <1>3 DEF T!Kept, T!Numeric, IsInteger

\* The selected database.
LEMMA DbIs ==
  ASSUME HoldsTexts
  PROVE  /\ T!Db = TextsIn(Db)
         /\ \A key : T!Has(key) <=> Has(key)
         /\ \A key : T!Item(key) = Item(key)
         /\ \A key : Has(key) => T!Db[key] = TextOf(Db[key])
<1>1. T!Db = TextsIn(Db)
  BY DbHeld DEF T!Db, TextsIn, Db
<1>2. \A key : T!Has(key) <=> Has(key)
  BY <1>1 DEF T!Has, Has, TextsIn
<1>3. \A key : Has(key) => T!Db[key] = TextOf(Db[key])
  BY <1>1 DEF TextsIn, Has
<1>4. \A key : T!Item(key) = Item(key)
  BY <1>2, <1>3, PiecesAre DEF T!Item, Item
<1> QED
  BY <1>1, <1>2, <1>3, <1>4

\* A request that leaves the database objs leaves its texts.
LEMMA FinishIs ==
  ASSUME HoldsTexts, NEW objs, NEW pieces, Finish(objs, pieces)
  PROVE  up /\ T!Done(TextsIn(objs), pieces)
<1>1. /\ up /\ up' = up /\ cur_db' = cur_db /\ out' = pieces
      /\ dbs' = [dbs EXCEPT ![cur_db] = objs]
      /\ cur_db \in Dbs /\ DOMAIN dbs = Dbs
  BY DEF Finish, HoldsTexts, TypeOK
<1>2. \A d \in Dbs : dbs'[d] = IF d = cur_db THEN objs ELSE dbs[d]
  BY <1>1
<1> DEFINE texts == [d \in Dbs |-> TextsIn(dbs[d])]
<1>3. [d \in Dbs |-> TextsIn(dbs'[d])] = [texts EXCEPT ![cur_db] = TextsIn(objs)]
  <2> DEFINE X(o) == TextsIn(o)
  <2> HIDE DEF X
  <2>1. [d \in Dbs |-> X(dbs'[d])] = [[d \in Dbs |-> X(dbs[d])] EXCEPT ![cur_db] = X(objs)]
    BY <1>1, <1>2
  <2> QED
    BY <2>1 DEF X
<1>4. T!Done(TextsIn(objs), pieces)
  BY <1>1, <1>3 DEF T!Done, TextsIn, Dbs
<1> QED
  BY <1>1, <1>4

\* A request that leaves the database as it is.
LEMMA ReplyIs ==
  ASSUME HoldsTexts, NEW piece, Reply(piece)
  PROVE  up /\ T!Answer(piece)
<1>1. up /\ T!Done(TextsIn(Db), <<piece>>)
  BY FinishIs DEF Reply
<1> QED
  BY <1>1, DbIs DEF T!Answer

\* The arguments of a request.
LEMMA CallIs ==
  ASSUME NEW cmd, NEW keys, NEW texts, call' = Request(cmd, keys, texts)
  PROVE  /\ call'.cmd = cmd /\ call'.keys = keys /\ call'.texts = texts
         /\ \A c : T!Is(c) <=> cmd = c
         /\ \A i : T!Key(i) = keys[i] /\ T!Arg(i) = texts[i]
BY DEF Request, T!Is, T!Key, T!Arg

\* One more value.
LEMMA PutIs ==
  ASSUME HoldsTexts, NEW key, NEW value
  PROVE  TextsIn(Put(Db, key, value)) = T!Holding(key, TextOf(value))
BY DbIs DEF TextsIn, Put, T!Holding

\* One less.
LEMMA WithoutIs ==
  ASSUME HoldsTexts, NEW key
  PROVE  TextsIn(Without(Db, key)) = T!Lacking(key)
BY DbIs DEF TextsIn, Without, T!Lacking

\* The commands on one key.
LEMMA SetStep ==
  ASSUME HoldsTexts, NEW key \in Keys, NEW text \in Inputs, Set(key, text)
  PROVE  T!Next
<1>1. call' = Request("set", <<key>>, <<text>>) /\ Finish(Put(Db, key, SetValue(text)), <<Ok>>)
  BY DEF Set
<1>2. T!Is("set") /\ T!Key(1) = key /\ T!Arg(1) = text
  BY <1>1, CallIs
<1>3. up /\ T!Done(T!Holding(key, T!Kept(text)), <<Ok>>)
  <2>1. text \in Text
    BY CommandsAssumption
  <2> QED
    BY <1>1, <2>1, FinishIs, PutIs, KeptIs
<1>4. T!Set
  BY <1>2, <1>3, PiecesAre DEF T!Set, Ok
<1> QED
  BY <1>2, <1>3, <1>4 DEF T!Next

\* GET.
LEMMA GetStep ==
  ASSUME HoldsTexts, NEW key \in Keys, Get(key)
  PROVE  T!Next
<1>1. T!Is("get") /\ T!Key(1) = key
  BY CallIs DEF Get
<1>2. up /\ T!Answer(T!Item(key))
  BY ReplyIs, DbIs DEF Get
<1> QED
  BY <1>1, <1>2 DEF T!Next

\* GETDEL.
LEMMA GetDelStep ==
  ASSUME HoldsTexts, NEW key \in Keys, GetDel(key)
  PROVE  T!Next
<1>1. T!Is("getdel") /\ T!Key(1) = key
  BY CallIs DEF GetDel
<1>2. up /\ T!Done(T!Lacking(key), <<T!Item(key)>>)
  BY FinishIs, WithoutIs, DbIs DEF GetDel, Finish, T!Done
<1>3. T!GetDel
  BY <1>1, <1>2 DEF T!GetDel, T!Done
<1> QED
  BY <1>1, <1>2, <1>3 DEF T!Next

\* GETDEL without a key: any key is taken, or the process ends.
LEMMA GetDelNothingStep ==
  ASSUME HoldsTexts, GetDelNothing
  PROVE  T!Next
<1>1. T!Is("getdel") /\ call'.keys = <<>>
  BY CallIs DEF GetDelNothing
<1>2. CASE Fall
  <2>1. up /\ T!Gone
    BY <1>2 DEF Fall, T!Gone
  <2>2. T!GetDel
    BY <1>1, <2>1 DEF T!GetDel, T!Done
  <2> QED
    BY <1>1, <2>1, <2>2 DEF T!Next
<1>3. ASSUME NEW key \in Keys, Finish(Without(Db, key), <<Item(key)>>) PROVE T!Next
  <2>1. up /\ T!Done(T!Lacking(key), <<T!Item(key)>>)
    BY <1>3, FinishIs, WithoutIs, DbIs DEF Finish, T!Done
  <2>2. T!GetDel
    BY <1>1, <2>1 DEF T!GetDel, T!Done
  <2> QED
    BY <1>1, <2>1, <2>2 DEF T!Next
<1> QED
  BY <1>2, <1>3 DEF GetDelNothing

\* STRLEN.
LEMMA StrLenStep ==
  ASSUME HoldsTexts, NEW key \in Keys, StrLen(key)
  PROVE  T!Next
<1>1. T!Is("strlen") /\ T!Key(1) = key
  BY CallIs DEF StrLen
<1>2. up /\ T!Answer(Integer(IF Has(key) THEN Len(TextOf(Db[key])) ELSE 0))
  BY ReplyIs DEF StrLen
<1>3. T!StrLen
  BY <1>1, <1>2, DbIs, PiecesAre DEF T!StrLen
<1> QED
  BY <1>1, <1>2, <1>3 DEF T!Next

\* A value that is not kept as a number is a text that is none, but for 0; this
\* is what the reply of OBJECT ENCODING tells.
LEMMA EncodingStep ==
  ASSUME HoldsTexts, NEW key \in Keys, ObjectEncodingOf(key)
  PROVE  T!Next
<1>1. T!Is("encoding") /\ T!Key(1) = key
  BY CallIs DEF ObjectEncodingOf
<1>2. up /\ T!Answer(IF Has(key) THEN Word(Db[key].encoding) ELSE Null)
  BY ReplyIs DEF ObjectEncodingOf
<1>3. CASE ~Has(key)
  <2>1. T!Encoding
    BY <1>1, <1>2, <1>3, DbIs, PiecesAre DEF T!Encoding
  <2> QED
    BY <1>1, <1>2, <2>1 DEF T!Next
<1>4. CASE Has(key)
  <2> DEFINE value == Db[key]
             text == TextOf(value)
  <2>1. value \in Values /\ Plain(value)
    BY <1>4, DbHeld DEF Held, Has
  <2>2. T!Db[key] = text /\ T!Has(key)
    BY <1>4, DbIs
  <2> HIDE DEF value
  <2>3. text # <<0>> => (value.encoding = "int" <=> T!Prefix(text) # 0)
    <3>1. CASE value.encoding = "raw"
      <4>1. text = value.str /\ value.str \in Text
        BY <2>1, <3>1 DEF TextOf, Values
      <4>2. T!Prefix(text) = 0
        BY <2>1, <3>1, <4>1, AtollIs DEF Plain
      <4> QED
        BY <3>1, <4>2
    <3>2. CASE value.encoding = "int"
      <4>1. text = ToText(value.n) /\ value.n \in Int64
        BY <2>1, <3>2 DEF TextOf, Values
      <4>2. text \in Text
        BY <2>1, TextOfTyped
      <4>3. T!Prefix(text) = value.n
        BY <4>1, <4>2, AtollIs, RoundTrip
      <4>4. ToText(0) = <<0>>
        <5>1. 0 \in Nat /\ 0 < Radix /\ ~(0 < 0)
          OBVIOUS
        <5>2. Numeral[0] = <<0>>
          BY <5>1, NumeralIs, Zenon
        <5> QED
          BY <5>1, <5>2, Zenon DEF ToText
      <4> QED
        BY <3>2, <4>1, <4>3, <4>4
    <3> QED
      BY <2>1, <3>1, <3>2 DEF Values
  <2> HIDE DEF text
  <2>4. PICK word \in {"int", "raw"} : word = value.encoding
    BY <2>1 DEF Values
  <2>5. T!Answer(T!Word(word))
    BY <1>2, <1>4, <2>4, PiecesAre DEF value
  <2>6. T!Encoding
    BY <1>1, <2>2, <2>3, <2>4, <2>5 DEF T!Encoding
  <2> QED
    BY <1>1, <1>2, <2>6 DEF T!Next
<1> QED
  BY <1>3, <1>4

\* APPEND.
LEMMA AppendStep ==
  ASSUME HoldsTexts, NEW key \in Keys, NEW text \in Inputs, AppendTo(key, text)
  PROVE  T!Next
<1>1. T!Is("append") /\ T!Key(1) = key /\ T!Arg(1) = text
  BY CallIs DEF AppendTo
<1>2. text \in Text
  BY CommandsAssumption
<1>3. CASE ~Has(key)
  <2>1. Finish(Put(Db, key, SetValue(text)), <<Integer(Len(text))>>)
    BY <1>3 DEF AppendTo
  <2>2. up /\ T!Done(T!Holding(key, T!Kept(text)), <<Integer(Len(text))>>)
    BY <1>2, <2>1, FinishIs, PutIs, KeptIs
  <2>3. ~T!Has(T!Key(1))
    BY <1>1, <1>3, DbIs
  <2>4. T!AppendTo
    BY <1>1, <2>2, <2>3, PiecesAre DEF T!AppendTo, T!Done
  <2> QED
    BY <1>1, <2>2, <2>4 DEF T!Next
<1>4. CASE Has(key)
  <2> DEFINE joined == TextOf(Db[key]) \o text
  <2>1. Finish(Put(Db, key, SetValue(joined)), <<Integer(0)>>)
    BY <1>4 DEF AppendTo, Joined
  <2>2. joined \in Text
    <3>1. TextOf(Db[key]) \in Text
      BY <1>4, DbHeld, TextOfTyped DEF Held, Has
    <3> QED
      BY <1>2, <3>1 DEF Text
  <2>3. T!Db[key] \o text = joined
    BY <1>4, DbIs
  <2> HIDE DEF joined
  <2>4. up /\ T!Done(T!Holding(key, T!Kept(joined)), <<Integer(0)>>)
    BY <2>1, <2>2, FinishIs, PutIs, KeptIs
  <2>5. T!AppendTo
    BY <1>1, <1>4, <2>3, <2>4, DbIs, PiecesAre DEF T!AppendTo, T!Done
  <2> QED
    BY <1>1, <2>4, <2>5 DEF T!Next
<1> QED
  BY <1>3, <1>4

\* INCR and its like.  One that exists is never an integer for them.
LEMMA CountStep ==
  ASSUME HoldsTexts, NEW key \in Keys, NEW n \in Int64, StringIncrBy(key, n), T!Key(1) = key
  PROVE  up /\ T!Count(n)
<1>1. CASE ~Has(key)
  <2>1. Finish(Put(Db, key, Number(n)), <<Integer(n)>>)
    BY <1>1 DEF StringIncrBy
  <2>2. TextOf(Number(n)) = T!Decimal(n)
    BY NumberHeld, ToTextIs
  <2>3. up /\ T!Done(T!Holding(key, T!Decimal(n)), <<Integer(n)>>)
    BY <2>1, <2>2, FinishIs, PutIs
  <2> QED
    BY <1>1, <2>3, DbIs, PiecesAre DEF T!Count, T!Done
<1>2. CASE Has(key)
  <2>1. Reply(NotInteger)
    BY <1>2 DEF StringIncrBy, ObjectEncoding
  <2>2. up /\ T!Answer(NotInteger)
    BY <2>1, ReplyIs
  <2> QED
    BY <1>2, <2>2, DbIs, PiecesAre DEF T!Count, NotInteger
<1> QED
  BY <1>1, <1>2

\* INCR and DECR.
LEMMA IncrStep ==
  ASSUME HoldsTexts, NEW key \in Keys, Incr(key) \/ Decr(key)
  PROVE  T!Next
<1>1. 1 \in Int64 /\ -1 \in Int64
  BY Limits DEF Int64
<1>2. CASE Incr(key)
  <2>1. T!Is("incr") /\ T!Key(1) = key /\ StringIncrBy(key, 1)
    BY <1>2, CallIs DEF Incr
  <2> QED
    BY <1>1, <2>1, CountStep DEF T!Next
<1>3. CASE Decr(key)
  <2>1. T!Is("decr") /\ T!Key(1) = key /\ StringIncrBy(key, -1)
    BY <1>3, CallIs DEF Decr
  <2> QED
    BY <1>1, <2>1, CountStep DEF T!Next
<1> QED
  BY <1>2, <1>3

\* INCRBY.
LEMMA IncrByStep ==
  ASSUME HoldsTexts, NEW key \in Keys, NEW text \in Inputs, IncrBy(key, text)
  PROVE  T!Next
<1>1. T!Is("incrby") /\ T!Key(1) = key /\ T!Arg(1) = text
  BY CallIs DEF IncrBy
<1>2. text \in Text
  BY CommandsAssumption
<1>3. Atoll(text) = T!Prefix(text) /\ Atoll(text) \in Int64 /\ (IsInteger(text) <=> T!Numeric(text))
  BY <1>2, AtollIs, AtollTyped, KeptIs
<1>4. CASE IsInteger(text)
  <2>1. StringIncrBy(key, T!Prefix(text))
    BY <1>3, <1>4 DEF IncrBy
  <2>2. up /\ T!Count(T!Prefix(text))
    BY <1>1, <1>3, <2>1, CountStep
  <2>3. T!IncrBy
    BY <1>1, <1>3, <1>4, <2>2 DEF T!IncrBy, T!Count, T!Done, T!Answer
  <2> QED
    BY <1>1, <2>2, <2>3 DEF T!Next
<1>5. CASE ~IsInteger(text)
  <2>1. up /\ T!Done(T!Db, <<>>)
    BY <1>5, FinishIs, DbIs DEF IncrBy
  <2>2. T!IncrBy
    BY <1>1, <1>3, <1>5, <2>1 DEF T!IncrBy
  <2> QED
    BY <1>1, <2>1, <2>2 DEF T!Next
<1> QED
  BY <1>4, <1>5

\* DECRBY.
LEMMA DecrByStep ==
  ASSUME HoldsTexts, NEW key \in Keys, NEW text \in Inputs, DecrBy(key, text)
  PROVE  T!Next
<1>1. T!Is("decrby") /\ T!Key(1) = key /\ T!Arg(1) = text
  BY CallIs DEF DecrBy
<1>2. text \in Text /\ T!MinInt = MinInt
  BY CommandsAssumption DEF T!MinInt, MinInt
<1>3. Atoll(text) = T!Prefix(text) /\ Atoll(text) \in Int64 /\ (IsInteger(text) <=> T!Numeric(text))
  BY <1>2, AtollIs, AtollTyped, KeptIs
<1>4. CASE IsInteger(text) /\ Atoll(text) # MinInt
  <2>1. PICK n \in Int64 : n = -Atoll(text)
    BY <1>3, <1>4, Limits DEF Int64
  <2>2. StringIncrBy(key, n)
    BY <1>4, <2>1 DEF DecrBy
  <2>3. up /\ T!Count(n)
    BY <1>1, <2>2, CountStep
  <2>4. T!Numeric(T!Arg(1)) /\ T!Prefix(T!Arg(1)) # T!MinInt /\ -T!Prefix(T!Arg(1)) = n
    BY <1>1, <1>2, <1>3, <1>4, <2>1
  <2>5. T!DecrBy
    BY <2>3, <2>4 DEF T!DecrBy, T!Count, T!Done, T!Answer
  <2> QED
    BY <1>1, <2>3, <2>5 DEF T!Next
<1>5. CASE ~(IsInteger(text) /\ Atoll(text) # MinInt)
  <2>1. up /\ T!Answer(NotInteger)
    BY <1>5, ReplyIs DEF DecrBy
  <2>2. T!DecrBy
    BY <1>1, <1>2, <1>3, <1>5, <2>1, PiecesAre DEF T!DecrBy, NotInteger
  <2> QED
    BY <1>1, <2>1, <2>2 DEF T!Next
<1> QED
  BY <1>4, <1>5

\* SELECT.
LEMMA SelectStep ==
  ASSUME HoldsTexts, NEW text \in Inputs, Select(text)
  PROVE  T!Next
<1>1. T!Is("select") /\ T!Arg(1) = text
  BY CallIs DEF Select
<1>2. text \in Text
  BY CommandsAssumption
<1>3. Atoll(text) = T!Prefix(text) /\ Atoll(text) \in Int64 /\ (IsInteger(text) <=> T!Numeric(text))
  BY <1>2, AtollIs, AtollTyped, KeptIs
<1>4. CASE ~IsInteger(text)
  <2>1. up /\ T!Answer(NotInteger)
    BY <1>4, ReplyIs DEF Select
  <2>2. T!Select
    BY <1>1, <1>3, <1>4, <2>1, PiecesAre DEF T!Select, NotInteger
  <2> QED
    BY <1>1, <2>1, <2>2 DEF T!Next
<1>5. CASE IsInteger(text)
  <2> DEFINE n == Atoll(text)
             index == Narrowed(n)
             w == 2 * (MaxIndex + 1)
             chosen == {d \in Dbs : (n - d) % w = 0}
  <2>1. /\ up /\ up' = up /\ dbs' = dbs
        /\ IF InstSelect(index) THEN cur_db' = index /\ out' = <<Error("index")>>
                                ELSE cur_db' = cur_db /\ out' = <<Ok>>
    BY <1>5 DEF Select
  <2>2. n \in Int /\ MaxIndex \in Nat /\ DbNum \in Nat /\ DbNum <= MaxIndex + 1
    BY <1>3, CommandsAssumption, Limits DEF Int64
  <2> HIDE DEF n
  <2>3. PICK q \in Int : n + MaxIndex + 1 = w * q + (index + MaxIndex + 1)
                         /\ index + MaxIndex + 1 \in 0 .. w - 1
    <3> DEFINE a == n + MaxIndex + 1
               r == a % w
    <3>1. a \in Int /\ w \in Nat \ {0}
      BY <2>2
    <3> HIDE DEF a, w
    <3>2. a \div w \in Int /\ r \in 0 .. w - 1 /\ a = w * (a \div w) + r
      BY <3>1, Z3
    <3>3. r \in Int
      BY <3>1, <3>2
    <3>4. index = r - (MaxIndex + 1)
      BY DEF Narrowed, r, a, w
    <3>5. index + MaxIndex + 1 = r
      <4> HIDE DEF r, index
      <4> QED
        BY <2>2, <3>3, <3>4
    <3> QED
      BY <3>2, <3>5 DEF a
  <2>4. index \in Int
    BY <2>2 DEF Narrowed
  <2> HIDE DEF index
\* The index that is left after narrowing is the only one that is chosen.
  <2>5. ASSUME NEW d \in Dbs PROVE d \in chosen <=> d = index
    <3>1. d \in Nat /\ d + MaxIndex + 1 \in 0 .. w - 1 /\ w \in Nat \ {0}
      BY <2>2 DEF Dbs
    <3> HIDE DEF w
    <3>2. ASSUME d = index PROVE (n - d) % w = 0
      <4>1. n - d = w * q
        <5>1. w * q \in Int
          BY <3>1, Z3
        <5> QED
          BY <2>2, <2>3, <2>4, <3>2, <5>1
      <4>2. (w * q) % w = 0
        BY <3>1, Z3
      <4> QED
        BY <4>1, <4>2
    <3>3. ASSUME (n - d) % w = 0 PROVE d = index
      <4> DEFINE a == n - d
                 p == a \div w
      <4>1. a \in Int
        BY <2>2, <3>1
      <4>2. p \in Int /\ a = w * p + 0
        <5> HIDE DEF a
        <5>1. a \div w \in Int /\ a = w * (a \div w) + (a % w)
          BY <3>1, <4>1, Z3
        <5> QED
          BY <3>3, <5>1 DEF a
      <4> HIDE DEF p
      <4>3. n + MaxIndex + 1 = w * p + (d + MaxIndex + 1)
        <5>1. w * p \in Int
          BY <3>1, <4>2, Z3
        <5> QED
          BY <2>2, <3>1, <4>2, <5>1
      <4> DEFINE x == d + MaxIndex + 1
                 y == index + MaxIndex + 1
      <4>4. x \in 0 .. w - 1 /\ y \in 0 .. w - 1 /\ w * p + x = w * q + y
        BY <2>3, <3>1, <4>3
      <4> HIDE DEF x, y
      <4>5. ~(p < q)
        <5> SUFFICES ASSUME p + 1 <= q PROVE FALSE
          BY <4>2
        <5>1. w * (p + 1) <= w * q /\ w * (p + 1) = w * p + w /\ w * p \in Int /\ w * q \in Int
          BY <3>1, <4>2, Z3
        <5> QED
          BY <3>1, <4>4, <5>1
      <4>6. ~(q < p)
        <5> SUFFICES ASSUME q + 1 <= p PROVE FALSE
          BY <4>2
        <5>1. w * (q + 1) <= w * p /\ w * (q + 1) = w * q + w /\ w * p \in Int /\ w * q \in Int
          BY <3>1, <4>2, Z3
        <5> QED
          BY <3>1, <4>4, <5>1
      <4>7. p = q /\ w * p \in Int
        <5>1. p = q
          BY <4>2, <4>5, <4>6
        <5>2. w * p \in Int
          BY <3>1, <4>2, Z3
        <5> QED
          BY <5>1, <5>2
      <4>8. x = y
        BY <3>1, <4>4, <4>7
      <4> QED
        BY <2>2, <2>4, <3>1, <4>8 DEF x, y
    <3> QED
      BY <3>2, <3>3
  <2>6. InstSelect(index) <=> index \in Dbs
    BY <2>2, <2>4 DEF InstSelect, Dbs
  <2>7. IF chosen = {} THEN cur_db' = cur_db ELSE cur_db' \in chosen
    <3> HIDE DEF chosen
    <3>1. chosen \subseteq Dbs
      BY DEF chosen
    <3> QED
      BY <2>1, <2>5, <2>6, <3>1
  <2>8. {d \in T!Dbs : (T!Prefix(T!Arg(1)) - d) % (2 * (MaxIndex + 1)) = 0} = chosen
    BY <1>1, <1>3 DEF T!Dbs, Dbs, n
  <2>9. \E piece \in {T!Simple("OK"), T!Error("index")} : out' = <<piece>>
    BY <2>1, PiecesAre DEF Ok
  <2>10. T!Numeric(T!Arg(1))
    BY <1>1, <1>3, <1>5
  <2> HIDE DEF chosen
  <2>11. T!Select
    BY <2>1, <2>7, <2>8, <2>9, <2>10 DEF T!Select, Dbs
  <2> QED
    BY <1>1, <2>1, <2>11 DEF T!Next
<1> QED
  BY <1>4, <1>5

\* The keys of a request of several.
LEMMA KeySeqIs ==
  ASSUME NEW keys \in KeySeqs
  PROVE  keys \in Seq(Keys) /\ Len(keys) \in Nat /\ DOMAIN keys = 1 .. Len(keys)
<1>1. PICK n \in 0 .. MaxArgs : keys \in [1 .. n -> Keys]
  BY DEF KeySeqs
<1>2. n \in Nat
  BY CommandsAssumption
<1>3. keys \in Seq(Keys)
  BY <1>1, <1>2
<1> QED
  BY <1>3

\* MGET.
LEMMA MGetStep ==
  ASSUME HoldsTexts, NEW keys \in KeySeqs, MGet(keys)
  PROVE  T!Next
<1>1. T!Is("mget") /\ call'.keys = keys /\ \A i : T!Key(i) = keys[i]
  BY CallIs DEF MGet
<1> DEFINE items == [i \in 1 .. Len(keys) |-> Item(keys[i])]
<1>2. PICK pieces : pieces = <<Array(Len(keys))>> \o items
  OBVIOUS
<1>3. Finish(Db, pieces)
  BY <1>2 DEF MGet, Finish
<1>4. up /\ T!Done(T!Db, pieces)
  BY <1>3, FinishIs, DbIs
<1>5. [i \in DOMAIN call'.keys |-> T!Item(T!Key(i))] = items
  BY <1>1, DbIs, KeySeqIs
<1>6. <<T!Array(Len(call'.keys))>> \o [i \in DOMAIN call'.keys |-> T!Item(T!Key(i))] = pieces
  BY <1>1, <1>2, <1>5, PiecesAre
<1>7. T!MGet
  BY <1>4, <1>6 DEF T!MGet, T!Done
<1> QED
  BY <1>1, <1>4, <1>7 DEF T!Next

\* A set of places has a greatest one.
LEMMA Greatest ==
  ASSUME NEW n \in Nat, NEW S, S \subseteq 1 .. n, S # {}
  PROVE  T!Max(S) \in S /\ \A y \in S : T!Max(S) >= y
<1> DEFINE Rest == {n - y : y \in S}
<1>1. Rest \subseteq Nat /\ Rest # {}
  <2>1. ASSUME NEW y \in S PROVE y \in Int /\ n - y \in Nat
    OBVIOUS
  <2>2. Rest \subseteq Nat
    BY <2>1
  <2>3. PICK y \in S : TRUE
    OBVIOUS
  <2>4. n - y \in Rest
    OBVIOUS
  <2> QED
    BY <2>2, <2>4
<1>2. PICK x \in Rest : \A y \in Rest : x <= y
  <2> HIDE DEF Rest
  <2> QED
    BY <1>1, Least
<1>3. PICK z \in S : x = n - z
  OBVIOUS
<1>4. \A y \in S : z >= y
  <2>1. ASSUME NEW y \in S PROVE z >= y
    <3>1. n - y \in Rest /\ y \in Int /\ z \in Int
      OBVIOUS
    <3> HIDE DEF Rest
    <3>2. n - z <= n - y
      BY <1>2, <1>3, <3>1
    <3> QED
      BY <3>1, <3>2
  <2> QED
    BY <2>1
<1> QED
  BY <1>4 DEF T!Max

\* MSET.  The last value that a key is given is the one at the greatest place.
LEMMA MSetStep ==
  ASSUME HoldsTexts, NEW keys \in KeySeqs, NEW texts \in [DOMAIN keys -> Pairs], MSet(keys, texts)
  PROVE  T!Next
<1>1. T!Is("mset") /\ call'.keys = keys /\ \A i : T!Key(i) = keys[i] /\ T!Arg(i) = texts[i]
  BY CallIs DEF MSet
<1>2. Len(keys) \in Nat /\ DOMAIN keys = 1 .. Len(keys)
  BY KeySeqIs
<1> DEFINE n == Len(keys)
           last(i, key) == keys[i] = key /\ \A j \in i + 1 .. n : keys[j] # key
           named == {key \in Keys : \E i \in DOMAIN keys : last(i, key)}
           place(key) == CHOOSE i \in DOMAIN keys : last(i, key)
           value(key) == SetValue(texts[place(key)])
           objs == [key \in DOMAIN Db \cup named |-> IF key \in named THEN value(key) ELSE Db[key]]
           at(k) == {i \in DOMAIN keys : keys[i] = k}
<1>3. Finish(objs, <<Ok>>)
  BY DEF MSet
<1>4. ASSUME NEW k, at(k) # {} PROVE \A i \in DOMAIN keys : last(i, k) <=> i = T!Max(at(k))
  <2>1. T!Max(at(k)) \in at(k) /\ \A y \in at(k) : T!Max(at(k)) >= y
    <3>1. at(k) \subseteq 1 .. n
      BY <1>2
    <3> HIDE DEF at, n
    <3> QED
      BY <1>2, <1>4, <3>1, Greatest DEF n
  <2> DEFINE m == T!Max(at(k))
  <2> HIDE DEF m
  <2>2. m \in 1 .. n /\ keys[m] = k /\ \A y \in 1 .. n : keys[y] = k => m >= y
    BY <1>2, <2>1 DEF m
  <2>3. ASSUME NEW i \in 1 .. n PROVE last(i, k) <=> i = m
    <3>1. ASSUME last(i, k) PROVE i = m
      <4>1. m >= i
        BY <2>2, <3>1
      <4>2. ~(m > i)
        <5>1. m > i => m \in i + 1 .. n
          BY <1>2, <2>2
        <5> QED
          BY <2>2, <3>1, <5>1
      <4> QED
        BY <1>2, <2>2, <4>1, <4>2
    <3>2. ASSUME i = m PROVE last(i, k)
      <4>1. ASSUME NEW j \in i + 1 .. n PROVE keys[j] # k
        <5>1. j \in 1 .. n /\ ~(m >= j)
          BY <1>2, <2>2, <3>2
        <5> QED
          BY <2>2, <5>1
      <4> QED
        BY <2>2, <3>2, <4>1
    <3> QED
      BY <3>1, <3>2
  <2> QED
    BY <1>2, <2>3 DEF m
<1>5. ASSUME NEW k \in Keys PROVE k \in named <=> at(k) # {}
  <2>1. k \in named => at(k) # {}
    OBVIOUS
  <2>2. ASSUME at(k) # {} PROVE k \in named
    <3>1. T!Max(at(k)) \in at(k)
      <4>1. at(k) \subseteq 1 .. n
        BY <1>2
      <4> HIDE DEF at, n
      <4> QED
        BY <1>2, <2>2, <4>1, Greatest DEF n
    <3>2. T!Max(at(k)) \in DOMAIN keys
      BY <3>1
    <3>3. last(T!Max(at(k)), k)
      <4> HIDE DEF last, at
      <4> QED
        BY <1>4, <2>2, <3>2
    <3> HIDE DEF last, at
    <3> QED
      BY <3>2, <3>3
  <2> QED
    BY <2>1, <2>2
<1>6. ASSUME NEW k \in named PROVE place(k) = T!Max(at(k)) /\ place(k) \in DOMAIN keys
  <2>1. at(k) # {} /\ \E i \in DOMAIN keys : last(i, k)
    <3>1. k \in Keys
      OBVIOUS
    <3> QED
      BY <1>5, <3>1
  <2>2. \A i \in DOMAIN keys : last(i, k) <=> i = T!Max(at(k))
    <3> HIDE DEF at, last
    <3> QED
      BY <1>4, <2>1
  <2> HIDE DEF at, last
  <2> QED
    BY <2>1, <2>2
<1>7. ASSUME NEW k \in named PROVE TextOf(value(k)) = T!Kept(texts[T!Max(at(k))])
  <2>1. texts[place(k)] \in Text
    <3>1. place(k) \in DOMAIN keys
      BY <1>6
    <3> HIDE DEF place
    <3>2. texts[place(k)] \in Pairs
      BY <3>1
    <3> QED
      BY <3>2, CommandsAssumption
  <2>2. place(k) = T!Max(at(k))
    BY <1>6
  <2> HIDE DEF place, at
  <2> QED
    BY <2>1, <2>2, KeptIs
<1> DEFINE named2 == {k \in Keys : at(k) # {}}
           texts2 == [k \in DOMAIN T!Db \cup named2 |->
                        IF k \in named2 THEN T!Kept(texts[T!Max(at(k))]) ELSE T!Db[k]]
<1>8. named2 = named
  <2>1. \A k \in Keys : k \in named <=> at(k) # {}
    BY <1>5
  <2>2. named \subseteq Keys
    OBVIOUS
  <2> HIDE DEF named, at
  <2> QED
    BY <2>1, <2>2
<1>9. TextsIn(objs) = texts2
  <2> HIDE DEF named, value, at, named2
  <2>1. DOMAIN T!Db = DOMAIN Db /\ \A k \in DOMAIN Db : T!Db[k] = TextOf(Db[k])
    BY DbIs DEF TextsIn
  <2> QED
    BY <1>7, <1>8, <2>1 DEF TextsIn
<1>10. up /\ T!Done(texts2, <<Ok>>)
  <2> HIDE DEF objs, texts2
  <2>1. PICK pieces : pieces = <<Ok>>
    OBVIOUS
  <2>2. Finish(objs, pieces)
    BY <1>3, <2>1 DEF Finish
  <2>3. up /\ T!Done(TextsIn(objs), pieces)
    BY <2>2, FinishIs
  <2>4. PICK o : o = objs
    OBVIOUS
  <2> QED
    BY <1>9, <2>1, <2>3 DEF T!Done
<1>11. texts2 =
         LET at_1(k) == {i \in DOMAIN call'.keys : T!Key(i) = k}
             named_1 == {k \in Keys : at_1(k) # {}}
         IN [k \in DOMAIN T!Db \cup named_1 |->
               IF k \in named_1 THEN T!Kept(T!Arg(T!Max(at_1(k)))) ELSE T!Db[k]]
  <2>1. \A k : {i \in DOMAIN call'.keys : T!Key(i) = k} = at(k)
    BY <1>1
  <2> QED
    BY <1>1, <2>1
<1> HIDE DEF texts2
<1>12. T!MSet
  BY <1>10, <1>11, PiecesAre DEF T!MSet, T!Done, Ok
<1> QED
  BY <1>1, <1>10, <1>12 DEF T!Next

\* The greatest and the least of a set.
LEMMA MaxIs ==
  ASSUME NEW S, S \subseteq Int, NEW m \in S, \A y \in S : m >= y
  PROVE  T!Max(S) = m
<1>1. T!Max(S) \in S /\ \A y \in S : T!Max(S) >= y
  BY DEF T!Max
<1> DEFINE x == T!Max(S)
<1> HIDE DEF x
<1>2. x \in S /\ x >= m /\ m >= x
  BY <1>1 DEF x
<1>3. x = m
  BY <1>2
<1> QED
  BY <1>3 DEF x

\* The least of a set.
LEMMA MinIs ==
  ASSUME NEW S, S \subseteq Int, NEW m \in S, \A y \in S : m <= y
  PROVE  T!Min(S) = m
<1>1. T!Min(S) \in S /\ \A y \in S : T!Min(S) <= y
  BY DEF T!Min
<1> DEFINE x == T!Min(S)
<1> HIDE DEF x
<1>2. x \in S /\ x <= m /\ m <= x
  BY <1>1 DEF x
<1>3. x = m
  BY <1>2
<1> QED
  BY <1>3 DEF x

\* The place of an index.
LEMMA PlaceIs ==
  ASSUME NEW i \in Int, NEW size \in Nat
  PROVE  T!Place(i, size) = FromEnd(i, size) /\ FromEnd(i, size) \in Nat
<1> DEFINE j == IF i < 0 THEN i + size ELSE i
<1>1. j \in Int
  OBVIOUS
<1>2. FromEnd(i, size) = IF j < 0 THEN 0 ELSE j
  BY DEF FromEnd
<1>3. T!Place(i, size) = T!Max({0, j})
  BY DEF T!Place
<1> HIDE DEF j
<1>4. T!Max({0, j}) = IF j < 0 THEN 0 ELSE j
  <2>1. CASE j < 0
    BY <1>1, <2>1, MaxIs
  <2>2. CASE ~(j < 0)
    BY <1>1, <2>2, MaxIs
  <2> QED
    BY <2>1, <2>2
<1> QED
  BY <1>1, <1>2, <1>3, <1>4

\* The places of a range in a text that is not empty.
LEMMA RangePlaces ==
  ASSUME NEW size \in Nat \ {0}, NEW s \in Nat, NEW e \in Nat, s <= e,
         NEW places, places = {p \in 0 .. size - 1 : p <= e /\ (p >= s \/ p = size - 1)}
  PROVE  /\ places # {}
         /\ T!Min(places) = IF s > size - 1 THEN size - 1 ELSE s
         /\ T!Max(places) = IF e > size - 1 THEN size - 1 ELSE e
<1>1. places \subseteq Int
  OBVIOUS
<1>2. PICK a : a = IF s > size - 1 THEN size - 1 ELSE s
  OBVIOUS
<1>3. PICK b : b = IF e > size - 1 THEN size - 1 ELSE e
  OBVIOUS
<1>4. a \in places /\ \A y \in places : a <= y
  BY <1>2
<1>5. b \in places /\ \A y \in places : b >= y
  BY <1>3
<1>6. T!Min(places) = a
  BY <1>1, <1>4, MinIs
<1>7. T!Max(places) = b
  BY <1>1, <1>5, MaxIs
<1> QED
  BY <1>2, <1>3, <1>4, <1>6, <1>7

\* What RangeOf takes of a text that is not empty.
LEMMA RangeIs ==
  ASSUME NEW text \in Text, text # <<>>, Len(text) <= MaxSize,
         NEW from \in Int, NEW to \in Int,
         NEW s, s = FromEnd(from, Len(text)), NEW e, e = FromEnd(to, Len(text)),
         NEW places,
         places = {p \in 0 .. Len(text) - 1 : p <= e /\ (p >= s \/ p = Len(text) - 1)}
  PROVE  /\ ~RangeThrows(from, to, Len(text))
         /\ s > e => RangeOf(text, from, to) = <<>>
         /\ s <= e => /\ places # {}
                      /\ RangeOf(text, from, to)
                           = SubSeq(text, T!Min(places) + 1, T!Max(places) + 1)
<1> DEFINE size == Len(text)
<1>1. size \in Nat \ {0} /\ size <= MaxSize
  BY DEF Text
<1>2. s \in Nat /\ e \in Nat
  BY <1>1, PlaceIs
<1>3. Unsigned(size - 1) = size - 1
  <2>1. size - 1 \in 0 .. 2 * (MaxInt + 1) - 1 /\ MaxInt \in Nat
    BY <1>1, Limits DEF MaxSize
  <2> HIDE DEF size
  <2>2. (size - 1) % (2 * (MaxInt + 1)) = size - 1
    <3> DEFINE w == 2 * (MaxInt + 1)
               k == size - 1
    <3>1. w \in Nat \ {0} /\ k \in 0 .. w - 1
      BY <2>1
    <3> HIDE DEF w, k
    <3>2. k % w = k
      BY <3>1
    <3> QED
      BY <3>2 DEF w, k
  <2> QED
    BY <2>2 DEF Unsigned
<1>4. First(from, size) = IF s > size - 1 THEN size - 1 ELSE s
  BY <1>3 DEF First, Clipped
<1>5. Last(to, size) = IF e > size - 1 THEN size - 1 ELSE e
  BY <1>3 DEF Last, Clipped
<1>6. EmptyRange(from, to, size) <=> s > e
  BY DEF EmptyRange
<1>7. ~RangeThrows(from, to, size)
  <2> HIDE DEF size
  <2> QED
    BY <1>1, <1>2, <1>4 DEF RangeThrows
<1>8. ASSUME s <= e
      PROVE  /\ places # {}
             /\ RangeOf(text, from, to) = SubSeq(text, T!Min(places) + 1, T!Max(places) + 1)
  <2>1. /\ places # {}
        /\ T!Min(places) = First(from, size)
        /\ T!Max(places) = Last(to, size)
    <3>1. places = {p \in 0 .. size - 1 : p <= e /\ (p >= s \/ p = size - 1)}
      OBVIOUS
    <3> HIDE DEF size
    <3> QED
      BY <1>1, <1>2, <1>4, <1>5, <1>8, <3>1, RangePlaces
  <2>2. Last(to, size) < size
    <3> HIDE DEF size
    <3> QED
      BY <1>1, <1>2, <1>5
  <2>3. ~(s > e)
    BY <1>2, <1>8
  <2> QED
    BY <1>6, <2>1, <2>2, <2>3 DEF RangeOf
<1> QED
  BY <1>6, <1>7, <1>8 DEF RangeOf

\* What RangeOf takes of an empty text, when substr does not throw.
LEMMA RangeOfNothing ==
  ASSUME NEW from \in Int64, NEW to \in Int64,
         NEW s, s = FromEnd(from, 0), NEW e, e = FromEnd(to, 0)
  PROVE  /\ RangeThrows(from, to, 0) <=> 0 < s /\ s <= e
         /\ ~RangeThrows(from, to, 0) => RangeOf(<<>>, from, to) = <<>>
<1>1. from \in Int /\ to \in Int /\ MaxInt \in Nat /\ from <= MaxInt /\ to <= MaxInt
  BY Limits DEF Int64
<1>2. s \in Nat /\ e \in Nat /\ s <= MaxInt /\ e <= MaxInt
  BY <1>1 DEF FromEnd
<1>3. Unsigned(0 - 1) = 2 * (MaxInt + 1) - 1
  <2> DEFINE w == 2 * (MaxInt + 1)
  <2>1. w \in Nat \ {0}
    BY <1>1
  <2> HIDE DEF w
  <2>2. (0 - 1) % w = w - 1
    BY <2>1, Z3
  <2> QED
    BY <2>2 DEF Unsigned, w
<1>4. First(from, 0) = s /\ Last(to, 0) = e
  <2>1. ~(s > Unsigned(0 - 1)) /\ ~(e > Unsigned(0 - 1))
    BY <1>1, <1>2, <1>3
  <2> QED
    BY <2>1 DEF First, Last, Clipped
<1>5. EmptyRange(from, to, 0) <=> s > e
  BY DEF EmptyRange
<1>6. RangeThrows(from, to, 0) <=> 0 < s /\ s <= e
  BY <1>2, <1>4, <1>5 DEF RangeThrows
<1>7. ASSUME ~RangeThrows(from, to, 0) PROVE RangeOf(<<>>, from, to) = <<>>
  <2>1. CASE s > e
    BY <1>5, <2>1 DEF RangeOf
  <2>2. CASE ~(s > e)
    <3>1. s = 0 /\ ~(e < 0)
      BY <1>2, <1>6, <1>7, <2>2
    <3>2. RangeOf(<<>>, from, to) = SubSeq(<<>>, 1, 0)
      BY <1>4, <1>5, <2>2, <3>1 DEF RangeOf
    <3> QED
      BY <3>2
  <2> QED
    BY <2>1, <2>2
<1> QED
  BY <1>6, <1>7

\* GETRANGE.
LEMMA GetRangeStep ==
  ASSUME HoldsTexts, NEW key \in Keys, NEW from \in Indexes, NEW to \in Indexes,
         GetRange(key, from, to)
  PROVE  T!Next
<1>1. T!Is("getrange") /\ T!Key(1) = key /\ T!Arg(1) = from /\ T!Arg(2) = to
  BY CallIs DEF GetRange
<1>2. from \in Text /\ to \in Text
  BY CommandsAssumption
<1>3. /\ Atoll(from) = T!Prefix(from) /\ (IsInteger(from) <=> T!Numeric(from))
      /\ Atoll(to) = T!Prefix(to) /\ (IsInteger(to) <=> T!Numeric(to))
  BY <1>2, AtollIs, KeptIs
<1>4. PICK text : text = IF T!Has(key) THEN T!Db[key] ELSE <<>>
  OBVIOUS
<1>5. text \in Text /\ Len(text) <= MaxSize /\ (Has(key) => text = TextOf(Db[key]))
  <2>1. CASE Has(key)
    BY <1>4, <2>1, DbIs, DbHeld, TextOfTyped DEF Held, Has
  <2>2. CASE ~Has(key)
    <3>1. text = <<>>
      BY <1>4, <2>2, DbIs
    <3> QED
      BY <2>2, <3>1, EmptySeq, Limits DEF Text, MaxSize
  <2> QED
    BY <2>1, <2>2
<1>6. Len(text) \in Nat
  BY <1>5 DEF Text
<1>7. PICK a \in Int64, b \in Int64 : a = Atoll(from) /\ b = Atoll(to)
  BY AtollTyped
<1>8. a \in Int /\ b \in Int
  BY DEF Int64
<1>9. PICK s, e : s = FromEnd(a, Len(text)) /\ e = FromEnd(b, Len(text))
  OBVIOUS
<1>10. s \in Nat /\ e \in Nat /\ T!Place(a, Len(text)) = s /\ T!Place(b, Len(text)) = e
  BY <1>6, <1>8, <1>9, PlaceIs
<1>11. PICK places : places = {p \in 0 .. Len(text) - 1 : p <= e /\ (p >= s \/ p = Len(text) - 1)}
  OBVIOUS
\* The action of Texts, with names in place of its definitions.
<1>12. T!GetRange <=>
         IF ~IsInteger(from) \/ ~IsInteger(to) THEN T!Answer(T!Error("integer"))
         ELSE IF Has(key) /\ text = <<>> /\ 0 < s /\ s <= e THEN T!Gone
         ELSE IF s > e \/ places = {} THEN T!Answer(T!Bulk(<<>>))
         ELSE T!Answer(T!Bulk(SubSeq(text, T!Min(places) + 1, T!Max(places) + 1)))
  BY <1>1, <1>3, <1>4, <1>7, <1>10, <1>11, DbIs DEF T!GetRange, T!Answer, T!Done
<1>13. CASE ~IsInteger(from) \/ ~IsInteger(to)
  <2>1. Reply(NotInteger)
    BY <1>13 DEF GetRange
  <2>2. up /\ T!Answer(NotInteger)
    BY <2>1, ReplyIs
  <2>3. T!GetRange
    BY <1>12, <1>13, <2>2, PiecesAre DEF NotInteger
  <2> QED
    BY <1>1, <2>2, <2>3 DEF T!Next
<1>14. CASE ~(~IsInteger(from) \/ ~IsInteger(to)) /\ ~Has(key)
  <2>1. Reply(Bulk(<<>>))
    BY <1>14 DEF GetRange
  <2>2. up /\ T!Answer(T!Bulk(<<>>))
    BY <2>1, ReplyIs, PiecesAre
  <2>3. text = <<>>
    BY <1>4, <1>14, DbIs
  <2>4. places = {}
    BY <1>11, <2>3
  <2>5. T!GetRange
    BY <1>12, <1>14, <2>2, <2>4
  <2> QED
    BY <1>1, <2>2, <2>5 DEF T!Next
<1>15. CASE ~(~IsInteger(from) \/ ~IsInteger(to)) /\ Has(key)
  <2>1. IF RangeThrows(a, b, Len(text)) THEN Fall ELSE Reply(Bulk(RangeOf(text, a, b)))
    BY <1>5, <1>7, <1>15 DEF GetRange
  <2>2. CASE text = <<>>
    <3>1. places = {} /\ Len(text) = 0
      BY <1>11, <2>2
    <3>2. /\ RangeThrows(a, b, Len(text)) <=> 0 < s /\ s <= e
          /\ ~RangeThrows(a, b, Len(text)) => RangeOf(text, a, b) = <<>>
      BY <1>9, <2>2, <3>1, RangeOfNothing
    <3>3. CASE RangeThrows(a, b, Len(text))
      <4>1. up /\ T!Gone
        BY <2>1, <3>3 DEF Fall, T!Gone
      <4>2. T!GetRange
        BY <1>12, <1>15, <2>2, <3>2, <3>3, <4>1
      <4> QED
        BY <1>1, <4>1, <4>2 DEF T!Next
    <3>4. CASE ~RangeThrows(a, b, Len(text))
      <4>1. up /\ T!Answer(T!Bulk(<<>>))
        BY <2>1, <3>2, <3>4, ReplyIs, PiecesAre
      <4>2. T!GetRange
        BY <1>12, <1>15, <2>2, <3>1, <3>2, <3>4, <4>1
      <4> QED
        BY <1>1, <4>1, <4>2 DEF T!Next
    <3> QED
      BY <3>3, <3>4
  <2>3. CASE text # <<>>
    <3>1. /\ ~RangeThrows(a, b, Len(text))
          /\ s > e => RangeOf(text, a, b) = <<>>
          /\ s <= e => /\ places # {}
                       /\ RangeOf(text, a, b) = SubSeq(text, T!Min(places) + 1, T!Max(places) + 1)
      BY <1>5, <1>8, <1>9, <1>11, <2>3, RangeIs
    <3>2. PICK range : range = RangeOf(text, a, b)
      OBVIOUS
    <3>3. up /\ T!Answer(T!Bulk(range))
      BY <2>1, <3>1, <3>2, ReplyIs, PiecesAre
    <3>4. CASE s > e
      BY <1>1, <1>12, <1>15, <2>3, <3>1, <3>2, <3>3, <3>4 DEF T!Next
    <3>5. CASE s <= e
      <4>1. ~(s > e)
        BY <1>10, <3>5
      <4>2. T!GetRange
        BY <1>12, <1>15, <2>3, <3>1, <3>2, <3>3, <3>5, <4>1
      <4> QED
        BY <1>1, <3>3, <4>2 DEF T!Next
    <3> QED
      BY <1>10, <3>4, <3>5
  <2> QED
    BY <2>2, <2>3
<1> QED
  BY <1>13, <1>14, <1>15

\* The commands on no key.
LEMMA EchoStep ==
  ASSUME HoldsTexts, NEW text \in Inputs, Echo(text)
  PROVE  T!Next
<1>1. T!Is("echo") /\ T!Arg(1) = text
  BY CallIs DEF Echo
<1>2. up /\ T!Answer(T!Bulk(text))
  BY ReplyIs, PiecesAre DEF Echo
<1>3. T!Answer(T!Bulk(T!Arg(1)))
  BY <1>1, <1>2 DEF T!Answer, T!Done
<1> QED
  BY <1>1, <1>2, <1>3 DEF T!Next

\* The commands that always get the same reply.
LEMMA FixedStep ==
  ASSUME HoldsTexts, Ping \/ ClientSetName \/ Refuse \/ RefuseSilently
  PROVE  T!Next
<1>1. CASE Ping
  <2>1. T!Is("ping")
    BY <1>1, CallIs DEF Ping
  <2>2. up /\ T!Answer(T!Simple("PONG"))
    BY <1>1, ReplyIs, PiecesAre DEF Ping
  <2> QED
    BY <2>1, <2>2 DEF T!Next
<1>2. CASE ClientSetName
  <2>1. T!Is("setname")
    BY <1>2, CallIs DEF ClientSetName
  <2>2. up /\ T!Answer(T!Simple("OK"))
    BY <1>2, ReplyIs, PiecesAre DEF ClientSetName, Ok
  <2> QED
    BY <2>1, <2>2 DEF T!Next
<1>3. CASE Refuse
  <2>1. T!Is("refuse")
    BY <1>3, CallIs DEF Refuse
  <2>2. up /\ T!Answer(T!Error("arity"))
    BY <1>3, ReplyIs, PiecesAre DEF Refuse, Arity
  <2> QED
    BY <2>1, <2>2 DEF T!Next
<1>4. CASE RefuseSilently
  <2>1. T!Is("refuse silently")
    BY <1>4, CallIs DEF RefuseSilently
  <2>2. up /\ T!Done(T!Db, <<>>)
    BY <1>4, FinishIs, DbIs DEF RefuseSilently
  <2> QED
    BY <2>1, <2>2 DEF T!Next
<1> QED
  BY <1>1, <1>2, <1>3, <1>4

\* CLIENT GETNAME, which may find anything, and CLIENT ID.
LEMMA ClientStep ==
  ASSUME HoldsTexts, ClientGetName \/ ClientId
  PROVE  T!Next
<1>1. CASE ClientGetName
  <2>1. T!Is("getname")
    BY <1>1, CallIs DEF ClientGetName
  <2>2. CASE Reply(Null)
    <3>1. up /\ T!Answer(T!Null)
      BY <2>2, ReplyIs, PiecesAre
    <3>2. T!GetName
      BY <3>1 DEF T!GetName
    <3> QED
      BY <2>1, <3>1, <3>2 DEF T!Next
  <2>3. CASE Fall
    <3>1. up /\ T!Gone
      BY <2>3 DEF Fall, T!Gone
    <3>2. T!GetName
      BY <3>1 DEF T!GetName
    <3> QED
      BY <2>1, <3>1, <3>2 DEF T!Next
  <2>4. ASSUME NEW text \in Inputs, Reply(Bulk(text)) PROVE T!Next
    <3>1. up /\ T!Answer(Bulk(text)) /\ out' = <<Bulk(text)>>
      BY <2>4, ReplyIs DEF Reply, Finish
    <3>2. Len(out') = 1 /\ out'[1].type = "bulk"
      BY <3>1 DEF Bulk, Piece
    <3>3. T!Done(T!Db, out')
      BY <3>1 DEF T!Answer, T!Done
    <3>4. T!GetName
      BY <3>2, <3>3 DEF T!GetName
    <3> QED
      BY <2>1, <3>1, <3>4 DEF T!Next
  <2> QED
    BY <1>1, <2>2, <2>3, <2>4 DEF ClientGetName
<1>2. CASE ClientId
  <2>1. T!Is("id")
    BY <1>2, CallIs DEF ClientId
  <2>2. PICK id \in Int64 : id > 0 /\ Reply(Integer(id))
    BY <1>2 DEF ClientId
  <2>3. up /\ T!Answer(Integer(id)) /\ out' = <<Integer(id)>>
    BY <2>2, ReplyIs DEF Reply, Finish
  <2>4. Len(out') = 1 /\ out'[1].n = id
    BY <2>3 DEF Integer, Piece
  <2>5. T!Answer(T!Integer(out'[1].n))
    BY <2>3, <2>4, PiecesAre DEF T!Answer, T!Done
  <2>6. T!Id
    BY <2>2, <2>4, <2>5 DEF T!Id
  <2> QED
    BY <2>1, <2>3, <2>6 DEF T!Next
<1> QED
  BY <1>1, <1>2

\* Every step of Commands is a step of Texts, or none.
LEMMA TextsStep ==
  ASSUME HoldsTexts, [Next]_vars
  PROVE  [T!Next]_(T!vars)
<1>1. CASE UNCHANGED vars
  BY <1>1 DEF vars, T!vars, Dbs, TextOf
<1>2. ASSUME NEW key \in Keys,
             Get(key) \/ GetDel(key) \/ StrLen(key) \/ Incr(key) \/ Decr(key) \/ ObjectEncodingOf(key)
      PROVE  T!Next
  BY <1>2, GetStep, GetDelStep, StrLenStep, IncrStep, EncodingStep
<1>3. ASSUME NEW key \in Keys, NEW text \in Inputs,
             Set(key, text) \/ AppendTo(key, text) \/ IncrBy(key, text) \/ DecrBy(key, text)
      PROVE  T!Next
  BY <1>3, SetStep, AppendStep, IncrByStep, DecrByStep
<1>4. ASSUME NEW key \in Keys, NEW from \in Indexes, NEW to \in Indexes, GetRange(key, from, to)
      PROVE  T!Next
  BY <1>4, GetRangeStep
<1>5. ASSUME NEW keys \in KeySeqs, MGet(keys) PROVE T!Next
  BY <1>5, MGetStep
<1>6. ASSUME NEW keys \in KeySeqs, NEW texts \in [DOMAIN keys -> Pairs], MSet(keys, texts)
      PROVE  T!Next
  BY <1>6, MSetStep
<1>7. ASSUME NEW text \in Inputs, Select(text) \/ Echo(text) PROVE T!Next
  BY <1>7, SelectStep, EchoStep
<1>8. ASSUME \/ GetDelNothing \/ Ping \/ ClientSetName \/ ClientGetName \/ ClientId
             \/ Refuse \/ RefuseSilently
      PROVE  T!Next
  BY <1>8, GetDelNothingStep, FixedStep, ClientStep
<1> QED
  BY <1>1, <1>2, <1>3, <1>4, <1>5, <1>6, <1>7, <1>8 DEF Next

\* The commands of mydss answer and change the database as Texts defines it on
\* texts: no client can tell, but by OBJECT ENCODING, whether a value is kept
\* as a number or as a text.
THEOREM EncodingInvisible == Spec => EncodingIsInvisible
<1>1. Init => T!Init
  BY DEF Init, T!Init, T!Dbs, Dbs, T!Request, Request
<1>2. HoldsTexts /\ [Next]_vars => [T!Next]_(T!vars)
  BY TextsStep
<1> QED
  BY <1>1, <1>2, HoldsAlways, PTL DEF Spec, T!Spec, EncodingIsInvisible

=============================================================================
