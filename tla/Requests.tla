------------------------------ MODULE Requests ------------------------------
(***************************************************************************)
(* What a stream of bytes means as a whole, for comparison with Parser,    *)
(* which sees it byte by byte: a grammar read from positions of the        *)
(* stream, that takes lengths and data as ranges of it.                    *)
(*                                                                         *)
(*   stream  ::= { request }                                               *)
(*   request ::= '*' length CRLF { string }                                *)
(*   string  ::= '$' length CRLF { byte } CRLF                             *)
(***************************************************************************)
EXTENDS Parser, SequencesExt

\* A part of the stream: "got" with its value and the position behind it,
\* "more" if the stream ends within it, "bad" if it cannot be continued.
Got(value, next) == [tag |-> "got", value |-> value, next |-> next]
More == [tag |-> "more"]
Refused == [tag |-> "bad"]

\* CRLF at position i, and then the part with this value is complete.
Ended(s, i, value) ==
  IF (i <= Len(s) /\ s[i] # CR) \/ (i < Len(s) /\ s[i + 1] # LF) THEN Refused
  ELSE IF i >= Len(s) THEN More
  ELSE Got(value, i + 2)

\* The position of the first byte from i on that is no digit.
EndOfDigits(s, i) ==
  CHOOSE j \in i .. Len(s) + 1 :
    /\ \A k \in i .. j - 1 : s[k] \in Digits
    /\ j <= Len(s) => s[j] \notin Digits

Number(digits) ==
  LET value[k \in 0 .. Len(digits)] == IF k = 0 THEN 0 ELSE value[k - 1] * Radix + digits[k]
  IN value[Len(digits)]

Header(s, i, byte, limit) ==
  LET j == EndOfDigits(s, i + 1)
      n == Number(SubSeq(s, i + 1, j - 1))
  IN IF i > Len(s) THEN More
     ELSE IF s[i] # byte \/ n > limit \/ (j = i + 1 /\ j <= Len(s)) THEN Refused
     ELSE Ended(s, j, n)

\* Up to n parts in a row, from position i on, and what stopped them.  The part
\* at each position is given.
Row(part, i, n) ==
  LET row[k \in Nat] ==
        IF k = 0 THEN Got(<<>>, i)
        ELSE LET r == row[k - 1]
                 p == part[r.next]
             IN IF r.tag # "got" THEN r
                ELSE IF p.tag = "got" THEN Got(Append(r.value, p.value), p.next)
                ELSE [r EXCEPT !.tag = p.tag]
  IN row[n]

String(s, i) ==
  LET h == Header(s, i, Dollar, MaxStrLen)
  IN IF h.tag # "got" THEN h
     ELSE IF h.next + h.value - 1 > Len(s) THEN More
     ELSE Ended(s, h.next + h.value, SubSeq(s, h.next, h.next + h.value - 1))

\* As many strings as are announced; with 0 they have no end, which is to say
\* that they are more than the stream has bytes.
Request(s, i) ==
  LET h == Header(s, i, Star, MaxStrs)
  IN IF h.tag # "got" THEN h
     ELSE Row([j \in 1 .. Len(s) + 1 |-> String(s, j)], h.next,
              IF h.value = 0 THEN Len(s) + 1 ELSE h.value)

\* All complete requests of a stream, and whether it can be continued.
Decode(s) ==
  LET r == Row([j \in 1 .. Len(s) + 1 |-> Request(s, j)], 1, Len(s) + 1)
  IN [reqs |-> r.value, bad |-> r.tag = "bad"]

-----------------------------------------------------------------------------

\* However the stream was cut into reads, the requests handled and parsed are
\* those of the stream as a whole, and nothing that could be continued was
\* refused: no state of ReqParser or BulkStringParser leaks from one read,
\* string or request into the next.
ParsesAsAWhole ==
  status = "open" => Decode(stream) = [reqs |-> handled \o reqs, bad |-> FALSE]

\* A connection is refused only for a stream that no client can make good, at
\* its first such byte; the requests handled until then are a prefix of its
\* requests (those before the bad byte in the same read are dropped).
RefusesOnlyBadStreams ==
  status = "refused" =>
    /\ Decode(stream).bad
    /\ ~Decode(Front(stream)).bad
    /\ IsPrefix(handled, Decode(stream).reqs)

=============================================================================
