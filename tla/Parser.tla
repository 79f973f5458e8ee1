------------------------------- MODULE Parser -------------------------------
(***************************************************************************)
(* The request parser of a session (src/src/server/parser.cpp) and the     *)
(* part of Session::OnRecv (src/src/server/session.cpp) that feeds it: two *)
(* nested state machines that take one byte at a time and keep their state *)
(* from one read to the next, so that a request may be cut anywhere.       *)
(*                                                                         *)
(* The bytes of a read are chosen one by one as they are parsed, for the   *)
(* parser never looks ahead; a read may end after any byte.  A digit is    *)
(* its value, and numbers are written in base Radix, which is 10 in the    *)
(* code and smaller in the runs; the other bytes that matter are named.    *)
(***************************************************************************)
EXTENDS Naturals, Sequences

CONSTANTS
  Star, Dollar, CR, LF, \* the bytes '*', '$', '\r' and '\n'
  Radix,      \* the base of numbers
  MaxStrs,    \* kMaxStrInReq
  MaxStrLen,  \* kMaxStrLenInReq
  MaxBytes    \* bound: bytes that a client sends in all

Controls == {Star, Dollar, CR, LF}
Digits == 0 .. Radix - 1
Bytes == Controls \cup Digits

ASSUME BytesAssumption ==
  /\ Controls \cap Digits = {}
  /\ \A b \in {Dollar, CR, LF} : b # Star
  /\ Dollar # CR /\ Dollar # LF /\ CR # LF
\* The limits are tested from the second digit on, so they hold only because
\* no single digit exceeds them (65535 in src/include/limit.hpp).
ASSUME LimitsAssumption ==
  /\ Radix \in Nat \ {0}
  /\ MaxStrs \in Nat /\ MaxStrLen \in Nat
  /\ Radix - 1 <= MaxStrs /\ Radix - 1 <= MaxStrLen
  /\ MaxBytes \in Nat

VARIABLES
  parser,  \* ReqParser: state_, req_, array_len_ and str_parser_
  reqs,    \* Session::OnRecv: requests parsed in this read
  handled, \* requests given to Inst::Handle, in order (history)
  status,  \* "open", "refused" (a reply with the parser's error), or "closed"
  stream,  \* the bytes that were read (history)
  begun    \* has a byte of the present read been parsed?

vars == <<parser, reqs, handled, status, stream, begun>>

Str == Seq(Bytes)
Req == Seq(Str)

BulkStates == {"TypeChar", "LenFirstNum", "Len", "LenN", "Data", "R", "N"}
ReqStates == {"ArrayChar", "ArrayLenFirstNum", "ArrayLen", "ArrayN", "Str"}

BulkStringParsers == [state : BulkStates, value : Str, len : Nat, cur : Nat]
ReqParsers == [state : ReqStates, req : Req, len : Nat, str : BulkStringParsers]

TypeOK ==
  /\ parser \in ReqParsers
  /\ reqs \in Seq(Req)
  /\ handled \in Seq(Req)
  /\ status \in {"open", "refused", "closed"}
  /\ stream \in Seq(Bytes)
  /\ begun \in BOOLEAN

\* BulkStringParser::Reset and ReqParser::Reset.
FreshStr == [state |-> "TypeChar", value |-> <<>>, len |-> 0, cur |-> 0]

\* Variant with a mistake: str_parser_, which has no constructor, is not reset.
FreshWithoutStr ==
  [state |-> "ArrayChar", req |-> <<>>, len |-> 0,
   str |-> [FreshStr EXCEPT !.state = "uninitialised"]]

Fresh == [state |-> "ArrayChar", req |-> <<>>, len |-> 0, str |-> FreshStr]

Init ==
  /\ parser = Fresh
  /\ reqs = <<>> /\ handled = <<>>
  /\ status = "open"
  /\ stream = <<>> /\ begun = FALSE

-----------------------------------------------------------------------------
(* One byte: the parser after it, and what came of it. *)

Go(p, state) == [parser |-> [p EXCEPT !.state = state], result |-> "more"]
Completed(p) == [parser |-> p, result |-> "completed"]
Bad(p) == [parser |-> p, result |-> "bad"]

\* One byte is allowed here.
Expect(p, ch, byte, state) == IF ch = byte THEN Go(p, state) ELSE Bad(p)

FirstDigit(p, ch, state) ==
  IF ch \in Digits THEN Go([p EXCEPT !.len = ch], state) ELSE Bad(p)

\* Variant with a mistake: the length is tested before the digit is added.
NextDigitTestsEarly(p, ch, limit, state) ==
  IF ch \in Digits
  THEN LET q == [p EXCEPT !.len = @ * Radix + ch]
       IN IF p.len > limit THEN Bad(q) ELSE Go(q, p.state)
  ELSE Expect(p, ch, CR, state)

\* Variant with a mistake: the limit itself is refused.
NextDigitRefusesLimit(p, ch, limit, state) ==
  IF ch \in Digits
  THEN LET q == [p EXCEPT !.len = @ * Radix + ch]
       IN IF q.len >= limit THEN Bad(q) ELSE Go(q, p.state)
  ELSE Expect(p, ch, CR, state)

\* A further digit of a length, or the '\r' that ends it.
NextDigit(p, ch, limit, state) ==
  IF ch \in Digits
  THEN LET q == [p EXCEPT !.len = @ * Radix + ch]
       IN IF q.len > limit THEN Bad(q) ELSE Go(q, p.state)
  ELSE Expect(p, ch, CR, state)

TakeData(s, ch) ==
  Go([s EXCEPT !.value = Append(@, ch), !.cur = @ + 1],
     IF s.cur + 1 = s.len THEN "R" ELSE "Data")

\* An empty string has no data.
AfterLength(s) == IF s.len = 0 THEN "R" ELSE "Data"

\* BulkStringParser::Step.
BulkStep(s, ch) ==
  CASE s.state = "TypeChar"    -> Expect(s, ch, Dollar, "LenFirstNum")
    [] s.state = "LenFirstNum" -> FirstDigit(s, ch, "Len")
    [] s.state = "Len"         -> NextDigit(s, ch, MaxStrLen, "LenN")
    [] s.state = "LenN"        -> Expect(s, ch, LF, AfterLength(s))
    [] s.state = "Data"        -> TakeData(s, ch)
    [] s.state = "R"           -> Expect(s, ch, CR, "N")
    [] s.state = "N"           -> IF ch = LF THEN Completed(s) ELSE Bad(s)

\* Variant with a mistake: the count of the bytes of a string is kept.
NextStrKeepsCount(p, s) ==
  LET q == [p EXCEPT !.req = Append(@, s.value),
                     !.str = [FreshStr EXCEPT !.cur = s.cur]]
  IN IF Len(q.req) = q.len THEN Completed(q) ELSE Go(q, "Str")

\* A string is complete: it is moved into the request.  An array of length 0
\* has one string too many from here on and is never complete.
NextStr(p, s) ==
  LET q == [p EXCEPT !.req = Append(@, s.value), !.str = FreshStr]
  IN IF Len(q.req) = q.len THEN Completed(q) ELSE Go(q, "Str")

StrStep(p, ch) ==
  LET s == BulkStep(p.str, ch)
      q == [p EXCEPT !.str = s.parser]
  IN CASE s.result = "bad"       -> Bad(q)
       [] s.result = "more"      -> Go(q, "Str")
       [] s.result = "completed" -> NextStr(q, s.parser)

\* ReqParser::Step.
ReqStep(p, ch) ==
  CASE p.state = "ArrayChar"        -> Expect(p, ch, Star, "ArrayLenFirstNum")
    [] p.state = "ArrayLenFirstNum" -> FirstDigit(p, ch, "ArrayLen")
    [] p.state = "ArrayLen"         -> NextDigit(p, ch, MaxStrs, "ArrayN")
    [] p.state = "ArrayN"           -> Expect(p, ch, LF, "Str")
    [] p.state = "Str"              -> StrStep(p, ch)

-----------------------------------------------------------------------------
(* Session::OnRecv. *)

\* One byte of the read in the loop of ReqParser::Parse.  A byte that cannot
\* be ends it: OnRecv replies with the error, closes, and drops the requests
\* that the same read had before.
Byte(ch) ==
  /\ status = "open"
  /\ Len(stream) < MaxBytes
  /\ stream' = Append(stream, ch)
  /\ LET step == ReqStep(parser, ch)
     IN \/ /\ step.result = "more"
           /\ parser' = step.parser
           /\ UNCHANGED <<reqs, status>>
        \/ /\ step.result = "completed"
           /\ parser' = Fresh
           /\ reqs' = Append(reqs, step.parser.req)
           /\ UNCHANGED status
        \/ /\ step.result = "bad"
           /\ parser' = step.parser
           /\ reqs' = <<>>
           /\ status' = "refused"
  /\ begun' = TRUE
  /\ UNCHANGED handled

\* The read is parsed: its requests are handled, and the next one begins.
EndOfRead ==
  /\ status = "open"
  /\ begun
  /\ handled' = handled \o reqs
  /\ reqs' = <<>>
  /\ begun' = FALSE
  /\ UNCHANGED <<parser, status, stream>>

\* The same, but the n-th request closes the connection and ends the loop.
CloseWithin(n) ==
  /\ status = "open"
  /\ begun
  /\ handled' = handled \o SubSeq(reqs, 1, n)
  /\ reqs' = <<>>
  /\ status' = "closed"
  /\ begun' = FALSE
  /\ UNCHANGED <<parser, stream>>

\* The connection ends between two reads: the client ends its stream, or what
\* was left to send is sent and closes it.
Eof ==
  /\ status = "open"
  /\ ~begun
  /\ status' = "closed"
  /\ UNCHANGED <<parser, reqs, handled, stream, begun>>

Next ==
  \/ \E ch \in Bytes : Byte(ch)
  \/ EndOfRead
  \/ \E n \in 1 .. Len(reqs) : CloseWithin(n)
  \/ Eof

Spec == Init /\ [][Next]_vars

-----------------------------------------------------------------------------

\* What Inst::Handle may rely on: a request has a name and no more strings
\* than the limit allows, and no string is longer than the limit allows.
\* (The test for an empty request in inst.cpp:92 is never met.)
Allowed(r) ==
  /\ Len(r) \in 1 .. MaxStrs
  /\ \A i \in 1 .. Len(r) : Len(r[i]) <= MaxStrLen

\* Every request that reaches Inst::Handle is within the limits of limit.hpp.
HandledWithinLimits == \A i \in 1 .. Len(handled) : Allowed(handled[i])

\* limit.hpp:22 calls kMaxStrInReq the maximal number of strings in a request:
\* the request that is being parsed never holds more.
RequestWithinLimit == Len(parser.req) <= MaxStrs

=============================================================================
