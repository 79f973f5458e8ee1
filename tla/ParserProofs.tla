---------------------------- MODULE ParserProofs ----------------------------
(***************************************************************************)
(* Proofs about Parser: whatever clients send, however it is cut, and for  *)
(* any base and limits, the two machines keep their counts in step with    *)
(* what they hold, and every request that is handled is within the limits. *)
(* The parts from "Numbers" on compare the machines with Requests: byte by *)
(* byte they read what the stream says as a whole.                         *)
(***************************************************************************)
EXTENDS Requests, Recursions, SequenceTheorems, TLAPS

\* The counts of a BulkStringParser: cur_len_ is the length of value_, 0
\* before the data, less than target_len_ in it and equal to it behind it.
StrFits(s) ==
  /\ Len(s.value) = s.cur
  /\ s.len <= MaxStrLen
  /\ s.state \notin {"Data", "R", "N"} => s.cur = 0
  /\ s.state = "Data" => s.cur < s.len
  /\ s.state \in {"R", "N"} => s.cur = s.len

ShortStrings(r) == \A i \in 1 .. Len(r) : Len(r[i]) <= MaxStrLen

\* The counts of a ReqParser: the request has room for one more string, or
\* it was announced with length 0 and is never complete.
ReqFits(p) ==
  /\ StrFits(p.str)
  /\ p.len <= MaxStrs
  /\ ShortStrings(p.req)
  /\ p.state # "Str" => p.req = <<>> /\ p.str = FreshStr
  /\ p.state = "Str" => p.len = 0 \/ Len(p.req) < p.len

\* What is parsed but not handled yet is within the limits as well.
ParsedWithinLimits == \A i \in 1 .. Len(reqs) : Allowed(reqs[i])

IInv ==
  /\ TypeOK
  /\ status = "open" => ReqFits(parser)
  /\ ParsedWithinLimits
  /\ HandledWithinLimits

Results == {"more", "completed", "bad"}

-----------------------------------------------------------------------------
(* Steps of the machines. *)

\* Sequences built by Append have the parts they were built of.
LEMMA AppendParts ==
  ASSUME NEW S, NEW q \in Seq(S), NEW e \in S
  PROVE  /\ Append(q, e) \in Seq(S)
         /\ Len(Append(q, e)) = Len(q) + 1
         /\ \A i \in 1 .. Len(q) + 1 :
              Append(q, e)[i] = IF i <= Len(q) THEN q[i] ELSE e
  OBVIOUS

\* A BulkStringParser that goes on with another length.
LEMMA BulkLen ==
  ASSUME NEW s \in BulkStringParsers, NEW state \in BulkStates, NEW n \in Nat,
         NEW q, q = Go([s EXCEPT !.len = n], state).parser
  PROVE  /\ q \in BulkStringParsers
         /\ q.state = state /\ q.value = s.value /\ q.len = n /\ q.cur = s.cur
  BY DEF Go, BulkStringParsers

\* BulkStringParser::Step keeps the counts; a string it completes is short.
LEMMA BulkStepFits ==
  ASSUME NEW s \in BulkStringParsers, StrFits(s), NEW ch \in Bytes
  PROVE  LET step == BulkStep(s, ch)
         IN /\ step.result \in Results
            /\ step.parser \in BulkStringParsers
            /\ step.result = "more" => StrFits(step.parser)
            /\ step.result = "completed" => Len(step.parser.value) <= MaxStrLen
<1> DEFINE step == BulkStep(s, ch)
<1> DEFINE Goal == /\ step.result \in Results
                   /\ step.parser \in BulkStringParsers
                   /\ step.result = "more" => StrFits(step.parser)
                   /\ step.result = "completed"
                        => Len(step.parser.value) <= MaxStrLen
<1>a. ASSUME step = Bad(s) PROVE Goal
  BY <1>a DEF Bad, Results
<1>b. ASSUME NEW state \in BulkStates, step = Go(s, state),
             s.state \notin {"Data", "R", "N"}, state # "Data", state \in {"R", "N"} => s.len = 0
      PROVE  Goal
  <2>1. step.result = "more" /\ step.parser = [s EXCEPT !.state = state]
    BY <1>b DEF Go
  <2>2. step.parser \in BulkStringParsers
    BY <2>1 DEF BulkStringParsers
  <2>3. StrFits(step.parser)
    BY <1>b, <2>1 DEF StrFits, BulkStringParsers, BulkStates
  <2>. QED BY <2>1, <2>2, <2>3 DEF Results
<1>c. ASSUME NEW n \in Nat, n <= MaxStrLen, step = Go([s EXCEPT !.len = n], "Len"),
             s.state \notin {"Data", "R", "N"}
      PROVE  Goal
  <2>1. /\ step.result = "more"
        /\ step.parser \in BulkStringParsers
        /\ step.parser.state = "Len" /\ step.parser.value = s.value
        /\ step.parser.len = n /\ step.parser.cur = s.cur
    <3>1. step.result = "more"
      BY <1>c DEF Go
    <3>2. step.parser = Go([s EXCEPT !.len = n], "Len").parser
      BY <1>c
    <3>3. "Len" \in BulkStates
      BY DEF BulkStates
    <3>. HIDE DEF step
    <3>. QED BY <3>1, <3>2, <3>3, BulkLen
  <2>3. StrFits(step.parser)
    BY <1>c, <2>1 DEF StrFits
  <2>. QED BY <2>1, <2>3 DEF Results
<1>1. CASE s.state = "TypeChar"
  BY <1>1, <1>a, <1>b DEF BulkStep, Expect, BulkStates
<1>2. CASE s.state = "LenFirstNum"
  BY <1>2, <1>a, <1>c, LimitsAssumption DEF BulkStep, FirstDigit, Digits
<1>3. CASE s.state = "Len"
  <2>1. step = NextDigit(s, ch, MaxStrLen, "LenN")
    BY <1>3 DEF BulkStep
  <2>2. CASE ch \in Digits
    <3> DEFINE n == s.len * Radix + ch
    <3>1. n \in Nat
      BY <2>2, LimitsAssumption DEF Digits, BulkStringParsers
    <3>2. [s EXCEPT !.len = @ * Radix + ch].len = n
      BY DEF BulkStringParsers
    <3>3. CASE n > MaxStrLen
      <4>1. step = Bad([s EXCEPT !.len = n])
        BY <2>1, <2>2, <3>2, <3>3 DEF NextDigit
      <4>2. [s EXCEPT !.len = n] \in BulkStringParsers
        BY <3>1 DEF BulkStringParsers
      <4>. QED BY <4>1, <4>2 DEF Bad, Results
    <3>4. CASE ~(n > MaxStrLen)
      <4>1. step = Go([s EXCEPT !.len = n], "Len")
        BY <1>3, <2>1, <2>2, <3>2, <3>4 DEF NextDigit
      <4>. QED BY <1>3, <1>c, <3>1, <3>4, <4>1, LimitsAssumption
    <3>. QED BY <3>3, <3>4
  <2>3. CASE ch \notin Digits
    BY <1>3, <2>1, <2>3, <1>a, <1>b DEF NextDigit, Expect, BulkStates
  <2>. QED BY <2>2, <2>3
<1>4. CASE s.state = "LenN"
  <2>1. CASE ch # LF
    BY <1>4, <2>1, <1>a DEF BulkStep, Expect
  <2>2. CASE ch = LF /\ s.len = 0
    BY <1>4, <2>2, <1>b DEF BulkStep, Expect, AfterLength, BulkStates
  <2>3. CASE ch = LF /\ s.len # 0
    <3>1. step = Go(s, "Data")
      BY <1>4, <2>3 DEF BulkStep, Expect, AfterLength
    <3>2. step.result = "more" /\ step.parser = [s EXCEPT !.state = "Data"]
      BY <3>1 DEF Go
    <3>3. step.parser \in BulkStringParsers
      BY <3>2 DEF BulkStringParsers, BulkStates
    <3>4. StrFits(step.parser)
      BY <1>4, <2>3, <3>2 DEF StrFits, BulkStringParsers
    <3>. QED BY <3>2, <3>3, <3>4 DEF Results
  <2>. QED BY <2>1, <2>2, <2>3
<1>5. CASE s.state = "Data"
  <2> DEFINE next == IF s.cur + 1 = s.len THEN "R" ELSE "Data"
             value == Append(s.value, ch)
             cur == s.cur + 1
  <2>1. step = TakeData(s, ch)
    BY <1>5 DEF BulkStep
  <2>2. /\ Append(s.value, ch) \in Seq(Bytes)
        /\ Len(Append(s.value, ch)) = s.cur + 1
    BY AppendParts DEF StrFits, BulkStringParsers, Str
  <2>3. step = Go([s EXCEPT !.value = value, !.cur = cur], next)
    BY <2>1 DEF TakeData
  <2>4. /\ step.parser \in BulkStringParsers
        /\ step.parser.state = next /\ step.parser.value = value
        /\ step.parser.len = s.len /\ step.parser.cur = cur
    <3>1. next \in BulkStates /\ value \in Str /\ cur \in Nat
      BY <2>2 DEF BulkStates, Str, BulkStringParsers
    <3>2. step.parser = [[s EXCEPT !.value = value, !.cur = cur] EXCEPT !.state = next]
      BY <2>3 DEF Go
    <3>. HIDE DEF step, next, value, cur
    <3>. QED BY <3>1, <3>2 DEF BulkStringParsers
  <2>5. StrFits(step.parser)
    BY <1>5, <2>2, <2>4 DEF StrFits, BulkStringParsers
  <2>6. step.result = "more"
    BY <2>3 DEF Go
  <2>. QED BY <2>4, <2>5, <2>6 DEF Results
<1>6. CASE s.state = "R"
  <2>1. CASE ch # CR
    BY <1>6, <2>1, <1>a DEF BulkStep, Expect
  <2>2. CASE ch = CR
    <3>1. step = Go(s, "N")
      BY <1>6, <2>2 DEF BulkStep, Expect
    <3>2. step.result = "more" /\ step.parser = [s EXCEPT !.state = "N"]
      BY <3>1 DEF Go
    <3>3. step.parser \in BulkStringParsers
      BY <3>2 DEF BulkStringParsers, BulkStates
    <3>4. StrFits(step.parser)
      BY <1>6, <3>2 DEF StrFits, BulkStringParsers
    <3>. QED BY <3>2, <3>3, <3>4 DEF Results
  <2>. QED BY <2>1, <2>2
<1>7. CASE s.state = "N"
  BY <1>7, <1>a DEF BulkStep, Completed, Results, StrFits, BulkStringParsers
<1>8. s.state \in BulkStates
  BY DEF BulkStringParsers
<1>. QED BY <1>1, <1>2, <1>3, <1>4, <1>5, <1>6, <1>7, <1>8 DEF BulkStates

\* A ReqParser that goes on in another state.
LEMMA ReqGo ==
  ASSUME NEW p \in ReqParsers, NEW state \in ReqStates, NEW q, q = Go(p, state).parser
  PROVE  /\ q \in ReqParsers
         /\ q.state = state /\ q.req = p.req /\ q.len = p.len /\ q.str = p.str
  BY DEF Go, ReqParsers

\* A ReqParser that goes on with another length.
LEMMA ReqLen ==
  ASSUME NEW p \in ReqParsers, NEW state \in ReqStates, NEW n \in Nat,
         NEW q, q = Go([p EXCEPT !.len = n], state).parser
  PROVE  /\ q \in ReqParsers
         /\ q.state = state /\ q.req = p.req /\ q.len = n /\ q.str = p.str
  BY DEF Go, ReqParsers

\* The string that is complete is moved into the request.
LEMMA NextStrFits ==
  ASSUME NEW p \in ReqParsers, p.state = "Str", ReqFits([p EXCEPT !.str = FreshStr]),
         NEW s \in BulkStringParsers, Len(s.value) <= MaxStrLen
  PROVE  LET step == NextStr(p, s)
         IN /\ step.result \in Results
            /\ step.parser \in ReqParsers
            /\ step.result = "more" => ReqFits(step.parser)
            /\ step.result = "completed" => Allowed(step.parser.req)
<1> DEFINE q == [p EXCEPT !.req = Append(@, s.value), !.str = FreshStr]
           req == Append(p.req, s.value)
<1>1. FreshStr \in BulkStringParsers /\ StrFits(FreshStr)
  BY LimitsAssumption DEF FreshStr, BulkStringParsers, BulkStates, Str, StrFits
<1>2. p.req \in Seq(Str) /\ s.value \in Str
  BY DEF ReqParsers, Req, BulkStringParsers
<1>3. /\ req \in Seq(Str)
      /\ Len(req) = Len(p.req) + 1
      /\ \A i \in 1 .. Len(req) : req[i] = IF i <= Len(p.req) THEN p.req[i] ELSE s.value
  BY <1>2, AppendParts
<1>4. /\ p.len <= MaxStrs
      /\ p.len = 0 \/ Len(p.req) < p.len
      /\ \A i \in 1 .. Len(p.req) : Len(p.req[i]) <= MaxStrLen
  BY DEF ReqFits, ShortStrings, ReqParsers
<1>5. \A i \in 1 .. Len(req) : Len(req[i]) <= MaxStrLen
  BY <1>2, <1>3, <1>4
<1>6. /\ q \in ReqParsers
      /\ q.state = "Str" /\ q.req = req /\ q.len = p.len /\ q.str = FreshStr
  BY <1>1, <1>3 DEF ReqParsers, Req
<1>7. p.len \in Nat /\ Len(p.req) \in Nat
  BY <1>2 DEF ReqParsers
<1>8. CASE Len(q.req) = q.len
  <2>1. NextStr(p, s) = Completed(q)
    BY <1>8 DEF NextStr
  <2>2. Allowed(req)
    BY <1>3, <1>4, <1>5, <1>6, <1>7, <1>8, LimitsAssumption DEF Allowed
  <2>3. NextStr(p, s).result = "completed" /\ NextStr(p, s).parser = q
    BY <2>1 DEF Completed
  <2>. HIDE DEF q, req
  <2>. QED BY <1>6, <2>2, <2>3 DEF Results
<1>9. CASE Len(q.req) # q.len
  <2>1. NextStr(p, s) = Go(q, "Str")
    BY <1>9 DEF NextStr
  <2>2. /\ Go(q, "Str").result = "more"
        /\ Go(q, "Str").parser = [q EXCEPT !.state = "Str"]
    BY DEF Go
  <2>3. LET r == [q EXCEPT !.state = "Str"]
        IN /\ r \in ReqParsers
           /\ r.state = "Str" /\ r.req = req /\ r.len = p.len /\ r.str = FreshStr
    BY <1>6 DEF ReqParsers, ReqStates
  <2>4. ReqFits([q EXCEPT !.state = "Str"])
    BY <1>1, <1>3, <1>4, <1>5, <1>6, <1>7, <1>9, <2>3 DEF ReqFits, ShortStrings
  <2>. QED BY <2>1, <2>2, <2>3, <2>4 DEF Results
<1>. QED BY <1>8, <1>9

\* ReqParser::Step keeps the counts; a request it completes is within limits.
LEMMA ReqStepFits ==
  ASSUME NEW p \in ReqParsers, ReqFits(p), NEW ch \in Bytes
  PROVE  LET step == ReqStep(p, ch)
         IN /\ step.result \in Results
            /\ step.parser \in ReqParsers
            /\ step.result = "more" => ReqFits(step.parser)
            /\ step.result = "completed" => Allowed(step.parser.req)
<1> DEFINE step == ReqStep(p, ch)
           Goal == /\ step.result \in Results
                   /\ step.parser \in ReqParsers
                   /\ step.result = "more" => ReqFits(step.parser)
                   /\ step.result = "completed" => Allowed(step.parser.req)
<1>a. ASSUME step = Bad(p) PROVE Goal
  BY <1>a DEF Bad, Results
<1>b. ASSUME NEW state \in ReqStates, step = Go(p, state), p.state # "Str"
      PROVE  Goal
  <2>1. step.result = "more" /\ step.parser = Go(p, state).parser
    BY <1>b DEF Go
  <2>2. /\ step.parser \in ReqParsers
        /\ step.parser.state = state /\ step.parser.req = p.req
        /\ step.parser.len = p.len /\ step.parser.str = p.str
    <3>. HIDE DEF step
    <3>. QED BY <2>1, ReqGo
  <2>3. ReqFits(step.parser)
    <3>. HIDE DEF step
    <3>. QED BY <1>b, <2>2, LimitsAssumption DEF ReqFits, ReqParsers, ShortStrings
  <2>. QED BY <2>1, <2>2, <2>3 DEF Results
<1>c. ASSUME NEW n \in Nat, n <= MaxStrs, p.state # "Str",
             step = Go([p EXCEPT !.len = n], "ArrayLen")
      PROVE  Goal
  <2>1. /\ step.result = "more"
        /\ step.parser = Go([p EXCEPT !.len = n], "ArrayLen").parser
    BY <1>c DEF Go
  <2>2. /\ step.parser \in ReqParsers
        /\ step.parser.state = "ArrayLen" /\ step.parser.req = p.req
        /\ step.parser.len = n /\ step.parser.str = p.str
    <3>1. "ArrayLen" \in ReqStates
      BY DEF ReqStates
    <3>. HIDE DEF step
    <3>. QED BY <2>1, <3>1, ReqLen
  <2>3. ReqFits(step.parser)
    <3>. HIDE DEF step
    <3>. QED BY <1>c, <2>2 DEF ReqFits, ShortStrings
  <2>. QED BY <2>1, <2>2, <2>3 DEF Results
<1>1. CASE p.state = "ArrayChar"
  BY <1>1, <1>a, <1>b DEF ReqStep, Expect, ReqStates
<1>2. CASE p.state = "ArrayLenFirstNum"
  BY <1>2, <1>a, <1>c, LimitsAssumption DEF ReqStep, FirstDigit, Digits
<1>3. CASE p.state = "ArrayLen"
  <2>1. step = NextDigit(p, ch, MaxStrs, "ArrayN")
    BY <1>3 DEF ReqStep
  <2>2. CASE ch \in Digits
    <3> DEFINE n == p.len * Radix + ch
    <3>1. n \in Nat
      BY <2>2, LimitsAssumption DEF Digits, ReqParsers
    <3>2. [p EXCEPT !.len = @ * Radix + ch].len = n
      BY DEF ReqParsers
    <3>3. CASE n > MaxStrs
      <4>1. step = Bad([p EXCEPT !.len = n])
        BY <2>1, <2>2, <3>2, <3>3 DEF NextDigit
      <4>2. [p EXCEPT !.len = n] \in ReqParsers
        BY <3>1 DEF ReqParsers
      <4>. QED BY <4>1, <4>2 DEF Bad, Results
    <3>4. CASE ~(n > MaxStrs)
      <4>1. step = Go([p EXCEPT !.len = n], "ArrayLen")
        BY <1>3, <2>1, <2>2, <3>2, <3>4 DEF NextDigit
      <4>. QED BY <1>3, <1>c, <3>1, <3>4, <4>1, LimitsAssumption
    <3>. QED BY <3>3, <3>4
  <2>3. CASE ch \notin Digits
    BY <1>3, <2>1, <2>3, <1>a, <1>b DEF NextDigit, Expect, ReqStates
  <2>. QED BY <2>2, <2>3
<1>4. CASE p.state = "ArrayN"
  <2>1. CASE ch # LF
    BY <1>4, <2>1, <1>a DEF ReqStep, Expect
  <2>2. CASE ch = LF
    <3>1. step = Go(p, "Str")
      BY <1>4, <2>2 DEF ReqStep, Expect
    <3>2. "Str" \in ReqStates /\ p.state # "Str"
      BY <1>4 DEF ReqStates
    <3>. QED BY <1>b, <3>1, <3>2
  <2>. QED BY <2>1, <2>2
<1>5. CASE p.state = "Str"
  <2> DEFINE s == BulkStep(p.str, ch)
             q == [p EXCEPT !.str = s.parser]
  <2>1. step = StrStep(p, ch)
    BY <1>5 DEF ReqStep
  <2>2. p.str \in BulkStringParsers /\ StrFits(p.str)
    BY DEF ReqParsers, ReqFits
  <2>3. /\ s.result \in Results
        /\ s.parser \in BulkStringParsers
        /\ s.result = "more" => StrFits(s.parser)
        /\ s.result = "completed" => Len(s.parser.value) <= MaxStrLen
    BY <2>2, BulkStepFits
  <2>4. /\ q \in ReqParsers
        /\ q.state = "Str" /\ q.req = p.req /\ q.len = p.len /\ q.str = s.parser
    <3>. HIDE DEF s
    <3>. QED BY <1>5, <2>3 DEF ReqParsers
  <2>5. CASE s.result = "bad"
    <3>1. step = Bad(q)
      BY <2>1, <2>5 DEF StrStep
    <3>. QED BY <2>4, <3>1 DEF Bad, Results
  <2>6. CASE s.result = "more"
    <3>1. step = Go(q, "Str")
      BY <2>1, <2>6 DEF StrStep
    <3>2. step.result = "more" /\ step.parser = Go(q, "Str").parser
      BY <3>1 DEF Go
    <3>3. /\ step.parser \in ReqParsers
          /\ step.parser.state = "Str" /\ step.parser.req = p.req
          /\ step.parser.len = p.len /\ step.parser.str = s.parser
      <4>1. "Str" \in ReqStates
        BY DEF ReqStates
      <4>. HIDE DEF step, q, s
      <4>. QED BY <2>4, <3>2, <4>1, ReqGo
    <3>4. ReqFits(step.parser)
      <4>. HIDE DEF step, q, s
      <4>. QED BY <1>5, <2>3, <2>6, <3>3 DEF ReqFits, ShortStrings
    <3>. QED BY <3>2, <3>3, <3>4 DEF Results
  <2>7. CASE s.result = "completed"
    <3>1. step = NextStr(q, s.parser)
      BY <2>1, <2>7 DEF StrStep
    <3>2. FreshStr \in BulkStringParsers /\ StrFits(FreshStr)
      BY LimitsAssumption DEF FreshStr, BulkStringParsers, BulkStates, Str, StrFits
    <3>3. LET r == [q EXCEPT !.str = FreshStr]
          IN r.state = "Str" /\ r.req = p.req /\ r.len = p.len /\ r.str = FreshStr
      <4>. HIDE DEF q
      <4>. QED BY <2>4 DEF ReqParsers
    <3>4. ReqFits([q EXCEPT !.str = FreshStr])
      <4>. HIDE DEF q
      <4>. QED BY <1>5, <3>2, <3>3 DEF ReqFits, ShortStrings
    <3>5. LET done == NextStr(q, s.parser)
          IN /\ done.result \in Results
             /\ done.parser \in ReqParsers
             /\ done.result = "more" => ReqFits(done.parser)
             /\ done.result = "completed" => Allowed(done.parser.req)
      <4> HIDE DEF q, s
      <4>1. Len(s.parser.value) <= MaxStrLen
        BY <2>3, <2>7
      <4>. QED BY <2>3, <2>4, <3>4, <4>1, NextStrFits
    <3>. QED BY <3>1, <3>5
  <2>8. s.result \in {"bad", "more", "completed"}
    BY <2>3 DEF Results
  <2>. QED BY <2>5, <2>6, <2>7, <2>8
<1>6. p.state \in ReqStates
  BY DEF ReqParsers
<1>. QED BY <1>1, <1>2, <1>3, <1>4, <1>5, <1>6 DEF ReqStates

-----------------------------------------------------------------------------
(* Steps of the session. *)

\* The first n requests of a read, handled after those of earlier reads.
LEMMA HandleFirst ==
  ASSUME NEW h \in Seq(Req), NEW r \in Seq(Req), NEW n \in 0 .. Len(r),
         \A i \in 1 .. Len(h) : Allowed(h[i]),
         \A i \in 1 .. Len(r) : Allowed(r[i])
  PROVE  /\ h \o SubSeq(r, 1, n) \in Seq(Req)
         /\ \A i \in 1 .. Len(h \o SubSeq(r, 1, n)) : Allowed((h \o SubSeq(r, 1, n))[i])
<1> DEFINE part == SubSeq(r, 1, n)
<1>1. /\ part \in Seq(Req)
      /\ Len(part) = n
      /\ \A i \in 1 .. n : part[i] = r[i]
  OBVIOUS
<1>2. \A i \in 1 .. n : Allowed(part[i])
  BY <1>1
<1> HIDE DEF part
<1>3. /\ h \o part \in Seq(Req)
      /\ Len(h \o part) = Len(h) + n
      /\ \A i \in 1 .. Len(h) + n :
           (h \o part)[i] = IF i <= Len(h) THEN h[i] ELSE part[i - Len(h)]
  BY <1>1, ConcatProperties
<1>4. ASSUME NEW i \in 1 .. Len(h) + n
      PROVE  Allowed((h \o part)[i])
  <2>1. CASE i <= Len(h)
    BY <1>3, <2>1
  <2>2. CASE i > Len(h)
    <3>1. i - Len(h) \in 1 .. n
      BY <2>2
    <3>2. (h \o part)[i] = part[i - Len(h)]
      BY <1>3, <2>2
    <3>3. Allowed(part[i - Len(h)])
      BY <1>2, <3>1
    <3>. QED BY <3>2, <3>3
  <2>3. i <= Len(h) \/ i > Len(h)
    OBVIOUS
  <2>. QED BY <2>1, <2>2, <2>3
<1>. QED BY <1>3, <1>4 DEF part

\* The invariant holds when the session starts, with nothing parsed.
LEMMA IInit == Init => IInv
<1> SUFFICES ASSUME Init PROVE IInv
  OBVIOUS
<1>1. FreshStr \in BulkStringParsers /\ StrFits(FreshStr)
  BY LimitsAssumption DEF FreshStr, BulkStringParsers, BulkStates, Str, StrFits
<1>2. Fresh \in ReqParsers /\ ReqFits(Fresh)
  BY <1>1, LimitsAssumption DEF Fresh, ReqParsers, ReqStates, Req, ReqFits, ShortStrings
<1>3. TypeOK
  <2>1. <<>> \in Seq(Req) /\ <<>> \in Seq(Bytes)
    OBVIOUS
  <2>. QED BY <1>2, <2>1 DEF Init, TypeOK
<1>4. ParsedWithinLimits /\ HandledWithinLimits
  BY DEF Init, ParsedWithinLimits, HandledWithinLimits
<1>. QED BY <1>2, <1>3, <1>4 DEF Init, IInv

\* A byte keeps the invariant, whatever its outcome.
LEMMA ByteKeeps ==
  ASSUME IInv, NEW ch \in Bytes, Byte(ch)
  PROVE  IInv'
<1> DEFINE step == ReqStep(parser, ch)
<1>1. TypeOK /\ ReqFits(parser) /\ ParsedWithinLimits /\ HandledWithinLimits
  BY DEF IInv, Byte
<1>2. /\ step.result \in Results
      /\ step.parser \in ReqParsers
      /\ step.result = "more" => ReqFits(step.parser)
      /\ step.result = "completed" => Allowed(step.parser.req)
  BY <1>1, ReqStepFits DEF TypeOK
<1>3. stream' \in Seq(Bytes) /\ begun' \in BOOLEAN /\ handled' = handled
  BY <1>1 DEF Byte, TypeOK
<1>4. HandledWithinLimits'
  BY <1>1, <1>3 DEF HandledWithinLimits
<1>5. CASE step.result = "more" /\ parser' = step.parser /\ UNCHANGED <<reqs, status>>
  <2>1. ReqFits(parser') /\ parser' \in ReqParsers
    BY <1>2, <1>5
  <2>2. ParsedWithinLimits'
    BY <1>1, <1>5 DEF ParsedWithinLimits
  <2>3. TypeOK'
    BY <1>1, <1>3, <1>5, <2>1 DEF TypeOK
  <2>. QED BY <1>4, <2>1, <2>2, <2>3 DEF IInv
<1>6. CASE /\ step.result = "completed" /\ parser' = Fresh
           /\ reqs' = Append(reqs, step.parser.req) /\ UNCHANGED status
  <2>1. FreshStr \in BulkStringParsers /\ StrFits(FreshStr)
    BY LimitsAssumption DEF FreshStr, BulkStringParsers, BulkStates, Str, StrFits
  <2>2. Fresh \in ReqParsers /\ ReqFits(Fresh)
    BY <2>1, LimitsAssumption DEF Fresh, ReqParsers, ReqStates, Req, ReqFits, ShortStrings
  <2> DEFINE r == step.parser.req
  <2>3. r \in Req /\ Allowed(r)
    BY <1>2, <1>6 DEF ReqParsers
  <2>4. reqs \in Seq(Req) /\ reqs' = Append(reqs, r)
    BY <1>1, <1>6 DEF TypeOK
  <2>5. reqs' \in Seq(Req) /\ ParsedWithinLimits'
    <3>. HIDE DEF r
    <3>1. /\ Append(reqs, r) \in Seq(Req)
          /\ Len(Append(reqs, r)) = Len(reqs) + 1
          /\ \A i \in 1 .. Len(reqs) + 1 :
               Append(reqs, r)[i] = IF i <= Len(reqs) THEN reqs[i] ELSE r
      BY <2>3, <2>4, AppendParts
    <3>. QED BY <1>1, <2>3, <2>4, <3>1 DEF ParsedWithinLimits
  <2>6. TypeOK'
    BY <1>1, <1>3, <1>6, <2>2, <2>5 DEF TypeOK
  <2>. QED BY <1>4, <1>6, <2>2, <2>5, <2>6 DEF IInv
<1>7. CASE /\ step.result = "bad" /\ parser' = step.parser
           /\ reqs' = <<>> /\ status' = "refused"
  <2>1. ParsedWithinLimits'
    BY <1>7 DEF ParsedWithinLimits
  <2>2. TypeOK'
    BY <1>1, <1>2, <1>3, <1>7 DEF TypeOK
  <2>. QED BY <1>4, <1>7, <2>1, <2>2 DEF IInv
<1>8. \/ step.result = "more" /\ parser' = step.parser /\ UNCHANGED <<reqs, status>>
      \/ /\ step.result = "completed" /\ parser' = Fresh
         /\ reqs' = Append(reqs, step.parser.req) /\ UNCHANGED status
      \/ /\ step.result = "bad" /\ parser' = step.parser
         /\ reqs' = <<>> /\ status' = "refused"
  BY DEF Byte
<1>. QED BY <1>5, <1>6, <1>7, <1>8

\* The end of a read, with all its requests or the first n of them handled.
LEMMA HandleKeeps ==
  ASSUME IInv, NEW n \in 0 .. Len(reqs), handled' = handled \o SubSeq(reqs, 1, n),
         reqs' = <<>>, status' \in {status, "closed"}, begun' = FALSE,
         UNCHANGED <<parser, stream>>
  PROVE  IInv'
<1>1. handled \in Seq(Req) /\ reqs \in Seq(Req)
  BY DEF IInv, TypeOK
<1>2. /\ handled' \in Seq(Req)
      /\ \A i \in 1 .. Len(handled') : Allowed(handled'[i])
  BY <1>1, HandleFirst DEF IInv, HandledWithinLimits, ParsedWithinLimits
<1>3. HandledWithinLimits'
  BY <1>2 DEF HandledWithinLimits
<1>4. ParsedWithinLimits'
  BY DEF ParsedWithinLimits
<1>5. TypeOK'
  <2>1. reqs' \in Seq(Req)
    OBVIOUS
  <2>. QED BY <1>2, <2>1 DEF IInv, TypeOK
<1>6. (status = "open" => ReqFits(parser))'
  BY DEF IInv
<1>. QED BY <1>3, <1>4, <1>5, <1>6 DEF IInv

\* Every step keeps the invariant.
LEMMA INext == IInv /\ [Next]_vars => IInv'
<1> SUFFICES ASSUME IInv, [Next]_vars PROVE IInv'
  OBVIOUS
<1>1. ASSUME NEW ch \in Bytes, Byte(ch) PROVE IInv'
  BY <1>1, ByteKeeps
<1>2. CASE EndOfRead
  <2>1. reqs \in Seq(Req)
    BY DEF IInv, TypeOK
  <2>2. SubSeq(reqs, 1, Len(reqs)) = reqs /\ Len(reqs) \in 0 .. Len(reqs)
    BY <2>1
  <2>. QED BY <1>2, <2>2, HandleKeeps DEF EndOfRead
<1>3. ASSUME NEW n \in 1 .. Len(reqs), CloseWithin(n) PROVE IInv'
  <2>1. n \in 0 .. Len(reqs)
    OBVIOUS
  <2>. QED BY <1>3, <2>1, HandleKeeps DEF CloseWithin
<1>4. CASE Eof
  BY <1>4 DEF Eof, IInv, TypeOK, ParsedWithinLimits, HandledWithinLimits
<1>5. CASE UNCHANGED vars
  BY <1>5 DEF vars, IInv, TypeOK, ParsedWithinLimits, HandledWithinLimits
<1>. QED BY <1>1, <1>2, <1>3, <1>4, <1>5 DEF Next

\* In every reachable state, for any base, limits and number of bytes, the
\* variables have their types, and while the connection is open the counts of
\* both machines fit what they hold.
THEOREM Counted == Spec => []IInv
<1>. QED BY IInit, INext, PTL DEF Spec

\* For any base, limits and number of bytes, and however the stream is cut:
\* every request that reaches Inst::Handle has at least one string and is
\* within the limits of limit.hpp, so the test in inst.cpp:92 is never met.
THEOREM LimitsCorrect == Spec => []HandledWithinLimits
<1>1. IInv => HandledWithinLimits
  BY DEF IInv
<1>. QED BY <1>1, Counted, PTL

\* The variables of Parser have their types.
THEOREM ParserTypeCorrect == Spec => []TypeOK
<1>1. IInv => TypeOK
  BY DEF IInv
<1>. QED BY <1>1, Counted, PTL

-----------------------------------------------------------------------------
(* Numbers.                                                                  *)

\* The numbers that the digits up to each place make.
ValueOf(digits) ==
  LET value[k \in 0 .. Len(digits)] == IF k = 0 THEN 0 ELSE value[k - 1] * Radix + digits[k]
  IN value

\* A digit more keeps a number natural.
LEMMA NaturalWithDigit ==
  ASSUME NEW x \in Nat, NEW base \in Nat, NEW digit \in Nat
  PROVE  x * base + digit \in Nat
  OBVIOUS

\* The recursive function is what its equations say.
LEMMA ValueIs ==
  ASSUME NEW digits \in Seq(Digits)
  PROVE  /\ ValueOf(digits) \in [0 .. Len(digits) -> Nat]
         /\ ValueOf(digits)[0] = 0
         /\ \A k \in 1 .. Len(digits) :
              ValueOf(digits)[k] = ValueOf(digits)[k - 1] * Radix + digits[k]
<1> DEFINE n == Len(digits)
           G(f) == [k \in 0 .. n |-> IF k = 0 THEN 0 ELSE f[k - 1] * Radix + digits[k]]
           F == [x \in Nat \X Nat |-> IF x[2] < n THEN x[1] * Radix + digits[x[2] + 1] ELSE 0]
<1>1. n \in Nat /\ Radix \in Nat
  BY LimitsAssumption
<1>2. \A k \in 1 .. n : digits[k] \in Nat
  <2>1. \A k \in 1 .. n : digits[k] \in Digits
    OBVIOUS
  <2>2. Digits \subseteq Nat
    BY <1>1 DEF Digits
  <2> QED
    BY <2>1, <2>2
<1>3. F \in [Nat \X Nat -> Nat]
  <2>1. ASSUME NEW v \in Nat, NEW k \in Nat, k < n PROVE v * Radix + digits[k + 1] \in Nat
    <3>1. k + 1 \in 1 .. n
      BY <1>1, <2>1
    <3>2. digits[k + 1] \in Nat
      BY <1>2, <3>1
    <3> QED
      BY <1>1, <3>2
  <2> HIDE DEF n
  <2> QED
    BY <2>1
<1>4. PICK f : Counts(f, Nat, 0, F)
  <2> HIDE DEF F, G
  <2>1. 0 \in Nat
    OBVIOUS
  <2> QED
    BY <1>3, <2>1, CountRecursion
<1>a. f \in [Nat -> Nat] /\ f[0] = 0 /\ \A k \in Nat : f[k + 1] = F[<<f[k], k>>]
  BY <1>4 DEF Counts
<1> DEFINE g == [k \in 0 .. n |-> f[k]]
<1>5. ASSUME NEW k \in 1 .. n PROVE g[k] = g[k - 1] * Radix + digits[k]
  <2>1. k - 1 \in Nat /\ (k - 1) + 1 = k /\ k - 1 < n
    BY <1>1
  <2>2. f[k] = F[<<f[k - 1], k - 1>>]
    <3> HIDE DEF F
    <3> QED
      BY <1>a, <2>1
  <2>3. F[<<f[k - 1], k - 1>>] = f[k - 1] * Radix + digits[k]
    BY <1>a, <2>1
  <2> QED
    BY <1>1, <2>1, <2>2, <2>3
<1>6. g = G(g)
  <2>1. g[0] = 0
    BY <1>1, <1>a
  <2>2. \A k \in 0 .. n : g[k] = IF k = 0 THEN 0 ELSE g[k - 1] * Radix + digits[k]
    <3>1. \A k \in 0 .. n : k = 0 \/ k \in 1 .. n
      BY <1>1
    <3> HIDE DEF g
    <3> QED
      BY <1>5, <2>1, <3>1
  <2>3. g = [k \in 0 .. n |-> g[k]]
    OBVIOUS
  <2> HIDE DEF g
  <2> QED
    BY <2>2, <2>3
<1>7. ValueOf(digits) = CHOOSE f_1 : f_1 = G(f_1)
  BY DEF ValueOf
<1> DEFINE v == ValueOf(digits)
<1>8. v = G(v)
  <2> HIDE DEF G, g
  <2> QED
    BY <1>6, <1>7
<1> HIDE DEF v, g
<1>9. v[0] = 0 /\ \A k \in 1 .. n : v[k] = v[k - 1] * Radix + digits[k]
  <2>1. 0 \in 0 .. n /\ \A k \in 1 .. n : k \in 0 .. n /\ k # 0
    BY <1>1
  <2> HIDE DEF n
  <2> QED
    BY <1>8, <2>1
<1>10. \A k \in Nat : k \in {i \in Nat : i <= n => v[i] \in Nat}
  <2> DEFINE S == {i \in Nat : i <= n => v[i] \in Nat}
  <2>1. 0 \in S
    BY <1>9
  <2>2. ASSUME NEW k \in Nat, k \in S PROVE k + 1 \in S
    <3> SUFFICES ASSUME k + 1 <= n PROVE v[k + 1] \in Nat
      OBVIOUS
    <3>1. k + 1 \in 1 .. n /\ (k + 1) - 1 = k /\ k <= n
      BY <1>1
    <3>2. v[k] \in Nat /\ digits[k + 1] \in Nat
      BY <1>2, <2>2, <3>1
    <3>3. v[k + 1] = v[k] * Radix + digits[k + 1]
      BY <1>9, <3>1
    <3> DEFINE x == v[k]
               d == digits[k + 1]
    <3>4. x \in Nat /\ d \in Nat /\ Radix \in Nat
      BY <1>1, <3>2
    <3>5. x * Radix + d \in Nat
      BY <3>4, NaturalWithDigit
    <3> QED
      BY <3>3, <3>5
  <2> HIDE DEF S
  <2>3. \A k \in Nat : k \in S
    BY <2>1, <2>2, CountInduction
  <2> QED
    BY <2>3 DEF S
<1>11. v \in [0 .. n -> Nat]
  <2>1. \A k \in 0 .. n : v[k] \in Nat
    BY <1>1, <1>10
  <2>2. v = [k \in 0 .. n |-> v[k]]
    BY <1>8
  <2> HIDE DEF n
  <2> QED
    BY <2>1, <2>2
<1> QED
  BY <1>9, <1>11 DEF v

\* A further digit.
LEMMA NumberIs ==
  ASSUME NEW digits \in Seq(Digits)
  PROVE  /\ Number(digits) \in Nat
         /\ \A ch \in Digits : Number(Append(digits, ch)) = Number(digits) * Radix + ch
<1> DEFINE n == Len(digits)
<1>1. n \in Nat /\ n \in 0 .. n
  OBVIOUS
<1>2. \A d : Number(d) = ValueOf(d)[Len(d)]
  BY DEF Number, ValueOf
<1>3. Number(digits) \in Nat
  BY <1>1, <1>2, ValueIs
<1>4. ASSUME NEW ch \in Digits PROVE Number(Append(digits, ch)) = Number(digits) * Radix + ch
  <2> DEFINE more == Append(digits, ch)
             v == ValueOf(digits)
             w == ValueOf(more)
  <2>1. more \in Seq(Digits) /\ Len(more) = n + 1 /\ more[n + 1] = ch
        /\ \A k \in 1 .. n : more[k] = digits[k]
    OBVIOUS
  <2>2. v[0] = 0 /\ \A k \in 1 .. n : v[k] = v[k - 1] * Radix + digits[k]
    BY ValueIs
  <2>3. w[0] = 0 /\ \A k \in 1 .. n + 1 : w[k] = w[k - 1] * Radix + more[k]
    <3> HIDE DEF more
    <3> QED
      BY <2>1, ValueIs
  <2> DEFINE S == {i \in Nat : i <= n => w[i] = v[i]}
  <2>4. 0 \in S
    BY <2>2, <2>3
  <2>5. ASSUME NEW k \in Nat, k \in S PROVE k + 1 \in S
    <3> SUFFICES ASSUME k + 1 <= n PROVE w[k + 1] = v[k + 1]
      OBVIOUS
    <3> HIDE DEF v, w, more, n
    <3>1. k + 1 \in 1 .. n /\ k + 1 \in 1 .. n + 1 /\ (k + 1) - 1 = k /\ k <= n
      BY <1>1
    <3>2. w[k] = v[k] /\ more[k + 1] = digits[k + 1]
      BY <2>1, <2>5, <3>1
    <3> QED
      BY <2>2, <2>3, <3>1, <3>2
  <2>6. n \in S
    <3> HIDE DEF S
    <3> QED
      BY <1>1, <2>4, <2>5, CountInduction
  <2> HIDE DEF v, w, more
  <2>7. w[n] = v[n] /\ w[n + 1] = w[(n + 1) - 1] * Radix + more[n + 1] /\ (n + 1) - 1 = n
    BY <1>1, <2>3, <2>6
  <2> QED
    BY <1>2, <2>1, <2>7 DEF v, w, more
<1> QED
  BY <1>3, <1>4

-----------------------------------------------------------------------------
(* Streams that grow, and ranges of them.                                    *)

\* A stream and one byte more of it: what was there stays where it was.
Grows(s, ch, t) == s \in Str /\ ch \in Bytes /\ t = Append(s, ch)

\* The length and the bytes of a stream that grows.
LEMMA Longer ==
  ASSUME NEW s, NEW ch, NEW t, Grows(s, ch, t)
  PROVE  /\ s \in Seq(Bytes) /\ t \in Seq(Bytes) /\ ch \in Bytes
         /\ Len(s) \in Nat /\ Len(t) = Len(s) + 1
         /\ t[Len(s) + 1] = ch
         /\ \A k \in 1 .. Len(s) : t[k] = s[k]
  BY DEF Grows, Str

\* The ranges that were complete stay the same.
LEMMA SameRange ==
  ASSUME NEW s, NEW ch, NEW t, Grows(s, ch, t),
         NEW i \in 1 .. Len(s) + 1, NEW j \in i - 1 .. Len(s)
  PROVE  SubSeq(t, i, j) = SubSeq(s, i, j)
<1>1. s \in Seq(Bytes) /\ t \in Seq(Bytes) /\ Len(t) = Len(s) + 1 /\ \A k \in 1 .. Len(s) : t[k] = s[k]
  BY Longer
<1>2. i \in Nat /\ j \in Int /\ 1 <= i /\ i <= j + 1 /\ j <= Len(s) /\ Len(s) \in Nat
  BY <1>1
<1>3. /\ SubSeq(s, i, j) = [k \in 1 .. (j - i) + 1 |-> s[i + k - 1]]
      /\ SubSeq(t, i, j) = [k \in 1 .. (j - i) + 1 |-> t[i + k - 1]]
  BY <1>1, <1>2
<1>4. \A k \in 1 .. (j - i) + 1 : t[i + k - 1] = s[i + k - 1]
  BY <1>1, <1>2
<1> QED
  BY <1>3, <1>4

\* The range up to the end grows with the stream.
LEMMA LongerRange ==
  ASSUME NEW s, NEW ch, NEW t, Grows(s, ch, t), NEW i \in 1 .. Len(s) + 1
  PROVE  SubSeq(t, i, Len(t)) = Append(SubSeq(s, i, Len(s)), ch)
<1>1. /\ s \in Seq(Bytes) /\ t \in Seq(Bytes) /\ Len(t) = Len(s) + 1 /\ ch \in Bytes
      /\ Len(s) \in Nat /\ t[Len(s) + 1] = ch /\ \A k \in 1 .. Len(s) : t[k] = s[k]
  BY Longer
<1> DEFINE a == SubSeq(s, i, Len(s))
           b == SubSeq(t, i, Len(t))
           n == Len(s) - i + 1
<1>2. i \in Nat /\ 1 <= i /\ n \in Nat
  BY <1>1
<1>3. /\ a \in Seq(Bytes) /\ Len(a) = n /\ \A k \in 1 .. n : a[k] = s[i + k - 1]
      /\ b \in Seq(Bytes) /\ Len(b) = n + 1 /\ \A k \in 1 .. n + 1 : b[k] = t[i + k - 1]
  BY <1>1, <1>2
<1>4. \A k \in 1 .. n : b[k] = a[k]
  <2>1. ASSUME NEW k \in 1 .. n PROVE b[k] = a[k]
    <3>1. k \in 1 .. n + 1 /\ i + k - 1 \in 1 .. Len(s)
      BY <1>1, <1>2
    <3> HIDE DEF a, b, n
    <3> QED
      BY <1>1, <1>3, <3>1
  <2> QED
    BY <2>1
<1>5. b[n + 1] = ch
  <2>1. n + 1 \in 1 .. n + 1 /\ i + (n + 1) - 1 = Len(s) + 1
    BY <1>1, <1>2
  <2> HIDE DEF a, b, n
  <2> QED
    BY <1>1, <1>3, <2>1
<1> HIDE DEF a, b, n
<1>6. b = Append(a, ch)
  BY <1>1, <1>2, <1>3, <1>4, <1>5
<1> QED
  BY <1>6 DEF a, b

\* Ranges have the length of their bounds, and parts of the stream.
LEMMA RangeLen ==
  ASSUME NEW s \in Str, NEW i \in 1 .. Len(s) + 1, NEW j \in i - 1 .. Len(s)
  PROVE  SubSeq(s, i, j) \in Str /\ Len(SubSeq(s, i, j)) = j - i + 1
  BY DEF Str

\* A range of digits is a number.
LEMMA DigitsRange ==
  ASSUME NEW s \in Str, NEW i \in 1 .. Len(s) + 1, NEW j \in i - 1 .. Len(s),
         \A k \in i .. j : s[k] \in Digits
  PROVE  SubSeq(s, i, j) \in Seq(Digits) /\ Number(SubSeq(s, i, j)) \in Nat
<1> DEFINE a == SubSeq(s, i, j)
<1>1. Len(s) \in Nat /\ i \in Nat /\ 1 <= i /\ j \in Int /\ i <= j + 1 /\ j <= Len(s)
  BY DEF Str
<1>2. Len(a) = j - i + 1 /\ a = [k \in 1 .. j - i + 1 |-> s[i + k - 1]]
  BY <1>1 DEF Str
<1>3. \A k \in 1 .. j - i + 1 : i + k - 1 \in i .. j
  BY <1>1
<1>4. a \in Seq(Digits)
  BY <1>1, <1>2, <1>3
<1> HIDE DEF a
<1>5. Number(a) \in Nat
  BY <1>4, NumberIs
<1> QED
  BY <1>4, <1>5 DEF a

\* One digit is a number.
LEMMA NumberOfOne ==
  ASSUME NEW digit \in Digits
  PROVE  Number(<<digit>>) = digit
<1>1. <<>> \in Seq(Digits) /\ <<digit>> = Append(<<>>, digit)
  OBVIOUS
<1>2. Number(<<>>) = 0
  <2>1. Number(<<>>) = ValueOf(<<>>)[Len(<<>>)]
    BY DEF Number, ValueOf
  <2>2. Len(<<>>) = 0
    OBVIOUS
  <2>3. ValueOf(<<>>)[0] = 0
    BY <1>1, ValueIs
  <2> QED
    BY <2>1, <2>2, <2>3
<1>3. Number(<<digit>>) = 0 * Radix + digit
  BY <1>1, <1>2, NumberIs
<1>4. digit \in Nat /\ Radix \in Nat
  BY LimitsAssumption DEF Digits
<1> QED
  BY <1>3, <1>4

-----------------------------------------------------------------------------
(* Headers.                                                                  *)

\* The digits from i on end before j.
EndsBefore(s, i, j) ==
  /\ j \in i .. Len(s) + 1
  /\ \A k \in i .. j - 1 : s[k] \in Digits
  /\ j <= Len(s) => s[j] \notin Digits

\* EndOfDigits chooses that place, for there is only one.
LEMMA EndIs ==
  ASSUME NEW s \in Str, NEW i \in Nat, NEW j, EndsBefore(s, i, j)
  PROVE  EndOfDigits(s, i) = j
<1> DEFINE e == EndOfDigits(s, i)
<1>1. e = CHOOSE x \in i .. Len(s) + 1 :
              /\ \A k \in i .. x - 1 : s[k] \in Digits
              /\ x <= Len(s) => s[x] \notin Digits
  BY DEF EndOfDigits
<1>2. EndsBefore(s, i, e)
  <2> HIDE DEF e
  <2> QED
    BY <1>1 DEF EndsBefore
<1> HIDE DEF e
<1>3. Len(s) \in Nat /\ e \in Int /\ j \in Int /\ i <= e /\ i <= j /\ e <= Len(s) + 1 /\ j <= Len(s) + 1
  BY <1>2 DEF EndsBefore, Str
<1>4. ~(e < j)
  BY <1>2, <1>3 DEF EndsBefore
<1>5. ~(j < e)
  BY <1>2, <1>3 DEF EndsBefore
<1> QED
  BY <1>3, <1>4, <1>5 DEF e

\* The digits end somewhere, at the latest at the end of the stream.
LEMMA EndExists ==
  ASSUME NEW s \in Str, NEW i \in 1 .. Len(s) + 1
  PROVE  \E j : EndsBefore(s, i, j)
<1> DEFINE Ends == {j \in i .. Len(s) + 1 : j <= Len(s) => s[j] \notin Digits}
<1>1. Len(s) \in Nat /\ i \in Nat /\ 1 <= i /\ i <= Len(s) + 1
  BY DEF Str
<1>2. Ends \subseteq Nat /\ Len(s) + 1 \in Ends
  BY <1>1
<1>3. PICK j \in Ends : \A k \in Ends : j <= k
  <2> HIDE DEF Ends
  <2> QED
    BY <1>2, Least
<1>4. \A k \in i .. j - 1 : s[k] \in Digits
  BY <1>1, <1>3
<1> QED
  BY <1>3, <1>4 DEF EndsBefore

\* A header, once it is known where its digits end.
DigitsEnd(s, i, j, n) ==
  /\ s \in Str /\ i \in 1 .. Len(s) /\ EndsBefore(s, i + 1, j)
  /\ n = Number(SubSeq(s, i + 1, j - 1))

\* The header then, with n for its number.
LEMMA HeaderIs ==
  ASSUME NEW s, NEW i, NEW j, NEW n, DigitsEnd(s, i, j, n), NEW byte, NEW limit
  PROVE  Header(s, i, byte, limit) =
           IF s[i] # byte \/ n > limit \/ (j = i + 1 /\ j <= Len(s)) THEN Refused
           ELSE Ended(s, j, n)
<1>1. s \in Str /\ i \in 1 .. Len(s) /\ EndsBefore(s, i + 1, j) /\ n = Number(SubSeq(s, i + 1, j - 1))
  BY DEF DigitsEnd
<1>2. i + 1 \in Nat /\ ~(i > Len(s))
  BY <1>1 DEF Str
<1>3. EndOfDigits(s, i + 1) = j
  BY <1>1, <1>2, EndIs
<1> QED
  BY <1>1, <1>2, <1>3 DEF Header

\* What of a header is read: its first byte, its digits, and the '\r'.
TypeRead(s, i, byte) == i \in 1 .. Len(s) /\ i = Len(s) /\ s[i] = byte

LengthRead(s, i, byte, n) ==
  /\ i \in 1 .. Len(s) - 1 /\ s[i] = byte
  /\ \A k \in i + 1 .. Len(s) : s[k] \in Digits
  /\ n = Number(SubSeq(s, i + 1, Len(s)))

ReturnRead(s, i, byte, n) ==
  /\ i \in 1 .. Len(s) - 2 /\ s[i] = byte
  /\ \A k \in i + 1 .. Len(s) - 1 : s[k] \in Digits
  /\ s[Len(s)] = CR
  /\ n = Number(SubSeq(s, i + 1, Len(s) - 1))

\* Numbers of digits are natural numbers, and '\r' and '\n' are no digits.
LEMMA Alphabet ==
  /\ Digits \subseteq Nat /\ Digits \subseteq Bytes /\ CR \notin Digits
  /\ Number(<<>>) = 0
<1>1. Number(<<>>) = 0
  <2>1. Number(<<>>) = ValueOf(<<>>)[Len(<<>>)]
    BY DEF Number, ValueOf
  <2>2. Len(<<>>) = 0 /\ <<>> \in Seq(Digits)
    OBVIOUS
  <2>3. ValueOf(<<>>)[0] = 0
    BY <2>2, ValueIs
  <2> QED
    BY <2>1, <2>2, <2>3
<1>2. Digits \subseteq Nat /\ Digits \subseteq Bytes
  BY LimitsAssumption DEF Digits, Bytes
<1>3. CR \notin Digits
  BY BytesAssumption DEF Controls
<1> QED
  BY <1>1, <1>2, <1>3

\* The tags of parts.
LEMMA Tags ==
  /\ More.tag = "more" /\ Refused.tag = "bad"
  /\ \A v, x : Got(v, x).tag = "got" /\ Got(v, x).value = v /\ Got(v, x).next = x
  BY DEF More, Refused, Got

\* Nothing of a header is read, or something of it but not all: more is needed.
LEMMA HeaderAtEnd ==
  ASSUME NEW s \in Str, NEW byte, NEW limit
  PROVE  Header(s, Len(s) + 1, byte, limit) = More
<1>1. Len(s) \in Nat /\ Len(s) + 1 > Len(s)
  BY DEF Str
<1> QED
  BY <1>1 DEF Header

\* The first byte is read.
LEMMA TypeReadMore ==
  ASSUME NEW s \in Str, NEW i, NEW byte, TypeRead(s, i, byte), NEW limit \in Nat
  PROVE  Header(s, i, byte, limit) = More
<1>1. Len(s) \in Nat /\ i \in 1 .. Len(s) /\ i = Len(s) /\ s[i] = byte
  BY DEF TypeRead, Str
<1> DEFINE j == i + 1
<1>2. EndsBefore(s, i + 1, j) /\ ~(j <= Len(s)) /\ j > Len(s)
  BY <1>1 DEF EndsBefore
<1>3. SubSeq(s, i + 1, j - 1) = <<>>
  BY <1>1 DEF Str
<1>4. 0 = Number(SubSeq(s, i + 1, j - 1)) /\ ~(0 > limit)
  <2>1. Number(SubSeq(s, i + 1, j - 1)) = 0
    <3> HIDE DEF j
    <3> QED
      BY <1>3, Alphabet, Zenon
  <2> QED
    BY <2>1
<1>a. DigitsEnd(s, i, j, 0)
  <2> HIDE DEF j
  <2> QED
    BY <1>1, <1>2, <1>4 DEF DigitsEnd
<1>5. Ended(s, j, 0) = More
  BY <1>1, <1>2 DEF Ended
<1> HIDE DEF j
<1>6. Header(s, i, byte, limit) =
           IF s[i] # byte \/ 0 > limit \/ (j = i + 1 /\ j <= Len(s)) THEN Refused
           ELSE Ended(s, j, 0)
  BY <1>a, HeaderIs
<1> QED
  BY <1>1, <1>2, <1>4, <1>5, <1>6

\* What is read of the length, and that it is tested.
LEMMA LengthReadIs ==
  ASSUME NEW s \in Str, NEW i, NEW byte, NEW n, LengthRead(s, i, byte, n), NEW limit \in Nat
  PROVE  /\ n \in Nat
         /\ Header(s, i, byte, limit) = IF n > limit THEN Refused ELSE More
<1>1. /\ Len(s) \in Nat /\ i \in 1 .. Len(s) - 1 /\ s[i] = byte
      /\ \A k \in i + 1 .. Len(s) : s[k] \in Digits
      /\ n = Number(SubSeq(s, i + 1, Len(s)))
  BY DEF LengthRead, Str
<1> DEFINE j == Len(s) + 1
<1>2. EndsBefore(s, i + 1, j) /\ ~(j <= Len(s)) /\ j > Len(s) /\ j - 1 = Len(s)
  BY <1>1 DEF EndsBefore
<1>3. i + 1 \in 1 .. Len(s) + 1 /\ Len(s) \in (i + 1) - 1 .. Len(s) /\ i \in 1 .. Len(s)
  BY <1>1
<1>4. n \in Nat
  BY <1>1, <1>3, DigitsRange
<1>5. Ended(s, j, n) = More
  BY <1>1, <1>2 DEF Ended
<1> HIDE DEF j
<1>a. DigitsEnd(s, i, j, n)
  BY <1>1, <1>2, <1>3 DEF DigitsEnd
<1>6. Header(s, i, byte, limit) =
           IF s[i] # byte \/ n > limit \/ (j = i + 1 /\ j <= Len(s)) THEN Refused
           ELSE Ended(s, j, n)
  BY <1>a, HeaderIs
<1> QED
  BY <1>1, <1>2, <1>4, <1>5, <1>6

\* The length and the '\r' are read.
LEMMA ReturnReadMore ==
  ASSUME NEW s \in Str, NEW i, NEW byte, NEW n, ReturnRead(s, i, byte, n),
         NEW limit \in Nat, ~(n > limit)
  PROVE  Header(s, i, byte, limit) = More
<1>1. /\ Len(s) \in Nat /\ i \in 1 .. Len(s) - 2 /\ s[i] = byte
      /\ \A k \in i + 1 .. Len(s) - 1 : s[k] \in Digits
      /\ s[Len(s)] = CR
      /\ n = Number(SubSeq(s, i + 1, Len(s) - 1))
  BY DEF ReturnRead, Str
<1> DEFINE j == Len(s)
<1>2. EndsBefore(s, i + 1, j) /\ j # i + 1 /\ i \in 1 .. Len(s)
  BY <1>1, Alphabet DEF EndsBefore
<1>5. Ended(s, j, n) = More
  BY <1>1, <1>2 DEF Ended
<1>7. n = Number(SubSeq(s, i + 1, j - 1)) /\ j \in Nat
  BY <1>1
<1> HIDE DEF j
<1>a. DigitsEnd(s, i, j, n)
  BY <1>2, <1>7 DEF DigitsEnd
<1>6. Header(s, i, byte, limit) =
           IF s[i] # byte \/ n > limit \/ (j = i + 1 /\ j <= Len(s)) THEN Refused
           ELSE Ended(s, j, n)
  BY <1>a, HeaderIs
<1> QED
  BY <1>1, <1>2, <1>5, <1>6

\* The first byte of a header.
LEMMA HeaderType ==
  ASSUME NEW s, NEW ch, NEW t, Grows(s, ch, t), NEW byte, NEW limit \in Nat
  PROVE  IF ch = byte THEN TypeRead(t, Len(s) + 1, byte)
         ELSE Header(t, Len(s) + 1, byte, limit) = Refused
<1>1. /\ t \in Str /\ Len(s) \in Nat /\ Len(t) = Len(s) + 1 /\ t[Len(s) + 1] = ch
  BY Longer DEF Str
<1> DEFINE i == Len(s) + 1
           j == Len(s) + 2
           n == Number(SubSeq(t, i + 1, j - 1))
<1>2. EndsBefore(t, i + 1, j) /\ i \in 1 .. Len(t)
  BY <1>1 DEF EndsBefore
<1>3. ch = byte => TypeRead(t, i, byte)
  BY <1>1 DEF TypeRead
<1>4. Header(t, i, byte, limit) =
           IF t[i] # byte \/ n > limit \/ (j = i + 1 /\ j <= Len(t)) THEN Refused
           ELSE Ended(t, j, n)
  <2>1. DigitsEnd(t, i, j, n)
    <3> HIDE DEF i, j
    <3> QED
      BY <1>1, <1>2 DEF DigitsEnd
  <2> HIDE DEF i, j, n
  <2> QED
    BY <2>1, HeaderIs
<1> HIDE DEF n
<1> QED
  BY <1>1, <1>3, <1>4

\* The first digit of its length.
LEMMA HeaderFirstDigit ==
  ASSUME NEW s, NEW ch, NEW t, Grows(s, ch, t), NEW i, NEW byte, TypeRead(s, i, byte),
         NEW limit \in Nat
  PROVE  IF ch \in Digits THEN LengthRead(t, i, byte, ch)
         ELSE Header(t, i, byte, limit) = Refused
<1>1. /\ t \in Seq(Bytes) /\ t \in Str /\ Len(s) \in Nat /\ Len(t) = Len(s) + 1
      /\ t[Len(s) + 1] = ch
      /\ \A k \in 1 .. Len(s) : t[k] = s[k]
      /\ i \in 1 .. Len(s) /\ i = Len(s) /\ s[i] = byte
  BY Longer DEF TypeRead, Str
<1>2. t[i] = byte /\ t[i + 1] = ch /\ i \in 1 .. Len(t) /\ i \in 1 .. Len(t) - 1
  BY <1>1
<1>3. CASE ch \in Digits
  <2>1. SubSeq(t, i + 1, Len(t)) = <<ch>>
    <3>1. i + 1 = Len(s) + 1 /\ Len(s) + 1 \in 1 .. Len(s) + 1
      BY <1>1
    <3>2. SubSeq(t, i + 1, Len(t)) = Append(SubSeq(s, Len(s) + 1, Len(s)), ch)
      BY <3>1, LongerRange
    <3>3. SubSeq(s, Len(s) + 1, Len(s)) = <<>>
      BY DEF Grows, Str
    <3>4. <<ch>> = Append(<<>>, ch)
      OBVIOUS
    <3> QED
      BY <3>2, <3>3, <3>4, Zenon
  <2>2. \A k \in i + 1 .. Len(t) : t[k] \in Digits
    BY <1>1, <1>2, <1>3
  <2> QED
    BY <1>2, <1>3, <2>1, <2>2, NumberOfOne DEF LengthRead
<1>4. CASE ch \notin Digits
  <2> DEFINE j == i + 1
             n == Number(SubSeq(t, i + 1, j - 1))
  <2>1. EndsBefore(t, i + 1, j) /\ j <= Len(t)
    BY <1>1, <1>2, <1>4 DEF EndsBefore
  <2>2. Header(t, i, byte, limit) =
           IF t[i] # byte \/ n > limit \/ (j = i + 1 /\ j <= Len(t)) THEN Refused
           ELSE Ended(t, j, n)
    <3> HIDE DEF j
    <3>1. DigitsEnd(t, i, j, n)
      BY <1>1, <1>2, <2>1 DEF DigitsEnd
    <3> HIDE DEF n
    <3> QED
      BY <3>1, HeaderIs
  <2> HIDE DEF n
  <2> QED
    BY <1>4, <2>1, <2>2
<1> QED
  BY <1>3, <1>4

\* A further digit, or the '\r' that ends the length.
LEMMA HeaderNextDigit ==
  ASSUME NEW s, NEW ch, NEW t, Grows(s, ch, t), NEW i, NEW byte, NEW n,
         LengthRead(s, i, byte, n), NEW limit \in Nat
  PROVE  /\ ch \in Digits => LengthRead(t, i, byte, n * Radix + ch)
         /\ ch = CR => ReturnRead(t, i, byte, n)
         /\ ch \notin Digits /\ ch # CR => Header(t, i, byte, limit) = Refused
<1>1. /\ t \in Seq(Bytes) /\ t \in Str /\ s \in Str /\ Len(s) \in Nat /\ Len(t) = Len(s) + 1
      /\ t[Len(s) + 1] = ch
      /\ \A k \in 1 .. Len(s) : t[k] = s[k]
  BY Longer DEF Str
<1>2. /\ i \in 1 .. Len(s) - 1 /\ s[i] = byte
      /\ \A k \in i + 1 .. Len(s) : s[k] \in Digits
      /\ n = Number(SubSeq(s, i + 1, Len(s)))
  BY DEF LengthRead
<1>3. /\ t[i] = byte /\ i \in 1 .. Len(t) /\ i \in 1 .. Len(t) - 1 /\ i \in 1 .. Len(t) - 2
      /\ i + 1 \in 1 .. Len(s) + 1 /\ Len(s) \in (i + 1) - 1 .. Len(s)
      /\ Len(t) - 1 = Len(s)
  BY <1>1, <1>2
<1>4. \A k \in i + 1 .. Len(s) : t[k] \in Digits
  BY <1>1, <1>2
<1>5. SubSeq(t, i + 1, Len(s)) = SubSeq(s, i + 1, Len(s))
  BY <1>3, SameRange
<1>6. ASSUME ch \in Digits PROVE LengthRead(t, i, byte, n * Radix + ch)
  <2>1. SubSeq(t, i + 1, Len(t)) = Append(SubSeq(s, i + 1, Len(s)), ch)
    BY <1>3, LongerRange
  <2>2. SubSeq(s, i + 1, Len(s)) \in Seq(Digits)
    BY <1>1, <1>2, <1>3, DigitsRange
  <2>3. Number(SubSeq(t, i + 1, Len(t))) = n * Radix + ch
    BY <1>2, <1>6, <2>1, <2>2, NumberIs
  <2>4. \A k \in i + 1 .. Len(t) : t[k] \in Digits
    BY <1>1, <1>2, <1>4, <1>6
  <2> QED
    BY <1>3, <2>3, <2>4 DEF LengthRead
<1>7. ASSUME ch = CR PROVE ReturnRead(t, i, byte, n)
  BY <1>1, <1>2, <1>3, <1>4, <1>5, <1>7 DEF ReturnRead
<1>8. ASSUME ch \notin Digits, ch # CR PROVE Header(t, i, byte, limit) = Refused
  <2> DEFINE j == Len(t)
  <2>1. EndsBefore(t, i + 1, j) /\ j \in Nat
    BY <1>1, <1>2, <1>4, <1>8 DEF EndsBefore
  <2>2. Ended(t, j, n) = Refused
    BY <1>1, <1>8 DEF Ended
  <2>3. n = Number(SubSeq(t, i + 1, j - 1))
    BY <1>2, <1>3, <1>5
  <2>4. Header(t, i, byte, limit) =
           IF t[i] # byte \/ n > limit \/ (j = i + 1 /\ j <= Len(t)) THEN Refused
           ELSE Ended(t, j, n)
    <3> HIDE DEF j
    <3>1. DigitsEnd(t, i, j, n)
      BY <1>1, <1>3, <2>1, <2>3 DEF DigitsEnd
    <3> QED
      BY <3>1, HeaderIs
  <2> QED
    BY <2>2, <2>4
<1> QED
  BY <1>6, <1>7, <1>8

\* The '\n' behind it.
LEMMA HeaderLast ==
  ASSUME NEW s, NEW ch, NEW t, Grows(s, ch, t), NEW i, NEW byte, NEW n,
         ReturnRead(s, i, byte, n), NEW limit \in Nat, ~(n > limit)
  PROVE  Header(t, i, byte, limit) = IF ch = LF THEN Got(n, Len(t) + 1) ELSE Refused
<1>1. /\ t \in Seq(Bytes) /\ t \in Str /\ s \in Str /\ Len(s) \in Nat /\ Len(t) = Len(s) + 1
      /\ t[Len(s) + 1] = ch
      /\ \A k \in 1 .. Len(s) : t[k] = s[k]
  BY Longer DEF Str
<1>2. /\ i \in 1 .. Len(s) - 2 /\ s[i] = byte
      /\ \A k \in i + 1 .. Len(s) - 1 : s[k] \in Digits
      /\ s[Len(s)] = CR
      /\ n = Number(SubSeq(s, i + 1, Len(s) - 1))
  BY DEF ReturnRead
<1> DEFINE j == Len(s)
<1>3. /\ t[i] = byte /\ i \in 1 .. Len(t) /\ j \in 1 .. Len(s) /\ j # i + 1
      /\ i + 1 \in 1 .. Len(s) + 1 /\ j - 1 \in (i + 1) - 1 .. Len(s)
      /\ t[j] = CR
  BY <1>1, <1>2
<1>4. EndsBefore(t, i + 1, j)
  BY <1>1, <1>2, <1>3, Alphabet DEF EndsBefore
<1>5. SubSeq(t, i + 1, j - 1) = SubSeq(s, i + 1, Len(s) - 1)
  <2> HIDE DEF j
  <2>1. SubSeq(t, i + 1, j - 1) = SubSeq(s, i + 1, j - 1)
    BY <1>3, SameRange
  <2> QED
    BY <2>1 DEF j
<1>6. Ended(t, j, n) = IF ch = LF THEN Got(n, Len(t) + 1) ELSE Refused
  <2>1. j < Len(t) /\ ~(j >= Len(t)) /\ j + 2 = Len(t) + 1 /\ t[j + 1] = ch /\ t[j] = CR
    BY <1>1, <1>3
  <2> HIDE DEF j
  <2> QED
    BY <2>1 DEF Ended
<1>7. Header(t, i, byte, limit) =
           IF t[i] # byte \/ n > limit \/ (j = i + 1 /\ j <= Len(t)) THEN Refused
           ELSE Ended(t, j, n)
  <2>1. n = Number(SubSeq(t, i + 1, j - 1))
    BY <1>2, <1>5
  <2> HIDE DEF j
  <2>2. DigitsEnd(t, i, j, n)
    BY <1>1, <1>3, <1>4, <2>1 DEF DigitsEnd
  <2> QED
    BY <2>2, HeaderIs
<1> HIDE DEF j
<1> QED
  BY <1>3, <1>6, <1>7

\* What a complete header is made of.
HeaderHas(s, i, byte, limit, n, j) ==
  /\ i \in 1 .. Len(s) /\ s[i] = byte
  /\ EndsBefore(s, i + 1, j) /\ j # i + 1 /\ j <= Len(s) - 1
  /\ n = Number(SubSeq(s, i + 1, j - 1)) /\ ~(n > limit)
  /\ s[j] = CR /\ s[j + 1] = LF

\* A header needs more, is refused, or has these parts.
LEMMA HeaderGot ==
  ASSUME NEW s \in Str, NEW i \in 1 .. Len(s) + 1, NEW byte, NEW limit \in Nat
  PROVE  LET h == Header(s, i, byte, limit)
         IN \/ h = More
            \/ h = Refused
            \/ \E n \in Nat, j \in 1 .. Len(s) :
                 HeaderHas(s, i, byte, limit, n, j) /\ h = Got(n, j + 2)
<1>1. Len(s) \in Nat
  BY DEF Str
<1>2. CASE i = Len(s) + 1
  BY <1>2, HeaderAtEnd
<1>3. CASE i # Len(s) + 1
  <2>1. i \in 1 .. Len(s) /\ i + 1 \in 1 .. Len(s) + 1
    BY <1>1, <1>3
  <2>2. PICK j : EndsBefore(s, i + 1, j)
    BY <2>1, EndExists
  <2> DEFINE n == Number(SubSeq(s, i + 1, j - 1))
             h == Header(s, i, byte, limit)
  <2>3. j \in i + 1 .. Len(s) + 1 /\ \A k \in i + 1 .. j - 1 : s[k] \in Digits
    BY <2>2 DEF EndsBefore
  <2>4. n \in Nat
    <3>1. j - 1 \in (i + 1) - 1 .. Len(s)
      BY <1>1, <2>1, <2>3
    <3> QED
      BY <2>1, <2>3, <3>1, DigitsRange
  <2> HIDE DEF n
  <2>5. h = IF s[i] # byte \/ n > limit \/ (j = i + 1 /\ j <= Len(s)) THEN Refused
            ELSE Ended(s, j, n)
    <3>1. DigitsEnd(s, i, j, n)
      BY <2>1, <2>2 DEF DigitsEnd, n
    <3> QED
      BY <3>1, HeaderIs DEF h
  <2> HIDE DEF h
  <2>6. \/ h = More
        \/ h = Refused
        \/ /\ h = Got(n, j + 2)
           /\ s[i] = byte /\ ~(n > limit) /\ ~(j = i + 1 /\ j <= Len(s))
           /\ ~(j >= Len(s)) /\ ~(j <= Len(s) /\ s[j] # CR) /\ ~(j < Len(s) /\ s[j + 1] # LF)
    BY <2>5 DEF Ended
  <2>7. CASE h = Got(n, j + 2)
    <3>1. \/ h = More
          \/ h = Refused
          \/ j \in 1 .. Len(s) /\ j <= Len(s) - 1 /\ j # i + 1 /\ s[i] = byte /\ ~(n > limit)
             /\ s[j] = CR /\ s[j + 1] = LF
      BY <1>1, <2>1, <2>3, <2>6
    <3>2. \/ h = More
          \/ h = Refused
          \/ j \in 1 .. Len(s) /\ HeaderHas(s, i, byte, limit, n, j)
      BY <2>1, <2>2, <3>1 DEF HeaderHas, n
    <3> QED
      BY <2>4, <2>7, <3>2 DEF h
  <2> QED
    BY <2>6, <2>7 DEF h
<1> QED
  BY <1>2, <1>3

\* A header that is complete stays what it is.
LEMMA HeaderKept ==
  ASSUME NEW s, NEW ch, NEW t, Grows(s, ch, t), NEW i, NEW byte, NEW limit,
         NEW n, NEW j, HeaderHas(s, i, byte, limit, n, j)
  PROVE  Header(t, i, byte, limit) = Got(n, j + 2)
<1>1. /\ t \in Str /\ s \in Str /\ Len(s) \in Nat /\ Len(t) = Len(s) + 1
      /\ \A k \in 1 .. Len(s) : t[k] = s[k]
  BY Longer DEF Str
<1>2. /\ i \in 1 .. Len(s) /\ s[i] = byte
      /\ EndsBefore(s, i + 1, j) /\ j # i + 1 /\ j <= Len(s) - 1
      /\ n = Number(SubSeq(s, i + 1, j - 1)) /\ ~(n > limit)
      /\ s[j] = CR /\ s[j + 1] = LF
  BY DEF HeaderHas
<1>3. /\ j \in i + 1 .. Len(s) + 1 /\ \A k \in i + 1 .. j - 1 : s[k] \in Digits
      /\ j <= Len(s) => s[j] \notin Digits
  BY <1>2 DEF EndsBefore
<1>4. /\ j \in 1 .. Len(s) /\ j + 1 \in 1 .. Len(s)
      /\ i + 1 \in 1 .. Len(s) + 1 /\ j - 1 \in (i + 1) - 1 .. Len(s)
      /\ i \in 1 .. Len(t)
  BY <1>1, <1>2, <1>3
<1>5. t[i] = byte /\ t[j] = CR /\ t[j + 1] = LF
  BY <1>1, <1>2, <1>4
<1>6. EndsBefore(t, i + 1, j)
  BY <1>1, <1>2, <1>3, <1>4 DEF EndsBefore
<1>7. n = Number(SubSeq(t, i + 1, j - 1))
  BY <1>2, <1>4, SameRange
<1>8. Header(t, i, byte, limit) =
           IF t[i] # byte \/ n > limit \/ (j = i + 1 /\ j <= Len(t)) THEN Refused
           ELSE Ended(t, j, n)
  <2>1. DigitsEnd(t, i, j, n)
    BY <1>1, <1>4, <1>6, <1>7 DEF DigitsEnd
  <2> QED
    BY <2>1, HeaderIs
<1>9. Ended(t, j, n) = Got(n, j + 2)
  <2>1. j < Len(t) /\ ~(j >= Len(t))
    BY <1>1, <1>4
  <2> QED
    BY <1>5, <2>1 DEF Ended
<1> QED
  BY <1>2, <1>5, <1>8, <1>9

\* What a header that is complete gives, and that it stays.
LEMMA HeaderNext ==
  ASSUME NEW s \in Str, NEW i \in 1 .. Len(s) + 1, NEW byte, NEW limit \in Nat,
         NEW n, NEW h, Header(s, i, byte, limit) = Got(n, h)
  PROVE  n \in Nat /\ ~(n > limit) /\ h \in i + 1 .. Len(s) + 1
<1>1. Header(s, i, byte, limit) # More /\ Header(s, i, byte, limit) # Refused
  BY Tags
<1>2. PICK m \in Nat, j \in 1 .. Len(s) :
        HeaderHas(s, i, byte, limit, m, j) /\ Header(s, i, byte, limit) = Got(m, j + 2)
  BY <1>1, HeaderGot
<1>3. m = n /\ j + 2 = h
  <2>1. Got(m, j + 2) = Got(n, h)
    BY <1>2
  <2> QED
    BY <2>1 DEF Got
<1>4. j \in i + 1 .. Len(s) + 1 /\ j <= Len(s) - 1 /\ ~(m > limit) /\ i \in Nat
  BY <1>2 DEF HeaderHas, EndsBefore
<1>5. Len(s) \in Nat
  BY DEF Str
<1> QED
  BY <1>2, <1>3, <1>4, <1>5

\* A complete header stays, in terms of what it gives.
LEMMA HeaderStays ==
  ASSUME NEW s, NEW ch, NEW t, Grows(s, ch, t), NEW i \in 1 .. Len(s) + 1, NEW byte,
         NEW limit \in Nat, NEW n, NEW h, Header(s, i, byte, limit) = Got(n, h)
  PROVE  Header(t, i, byte, limit) = Got(n, h)
<1>1. Header(s, i, byte, limit) # More /\ Header(s, i, byte, limit) # Refused /\ s \in Str
  BY Tags DEF Grows
<1>2. PICK m \in Nat, j \in 1 .. Len(s) :
        HeaderHas(s, i, byte, limit, m, j) /\ Header(s, i, byte, limit) = Got(m, j + 2)
  BY <1>1, HeaderGot
<1>3. m = n /\ j + 2 = h
  <2>1. Got(m, j + 2) = Got(n, h)
    BY <1>2
  <2> QED
    BY <2>1 DEF Got
<1> QED
  BY <1>2, <1>3, HeaderKept

-----------------------------------------------------------------------------
(* Strings.                                                                  *)

\* A string with an incomplete or refused header, and with a complete one.
LEMMA StringIs ==
  ASSUME NEW s, NEW i
  PROVE  /\ Header(s, i, Dollar, MaxStrLen) = More => String(s, i) = More
         /\ Header(s, i, Dollar, MaxStrLen) = Refused => String(s, i) = Refused
         /\ \A n, h : Header(s, i, Dollar, MaxStrLen) = Got(n, h)
              => String(s, i) = IF h + n - 1 > Len(s) THEN More
                                ELSE Ended(s, h + n, SubSeq(s, h, h + n - 1))
<1> DEFINE x == Header(s, i, Dollar, MaxStrLen)
<1>1. String(s, i) = IF x.tag # "got" THEN x
                     ELSE IF x.next + x.value - 1 > Len(s) THEN More
                     ELSE Ended(s, x.next + x.value, SubSeq(s, x.next, x.next + x.value - 1))
  BY DEF String
<1> HIDE DEF x
<1>2. x = More => String(s, i) = More
  BY <1>1, Tags
<1>3. x = Refused => String(s, i) = Refused
  BY <1>1, Tags
<1>4. ASSUME NEW n, NEW h, x = Got(n, h)
      PROVE  String(s, i) = IF h + n - 1 > Len(s) THEN More
                            ELSE Ended(s, h + n, SubSeq(s, h, h + n - 1))
  <2>1. x.tag = "got" /\ x.next = h /\ x.value = n
    BY <1>4, Tags
  <2> QED
    BY <1>1, <2>1, Zenon
<1> QED
  BY <1>2, <1>3, <1>4 DEF x

\* The string that begins at i is read up to the end of the stream, and what
\* BulkStringParser keeps of it is what the stream has.
StrPending(s, i, q) ==
  /\ i \in 1 .. Len(s) + 1
  /\ q.state = "TypeChar" => i = Len(s) + 1
  /\ q.state = "LenFirstNum" => TypeRead(s, i, Dollar)
  /\ q.state = "Len" => LengthRead(s, i, Dollar, q.len)
  /\ q.state = "LenN" => ReturnRead(s, i, Dollar, q.len)
  /\ q.state \in {"Data", "R"} =>
       \E h \in 1 .. Len(s) + 1 :
         /\ Header(s, i, Dollar, MaxStrLen) = Got(q.len, h)
         /\ h + q.cur = Len(s) + 1
         /\ q.value = SubSeq(s, h, Len(s))
  /\ q.state = "N" =>
       \E h \in 1 .. Len(s) :
         /\ Header(s, i, Dollar, MaxStrLen) = Got(q.len, h)
         /\ h + q.cur = Len(s)
         /\ q.value = SubSeq(s, h, Len(s) - 1)
         /\ s[Len(s)] = CR

\* What is known of a BulkStringParser in the middle of a string.
StrKnown(s, i, q) == s \in Str /\ q \in BulkStringParsers /\ StrFits(q) /\ StrPending(s, i, q)

\* Such a string needs more.
LEMMA StrMore ==
  ASSUME NEW s, NEW i, NEW q, StrKnown(s, i, q)
  PROVE  String(s, i) = More
<1>1. s \in Str /\ q \in BulkStringParsers /\ StrFits(q) /\ StrPending(s, i, q) /\ Len(s) \in Nat
  BY DEF StrKnown, Str
<1>2. q.state \in BulkStates /\ q.len \in Nat /\ q.cur \in Nat /\ ~(q.len > MaxStrLen)
  BY <1>1, LimitsAssumption DEF BulkStringParsers, StrFits
<1>3. MaxStrLen \in Nat
  BY LimitsAssumption
<1>4. CASE q.state \in {"TypeChar", "LenFirstNum", "Len", "LenN"}
  <2>1. Header(s, i, Dollar, MaxStrLen) = More
    BY <1>1, <1>2, <1>3, <1>4, HeaderAtEnd, TypeReadMore, LengthReadIs, ReturnReadMore DEF StrPending
  <2> QED
    BY <2>1, StringIs
<1>5. CASE q.state = "Data"
  <2>1. PICK h \in 1 .. Len(s) + 1 :
          Header(s, i, Dollar, MaxStrLen) = Got(q.len, h) /\ h + q.cur = Len(s) + 1
    BY <1>1, <1>5 DEF StrPending
  <2>2. q.cur < q.len
    BY <1>1, <1>5 DEF StrFits
  <2>3. h + q.len - 1 > Len(s)
    BY <1>1, <1>2, <2>1, <2>2
  <2> QED
    BY <2>1, <2>3, StringIs
<1>6. CASE q.state = "R"
  <2>1. PICK h \in 1 .. Len(s) + 1 :
          Header(s, i, Dollar, MaxStrLen) = Got(q.len, h) /\ h + q.cur = Len(s) + 1
    BY <1>1, <1>6 DEF StrPending
  <2>2. q.cur = q.len
    BY <1>1, <1>6 DEF StrFits
  <2>3. h + q.len = Len(s) + 1 /\ h + q.len > Len(s) /\ h + q.len >= Len(s) /\ ~(h + q.len < Len(s))
        /\ ~(h + q.len <= Len(s))
    BY <1>1, <1>2, <2>1, <2>2
  <2>4. \A v : Ended(s, h + q.len, v) = More
    BY <2>3 DEF Ended
  <2> QED
    BY <2>1, <2>4, StringIs
<1>7. CASE q.state = "N"
  <2>1. PICK h \in 1 .. Len(s) :
          /\ Header(s, i, Dollar, MaxStrLen) = Got(q.len, h) /\ h + q.cur = Len(s)
          /\ s[Len(s)] = CR
    BY <1>1, <1>7 DEF StrPending
  <2>2. q.cur = q.len
    BY <1>1, <1>7 DEF StrFits
  <2>3. h + q.len = Len(s) /\ h + q.len >= Len(s) /\ ~(h + q.len < Len(s))
    BY <1>1, <1>2, <2>1, <2>2
  <2>4. \A v : Ended(s, h + q.len, v) = More
    BY <2>1, <2>3 DEF Ended
  <2> QED
    BY <2>1, <2>4, StringIs
<1> QED
  BY <1>2, <1>4, <1>5, <1>6, <1>7 DEF BulkStates

\* A string is a part of the stream, behind its beginning.
LEMMA StringPart ==
  ASSUME NEW s \in Str, NEW i \in 1 .. Len(s) + 1
  PROVE  \/ String(s, i) = More
         \/ String(s, i) = Refused
         \/ \E v \in Str, x \in i + 1 .. Len(s) + 1 : String(s, i) = Got(v, x)
<1>1. Len(s) \in Nat /\ MaxStrLen \in Nat /\ i \in Nat
  BY LimitsAssumption DEF Str
<1>2. \/ Header(s, i, Dollar, MaxStrLen) = More
      \/ Header(s, i, Dollar, MaxStrLen) = Refused
      \/ \E n, h : Header(s, i, Dollar, MaxStrLen) = Got(n, h)
  BY <1>1, HeaderGot
<1>3. ASSUME NEW n, NEW h, Header(s, i, Dollar, MaxStrLen) = Got(n, h)
      PROVE  \/ String(s, i) = More
             \/ String(s, i) = Refused
             \/ \E v \in Str, x \in i + 1 .. Len(s) + 1 : String(s, i) = Got(v, x)
  <2>1. n \in Nat /\ h \in i + 1 .. Len(s) + 1
    BY <1>1, <1>3, HeaderNext
  <2>2. String(s, i) = IF h + n - 1 > Len(s) THEN More
                       ELSE Ended(s, h + n, SubSeq(s, h, h + n - 1))
    BY <1>3, StringIs
  <2> DEFINE v == SubSeq(s, h, h + n - 1)
             j == h + n
  <2>3. CASE ~(h + n - 1 > Len(s)) /\ ~(j >= Len(s))
    <3>1. h \in 1 .. Len(s) + 1 /\ h + n - 1 \in h - 1 .. Len(s)
      BY <1>1, <2>1, <2>3
    <3>2. v \in Str
      BY <3>1, RangeLen
    <3>3. j + 2 \in i + 1 .. Len(s) + 1
      BY <1>1, <2>1, <2>3
    <3> HIDE DEF v, j
    <3>4. Ended(s, j, v) = Refused \/ Ended(s, j, v) = Got(v, j + 2)
      BY <2>3 DEF Ended
    <3>5. String(s, i) = Ended(s, j, v)
      BY <2>2, <2>3 DEF j, v
    <3> QED
      BY <3>2, <3>3, <3>4, <3>5
  <2>4. CASE h + n - 1 > Len(s)
    BY <2>2, <2>4
  <2>5. CASE ~(h + n - 1 > Len(s)) /\ j >= Len(s)
    <3> HIDE DEF v, j
    <3>1. String(s, i) = Ended(s, j, v)
      BY <2>2, <2>5 DEF j, v
    <3>2. Ended(s, j, v) = Refused \/ Ended(s, j, v) = More
      BY <2>5 DEF Ended
    <3> QED
      BY <3>1, <3>2
  <2> QED
    BY <2>3, <2>4, <2>5
<1> QED
  BY <1>2, <1>3, StringIs

\* A string that is complete stays what it is.
LEMMA StringStays ==
  ASSUME NEW s, NEW ch, NEW t, Grows(s, ch, t), NEW i \in 1 .. Len(s) + 1,
         NEW v, NEW x, String(s, i) = Got(v, x)
  PROVE  String(t, i) = Got(v, x)
<1>1. /\ s \in Str /\ t \in Str /\ Len(s) \in Nat /\ Len(t) = Len(s) + 1
      /\ \A k \in 1 .. Len(s) : t[k] = s[k]
  BY Longer DEF Str
<1>2. String(s, i) # More /\ String(s, i) # Refused /\ MaxStrLen \in Nat
  BY Tags, LimitsAssumption
<1>3. PICK n, h : Header(s, i, Dollar, MaxStrLen) = Got(n, h)
  BY <1>1, <1>2, HeaderGot, StringIs
<1>4. Header(t, i, Dollar, MaxStrLen) = Got(n, h)
  BY <1>2, <1>3, HeaderStays
<1>5. n \in Nat /\ h \in i + 1 .. Len(s) + 1
  BY <1>1, <1>2, <1>3, HeaderNext
<1> DEFINE j == h + n
           u == SubSeq(s, h, h + n - 1)
<1>6. String(s, i) = IF h + n - 1 > Len(s) THEN More ELSE Ended(s, j, u)
  BY <1>3, StringIs
<1>7. ~(h + n - 1 > Len(s)) /\ String(s, i) = Ended(s, j, u)
  BY <1>2, <1>6
<1>8. SubSeq(t, h, h + n - 1) = u
  <2>1. h \in 1 .. Len(s) + 1 /\ h + n - 1 \in h - 1 .. Len(s)
    BY <1>1, <1>5, <1>7
  <2> QED
    BY <2>1, SameRange
<1>9. j \in Nat /\ 1 <= j
  BY <1>1, <1>5
<1>10. String(t, i) = Ended(t, j, u)
  <2>1. ~(h + n - 1 > Len(t))
    BY <1>1, <1>5, <1>7
  <2> QED
    BY <1>4, <1>8, <2>1, StringIs
<1> HIDE DEF j, u
<1>11. /\ ~(j <= Len(s) /\ s[j] # CR) /\ ~(j < Len(s) /\ s[j + 1] # LF)
       /\ ~(j >= Len(s)) /\ Got(u, j + 2) = Got(v, x)
  BY <1>2, <1>7 DEF Ended
<1>12. j \in 1 .. Len(s) /\ j + 1 \in 1 .. Len(s) /\ ~(j >= Len(t)) /\ j < Len(t)
  BY <1>1, <1>9, <1>11
<1>13. Ended(t, j, u) = Got(u, j + 2)
  <2>1. t[j] = CR /\ t[j + 1] = LF
    BY <1>1, <1>9, <1>11, <1>12
  <2> QED
    BY <1>12, <2>1 DEF Ended
<1> QED
  BY <1>10, <1>11, <1>13

\* What came of a byte is what the stream has with it.
StrReads(step, t, i) ==
  /\ step.result = "more" => StrPending(t, i, step.parser)
  /\ step.result = "completed" => String(t, i) = Got(step.parser.value, Len(t) + 1)
  /\ step.result = "bad" => String(t, i) = Refused

\* The string is refused by both.
LEMMA BadReads ==
  ASSUME NEW q, NEW t, NEW i, String(t, i) = Refused
  PROVE  StrReads(Bad(q), t, i)
  BY DEF StrReads, Bad

\* A BulkStringParser that goes on in another state.
LEMMA BulkGo ==
  ASSUME NEW s \in BulkStringParsers, NEW state \in BulkStates, NEW q, q = Go(s, state).parser
  PROVE  /\ q \in BulkStringParsers
         /\ q.state = state /\ q.value = s.value /\ q.len = s.len /\ q.cur = s.cur
  BY DEF Go, BulkStringParsers

\* The string goes on in both.
LEMMA GoReads ==
  ASSUME NEW q, NEW state, NEW t, NEW i, StrPending(t, i, Go(q, state).parser)
  PROVE  StrReads(Go(q, state), t, i)
  BY DEF StrReads, Go

\* What the steps below have of the stream and the parser.
StrStepsOn(s, ch, t, i, q) == Grows(s, ch, t) /\ StrKnown(s, i, q)

\* What follows from it, for the steps below.
LEMMA StrStepHas ==
  ASSUME NEW s, NEW ch, NEW t, NEW i, NEW q, StrStepsOn(s, ch, t, i, q)
  PROVE  /\ Grows(s, ch, t) /\ s \in Str /\ t \in Str /\ Len(s) \in Nat /\ Len(t) = Len(s) + 1
         /\ ch \in Bytes /\ t[Len(t)] = ch
         /\ \A k \in 1 .. Len(s) : t[k] = s[k]
         /\ i \in 1 .. Len(s) + 1 /\ i \in 1 .. Len(t) + 1
         /\ q \in BulkStringParsers /\ StrFits(q) /\ StrPending(s, i, q)
         /\ q.len \in Nat /\ q.cur \in Nat /\ q.value \in Str /\ ~(q.len > MaxStrLen)
         /\ MaxStrLen \in Nat
<1>1. Grows(s, ch, t) /\ s \in Str /\ q \in BulkStringParsers /\ StrFits(q) /\ StrPending(s, i, q)
  BY DEF StrStepsOn, StrKnown
<1>2. /\ t \in Str /\ Len(s) \in Nat /\ Len(t) = Len(s) + 1
      /\ ch \in Bytes /\ t[Len(t)] = ch
      /\ \A k \in 1 .. Len(s) : t[k] = s[k]
  BY <1>1, Longer DEF Str
<1>3. i \in 1 .. Len(s) + 1
  BY <1>1 DEF StrPending
<1>4. i \in 1 .. Len(t) + 1
  BY <1>2, <1>3
<1>5. q.len \in Nat /\ q.cur \in Nat /\ q.value \in Str
  BY <1>1 DEF BulkStringParsers
<1>6. ~(q.len > MaxStrLen) /\ MaxStrLen \in Nat
  BY <1>1, <1>5, LimitsAssumption DEF StrFits
<1> QED
  BY <1>1, <1>2, <1>3, <1>4, <1>5, <1>6

\* A step in state TypeChar: '$'.
LEMMA TypeCharReads ==
  ASSUME NEW s, NEW ch, NEW t, NEW i, NEW q, StrStepsOn(s, ch, t, i, q), q.state = "TypeChar"
  PROVE  StrReads(BulkStep(q, ch), t, i)
<1>1. /\ Grows(s, ch, t) /\ i \in 1 .. Len(t) + 1 /\ q \in BulkStringParsers
      /\ StrPending(s, i, q) /\ MaxStrLen \in Nat
  BY StrStepHas
<1>2. i = Len(s) + 1
  BY <1>1 DEF StrPending
<1>3. BulkStep(q, ch) = IF ch = Dollar THEN Go(q, "LenFirstNum") ELSE Bad(q)
  BY DEF BulkStep, Expect
<1>4. CASE ch = Dollar
  <2>1. TypeRead(t, i, Dollar)
    BY <1>1, <1>2, <1>4, HeaderType
  <2> DEFINE r == Go(q, "LenFirstNum").parser
  <2>2. r.state = "LenFirstNum"
    BY <1>1, BulkGo DEF BulkStates
  <2>3. StrPending(t, i, r)
    <3> HIDE DEF r
    <3> QED
      BY <1>1, <2>1, <2>2 DEF StrPending
  <2> QED
    BY <1>3, <1>4, <2>3, GoReads
<1>5. CASE ch # Dollar
  <2>1. Header(t, i, Dollar, MaxStrLen) = Refused
    BY <1>1, <1>2, <1>5, HeaderType
  <2> QED
    BY <1>3, <1>5, <2>1, StringIs, BadReads
<1> QED
  BY <1>4, <1>5

\* A step in state LenFirstNum: the first digit.
LEMMA LenFirstNumReads ==
  ASSUME NEW s, NEW ch, NEW t, NEW i, NEW q, StrStepsOn(s, ch, t, i, q), q.state = "LenFirstNum"
  PROVE  StrReads(BulkStep(q, ch), t, i)
<1>1. /\ Grows(s, ch, t) /\ i \in 1 .. Len(t) + 1 /\ q \in BulkStringParsers
      /\ StrPending(s, i, q) /\ MaxStrLen \in Nat
  BY StrStepHas
<1>2. TypeRead(s, i, Dollar)
  BY <1>1 DEF StrPending
<1>3. BulkStep(q, ch) = IF ch \in Digits THEN Go([q EXCEPT !.len = ch], "Len") ELSE Bad(q)
  BY DEF BulkStep, FirstDigit
<1>4. CASE ch \in Digits
  <2>1. LengthRead(t, i, Dollar, ch)
    BY <1>1, <1>2, <1>4, HeaderFirstDigit
  <2> DEFINE r == Go([q EXCEPT !.len = ch], "Len").parser
  <2>2. r.state = "Len" /\ r.len = ch
    BY <1>1, <1>4, BulkLen, Alphabet DEF BulkStates
  <2>3. StrPending(t, i, r)
    <3> HIDE DEF r
    <3> QED
      BY <1>1, <2>1, <2>2 DEF StrPending
  <2> QED
    BY <1>3, <1>4, <2>3, GoReads
<1>5. CASE ch \notin Digits
  <2>1. Header(t, i, Dollar, MaxStrLen) = Refused
    BY <1>1, <1>2, <1>5, HeaderFirstDigit
  <2> QED
    BY <1>3, <1>5, <2>1, StringIs, BadReads
<1> QED
  BY <1>4, <1>5

\* A step in state Len: a digit, or the '\r' that ends the length.
LEMMA LenReads ==
  ASSUME NEW s, NEW ch, NEW t, NEW i, NEW q, StrStepsOn(s, ch, t, i, q), q.state = "Len"
  PROVE  StrReads(BulkStep(q, ch), t, i)
<1>1. /\ Grows(s, ch, t) /\ t \in Str /\ i \in 1 .. Len(t) + 1 /\ q \in BulkStringParsers
      /\ StrPending(s, i, q) /\ MaxStrLen \in Nat /\ q.len \in Nat
  BY StrStepHas
<1>2. LengthRead(s, i, Dollar, q.len)
  BY <1>1 DEF StrPending
<1>3. BulkStep(q, ch) = NextDigit(q, ch, MaxStrLen, "LenN")
  BY DEF BulkStep
<1>4. CASE ch \in Digits
  <2> DEFINE n == q.len * Radix + ch
             r == Go([q EXCEPT !.len = n], "Len").parser
  <2>1. LengthRead(t, i, Dollar, n)
    BY <1>1, <1>2, <1>4, HeaderNextDigit
  <2>2. n \in Nat /\ (n > MaxStrLen => Header(t, i, Dollar, MaxStrLen) = Refused)
    <3> HIDE DEF n
    <3> QED
      BY <1>1, <2>1, LengthReadIs
  <2>3. BulkStep(q, ch) = IF n > MaxStrLen THEN Bad([q EXCEPT !.len = n])
                          ELSE Go([q EXCEPT !.len = n], "Len")
    <3>1. [q EXCEPT !.len = @ * Radix + ch] = [q EXCEPT !.len = n] /\ [q EXCEPT !.len = n].len = n
          /\ q.state = "Len"
      BY <1>1 DEF BulkStringParsers
    <3> HIDE DEF n
    <3> QED
      BY <1>3, <1>4, <3>1 DEF NextDigit
  <2>4. CASE n > MaxStrLen
    <3>1. String(t, i) = Refused
      BY <2>2, <2>4, StringIs
    <3> HIDE DEF n
    <3> QED
      BY <2>3, <2>4, <3>1, BadReads
  <2>5. CASE ~(n > MaxStrLen)
    <3> HIDE DEF n
    <3>1. r.state = "Len" /\ r.len = n
      BY <1>1, <2>2, BulkLen DEF BulkStates
    <3>2. StrPending(t, i, r)
      <4> HIDE DEF r
      <4> QED
        BY <1>1, <2>1, <3>1 DEF StrPending
    <3> QED
      BY <2>3, <2>5, <3>2, GoReads
  <2> QED
    BY <2>4, <2>5
<1>5. CASE ch = CR
  <2>1. ReturnRead(t, i, Dollar, q.len)
    BY <1>1, <1>2, <1>5, HeaderNextDigit
  <2> DEFINE r == Go(q, "LenN").parser
  <2>2. r.state = "LenN" /\ r.len = q.len
    BY <1>1, BulkGo DEF BulkStates
  <2>3. StrPending(t, i, r)
    <3> HIDE DEF r
    <3> QED
      BY <1>1, <2>1, <2>2 DEF StrPending
  <2>4. BulkStep(q, ch) = Go(q, "LenN")
    BY <1>3, <1>5, Alphabet DEF NextDigit, Expect
  <2> QED
    BY <2>3, <2>4, GoReads
<1>6. CASE ch \notin Digits /\ ch # CR
  <2>1. Header(t, i, Dollar, MaxStrLen) = Refused
    BY <1>1, <1>2, <1>6, HeaderNextDigit
  <2>2. BulkStep(q, ch) = Bad(q)
    BY <1>3, <1>6 DEF NextDigit, Expect
  <2> QED
    BY <2>1, <2>2, StringIs, BadReads
<1> QED
  BY <1>4, <1>5, <1>6

\* A step in state LenN: the '\n' behind the length.
LEMMA LenNReads ==
  ASSUME NEW s, NEW ch, NEW t, NEW i, NEW q, StrStepsOn(s, ch, t, i, q), q.state = "LenN"
  PROVE  StrReads(BulkStep(q, ch), t, i)
<1>1. /\ Grows(s, ch, t) /\ t \in Str /\ i \in 1 .. Len(t) + 1 /\ q \in BulkStringParsers
      /\ Len(s) \in Nat /\ Len(t) = Len(s) + 1
      /\ StrPending(s, i, q) /\ StrFits(q) /\ MaxStrLen \in Nat /\ ~(q.len > MaxStrLen)
      /\ q.value \in Str
  BY StrStepHas
<1>2. ReturnRead(s, i, Dollar, q.len)
  BY <1>1 DEF StrPending
<1>3. Header(t, i, Dollar, MaxStrLen) = IF ch = LF THEN Got(q.len, Len(t) + 1) ELSE Refused
  BY <1>1, <1>2, HeaderLast
<1>4. BulkStep(q, ch) = IF ch = LF THEN Go(q, AfterLength(q)) ELSE Bad(q)
  BY DEF BulkStep, Expect
<1>5. CASE ch = LF
  <2> DEFINE r == Go(q, AfterLength(q)).parser
             h == Len(t) + 1
  <2>1. AfterLength(q) \in {"Data", "R"} /\ AfterLength(q) \in BulkStates
    BY DEF AfterLength, BulkStates
  <2>2. r.state \in {"Data", "R"} /\ r.len = q.len /\ r.cur = q.cur /\ r.value = q.value
    BY <1>1, <2>1, BulkGo
  <2>3. q.cur = 0 /\ Len(q.value) = 0
    BY <1>1 DEF StrFits
  <2>4. q.value = <<>> /\ SubSeq(t, h, Len(t)) = <<>>
    BY <1>1, <2>3 DEF Str
  <2>5. h \in 1 .. Len(t) + 1 /\ h + 0 = Len(t) + 1
    BY <1>1
  <2>6. StrPending(t, i, r)
    <3>1. \E x \in 1 .. Len(t) + 1 :
             /\ Header(t, i, Dollar, MaxStrLen) = Got(r.len, x)
             /\ x + r.cur = Len(t) + 1
             /\ r.value = SubSeq(t, x, Len(t))
      <4> HIDE DEF r
      <4>1. Header(t, i, Dollar, MaxStrLen) = Got(r.len, h)
        BY <1>3, <1>5, <2>2
      <4>2. h + r.cur = Len(t) + 1 /\ r.value = SubSeq(t, h, Len(t))
        BY <2>2, <2>3, <2>4, <2>5
      <4> HIDE DEF h
      <4> QED
        BY <2>5, <4>1, <4>2
    <3> HIDE DEF r
    <3> QED
      BY <1>1, <2>2, <3>1 DEF StrPending
  <2> QED
    BY <1>4, <1>5, <2>6, GoReads
<1>6. CASE ch # LF
  BY <1>3, <1>4, <1>6, StringIs, BadReads
<1> QED
  BY <1>5, <1>6

\* A step in state Data: any byte, taken into the value.
LEMMA DataReads ==
  ASSUME NEW s, NEW ch, NEW t, NEW i, NEW q, StrStepsOn(s, ch, t, i, q), q.state = "Data"
  PROVE  StrReads(BulkStep(q, ch), t, i)
<1>1. /\ Grows(s, ch, t) /\ t \in Str /\ i \in 1 .. Len(t) + 1 /\ q \in BulkStringParsers
      /\ Len(s) \in Nat /\ Len(t) = Len(s) + 1 /\ i \in 1 .. Len(s) + 1 /\ ch \in Bytes
      /\ StrPending(s, i, q) /\ MaxStrLen \in Nat /\ q.value \in Str /\ q.cur \in Nat
  BY StrStepHas
<1>2. PICK h \in 1 .. Len(s) + 1 :
         /\ Header(s, i, Dollar, MaxStrLen) = Got(q.len, h)
         /\ h + q.cur = Len(s) + 1
         /\ q.value = SubSeq(s, h, Len(s))
  BY <1>1 DEF StrPending
<1>3. Header(t, i, Dollar, MaxStrLen) = Got(q.len, h)
  BY <1>1, <1>2, HeaderStays
<1> DEFINE state == IF q.cur + 1 = q.len THEN "R" ELSE "Data"
           u == [q EXCEPT !.value = Append(@, ch), !.cur = @ + 1]
           r == Go(u, state).parser
<1>4. BulkStep(q, ch) = Go(u, state)
  BY DEF BulkStep, TakeData
<1>5. state \in {"Data", "R"} /\ state \in BulkStates
  BY DEF BulkStates
<1>6. u \in BulkStringParsers /\ u.value = Append(q.value, ch) /\ u.cur = q.cur + 1 /\ u.len = q.len
  <2>1. Append(q.value, ch) \in Str /\ q.cur + 1 \in Nat
    BY <1>1 DEF Str
  <2> QED
    BY <1>1, <2>1 DEF BulkStringParsers
<1> HIDE DEF u, state
<1>7. /\ r.state \in {"Data", "R"} /\ r.value = Append(q.value, ch) /\ r.cur = q.cur + 1
      /\ r.len = q.len
  BY <1>5, <1>6, BulkGo
<1> HIDE DEF r
<1>8. Append(q.value, ch) = SubSeq(t, h, Len(t))
  BY <1>1, <1>2, LongerRange
<1>9. h \in 1 .. Len(t) + 1 /\ h + (q.cur + 1) = Len(t) + 1
  BY <1>1, <1>2
<1>10. StrPending(t, i, r)
  BY <1>1, <1>3, <1>7, <1>8, <1>9 DEF StrPending
<1> QED
  BY <1>4, <1>10, GoReads DEF r

\* A step in state R: the '\r' behind the data.
LEMMA RReads ==
  ASSUME NEW s, NEW ch, NEW t, NEW i, NEW q, StrStepsOn(s, ch, t, i, q), q.state = "R"
  PROVE  StrReads(BulkStep(q, ch), t, i)
<1>1. /\ Grows(s, ch, t) /\ t \in Str /\ i \in 1 .. Len(t) + 1 /\ q \in BulkStringParsers
      /\ Len(s) \in Nat /\ Len(t) = Len(s) + 1 /\ i \in 1 .. Len(s) + 1 /\ t[Len(t)] = ch
      /\ StrPending(s, i, q) /\ StrFits(q) /\ MaxStrLen \in Nat /\ q.cur \in Nat
  BY StrStepHas
<1>2. PICK h \in 1 .. Len(s) + 1 :
         /\ Header(s, i, Dollar, MaxStrLen) = Got(q.len, h)
         /\ h + q.cur = Len(s) + 1
         /\ q.value = SubSeq(s, h, Len(s))
  BY <1>1 DEF StrPending
<1>3. Header(t, i, Dollar, MaxStrLen) = Got(q.len, h)
  BY <1>1, <1>2, HeaderStays
<1>4. BulkStep(q, ch) = IF ch = CR THEN Go(q, "N") ELSE Bad(q)
  BY DEF BulkStep, Expect
<1>5. CASE ch = CR
  <2> DEFINE r == Go(q, "N").parser
  <2>1. r.state = "N" /\ r.len = q.len /\ r.cur = q.cur /\ r.value = q.value
    BY <1>1, BulkGo DEF BulkStates
  <2>2. h \in 1 .. Len(t) /\ h + q.cur = Len(t) /\ Len(t) - 1 = Len(s) /\ Len(s) \in h - 1 .. Len(s)
    BY <1>1, <1>2
  <2>3. q.value = SubSeq(t, h, Len(t) - 1)
    BY <1>1, <1>2, <2>2, SameRange
  <2>4. StrPending(t, i, r)
    <3> HIDE DEF r
    <3> QED
      BY <1>1, <1>3, <1>5, <2>1, <2>2, <2>3 DEF StrPending
  <2> QED
    BY <1>4, <1>5, <2>4, GoReads
<1>6. CASE ch # CR
  <2>1. q.cur = q.len
    BY <1>1 DEF StrFits
  <2>2. ~(h + q.len - 1 > Len(t)) /\ h + q.len = Len(t) /\ Len(t) <= Len(t)
    BY <1>1, <1>2, <2>1
  <2>3. \A v : Ended(t, h + q.len, v) = Refused
    BY <1>1, <1>6, <2>2 DEF Ended
  <2>4. String(t, i) = Refused
    BY <1>3, <2>2, <2>3, StringIs
  <2> QED
    BY <1>4, <1>6, <2>4, BadReads
<1> QED
  BY <1>5, <1>6

\* A step in state N: the '\n' that completes the string.
LEMMA NReads ==
  ASSUME NEW s, NEW ch, NEW t, NEW i, NEW q, StrStepsOn(s, ch, t, i, q), q.state = "N"
  PROVE  StrReads(BulkStep(q, ch), t, i)
<1>1. /\ Grows(s, ch, t) /\ t \in Str /\ i \in 1 .. Len(t) + 1 /\ q \in BulkStringParsers
      /\ Len(s) \in Nat /\ Len(t) = Len(s) + 1 /\ i \in 1 .. Len(s) + 1 /\ t[Len(t)] = ch
      /\ \A k \in 1 .. Len(s) : t[k] = s[k]
      /\ StrPending(s, i, q) /\ StrFits(q) /\ MaxStrLen \in Nat /\ q.cur \in Nat
  BY StrStepHas
<1>2. PICK h \in 1 .. Len(s) :
         /\ Header(s, i, Dollar, MaxStrLen) = Got(q.len, h)
         /\ h + q.cur = Len(s)
         /\ q.value = SubSeq(s, h, Len(s) - 1)
         /\ s[Len(s)] = CR
  BY <1>1 DEF StrPending
<1>3. Header(t, i, Dollar, MaxStrLen) = Got(q.len, h)
  BY <1>1, <1>2, HeaderStays
<1>4. q.cur = q.len
  BY <1>1 DEF StrFits
<1> DEFINE j == h + q.len
<1>5. ~(h + q.len - 1 > Len(t)) /\ j = Len(s) /\ h + q.len - 1 = Len(s) - 1 /\ h \in 1 .. Len(s) + 1
      /\ Len(s) - 1 \in h - 1 .. Len(s) /\ j \in 1 .. Len(s)
      /\ j + 1 = Len(t) /\ ~(j >= Len(t)) /\ j < Len(t) /\ j + 2 = Len(t) + 1
  <2>1. /\ h \in Nat /\ 1 <= h /\ h <= Len(s) /\ Len(s) \in Nat /\ Len(t) = Len(s) + 1
        /\ h + q.len = Len(s) /\ q.len \in Nat
    BY <1>1, <1>2, <1>4
  <2> QED
    BY <2>1
<1>6. SubSeq(t, h, h + q.len - 1) = q.value
  BY <1>1, <1>2, <1>5, SameRange
<1>7. t[j] = CR /\ t[j + 1] = ch
  BY <1>1, <1>2, <1>5
<1>8. String(t, i) = Ended(t, j, q.value)
  BY <1>3, <1>5, <1>6, StringIs
<1> HIDE DEF j
<1>9. Ended(t, j, q.value) = IF ch = LF THEN Got(q.value, Len(t) + 1) ELSE Refused
  BY <1>5, <1>7 DEF Ended
<1>10. BulkStep(q, ch) = IF ch = LF THEN Completed(q) ELSE Bad(q)
  BY DEF BulkStep
<1>11. CASE ch = LF
  <2>1. String(t, i) = Got(q.value, Len(t) + 1)
    BY <1>8, <1>9, <1>11
  <2> QED
    BY <1>10, <1>11, <2>1 DEF StrReads, Completed
<1>12. CASE ch # LF
  BY <1>8, <1>9, <1>10, <1>12, BadReads
<1> QED
  BY <1>11, <1>12

\* BulkStringParser::Step reads the stream.
LEMMA BulkStepReads ==
  ASSUME NEW s, NEW ch, NEW t, NEW i, NEW q, StrStepsOn(s, ch, t, i, q)
  PROVE  StrReads(BulkStep(q, ch), t, i)
<1>1. q.state \in BulkStates
  BY StrStepHas DEF BulkStringParsers
<1> QED
  BY <1>1, TypeCharReads, LenFirstNumReads, LenReads, LenNReads, DataReads, RReads, NReads DEF BulkStates

-----------------------------------------------------------------------------
(* Parts in a row.                                                           *)

\* Each part is behind its beginning, and within the stream of m bytes.
Parts(part, m, X) ==
  \A j \in 1 .. m + 1 :
    \/ part[j].tag \in {"more", "bad"}
    \/ \E v \in X, x \in j + 1 .. m + 1 : part[j] = Got(v, x)

RowStates(m, X) == [tag : {"got", "more", "bad"}, value : Seq(X), next : 1 .. m + 1]

\* One part more.
RowAfter(part, r) ==
  IF r.tag # "got" THEN r
  ELSE IF part[r.next].tag = "got"
  THEN Got(Append(r.value, part[r.next].value), part[r.next].next)
  ELSE [r EXCEPT !.tag = part[r.next].tag]

\* It is a row again.
LEMMA RowAfterType ==
  ASSUME NEW m \in Nat, NEW X, NEW part, Parts(part, m, X), NEW r \in RowStates(m, X)
  PROVE  RowAfter(part, r) \in RowStates(m, X)
<1>1. r.tag \in {"got", "more", "bad"} /\ r.value \in Seq(X) /\ r.next \in 1 .. m + 1
  BY DEF RowStates
<1> DEFINE p == part[r.next]
<1>2. CASE r.tag # "got"
  BY <1>2 DEF RowAfter
<1>3. CASE r.tag = "got" /\ p.tag = "got"
  <2>1. PICK v \in X, x \in r.next + 1 .. m + 1 : p = Got(v, x)
    BY <1>1, <1>3 DEF Parts
  <2>2. p.value = v /\ p.next = x
    BY <2>1, Tags
  <2> HIDE DEF p
  <2>3. RowAfter(part, r) = Got(Append(r.value, v), x)
    BY <1>3, <2>2 DEF RowAfter, p
  <2>4. Append(r.value, v) \in Seq(X) /\ x \in 1 .. m + 1
    BY <1>1
  <2> QED
    BY <2>3, <2>4 DEF Got, RowStates
<1>4. CASE r.tag = "got" /\ p.tag # "got"
  <2>1. p.tag \in {"more", "bad"}
    <3>1. ASSUME NEW v \in X, NEW x \in r.next + 1 .. m + 1, p = Got(v, x) PROVE FALSE
      BY <1>4, <3>1, Tags
    <3> QED
      BY <1>1, <3>1 DEF Parts
  <2> HIDE DEF p
  <2>2. RowAfter(part, r) = [r EXCEPT !.tag = p.tag]
    BY <1>4 DEF RowAfter, p
  <2> QED
    BY <2>1, <2>2 DEF RowStates
<1> QED
  BY <1>2, <1>3, <1>4

\* The row from i on.
RowOf(part, i) ==
  LET row[k \in Nat] ==
        IF k = 0 THEN Got(<<>>, i)
        ELSE LET r == row[k - 1]
                 p == part[r.next]
             IN IF r.tag # "got" THEN r
                ELSE IF p.tag = "got" THEN Got(Append(r.value, p.value), p.next)
                ELSE [r EXCEPT !.tag = p.tag]
  IN row

\* The parts are those of a stream, and the row begins within it.
InRow(part, m, X, i) == m \in Nat /\ Parts(part, m, X) /\ i \in 1 .. m + 1

\* The recursive function of Row is what its equations say.
LEMMA RowIs ==
  ASSUME NEW m, NEW X, NEW part, NEW i, InRow(part, m, X, i)
  PROVE  /\ Row(part, i, 0) = Got(<<>>, i)
         /\ \A k \in Nat : /\ Row(part, i, k) \in RowStates(m, X)
                           /\ Row(part, i, k + 1) = RowAfter(part, Row(part, i, k))
<1>0. m \in Nat /\ Parts(part, m, X) /\ i \in 1 .. m + 1
  BY DEF InRow
<1> DEFINE R == RowStates(m, X)
           a == Got(<<>>, i)
           F == [x \in R \X Nat |-> RowAfter(part, x[1])]
           G(f) == [k \in Nat |-> IF k = 0 THEN a ELSE RowAfter(part, f[k - 1])]
<1>1. a \in R
  BY <1>0 DEF Got, RowStates
<1>2. \A r \in R : RowAfter(part, r) \in R
  BY <1>0, RowAfterType
<1>3. F \in [R \X Nat -> R]
  <2> HIDE DEF R
  <2> QED
    BY <1>2
<1>4. PICK f : Counts(f, R, a, F)
  <2> HIDE DEF R, a, F, G
  <2> QED
    BY <1>1, <1>3, CountRecursion
<1> HIDE DEF R, a
<1>5. f \in [Nat -> R] /\ f[0] = a /\ \A k \in Nat : f[k + 1] = RowAfter(part, f[k])
  <2>1. f \in [Nat -> R] /\ f[0] = a /\ \A k \in Nat : f[k + 1] = F[<<f[k], k>>]
    <3> HIDE DEF F
    <3> QED
      BY <1>4 DEF Counts
  <2>2. ASSUME NEW k \in Nat PROVE F[<<f[k], k>>] = RowAfter(part, f[k])
    BY <2>1
  <2> HIDE DEF F
  <2> QED
    BY <2>1, <2>2
<1>6. f = G(f)
  <2>1. ASSUME NEW k \in Nat PROVE f[k] = IF k = 0 THEN a ELSE RowAfter(part, f[k - 1])
    <3>1. CASE k = 0
      BY <1>5, <3>1
    <3>2. CASE k # 0
      <4>1. k - 1 \in Nat /\ (k - 1) + 1 = k
        BY <3>2
      <4>2. f[(k - 1) + 1] = RowAfter(part, f[k - 1])
        BY <1>5, <4>1
      <4> QED
        BY <3>2, <4>1, <4>2
    <3> QED
      BY <3>1, <3>2
  <2>2. f = [k \in Nat |-> f[k]]
    BY <1>5
  <2> QED
    BY <2>1, <2>2
<1>7. RowOf(part, i) = CHOOSE f_1 : f_1 = G(f_1)
  BY DEF RowOf, RowAfter, a
<1> DEFINE v == RowOf(part, i)
<1>8. v = G(v)
  <2> HIDE DEF G
  <2> QED
    BY <1>6, <1>7
<1> HIDE DEF v
<1>9. v[0] = a /\ \A k \in Nat : v[k + 1] = RowAfter(part, v[k])
  <2>1. \A k \in Nat : v[k] = IF k = 0 THEN a ELSE RowAfter(part, v[k - 1])
    BY <1>8
  <2>2. v[0] = a
    BY <2>1
  <2>3. ASSUME NEW k \in Nat PROVE v[k + 1] = RowAfter(part, v[k])
    <3>1. k + 1 \in Nat /\ k + 1 # 0 /\ (k + 1) - 1 = k
      OBVIOUS
    <3> QED
      BY <2>1, <3>1
  <2> QED
    BY <2>2, <2>3
<1> DEFINE S == {k \in Nat : v[k] \in R}
<1>10. 0 \in S
  BY <1>1, <1>9
<1>11. \A k \in Nat : k \in S => k + 1 \in S
  BY <1>2, <1>9
<1>12. \A k \in Nat : k \in S
  <2> HIDE DEF S
  <2> QED
    BY <1>10, <1>11, CountInduction
<1>13. \A k : Row(part, i, k) = v[k]
  BY DEF Row, v, RowOf
<1> QED
  BY <1>9, <1>12, <1>13 DEF R, a

\* A row that has stopped gets no longer.
LEMMA RowStops ==
  ASSUME NEW m, NEW X, NEW part, NEW i, InRow(part, m, X, i),
         NEW k \in Nat, Row(part, i, k).tag # "got", NEW n \in Nat, k <= n
  PROVE  Row(part, i, n) = Row(part, i, k)
<1> DEFINE S == {d \in Nat : Row(part, i, k + d) = Row(part, i, k)}
<1>1. 0 \in S
  <2>1. k + 0 = k
    OBVIOUS
  <2>2. Row(part, i, k + 0) = Row(part, i, k)
    BY <2>1, Zenon
  <2> QED
    BY <2>2
<1>2. ASSUME NEW d \in Nat, d \in S PROVE d + 1 \in S
  <2>1. k + d \in Nat /\ k + (d + 1) = (k + d) + 1
    OBVIOUS
  <2>2. Row(part, i, (k + d) + 1) = RowAfter(part, Row(part, i, k + d))
    BY <2>1, RowIs
  <2>3. Row(part, i, k + d) = Row(part, i, k)
    BY <1>2
  <2>4. RowAfter(part, Row(part, i, k)) = Row(part, i, k)
    BY DEF RowAfter
  <2>5. Row(part, i, k + (d + 1)) = Row(part, i, k)
    BY <2>1, <2>2, <2>3, <2>4, Zenon
  <2> QED
    BY <2>5
<1>3. n - k \in Nat /\ k + (n - k) = n
  OBVIOUS
<1>4. n - k \in S
  <2> HIDE DEF S
  <2> QED
    BY <1>1, <1>2, <1>3, CountInduction
<1>5. Row(part, i, k + (n - k)) = Row(part, i, k)
  BY <1>4
<1> QED
  BY <1>3, <1>5

\* A row that goes on has as many parts as were taken, and is that far.
LEMMA RowLong ==
  ASSUME NEW m, NEW X, NEW part, NEW i, InRow(part, m, X, i)
  PROVE  \A k \in Nat : Row(part, i, k).tag = "got"
           => /\ Row(part, i, k) = Got(Row(part, i, k).value, Row(part, i, k).next)
              /\ Len(Row(part, i, k).value) = k
              /\ i + k <= Row(part, i, k).next
<1>0. m \in Nat /\ i \in 1 .. m + 1 /\ Parts(part, m, X)
  BY DEF InRow
<1> DEFINE row(k) == Row(part, i, k)
           Long(r, k) == r = Got(r.value, r.next) /\ Len(r.value) = k /\ i + k <= r.next
           S == {k \in Nat : row(k).tag = "got" => Long(row(k), k)}
<1>1. 0 \in S
  <2>1. row(0) = Got(<<>>, i)
    BY RowIs
  <2>2. Long(Got(<<>>, i), 0)
    <3>1. Got(<<>>, i).value = <<>> /\ Got(<<>>, i).next = i
      BY Tags
    <3>2. Len(<<>>) = 0 /\ i + 0 <= i
      BY <1>0
    <3> QED
      BY <3>1, <3>2
  <2> HIDE DEF row, Long
  <2> QED
    BY <2>1, <2>2
<1>2. ASSUME NEW k \in Nat, k \in S PROVE k + 1 \in S
  <2> DEFINE r == row(k)
             q == row(k + 1)
             p == part[r.next]
  <2>1. r \in RowStates(m, X) /\ q = RowAfter(part, r)
    BY RowIs
  <2>2. r.tag = "got" => Long(r, k)
    BY <1>2
  <2>3. ASSUME q.tag = "got" PROVE Long(q, k + 1)
    <3> HIDE DEF r, q, row
    <3>1. r.tag = "got"
      BY <2>1, <2>3 DEF RowAfter
    <3>2. r.next \in 1 .. m + 1 /\ r.value \in Seq(X)
      BY <2>1 DEF RowStates
    <3>3. p.tag = "got"
      <4>1. ASSUME p.tag # "got" PROVE FALSE
        <5>1. q = [r EXCEPT !.tag = p.tag]
          BY <2>1, <3>1, <4>1 DEF RowAfter
        <5>2. q.tag = p.tag
          BY <2>1, <5>1 DEF RowStates
        <5> QED
          BY <2>3, <4>1, <5>2
      <4> QED
        BY <4>1
    <3>4. PICK v \in X, x \in r.next + 1 .. m + 1 : p = Got(v, x)
      BY <1>0, <3>2, <3>3 DEF Parts
    <3>5. p.value = v /\ p.next = x
      BY <3>4, Tags
    <3>6. q = Got(Append(r.value, v), x)
      BY <2>1, <3>1, <3>3, <3>5 DEF RowAfter
    <3>7. q.value = Append(r.value, v) /\ q.next = x
      BY <3>6, Tags
    <3>8. Len(Append(r.value, v)) = k + 1
      BY <2>2, <3>1, <3>2
    <3>9. i + (k + 1) <= x
      BY <1>0, <2>2, <3>1, <3>2
    <3> QED
      BY <3>6, <3>7, <3>8, <3>9
  <2> HIDE DEF row, Long
  <2> QED
    BY <2>3
<1>3. \A k \in Nat : k \in S
  <2> HIDE DEF S
  <2> QED
    BY <1>1, <1>2, CountInduction
<1> QED
  BY <1>3

\* The next part of a row that goes on.
LEMMA RowGoesOn ==
  ASSUME NEW m, NEW X, NEW part, NEW i, InRow(part, m, X, i),
         NEW k \in Nat, NEW v, NEW j, Row(part, i, k) = Got(v, j)
  PROVE  /\ j \in 1 .. m + 1 /\ v \in Seq(X) /\ Len(v) = k /\ i + k <= j
         /\ \A w, x : part[j] = Got(w, x) => Row(part, i, k + 1) = Got(Append(v, w), x)
         /\ part[j].tag # "got"
              => \A n \in Nat : k < n => Row(part, i, n) = [Got(v, j) EXCEPT !.tag = part[j].tag]
<1> DEFINE r == Row(part, i, k)
<1>1. r \in RowStates(m, X) /\ Row(part, i, k + 1) = RowAfter(part, r)
  BY RowIs
<1>2. r.tag = "got" /\ r.value = v /\ r.next = j
  BY Tags
<1>3. Len(r.value) = k /\ i + k <= r.next
  BY <1>2, RowLong
<1>4. j \in 1 .. m + 1 /\ v \in Seq(X)
  BY <1>1, <1>2 DEF RowStates
<1>5. ASSUME NEW w, NEW x, part[j] = Got(w, x) PROVE Row(part, i, k + 1) = Got(Append(v, w), x)
  <2>1. part[j].tag = "got" /\ part[j].value = w /\ part[j].next = x
    BY <1>5, Tags
  <2> HIDE DEF r
  <2> QED
    BY <1>1, <1>2, <2>1 DEF RowAfter
<1>6. ASSUME part[j].tag # "got", NEW n \in Nat, k < n
      PROVE  Row(part, i, n) = [Got(v, j) EXCEPT !.tag = part[j].tag]
  <2> DEFINE q == [Got(v, j) EXCEPT !.tag = part[j].tag]
  <2>1. Row(part, i, k + 1) = q
    BY <1>1, <1>2, <1>6 DEF RowAfter
  <2>2. q.tag # "got"
    BY <1>6 DEF Got
  <2> DEFINE e == k + 1
  <2>3. e \in Nat /\ e <= n
    BY <1>6
  <2>4. Row(part, i, e).tag # "got"
    BY <2>1, <2>2
  <2> HIDE DEF e, q, r
  <2>5. Row(part, i, n) = Row(part, i, e)
    BY <2>3, <2>4, RowStops
  <2> QED
    BY <2>1, <2>5 DEF e, q
<1> QED
  BY <1>2, <1>3, <1>4, <1>5, <1>6

\* What was got of a row stays what it is, if its parts do.
LEMMA RowStays ==
  ASSUME NEW X, NEW i, NEW m, NEW part, InRow(part, m, X, i),
         NEW m2, NEW part2, InRow(part2, m2, X, i),
         \A j \in 1 .. m + 1 : \A w, x : part[j] = Got(w, x) => part2[j] = Got(w, x)
  PROVE  \A k \in Nat : Row(part, i, k).tag = "got" => Row(part2, i, k) = Row(part, i, k)
<1> DEFINE Same(k) == Row(part, i, k).tag = "got" => Row(part2, i, k) = Row(part, i, k)
           S == {k \in Nat : Same(k)}
<1>1. Row(part, i, 0) = Row(part2, i, 0)
  <2>1. Row(part, i, 0) = Got(<<>>, i)
    BY RowIs
  <2>2. Row(part2, i, 0) = Got(<<>>, i)
    BY RowIs
  <2> QED
    BY <2>1, <2>2
<1>2. ASSUME NEW k \in Nat, Same(k), Row(part, i, k + 1).tag = "got"
      PROVE  Row(part2, i, k + 1) = Row(part, i, k + 1)
  <2> DEFINE r == Row(part, i, k)
             v == r.value
             j == r.next
  <2>1. Row(part, i, k + 1) = RowAfter(part, r)
    BY RowIs
  <2>2. r.tag = "got"
    BY <1>2, <2>1 DEF RowAfter
  <2>3. r = Got(v, j)
    BY <2>2, RowLong
  <2>4. Row(part2, i, k) = Got(v, j)
    BY <1>2, <2>2, <2>3
  <2> HIDE DEF v, j
  <2>5. /\ j \in 1 .. m + 1
        /\ \A w, x : part[j] = Got(w, x) => Row(part, i, k + 1) = Got(Append(v, w), x)
        /\ part[j].tag # "got"
              => \A n \in Nat : k < n => Row(part, i, n) = [Got(v, j) EXCEPT !.tag = part[j].tag]
    <3> HIDE DEF Same, S
    <3> QED
      BY <2>3, RowGoesOn
  <2>6. \A w, x : part2[j] = Got(w, x) => Row(part2, i, k + 1) = Got(Append(v, w), x)
    <3> HIDE DEF Same, S
    <3> QED
      BY <2>4, RowGoesOn
  <2>7. part[j].tag = "got"
    <3>1. ASSUME part[j].tag # "got" PROVE FALSE
      <4>1. Row(part, i, k + 1) = [Got(v, j) EXCEPT !.tag = part[j].tag]
        BY <2>5, <3>1
      <4>2. [Got(v, j) EXCEPT !.tag = part[j].tag].tag = part[j].tag
        BY DEF Got
      <4> QED
        BY <1>2, <3>1, <4>1, <4>2
    <3> QED
      BY <3>1
  <2>8. PICK w \in X, x \in j + 1 .. m + 1 : part[j] = Got(w, x)
    BY <2>5, <2>7 DEF InRow, Parts
  <2>9. part2[j] = Got(w, x)
    BY <2>5, <2>8
  <2> QED
    BY <2>5, <2>6, <2>8, <2>9
<1>3. 0 \in S
  BY <1>1
<1>4. \A k \in Nat : k \in S => k + 1 \in S
  BY <1>2
<1>5. \A k \in Nat : k \in S
  <2> HIDE DEF S
  <2> QED
    BY <1>3, <1>4, CountInduction
<1> QED
  BY <1>5

-----------------------------------------------------------------------------
(* Requests.                                                                 *)

\* The strings that begin at each place of a stream, and the requests.
StringsOf(s) == [j \in 1 .. Len(s) + 1 |-> String(s, j)]
RequestsOf(s) == [j \in 1 .. Len(s) + 1 |-> Request(s, j)]

\* The strings of a stream are parts of it.
LEMMA StringsInRow ==
  ASSUME NEW s \in Str, NEW h \in 1 .. Len(s) + 1
  PROVE  InRow(StringsOf(s), Len(s), Str, h)
<1>1. Len(s) \in Nat
  BY DEF Str
<1>2. ASSUME NEW j \in 1 .. Len(s) + 1
      PROVE  \/ StringsOf(s)[j].tag \in {"more", "bad"}
             \/ \E v \in Str, x \in j + 1 .. Len(s) + 1 : StringsOf(s)[j] = Got(v, x)
  <2>1. StringsOf(s)[j] = String(s, j)
    BY DEF StringsOf
  <2> QED
    BY <2>1, StringPart, Tags
<1> QED
  BY <1>1, <1>2 DEF InRow, Parts

\* How many strings a request takes.
HowMany(s, n) == IF n = 0 THEN Len(s) + 1 ELSE n

\* A request with an incomplete or refused header, and with a complete one.
LEMMA RequestIs ==
  ASSUME NEW s, NEW i
  PROVE  /\ Header(s, i, Star, MaxStrs) = More => Request(s, i) = More
         /\ Header(s, i, Star, MaxStrs) = Refused => Request(s, i) = Refused
         /\ \A n, h : Header(s, i, Star, MaxStrs) = Got(n, h)
              => Request(s, i) = Row(StringsOf(s), h, HowMany(s, n))
<1> DEFINE x == Header(s, i, Star, MaxStrs)
<1>1. Request(s, i) = IF x.tag # "got" THEN x
                      ELSE Row(StringsOf(s), x.next, HowMany(s, x.value))
  BY DEF Request, StringsOf, HowMany
<1> HIDE DEF x
<1>2. x = More => Request(s, i) = More
  BY <1>1, Tags
<1>3. x = Refused => Request(s, i) = Refused
  BY <1>1, Tags
<1>4. ASSUME NEW n, NEW h, x = Got(n, h)
      PROVE  Request(s, i) = Row(StringsOf(s), h, HowMany(s, n))
  <2>1. x.tag = "got" /\ x.next = h /\ x.value = n
    BY <1>4, Tags
  <2> QED
    BY <1>1, <2>1, Zenon
<1> QED
  BY <1>2, <1>3, <1>4 DEF x

\* A request is a part of the stream, behind its beginning; if it is complete
\* it was announced with a length, for strings without end are too many.
LEMMA RequestPart ==
  ASSUME NEW s \in Str, NEW i \in 1 .. Len(s) + 1
  PROVE  \/ Request(s, i).tag \in {"more", "bad"}
         \/ \E v \in Req, x \in i + 1 .. Len(s) + 1 :
              /\ Request(s, i) = Got(v, x)
              /\ \E n \in Nat \ {0}, h \in i + 1 .. Len(s) + 1 :
                   /\ Header(s, i, Star, MaxStrs) = Got(n, h)
                   /\ Row(StringsOf(s), h, n) = Got(v, x)
<1>1. Len(s) \in Nat /\ i \in Nat /\ MaxStrs \in Nat
  BY LimitsAssumption DEF Str
<1>2. \/ Header(s, i, Star, MaxStrs) = More
      \/ Header(s, i, Star, MaxStrs) = Refused
      \/ \E n, h : Header(s, i, Star, MaxStrs) = Got(n, h)
  BY <1>1, HeaderGot
<1>3. CASE Header(s, i, Star, MaxStrs) \in {More, Refused}
  BY <1>3, RequestIs, Tags
<1>4. ASSUME NEW n, NEW h, Header(s, i, Star, MaxStrs) = Got(n, h),
             Request(s, i).tag \notin {"more", "bad"}
      PROVE  \E v \in Req, x \in i + 1 .. Len(s) + 1 :
                /\ Request(s, i) = Got(v, x)
                /\ n \in Nat \ {0} /\ h \in i + 1 .. Len(s) + 1
                /\ Row(StringsOf(s), h, n) = Got(v, x)
  <2> DEFINE N == HowMany(s, n)
             r == Row(StringsOf(s), h, N)
  <2>1. n \in Nat /\ h \in i + 1 .. Len(s) + 1
    BY <1>1, <1>4, HeaderNext
  <2>2. h \in 1 .. Len(s) + 1 /\ N \in Nat /\ N > 0
    BY <1>1, <2>1 DEF HowMany
  <2>3. InRow(StringsOf(s), Len(s), Str, h)
    BY <2>2, StringsInRow
  <2>4. Request(s, i) = r
    BY <1>4, RequestIs
  <2>5. r \in RowStates(Len(s), Str)
    <3> HIDE DEF N
    <3> QED
      BY <2>2, <2>3, RowIs
  <2>6. r.tag = "got" /\ r.value \in Seq(Str) /\ r.next \in 1 .. Len(s) + 1
    <3> HIDE DEF r
    <3> QED
      BY <1>4, <2>4, <2>5 DEF RowStates
  <2>7. r = Got(r.value, r.next) /\ h + N <= r.next
    <3> HIDE DEF N
    <3> QED
      BY <2>2, <2>3, <2>6, RowLong
  <2>8. n # 0
    <3>1. n = 0 => N = Len(s) + 1
      BY DEF HowMany
    <3> HIDE DEF N, r
    <3> QED
      BY <1>1, <2>2, <2>6, <2>7, <3>1
  <2>9. N = n
    BY <2>8 DEF HowMany
  <2> HIDE DEF N
  <2>10. r.next \in i + 1 .. Len(s) + 1
    <3> HIDE DEF r
    <3> QED
      BY <1>1, <2>1, <2>2, <2>6, <2>7
  <2>11. Row(StringsOf(s), h, n) = r
    BY <2>9
  <2> HIDE DEF r
  <2> QED
    BY <2>1, <2>4, <2>6, <2>7, <2>8, <2>10, <2>11 DEF Req
<1> QED
  BY <1>2, <1>3, <1>4

\* What strings of a row were got stay.
LEMMA StringRowStays ==
  ASSUME NEW s, NEW ch, NEW t, Grows(s, ch, t), NEW h \in 1 .. Len(s) + 1, NEW k \in Nat,
         NEW v, NEW x, Row(StringsOf(s), h, k) = Got(v, x)
  PROVE  Row(StringsOf(t), h, k) = Got(v, x)
<1>1. s \in Str /\ t \in Str /\ Len(s) \in Nat /\ Len(t) = Len(s) + 1 /\ h \in 1 .. Len(t) + 1
  BY Longer DEF Str
<1>2. InRow(StringsOf(s), Len(s), Str, h) /\ InRow(StringsOf(t), Len(t), Str, h)
  BY <1>1, StringsInRow
<1>3. \A j \in 1 .. Len(s) + 1 : \A w, y : StringsOf(s)[j] = Got(w, y) => StringsOf(t)[j] = Got(w, y)
  <2> SUFFICES ASSUME NEW j \in 1 .. Len(s) + 1, NEW w, NEW y, StringsOf(s)[j] = Got(w, y)
               PROVE  StringsOf(t)[j] = Got(w, y)
    OBVIOUS
  <2>1. String(s, j) = Got(w, y)
    BY DEF StringsOf
  <2>2. String(t, j) = Got(w, y)
    BY <2>1, StringStays
  <2>3. j \in 1 .. Len(t) + 1
    BY <1>1
  <2> QED
    BY <2>2, <2>3 DEF StringsOf
<1>4. Row(StringsOf(s), h, k).tag = "got"
  BY Tags
<1>5. Row(StringsOf(t), h, k) = Row(StringsOf(s), h, k)
  BY <1>2, <1>3, <1>4, RowStays
<1> QED
  BY <1>5

\* A request that is complete stays what it is.
LEMMA RequestStays ==
  ASSUME NEW s, NEW ch, NEW t, Grows(s, ch, t), NEW i \in 1 .. Len(s) + 1,
         NEW v, NEW x, Request(s, i) = Got(v, x)
  PROVE  Request(t, i) = Got(v, x)
<1>1. s \in Str /\ Len(s) \in Nat /\ i \in Nat /\ MaxStrs \in Nat
  BY Longer, LimitsAssumption DEF Str
<1>2. Request(s, i).tag \notin {"more", "bad"}
  BY Tags
<1>3. PICK n \in Nat \ {0}, h \in i + 1 .. Len(s) + 1 :
        Header(s, i, Star, MaxStrs) = Got(n, h) /\ Row(StringsOf(s), h, n) = Request(s, i)
  BY <1>1, <1>2, RequestPart
<1>4. h \in 1 .. Len(s) + 1 /\ n \in Nat
  BY <1>1
<1>5. Row(StringsOf(t), h, n) = Got(v, x)
  BY <1>3, <1>4, StringRowStays
<1>6. Header(t, i, Star, MaxStrs) = Got(n, h)
  BY <1>1, <1>3, HeaderStays
<1>7. HowMany(t, n) = n
  BY DEF HowMany
<1> QED
  BY <1>5, <1>6, <1>7, RequestIs

\* The request that begins at i is read up to the end of the stream: its
\* complete strings are those that ReqParser has, and the last one is read as
\* far as its BulkStringParser has it.
ReqPending(s, i, p) ==
  /\ i \in 1 .. Len(s) + 1
  /\ p.state = "ArrayChar" => i = Len(s) + 1
  /\ p.state = "ArrayLenFirstNum" => TypeRead(s, i, Star)
  /\ p.state = "ArrayLen" => LengthRead(s, i, Star, p.len)
  /\ p.state = "ArrayN" => ReturnRead(s, i, Star, p.len)
  /\ p.state = "Str" =>
       \E h \in 1 .. Len(s) + 1, k \in 1 .. Len(s) + 1 :
         /\ Header(s, i, Star, MaxStrs) = Got(p.len, h)
         /\ Row(StringsOf(s), h, Len(p.req)) = Got(p.req, k)
         /\ StrPending(s, k, p.str)

\* What is known of a ReqParser in the middle of a request.
ReqKnown(s, i, p) == s \in Str /\ p \in ReqParsers /\ ReqFits(p) /\ ReqPending(s, i, p)

\* What follows from it, for the steps below.
LEMMA ReqKnownHas ==
  ASSUME NEW s, NEW i, NEW p, ReqKnown(s, i, p)
  PROVE  /\ s \in Str /\ Len(s) \in Nat /\ p \in ReqParsers /\ ReqFits(p) /\ ReqPending(s, i, p)
         /\ i \in 1 .. Len(s) + 1
         /\ p.state \in ReqStates /\ p.len \in Nat /\ ~(p.len > MaxStrs) /\ MaxStrs \in Nat
         /\ p.req \in Seq(Str) /\ Len(p.req) \in Nat
         /\ p.str \in BulkStringParsers /\ StrFits(p.str)
         /\ p.state = "Str" => p.len = 0 \/ Len(p.req) < p.len
<1>1. s \in Str /\ p \in ReqParsers /\ ReqFits(p) /\ ReqPending(s, i, p)
  BY DEF ReqKnown
<1>2. Len(s) \in Nat /\ i \in 1 .. Len(s) + 1
  BY <1>1 DEF Str, ReqPending
<1>3. p.state \in ReqStates /\ p.len \in Nat /\ p.req \in Seq(Str) /\ p.str \in BulkStringParsers
  BY <1>1 DEF ReqParsers, Req
<1>4. ~(p.len > MaxStrs) /\ MaxStrs \in Nat
  BY <1>1, <1>3, LimitsAssumption DEF ReqFits
<1>5. StrFits(p.str) /\ (p.state = "Str" => p.len = 0 \/ Len(p.req) < p.len)
  BY <1>1 DEF ReqFits
<1>6. Len(p.req) \in Nat
  BY <1>3
<1> QED
  BY <1>1, <1>2, <1>3, <1>4, <1>5, <1>6

\* The string that is read next is one that the request takes; so the request
\* is stopped where that string is.
LEMMA RequestStopsAt ==
  ASSUME NEW s \in Str, NEW i, NEW n \in Nat, NEW h \in 1 .. Len(s) + 1, NEW req, NEW k,
         Header(s, i, Star, MaxStrs) = Got(n, h),
         Row(StringsOf(s), h, Len(req)) = Got(req, k), Len(req) \in Nat,
         n = 0 \/ Len(req) < n,
         NEW tag, tag # "got", String(s, k).tag = tag
  PROVE  Request(s, i).tag = tag
<1>1. Len(s) \in Nat /\ InRow(StringsOf(s), Len(s), Str, h)
  BY StringsInRow DEF Str
<1>2. /\ k \in 1 .. Len(s) + 1 /\ h + Len(req) <= k
      /\ StringsOf(s)[k].tag # "got"
              => \A x \in Nat : Len(req) < x
                   => Row(StringsOf(s), h, x) = [Got(req, k) EXCEPT !.tag = StringsOf(s)[k].tag]
  BY <1>1, RowGoesOn
<1>3. StringsOf(s)[k] = String(s, k)
  BY <1>2 DEF StringsOf
<1>4. HowMany(s, n) \in Nat /\ Len(req) < HowMany(s, n)
  <2>1. Len(req) < Len(s) + 1
    BY <1>1, <1>2
  <2> QED
    BY <1>1, <2>1 DEF HowMany
<1>5. Row(StringsOf(s), h, HowMany(s, n)) = [Got(req, k) EXCEPT !.tag = tag]
  BY <1>2, <1>3, <1>4
<1>6. [Got(req, k) EXCEPT !.tag = tag].tag = tag
  BY DEF Got
<1>7. Request(s, i) = Row(StringsOf(s), h, HowMany(s, n))
  BY RequestIs
<1> QED
  BY <1>5, <1>6, <1>7

\* A request in the middle needs more.
LEMMA ReqMore ==
  ASSUME NEW s, NEW i, NEW p, ReqKnown(s, i, p)
  PROVE  Request(s, i).tag = "more"
<1>1. /\ s \in Str /\ ReqPending(s, i, p)
      /\ p.state \in ReqStates /\ p.len \in Nat /\ ~(p.len > MaxStrs) /\ MaxStrs \in Nat
      /\ Len(p.req) \in Nat
      /\ p.str \in BulkStringParsers /\ StrFits(p.str)
      /\ p.state = "Str" => p.len = 0 \/ Len(p.req) < p.len
  BY ReqKnownHas
<1>2. CASE p.state # "Str"
  <2>1. Header(s, i, Star, MaxStrs) = More
    BY <1>1, <1>2, HeaderAtEnd, TypeReadMore, LengthReadIs, ReturnReadMore DEF ReqPending, ReqStates
  <2> QED
    BY <2>1, RequestIs, Tags
<1>3. CASE p.state = "Str"
  <2>1. PICK h \in 1 .. Len(s) + 1, k \in 1 .. Len(s) + 1 :
         /\ Header(s, i, Star, MaxStrs) = Got(p.len, h)
         /\ Row(StringsOf(s), h, Len(p.req)) = Got(p.req, k)
         /\ StrPending(s, k, p.str)
    BY <1>1, <1>3 DEF ReqPending
  <2>2. String(s, k).tag = "more"
    BY <1>1, <2>1, StrMore, Tags DEF StrKnown
  <2> DEFINE n == p.len
             req == p.req
             tag == "more"
  <2>3. n \in Nat /\ Len(req) \in Nat /\ (n = 0 \/ Len(req) < n) /\ tag # "got"
        /\ String(s, k).tag = tag
        /\ Header(s, i, Star, MaxStrs) = Got(n, h)
        /\ Row(StringsOf(s), h, Len(req)) = Got(req, k)
    BY <1>1, <1>3, <2>1, <2>2
  <2>4. Request(s, i).tag = tag
    <3> HIDE DEF n, req, tag
    <3> QED
      BY <1>1, <2>3, RequestStopsAt
  <2> QED
    BY <2>4
<1> QED
  BY <1>2, <1>3

\* What came of a byte is what the stream has with it.
ReqReads(step, t, i) ==
  /\ step.result = "more" => ReqPending(t, i, step.parser)
  /\ step.result = "completed" => Request(t, i) = Got(step.parser.req, Len(t) + 1)
  /\ step.result = "bad" => Request(t, i).tag = "bad"

\* The request is refused by both.
LEMMA BadRequestReads ==
  ASSUME NEW q, NEW t, NEW i, Request(t, i).tag = "bad"
  PROVE  ReqReads(Bad(q), t, i)
  BY DEF ReqReads, Bad

\* The request goes on in both.
LEMMA GoRequestReads ==
  ASSUME NEW q, NEW state, NEW t, NEW i, ReqPending(t, i, Go(q, state).parser)
  PROVE  ReqReads(Go(q, state), t, i)
  BY DEF ReqReads, Go

\* A refused header refuses the request.
LEMMA BadHeader ==
  ASSUME NEW t, NEW i, Header(t, i, Star, MaxStrs) = Refused
  PROVE  Request(t, i).tag = "bad"
  BY RequestIs, Tags

\* What the steps below have of the stream and the parser.
ReqStepsOn(s, ch, t, i, p) == Grows(s, ch, t) /\ ReqKnown(s, i, p)

\* What follows from it, for the steps below.
LEMMA ReqStepHas ==
  ASSUME NEW s, NEW ch, NEW t, NEW i, NEW p, ReqStepsOn(s, ch, t, i, p)
  PROVE  /\ Grows(s, ch, t) /\ t \in Str /\ Len(t) = Len(s) + 1 /\ i \in 1 .. Len(t) + 1
         /\ ReqKnown(s, i, p)
<1>1. Grows(s, ch, t) /\ ReqKnown(s, i, p)
  BY DEF ReqStepsOn
<1>2. t \in Str /\ Len(t) = Len(s) + 1 /\ Len(s) \in Nat
  BY <1>1, Longer DEF Str
<1>3. i \in 1 .. Len(t) + 1
  BY <1>1, <1>2, ReqKnownHas
<1> QED
  BY <1>1, <1>2, <1>3

\* A step in state ArrayChar: '*'.
LEMMA ArrayCharReads ==
  ASSUME NEW s, NEW ch, NEW t, NEW i, NEW p, ReqStepsOn(s, ch, t, i, p), p.state = "ArrayChar"
  PROVE  ReqReads(ReqStep(p, ch), t, i)
<1>1. /\ Grows(s, ch, t) /\ i \in 1 .. Len(t) + 1 /\ p \in ReqParsers
      /\ ReqPending(s, i, p) /\ MaxStrs \in Nat
  BY ReqStepHas, ReqKnownHas
<1>2. i = Len(s) + 1
  BY <1>1 DEF ReqPending
<1>3. ReqStep(p, ch) = IF ch = Star THEN Go(p, "ArrayLenFirstNum") ELSE Bad(p)
  BY DEF ReqStep, Expect
<1>4. CASE ch = Star
  <2>1. TypeRead(t, i, Star)
    BY <1>1, <1>2, <1>4, HeaderType
  <2> DEFINE r == Go(p, "ArrayLenFirstNum").parser
  <2>2. r.state = "ArrayLenFirstNum"
    BY <1>1, ReqGo DEF ReqStates
  <2>3. ReqPending(t, i, r)
    <3> HIDE DEF r
    <3> QED
      BY <1>1, <2>1, <2>2 DEF ReqPending
  <2> QED
    BY <1>3, <1>4, <2>3, GoRequestReads
<1>5. CASE ch # Star
  <2>1. Header(t, i, Star, MaxStrs) = Refused
    BY <1>1, <1>2, <1>5, HeaderType
  <2> QED
    BY <1>3, <1>5, <2>1, BadHeader, BadRequestReads
<1> QED
  BY <1>4, <1>5

\* A step in state ArrayLenFirstNum: the first digit.
LEMMA ArrayLenFirstNumReads ==
  ASSUME NEW s, NEW ch, NEW t, NEW i, NEW p, ReqStepsOn(s, ch, t, i, p),
         p.state = "ArrayLenFirstNum"
  PROVE  ReqReads(ReqStep(p, ch), t, i)
<1>1. /\ Grows(s, ch, t) /\ i \in 1 .. Len(t) + 1 /\ p \in ReqParsers
      /\ ReqPending(s, i, p) /\ MaxStrs \in Nat
  BY ReqStepHas, ReqKnownHas
<1>2. TypeRead(s, i, Star)
  BY <1>1 DEF ReqPending
<1>3. ReqStep(p, ch) = IF ch \in Digits THEN Go([p EXCEPT !.len = ch], "ArrayLen") ELSE Bad(p)
  BY DEF ReqStep, FirstDigit
<1>4. CASE ch \in Digits
  <2>1. LengthRead(t, i, Star, ch)
    BY <1>1, <1>2, <1>4, HeaderFirstDigit
  <2> DEFINE r == Go([p EXCEPT !.len = ch], "ArrayLen").parser
  <2>2. r.state = "ArrayLen" /\ r.len = ch
    BY <1>1, <1>4, ReqLen, Alphabet DEF ReqStates
  <2>3. ReqPending(t, i, r)
    <3> HIDE DEF r
    <3> QED
      BY <1>1, <2>1, <2>2 DEF ReqPending
  <2> QED
    BY <1>3, <1>4, <2>3, GoRequestReads
<1>5. CASE ch \notin Digits
  <2>1. Header(t, i, Star, MaxStrs) = Refused
    BY <1>1, <1>2, <1>5, HeaderFirstDigit
  <2> QED
    BY <1>3, <1>5, <2>1, BadHeader, BadRequestReads
<1> QED
  BY <1>4, <1>5

\* A step in state ArrayLen: a digit, or the '\r' that ends the length.
LEMMA ArrayLenReads ==
  ASSUME NEW s, NEW ch, NEW t, NEW i, NEW p, ReqStepsOn(s, ch, t, i, p), p.state = "ArrayLen"
  PROVE  ReqReads(ReqStep(p, ch), t, i)
<1>1. /\ Grows(s, ch, t) /\ t \in Str /\ i \in 1 .. Len(t) + 1 /\ p \in ReqParsers
      /\ ReqPending(s, i, p) /\ MaxStrs \in Nat /\ p.len \in Nat
  BY ReqStepHas, ReqKnownHas
<1>2. LengthRead(s, i, Star, p.len)
  BY <1>1 DEF ReqPending
<1>3. ReqStep(p, ch) = NextDigit(p, ch, MaxStrs, "ArrayN")
  BY DEF ReqStep
<1>4. CASE ch \in Digits
  <2> DEFINE n == p.len * Radix + ch
             r == Go([p EXCEPT !.len = n], "ArrayLen").parser
  <2>1. LengthRead(t, i, Star, n)
    BY <1>1, <1>2, <1>4, HeaderNextDigit
  <2>2. n \in Nat /\ (n > MaxStrs => Header(t, i, Star, MaxStrs) = Refused)
    <3> HIDE DEF n
    <3> QED
      BY <1>1, <2>1, LengthReadIs
  <2>3. ReqStep(p, ch) = IF n > MaxStrs THEN Bad([p EXCEPT !.len = n])
                         ELSE Go([p EXCEPT !.len = n], "ArrayLen")
    <3>1. [p EXCEPT !.len = @ * Radix + ch] = [p EXCEPT !.len = n] /\ [p EXCEPT !.len = n].len = n
          /\ p.state = "ArrayLen"
      BY <1>1 DEF ReqParsers
    <3> HIDE DEF n
    <3> QED
      BY <1>3, <1>4, <3>1 DEF NextDigit
  <2>4. CASE n > MaxStrs
    <3> HIDE DEF n
    <3> QED
      BY <2>2, <2>3, <2>4, BadHeader, BadRequestReads
  <2>5. CASE ~(n > MaxStrs)
    <3> HIDE DEF n
    <3>1. r.state = "ArrayLen" /\ r.len = n
      BY <1>1, <2>2, ReqLen DEF ReqStates
    <3>2. ReqPending(t, i, r)
      <4> HIDE DEF r
      <4> QED
        BY <1>1, <2>1, <3>1 DEF ReqPending
    <3> QED
      BY <2>3, <2>5, <3>2, GoRequestReads
  <2> QED
    BY <2>4, <2>5
<1>5. CASE ch = CR
  <2>1. ReturnRead(t, i, Star, p.len)
    BY <1>1, <1>2, <1>5, HeaderNextDigit
  <2> DEFINE r == Go(p, "ArrayN").parser
  <2>2. r.state = "ArrayN" /\ r.len = p.len
    BY <1>1, ReqGo DEF ReqStates
  <2>3. ReqPending(t, i, r)
    <3> HIDE DEF r
    <3> QED
      BY <1>1, <2>1, <2>2 DEF ReqPending
  <2>4. ReqStep(p, ch) = Go(p, "ArrayN")
    BY <1>3, <1>5, Alphabet DEF NextDigit, Expect
  <2> QED
    BY <2>3, <2>4, GoRequestReads
<1>6. CASE ch \notin Digits /\ ch # CR
  <2>1. Header(t, i, Star, MaxStrs) = Refused
    BY <1>1, <1>2, <1>6, HeaderNextDigit
  <2>2. ReqStep(p, ch) = Bad(p)
    BY <1>3, <1>6 DEF NextDigit, Expect
  <2> QED
    BY <2>1, <2>2, BadHeader, BadRequestReads
<1> QED
  BY <1>4, <1>5, <1>6

\* A step in state ArrayN: the '\n' behind the length.
LEMMA ArrayNReads ==
  ASSUME NEW s, NEW ch, NEW t, NEW i, NEW p, ReqStepsOn(s, ch, t, i, p), p.state = "ArrayN"
  PROVE  ReqReads(ReqStep(p, ch), t, i)
<1>1. /\ Grows(s, ch, t) /\ t \in Str /\ i \in 1 .. Len(t) + 1 /\ p \in ReqParsers
      /\ Len(s) \in Nat /\ Len(t) = Len(s) + 1
      /\ ReqPending(s, i, p) /\ ReqFits(p) /\ MaxStrs \in Nat /\ ~(p.len > MaxStrs)
  BY ReqStepHas, ReqKnownHas
<1>2. ReturnRead(s, i, Star, p.len)
  BY <1>1 DEF ReqPending
<1>3. Header(t, i, Star, MaxStrs) = IF ch = LF THEN Got(p.len, Len(t) + 1) ELSE Refused
  BY <1>1, <1>2, HeaderLast
<1>4. ReqStep(p, ch) = IF ch = LF THEN Go(p, "Str") ELSE Bad(p)
  BY DEF ReqStep, Expect
<1>5. CASE ch = LF
  <2> DEFINE r == Go(p, "Str").parser
             h == Len(t) + 1
  <2>1. r.state = "Str" /\ r.len = p.len /\ r.req = p.req /\ r.str = p.str
    BY <1>1, ReqGo DEF ReqStates
  <2>2. p.req = <<>> /\ p.str = FreshStr
    BY <1>1 DEF ReqFits
  <2>3. h \in 1 .. Len(t) + 1 /\ Len(<<>>) = 0
    BY <1>1
  <2>4. InRow(StringsOf(t), Len(t), Str, h)
    <3> HIDE DEF h
    <3> QED
      BY <1>1, <2>3, StringsInRow
  <2>5. Row(StringsOf(t), h, 0) = Got(<<>>, h)
    <3> HIDE DEF h
    <3> QED
      BY <2>4, RowIs
  <2>6. StrPending(t, h, FreshStr)
    BY <2>3 DEF StrPending, FreshStr
  <2> HIDE DEF r
  <2>7. /\ Header(t, i, Star, MaxStrs) = Got(r.len, h)
        /\ Row(StringsOf(t), h, Len(r.req)) = Got(r.req, h)
        /\ StrPending(t, h, r.str)
    BY <1>3, <1>5, <2>1, <2>2, <2>3, <2>5, <2>6
  <2>8. ReqPending(t, i, r)
    <3> HIDE DEF h
    <3> QED
      BY <1>1, <2>1, <2>3, <2>7 DEF ReqPending
  <2> QED
    BY <1>4, <1>5, <2>8, GoRequestReads DEF r
<1>6. CASE ch # LF
  BY <1>3, <1>4, <1>6, BadHeader, BadRequestReads
<1> QED
  BY <1>5, <1>6

\* A step in state Str: a byte of a string, which may complete the request.
LEMMA StrStepReads ==
  ASSUME NEW s, NEW ch, NEW t, NEW i, NEW p, ReqStepsOn(s, ch, t, i, p), p.state = "Str"
  PROVE  ReqReads(ReqStep(p, ch), t, i)
<1>1. /\ Grows(s, ch, t) /\ t \in Str /\ i \in 1 .. Len(t) + 1 /\ i \in 1 .. Len(s) + 1
      /\ s \in Str /\ Len(s) \in Nat /\ Len(t) = Len(s) + 1 /\ ch \in Bytes
      /\ p \in ReqParsers /\ ReqPending(s, i, p) /\ MaxStrs \in Nat
      /\ p.len \in Nat /\ p.req \in Seq(Str) /\ Len(p.req) \in Nat
      /\ p.str \in BulkStringParsers /\ StrFits(p.str)
      /\ p.len = 0 \/ Len(p.req) < p.len
  <2>1. Grows(s, ch, t) /\ t \in Str /\ Len(t) = Len(s) + 1 /\ i \in 1 .. Len(t) + 1 /\ ch \in Bytes
    BY ReqStepHas DEF Grows
  <2> QED
    BY <2>1, ReqStepHas, ReqKnownHas
<1>2. PICK h \in 1 .. Len(s) + 1, k \in 1 .. Len(s) + 1 :
         /\ Header(s, i, Star, MaxStrs) = Got(p.len, h)
         /\ Row(StringsOf(s), h, Len(p.req)) = Got(p.req, k)
         /\ StrPending(s, k, p.str)
  BY <1>1 DEF ReqPending
<1>3. /\ Header(t, i, Star, MaxStrs) = Got(p.len, h)
      /\ Row(StringsOf(t), h, Len(p.req)) = Got(p.req, k)
      /\ h \in 1 .. Len(t) + 1 /\ k \in 1 .. Len(t) + 1
  BY <1>1, <1>2, HeaderStays, StringRowStays
<1> DEFINE b == BulkStep(p.str, ch)
           q == [p EXCEPT !.str = b.parser]
<1>4. StrReads(b, t, k)
  BY <1>1, <1>2, BulkStepReads DEF StrStepsOn, StrKnown
<1>5. b.result \in Results /\ b.parser \in BulkStringParsers
  BY <1>1, BulkStepFits
<1>6. ReqStep(p, ch) = CASE b.result = "bad"       -> Bad(q)
                         [] b.result = "more"      -> Go(q, "Str")
                         [] b.result = "completed" -> NextStr(q, b.parser)
  BY DEF ReqStep, StrStep
<1> HIDE DEF b
<1>7. q \in ReqParsers /\ q.state = p.state /\ q.len = p.len /\ q.req = p.req /\ q.str = b.parser
  BY <1>1, <1>5 DEF ReqParsers
<1> HIDE DEF q
<1>8. CASE b.result = "bad"
  <2>1. String(t, k).tag = "bad"
    BY <1>4, <1>8, Tags DEF StrReads
  <2> DEFINE n == p.len
             req == p.req
             tag == "bad"
  <2>2. n \in Nat /\ Len(req) \in Nat /\ (n = 0 \/ Len(req) < n) /\ tag # "got"
        /\ String(t, k).tag = tag
        /\ Header(t, i, Star, MaxStrs) = Got(n, h)
        /\ Row(StringsOf(t), h, Len(req)) = Got(req, k)
    BY <1>1, <1>3, <2>1
  <2>3. Request(t, i).tag = tag
    <3> HIDE DEF n, req, tag
    <3> QED
      BY <1>1, <1>3, <2>2, RequestStopsAt
  <2> QED
    BY <1>6, <1>8, <2>3, BadRequestReads
<1>9. CASE b.result = "more"
  <2> DEFINE r == Go(q, "Str").parser
  <2>1. r.state = "Str" /\ r.len = p.len /\ r.req = p.req /\ r.str = b.parser
    BY <1>7, ReqGo DEF ReqStates
  <2>2. StrPending(t, k, b.parser)
    BY <1>4, <1>9 DEF StrReads
  <2> HIDE DEF r
  <2>3. ReqPending(t, i, r)
    BY <1>1, <1>3, <2>1, <2>2 DEF ReqPending
  <2>4. ReqStep(p, ch) = Go(q, "Str")
    BY <1>6, <1>9
  <2> QED
    BY <2>3, <2>4, GoRequestReads DEF r
<1>10. CASE b.result = "completed"
  <2> DEFINE v == b.parser.value
             x == Len(t) + 1
             u == [q EXCEPT !.req = Append(@, b.parser.value), !.str = FreshStr]
             req == Append(p.req, v)
  <2>1. String(t, k) = Got(v, x)
    BY <1>4, <1>10 DEF StrReads
  <2>2. v \in Str /\ FreshStr \in BulkStringParsers
    BY <1>5, LimitsAssumption DEF BulkStringParsers, FreshStr, BulkStates, Str
  <2>3. req \in Seq(Str) /\ Len(req) = Len(p.req) + 1
    <3> HIDE DEF v
    <3> QED
      BY <1>1, <2>2
  <2>4. Row(StringsOf(t), h, Len(req)) = Got(req, x)
    <3>1. StringsOf(t)[k] = Got(v, x)
      BY <1>3, <2>1 DEF StringsOf
    <3>2. InRow(StringsOf(t), Len(t), Str, h)
      BY <1>1, <1>3, StringsInRow
    <3> HIDE DEF v, x
    <3>3. Row(StringsOf(t), h, Len(p.req) + 1) = Got(Append(p.req, v), x)
      BY <1>1, <1>3, <3>1, <3>2, RowGoesOn
    <3> QED
      BY <2>3, <3>3
  <2>5. u \in ReqParsers /\ u.state = "Str" /\ u.len = p.len /\ u.req = req /\ u.str = FreshStr
    <3> HIDE DEF v
    <3>1. u = [q EXCEPT !.req = req, !.str = FreshStr]
      BY <1>7 DEF v
    <3> HIDE DEF u, req
    <3> QED
      BY <1>7, <2>2, <2>3, <3>1 DEF ReqParsers, Req
  <2>6. ReqStep(p, ch) = IF Len(u.req) = u.len THEN Completed(u) ELSE Go(u, "Str")
    BY <1>6, <1>10 DEF NextStr
  <2> HIDE DEF u, req
  <2>7. CASE Len(u.req) = u.len
    <3>1. p.len # 0 /\ Len(req) = p.len
      BY <1>1, <2>3, <2>5, <2>7
    <3>2. HowMany(t, p.len) = Len(req)
      BY <3>1 DEF HowMany
    <3>3. Request(t, i) = Got(req, x)
      BY <1>3, <2>4, <3>2, RequestIs
    <3> QED
      BY <2>5, <2>6, <2>7, <3>3 DEF ReqReads, Completed
  <2>8. CASE Len(u.req) # u.len
    <3> DEFINE r == Go(u, "Str").parser
    <3>1. r.state = "Str" /\ r.len = p.len /\ r.req = req /\ r.str = FreshStr
      BY <2>5, ReqGo DEF ReqStates
    <3>2. x \in 1 .. Len(t) + 1
      BY <1>1
    <3>3. StrPending(t, x, FreshStr)
      BY <3>2 DEF StrPending, FreshStr
    <3> HIDE DEF r, x
    <3>4. ReqPending(t, i, r)
      BY <1>1, <1>3, <2>4, <3>1, <3>2, <3>3 DEF ReqPending
    <3> QED
      BY <2>6, <2>8, <3>4, GoRequestReads DEF r
  <2> QED
    BY <2>7, <2>8
<1> QED
  BY <1>5, <1>8, <1>9, <1>10 DEF Results

\* ReqParser::Step reads the stream.
LEMMA ReqStepReads ==
  ASSUME NEW s, NEW ch, NEW t, NEW i, NEW p, ReqStepsOn(s, ch, t, i, p)
  PROVE  ReqReads(ReqStep(p, ch), t, i)
<1>1. p.state \in ReqStates
  BY ReqStepHas, ReqKnownHas
<1> QED
  BY <1>1, ArrayCharReads, ArrayLenFirstNumReads, ArrayLenReads, ArrayNReads, StrStepReads DEF ReqStates

-----------------------------------------------------------------------------
(* Streams.                                                                  *)

\* The requests of a stream are parts of it.
LEMMA RequestsInRow ==
  ASSUME NEW s \in Str
  PROVE  InRow(RequestsOf(s), Len(s), Req, 1)
<1>1. Len(s) \in Nat /\ 1 \in 1 .. Len(s) + 1
  BY DEF Str
<1>2. ASSUME NEW j \in 1 .. Len(s) + 1
      PROVE  \/ RequestsOf(s)[j].tag \in {"more", "bad"}
             \/ \E v \in Req, x \in j + 1 .. Len(s) + 1 : RequestsOf(s)[j] = Got(v, x)
  <2>1. RequestsOf(s)[j] = Request(s, j)
    BY DEF RequestsOf
  <2> QED
    BY <2>1, RequestPart
<1> QED
  BY <1>1, <1>2 DEF InRow, Parts

\* The requests "all" of a stream end before j.
ReadUpTo(s, all, j) == Row(RequestsOf(s), 1, Len(all)) = Got(all, j)

\* What requests were got of a stream stay.
LEMMA ReadStays ==
  ASSUME NEW s, NEW ch, NEW t, Grows(s, ch, t), NEW all \in Seq(Req), NEW j, ReadUpTo(s, all, j)
  PROVE  ReadUpTo(t, all, j)
<1>1. s \in Str /\ t \in Str /\ Len(s) \in Nat /\ Len(t) = Len(s) + 1 /\ Len(all) \in Nat
  BY Longer DEF Str
<1>2. InRow(RequestsOf(s), Len(s), Req, 1) /\ InRow(RequestsOf(t), Len(t), Req, 1)
  BY <1>1, RequestsInRow
<1>3. \A k \in 1 .. Len(s) + 1 : \A w, y : RequestsOf(s)[k] = Got(w, y) => RequestsOf(t)[k] = Got(w, y)
  <2> SUFFICES ASSUME NEW k \in 1 .. Len(s) + 1, NEW w, NEW y, RequestsOf(s)[k] = Got(w, y)
               PROVE  RequestsOf(t)[k] = Got(w, y)
    OBVIOUS
  <2>1. Request(s, k) = Got(w, y)
    BY DEF RequestsOf
  <2>2. Request(t, k) = Got(w, y)
    BY <2>1, RequestStays
  <2>3. k \in 1 .. Len(t) + 1
    BY <1>1
  <2> QED
    BY <2>2, <2>3 DEF RequestsOf
<1>4. Row(RequestsOf(s), 1, Len(all)).tag = "got" /\ Row(RequestsOf(s), 1, Len(all)) = Got(all, j)
  BY Tags DEF ReadUpTo
<1>5. Row(RequestsOf(t), 1, Len(all)) = Row(RequestsOf(s), 1, Len(all))
  BY <1>1, <1>2, <1>3, <1>4, RowStays
<1> QED
  BY <1>4, <1>5 DEF ReadUpTo

\* One request more.
LEMMA ReadOneMore ==
  ASSUME NEW s \in Str, NEW all \in Seq(Req), NEW j, ReadUpTo(s, all, j),
         NEW r \in Req, NEW x, Request(s, j) = Got(r, x)
  PROVE  ReadUpTo(s, Append(all, r), x)
<1>1. InRow(RequestsOf(s), Len(s), Req, 1) /\ Len(all) \in Nat /\ Len(Append(all, r)) = Len(all) + 1
  BY RequestsInRow
<1>2. Row(RequestsOf(s), 1, Len(all)) = Got(all, j)
  BY DEF ReadUpTo
<1>3. /\ j \in 1 .. Len(s) + 1
      /\ \A w, y : RequestsOf(s)[j] = Got(w, y)
           => Row(RequestsOf(s), 1, Len(all) + 1) = Got(Append(all, w), y)
  BY <1>1, <1>2, RowGoesOn
<1>4. RequestsOf(s)[j] = Got(r, x)
  BY <1>3 DEF RequestsOf
<1> QED
  BY <1>1, <1>3, <1>4 DEF ReadUpTo

\* A stream whose next request is not complete has no other requests.
LEMMA ReadAll ==
  ASSUME NEW s \in Str, NEW all \in Seq(Req), NEW j, ReadUpTo(s, all, j),
         NEW tag, tag # "got", Request(s, j).tag = tag
  PROVE  Decode(s).reqs = all /\ Decode(s).bad = (tag = "bad")
         /\ Decode(s) = [reqs |-> all, bad |-> tag = "bad"]
<1>1. InRow(RequestsOf(s), Len(s), Req, 1) /\ Len(all) \in Nat /\ Len(s) \in Nat
  BY RequestsInRow DEF Str
<1>2. Row(RequestsOf(s), 1, Len(all)) = Got(all, j)
  BY DEF ReadUpTo
<1>3. /\ j \in 1 .. Len(s) + 1 /\ 1 + Len(all) <= j
      /\ RequestsOf(s)[j].tag # "got"
           => \A n \in Nat : Len(all) < n
                => Row(RequestsOf(s), 1, n) = [Got(all, j) EXCEPT !.tag = RequestsOf(s)[j].tag]
  BY <1>1, <1>2, RowGoesOn
<1>4. RequestsOf(s)[j] = Request(s, j)
  BY <1>3 DEF RequestsOf
<1>5. Len(s) + 1 \in Nat /\ Len(all) < Len(s) + 1
  BY <1>1, <1>3
<1> DEFINE r == Row(RequestsOf(s), 1, Len(s) + 1)
<1>6. r = [Got(all, j) EXCEPT !.tag = tag]
  BY <1>3, <1>4, <1>5
<1>7. r.value = all /\ r.tag = tag
  <2> HIDE DEF r
  <2> QED
    BY <1>6 DEF Got
<1>8. Decode(s) = [reqs |-> r.value, bad |-> r.tag = "bad"]
  BY DEF Decode, RequestsOf
<1> HIDE DEF r
<1>9. Decode(s) = [reqs |-> all, bad |-> tag = "bad"]
  BY <1>7, <1>8, Zenon
<1> QED
  BY <1>9

-----------------------------------------------------------------------------
(* Steps of the session read the stream.                                     *)

\* While the connection is open, the requests handled and parsed are the
\* complete ones of the stream, and the parser is in the middle of the next.
InOrder == status = "open" => \E j : ReadUpTo(stream, handled \o reqs, j) /\ ReqPending(stream, j, parser)

RInv ==
  /\ IInv
  /\ InOrder
  /\ RefusesOnlyBadStreams

\* A fresh parser is in the middle of a request of which nothing is read.
LEMMA FreshReads ==
  ASSUME NEW s \in Str
  PROVE  ReqPending(s, Len(s) + 1, Fresh)
<1>1. Fresh.state = "ArrayChar"
  BY DEF Fresh
<1>2. Len(s) + 1 \in 1 .. Len(s) + 1
  BY DEF Str
<1> QED
  BY <1>1, <1>2 DEF ReqPending

\* It holds when the session starts, with an empty stream.
LEMMA RInit == Init => RInv
<1> SUFFICES ASSUME Init PROVE RInv
  OBVIOUS
<1>1. stream = <<>> /\ handled = <<>> /\ reqs = <<>> /\ parser = Fresh /\ status = "open"
  BY DEF Init
<1>2. stream \in Str /\ Len(stream) = 0 /\ handled \o reqs = <<>>
  BY <1>1 DEF Str
<1>3. InRow(RequestsOf(stream), Len(stream), Req, 1)
  BY <1>2, RequestsInRow
<1>4. Row(RequestsOf(stream), 1, 0) = Got(<<>>, 1)
  BY <1>3, RowIs
<1>5. ReadUpTo(stream, handled \o reqs, 1)
  <2>1. Len(<<>>) = 0
    OBVIOUS
  <2> QED
    BY <1>2, <1>4, <2>1, Zenon DEF ReadUpTo
<1>6. ReqPending(stream, 1, parser)
  <2>1. Len(stream) + 1 = 1
    BY <1>2
  <2> QED
    BY <1>1, <1>2, <2>1, FreshReads
<1>7. InOrder
  BY <1>5, <1>6 DEF InOrder
<1>8. RefusesOnlyBadStreams
  BY <1>1 DEF RefusesOnlyBadStreams
<1> QED
  BY <1>7, <1>8, IInit DEF RInv

\* While the connection is open the stream decodes to what was parsed.
LEMMA OpenDecodes ==
  ASSUME IInv, InOrder, status = "open"
  PROVE  Decode(stream) = [reqs |-> handled \o reqs, bad |-> FALSE] /\ Decode(stream).bad = FALSE
<1>1. stream \in Str /\ handled \o reqs \in Seq(Req) /\ parser \in ReqParsers /\ ReqFits(parser)
  <2>1. stream \in Str /\ handled \in Seq(Req) /\ reqs \in Seq(Req) /\ parser \in ReqParsers
    BY DEF IInv, TypeOK, Str
  <2>2. handled \o reqs \in Seq(Req)
    BY <2>1
  <2> QED
    BY <2>1, <2>2 DEF IInv
<1>2. PICK j : ReadUpTo(stream, handled \o reqs, j) /\ ReqPending(stream, j, parser)
  BY DEF InOrder
<1>3. Request(stream, j).tag = "more"
  BY <1>1, <1>2, ReqMore DEF ReqKnown
<1> DEFINE all == handled \o reqs
           tag == "more"
<1>4. tag # "got" /\ tag # "bad"
  OBVIOUS
<1>5. Decode(stream) = [reqs |-> all, bad |-> tag = "bad"] /\ Decode(stream).bad = (tag = "bad")
  <2> HIDE DEF all, tag
  <2> QED
    BY <1>1, <1>2, <1>3, <1>4, ReadAll DEF all, tag
<1> HIDE DEF tag
<1>6. (tag = "bad") = FALSE
  BY <1>4
<1> QED
  BY <1>5, <1>6, Zenon

\* A byte is read in order, and one that is refused makes the stream bad.
LEMMA ByteReads ==
  ASSUME RInv, NEW ch \in Bytes, Byte(ch)
  PROVE  InOrder' /\ RefusesOnlyBadStreams'
<1>1. /\ status = "open" /\ stream' = Append(stream, ch) /\ handled' = handled
      /\ IInv /\ InOrder
  BY DEF RInv, Byte
<1>2. /\ stream \in Str /\ handled \in Seq(Req) /\ reqs \in Seq(Req)
      /\ parser \in ReqParsers /\ ReqFits(parser)
  BY <1>1 DEF IInv, TypeOK, Str
<1> DEFINE s == stream
           t == stream'
           all == handled \o reqs
           step == ReqStep(parser, ch)
<1>3. PICK j : ReadUpTo(s, all, j) /\ ReqPending(s, j, parser)
  BY <1>1 DEF InOrder
<1>4. Grows(s, ch, t) /\ all \in Seq(Req)
  BY <1>1, <1>2 DEF Grows
<1>5. t \in Str /\ Len(t) = Len(s) + 1 /\ Len(s) \in Nat
  BY <1>4, Longer DEF Str
<1>6. ReadUpTo(t, all, j)
  <2> HIDE DEF s, t, all
  <2> QED
    BY <1>3, <1>4, ReadStays
<1>7. ReqReads(step, t, j)
  <2>1. ReqStepsOn(s, ch, t, j, parser)
    BY <1>2, <1>3, <1>4 DEF ReqStepsOn, ReqKnown
  <2> HIDE DEF s, t
  <2> QED
    BY <2>1, ReqStepReads
<1>8. /\ step.result \in Results
      /\ step.parser \in ReqParsers
  BY <1>2, ReqStepFits
<1>9. CASE step.result = "more" /\ parser' = step.parser /\ UNCHANGED <<reqs, status>>
  <2>1. ReqPending(t, j, parser')
    BY <1>7, <1>9 DEF ReqReads
  <2>2. (handled \o reqs)' = all
    BY <1>1, <1>9
  <2>3. ReadUpTo(stream', (handled \o reqs)', j)
    BY <1>6, <2>2
  <2> QED
    BY <1>1, <1>9, <2>1, <2>3 DEF InOrder, RefusesOnlyBadStreams
<1>10. CASE /\ step.result = "completed" /\ parser' = Fresh
            /\ reqs' = Append(reqs, step.parser.req) /\ UNCHANGED status
  <2> DEFINE r == step.parser.req
             x == Len(t) + 1
  <2>1. Request(t, j) = Got(r, x) /\ r \in Req
    BY <1>7, <1>8, <1>10 DEF ReqReads, ReqParsers
  <2>2. ReadUpTo(t, Append(all, r), x)
    <3> HIDE DEF r, x, t, all
    <3> QED
      BY <1>4, <1>5, <1>6, <2>1, ReadOneMore
  <2>3. (handled \o reqs)' = Append(all, r)
    <3>1. (handled \o reqs)' = handled \o Append(reqs, r)
      BY <1>1, <1>10
    <3> HIDE DEF r
    <3>2. handled \o Append(reqs, r) = Append(handled \o reqs, r)
      BY <1>2, <2>1
    <3> QED
      BY <3>1, <3>2
  <2>4. ReqPending(t, x, parser')
    <3> HIDE DEF t
    <3> QED
      BY <1>5, <1>10, FreshReads
  <2>5. ReadUpTo(stream', (handled \o reqs)', x)
    BY <2>2, <2>3
  <2> QED
    BY <1>1, <1>10, <2>4, <2>5 DEF InOrder, RefusesOnlyBadStreams
<1>11. CASE /\ step.result = "bad" /\ parser' = step.parser
            /\ reqs' = <<>> /\ status' = "refused"
  <2>1. Request(t, j).tag = "bad"
    BY <1>7, <1>11 DEF ReqReads
  <2> DEFINE tag == "bad"
  <2>2. Decode(t).reqs = all /\ Decode(t).bad = (tag = "bad")
    <3>1. tag # "got" /\ Request(t, j).tag = tag
      BY <2>1
    <3> HIDE DEF tag, t, all
    <3> QED
      BY <1>4, <1>5, <1>6, <3>1, ReadAll
  <2>3. Decode(t).bad
    BY <2>2
  <2>4. Front(t) = s
    BY <1>1, <1>2 DEF Front, Str
  <2>5. Decode(s).bad = FALSE
    BY <1>1, OpenDecodes
  <2>6. IsPrefix(handled, all)
    <3>1. Len(handled) <= Len(handled \o reqs)
      BY <1>2
    <3>2. SubSeq(handled, 1, Len(handled)) = SubSeq(handled \o reqs, 1, Len(handled))
      BY <1>2
    <3> QED
      BY <3>1, <3>2 DEF IsPrefix
  <2>7. IsPrefix(handled', Decode(t).reqs)
    BY <1>1, <2>2, <2>6
  <2>8. ~Decode(Front(t)).bad
    BY <2>4, <2>5
  <2>9. RefusesOnlyBadStreams'
    BY <2>3, <2>7, <2>8 DEF RefusesOnlyBadStreams
  <2> QED
    BY <1>11, <2>9 DEF InOrder
<1>12. \/ step.result = "more" /\ parser' = step.parser /\ UNCHANGED <<reqs, status>>
       \/ /\ step.result = "completed" /\ parser' = Fresh
          /\ reqs' = Append(reqs, step.parser.req) /\ UNCHANGED status
       \/ /\ step.result = "bad" /\ parser' = step.parser
          /\ reqs' = <<>> /\ status' = "refused"
  BY DEF Byte
<1> QED
  BY <1>9, <1>10, <1>11, <1>12

\* Every step keeps the order.
LEMMA RNext == RInv /\ [Next]_vars => RInv'
<1> SUFFICES ASSUME RInv, [Next]_vars PROVE RInv'
  OBVIOUS
<1>1. IInv /\ InOrder /\ RefusesOnlyBadStreams /\ handled \in Seq(Req) /\ reqs \in Seq(Req)
  BY DEF RInv, IInv, TypeOK
<1>2. IInv'
  BY <1>1, INext
<1>3. ASSUME NEW ch \in Bytes, Byte(ch) PROVE InOrder' /\ RefusesOnlyBadStreams'
  BY <1>3, ByteReads
<1>4. ASSUME status = "open", EndOfRead PROVE InOrder' /\ RefusesOnlyBadStreams'
  <2>1. /\ handled' = handled \o reqs /\ reqs' = <<>>
        /\ stream' = stream /\ parser' = parser /\ status' = "open"
    BY <1>4 DEF EndOfRead
  <2>2. (handled \o reqs)' = handled \o reqs
    BY <1>1, <2>1
  <2> QED
    BY <1>1, <1>4, <2>1, <2>2 DEF InOrder, RefusesOnlyBadStreams
<1>5. ASSUME status' = "closed" PROVE InOrder' /\ RefusesOnlyBadStreams'
  BY <1>5 DEF InOrder, RefusesOnlyBadStreams
<1>6. ASSUME UNCHANGED vars PROVE InOrder' /\ RefusesOnlyBadStreams'
  BY <1>1, <1>6 DEF vars, InOrder, RefusesOnlyBadStreams
<1>7. InOrder' /\ RefusesOnlyBadStreams'
  BY <1>3, <1>4, <1>5, <1>6 DEF Next, EndOfRead, CloseWithin, Eof
<1> QED
  BY <1>2, <1>7 DEF RInv

\* In every reachable state, for any base and limits, while the connection is
\* open the two machines are in the middle of the request of the stream that
\* follows those they gave out, with the strings of it that are complete.
THEOREM ReadInOrder == Spec => []RInv
<1>. QED BY RInit, RNext, PTL DEF Spec

\* For any base, limits and number of bytes, and however the stream is cut into
\* reads: the requests handled and parsed are those of the stream as a whole,
\* and nothing was refused that could be continued.
THEOREM WholeCorrect == Spec => []ParsesAsAWhole
<1>1. RInv => ParsesAsAWhole
  <2> SUFFICES ASSUME RInv, status = "open"
               PROVE  Decode(stream) = [reqs |-> handled \o reqs, bad |-> FALSE]
    BY DEF ParsesAsAWhole
  <2> QED
    BY OpenDecodes DEF RInv
<1>. QED BY <1>1, ReadInOrder, PTL

\* For any base, limits and number of bytes: a connection is refused only for a
\* stream that no client can make good, and at its first such byte; what was
\* handled until then is a prefix of its requests.
THEOREM RefusalCorrect == Spec => []RefusesOnlyBadStreams
<1>1. RInv => RefusesOnlyBadStreams
  BY DEF RInv
<1>. QED BY <1>1, ReadInOrder, PTL

=============================================================================
