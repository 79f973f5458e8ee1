------------------------------ MODULE Commands ------------------------------
(***************************************************************************)
(* What the commands of mydss make of the texts they are given, and what   *)
(* they reply: src/src/cmd/string.cpp, src/src/cmd/connection.cpp and      *)
(* Inst::Handle (src/src/db/inst.cpp), one action per command and per way  *)
(* of refusing one.  Here values are concrete and nothing expires; in      *)
(* Keyspace it is the other way round.                                     *)
(***************************************************************************)
EXTENDS Strings, FiniteSets

CONSTANTS
  Keys,
  DbNum,     \* db_num of the configuration
  MaxIndex,  \* INT_MAX: Ctx::SelectDb takes an int
  Inputs,    \* bound: the texts that clients send
  Indexes,   \* bound: those that they send as an index
  Pairs,     \* bound: those that they send in MSET
  MaxText,   \* bound: the longest text that APPEND makes
  MaxArgs    \* bound: keys, or pairs, in one command

ASSUME CommandsAssumption ==
  /\ DbNum \in 1 .. MaxIndex + 1
  /\ MaxIndex \in 0 .. MaxInt
  /\ Inputs \subseteq Text /\ Indexes \subseteq Text /\ Pairs \subseteq Text
  /\ \A text \in Inputs \cup Pairs : Len(text) <= MaxSize
  /\ MaxText \in 0 .. MaxSize /\ MaxArgs \in Nat

VARIABLES
  up,      \* the process has not ended
  cur_db,  \* Inst::cur_db_
  dbs,     \* Inst::dbs_, with a value for each key
  call,    \* the last request (history)
  out      \* the pieces that were sent for it

vars == <<up, cur_db, dbs, call, out>>

Dbs == 0 .. DbNum - 1
Values == [encoding : {"int", "raw"}, n : Int64, str : Text]
Request(cmd, keys, texts) == [cmd |-> cmd, keys |-> keys, texts |-> texts]

TypeOK ==
  /\ up \in BOOLEAN
  /\ cur_db \in Dbs
  /\ DOMAIN dbs = Dbs
  /\ \A d \in Dbs : DOMAIN dbs[d] \subseteq Keys /\ \A k \in DOMAIN dbs[d] : dbs[d][k] \in Values

Init ==
  /\ up = TRUE
  /\ cur_db = 0
  /\ dbs = [d \in Dbs |-> [k \in {} |-> Raw(<<>>)]]
  /\ call = Request("none", <<>>, <<>>) /\ out = <<>>

-----------------------------------------------------------------------------

Db == dbs[cur_db]
Has(key) == key \in DOMAIN Db
Put(objs, key, value) ==
  [k \in DOMAIN objs \cup {key} |-> IF k = key THEN value ELSE objs[k]]
Without(objs, key) == [k \in DOMAIN objs \ {key} |-> objs[k]]

\* The request is handled: the selected database is objs, and pieces are sent.
Finish(objs, pieces) ==
  /\ up
  /\ dbs' = [dbs EXCEPT ![cur_db] = objs]
  /\ out' = pieces
  /\ UNCHANGED <<up, cur_db>>

Reply(piece) == Finish(Db, <<piece>>)

\* An exception that nobody catches, or a read past the end of the arguments.
Fall == up /\ up' = FALSE /\ out' = <<>> /\ UNCHANGED <<cur_db, dbs>>

Ok == Simple("OK")
NotInteger == Error("integer")
Arity == Error("arity")
Item(key) == IF Has(key) THEN Bulk(TextOf(Db[key])) ELSE Null

-----------------------------------------------------------------------------
(* cmd/string.cpp *)

Set(key, text) ==
  /\ call' = Request("set", <<key>>, <<text>>)
  /\ Finish(Put(Db, key, SetValue(text)), <<Ok>>)

Get(key) ==
  /\ call' = Request("get", <<key>>, <<>>)
  /\ Reply(Item(key))

GetDel(key) ==
  /\ call' = Request("getdel", <<key>>, <<>>)
  /\ Finish(Without(Db, key), <<Item(key)>>)

\* GETDEL without a key makes an error that it does not send, and goes on to
\* read the key behind the end of the arguments.
GetDelNothing ==
  /\ call' = Request("getdel", <<>>, <<>>)
  /\ Fall \/ \E key \in Keys : Finish(Without(Db, key), <<Item(key)>>)

\* Variant with a mistake: the first key that is missing ends the reply.
MGetStops(keys) ==
  /\ call' = Request("mget", keys, <<>>)
  /\ LET there == {i \in 1 .. Len(keys) : \A j \in 1 .. i : Has(keys[j])}
     IN Finish(Db, <<Array(Len(keys))>> \o [i \in 1 .. Cardinality(there) |-> Item(keys[i])])

\* The array piece and a piece for each key; without a key, only the first.
MGet(keys) ==
  /\ call' = Request("mget", keys, <<>>)
  /\ Finish(Db, <<Array(Len(keys))>> \o [i \in 1 .. Len(keys) |-> Item(keys[i])])

\* A loop over the pairs: a key that is named again gets the later value.
MSet(keys, texts) ==
  LET last(i, key) == keys[i] = key /\ \A j \in i + 1 .. Len(keys) : keys[j] # key
      named == {key \in Keys : \E i \in DOMAIN keys : last(i, key)}
      value(key) == SetValue(texts[CHOOSE i \in DOMAIN keys : last(i, key)])
  IN /\ call' = Request("mset", keys, texts)
     /\ Finish([key \in DOMAIN Db \cup named |-> IF key \in named THEN value(key) ELSE Db[key]],
               <<Ok>>)

StrLen(key) ==
  /\ call' = Request("strlen", <<key>>, <<>>)
  /\ Reply(Integer(IF Has(key) THEN Len(TextOf(Db[key])) ELSE 0))

\* Variant with a mistake: the text is appended to the raw text.
JoinedRaw(value, text) == value.str \o text

Joined(value, text) == TextOf(value) \o text

\* APPEND replies with the length of the argument for a new key, and with 0,
\* the length of a string that was moved away, for one that exists.
AppendTo(key, text) ==
  /\ call' = Request("append", <<key>>, <<text>>)
  /\ IF ~Has(key) THEN Finish(Put(Db, key, SetValue(text)), <<Integer(Len(text))>>)
     ELSE /\ Len(TextOf(Db[key])) + Len(text) <= MaxText
          /\ Finish(Put(Db, key, SetValue(Joined(Db[key], text))), <<Integer(0)>>)

GetRange(key, from, to) ==
  /\ call' = Request("getrange", <<key>>, <<from, to>>)
  /\ LET text == TextOf(Db[key])
         start == Atoll(from)
         end == Atoll(to)
     IN IF ~IsInteger(from) \/ ~IsInteger(to) THEN Reply(NotInteger)
        ELSE IF ~Has(key) THEN Reply(Bulk(<<>>))
        ELSE IF RangeThrows(start, end, Len(text)) THEN Fall
        ELSE Reply(Bulk(RangeOf(text, start, end)))

\* StringIncrBy
StringIncrBy(key, n) ==
  IF ~Has(key) THEN Finish(Put(Db, key, Number(n)), <<Integer(n)>>)
  ELSE IF ObjectEncoding(Db[key]) = "raw" \/ I64AddOverflow(Db[key].n, n) THEN Reply(NotInteger)
  ELSE Finish(Put(Db, key, Number(Db[key].n + n)), <<Integer(Db[key].n + n)>>)

Incr(key) == call' = Request("incr", <<key>>, <<>>) /\ StringIncrBy(key, 1)
Decr(key) == call' = Request("decr", <<key>>, <<>>) /\ StringIncrBy(key, -1)

\* An argument that is no integer is refused without a reply.
IncrBy(key, text) ==
  /\ call' = Request("incrby", <<key>>, <<text>>)
  /\ IF IsInteger(text) THEN StringIncrBy(key, Atoll(text)) ELSE Finish(Db, <<>>)

\* INT64_MIN has no opposite.
DecrBy(key, text) ==
  /\ call' = Request("decrby", <<key>>, <<text>>)
  /\ IF IsInteger(text) /\ Atoll(text) # MinInt
     THEN StringIncrBy(key, -Atoll(text)) ELSE Reply(NotInteger)

\* OBJECT ENCODING of cmd/generic.cpp, by the virtual EncodingStr.
ObjectEncodingOf(key) ==
  /\ call' = Request("encoding", <<key>>, <<>>)
  /\ Reply(IF Has(key) THEN Word(Db[key].encoding) ELSE Null)

-----------------------------------------------------------------------------
(* cmd/connection.cpp *)

\* The index as the int that Ctx::SelectDb takes.
Narrowed(n) == ((n + MaxIndex + 1) % (2 * (MaxIndex + 1))) - (MaxIndex + 1)

\* Variant with a mistake: only the upper end is checked.
InstSelectUpTo(index) == index < DbNum

\* Inst::Select
InstSelect(index) == index >= 0 /\ index < DbNum

\* Connection::Select.  The two replies are the wrong way round.
Select(text) ==
  /\ call' = Request("select", <<>>, <<text>>)
  /\ IF ~IsInteger(text) THEN Reply(NotInteger)
     ELSE LET index == Narrowed(Atoll(text))
          IN /\ up
             /\ IF InstSelect(index)
                THEN cur_db' = index /\ out' = <<Error("index")>>
                ELSE cur_db' = cur_db /\ out' = <<Ok>>
             /\ UNCHANGED <<up, dbs>>

\* PING with a message, and ECHO.
Echo(text) == call' = Request("echo", <<>>, <<text>>) /\ Reply(Bulk(text))
Ping == call' = Request("ping", <<>>, <<>>) /\ Reply(Simple("PONG"))

\* CLIENT SETNAME names a copy of the client.  CLIENT GETNAME reads the name,
\* which is empty, in a copy that is gone: what it finds is undefined.
ClientSetName == call' = Request("setname", <<>>, <<>>) /\ Reply(Ok)
ClientGetName ==
  /\ call' = Request("getname", <<>>, <<>>)
  /\ Reply(Null) \/ Fall \/ \E text \in Inputs : Reply(Bulk(text))
ClientId == call' = Request("id", <<>>, <<>>) /\ \E id \in Int64 : id > 0 /\ Reply(Integer(id))

\* A wrong number of arguments, an unknown subcommand, command or an empty one.
Refuse == call' = Request("refuse", <<>>, <<>>) /\ Reply(Arity)

\* DECRBY and CLIENT SETNAME make the error for a wrong number of arguments
\* and do not send it.
RefuseSilently == call' = Request("refuse silently", <<>>, <<>>) /\ Finish(Db, <<>>)

-----------------------------------------------------------------------------

KeySeqs == UNION {[1 .. n -> Keys] : n \in 0 .. MaxArgs}

Next ==
  \/ \E key \in Keys : Get(key) \/ GetDel(key) \/ StrLen(key) \/ Incr(key) \/ Decr(key)
                       \/ ObjectEncodingOf(key)
  \/ \E key \in Keys, text \in Inputs :
       Set(key, text) \/ AppendTo(key, text) \/ IncrBy(key, text) \/ DecrBy(key, text)
  \/ \E key \in Keys, from \in Indexes, to \in Indexes : GetRange(key, from, to)
  \/ \E keys \in KeySeqs : MGet(keys)
  \/ \E keys \in KeySeqs \ {<<>>} : \E texts \in [DOMAIN keys -> Pairs] : MSet(keys, texts)
  \/ \E text \in Inputs : Select(text) \/ Echo(text)
  \/ GetDelNothing \/ Ping \/ ClientSetName \/ ClientGetName \/ ClientId
  \/ Refuse \/ RefuseSilently

Spec == Init /\ [][Next]_vars

-----------------------------------------------------------------------------
(* Properties. *)

T == INSTANCE Texts WITH
       store <- [d \in Dbs |-> [k \in DOMAIN dbs[d] |-> TextOf(dbs[d][k])]]

\* A client cannot tell, but by OBJECT ENCODING, whether a value is kept as a
\* number or as a text: every command of cmd/string.cpp answers and changes
\* the database as Texts defines it on texts.
EncodingIsInvisible == T!Spec

\* One reply: a piece, or the piece of an array and as many as it announces.
Whole(pieces) ==
  /\ pieces # <<>>
  /\ IF pieces[1].type = "array" THEN Len(pieces) = pieces[1].n + 1 ELSE Len(pieces) = 1
  /\ \A i \in 2 .. Len(pieces) : pieces[i].type # "array"

\* The requests that are refused without a reply (string.cpp:175 and 394,
\* connection.cpp:98), after which a client takes each reply for another.
Silent(request) ==
  \/ request.cmd = "refuse silently"
  \/ request.cmd = "incrby" /\ ~IsInteger(request.texts[1])

\* Every other request gets exactly one whole reply, unless the process ends.
RepliesAreWhole == [][up' /\ ~Silent(call') => Whole(out')]_vars

\* Session::Send makes a slice of Size() bytes, and Serialize fills all of it
\* and not more (the assertions of piece.cpp).
SizesAgree ==
  [][\A i \in DOMAIN out' :
       out'[i].type \in {"integer", "array", "bulk", "null"} => Size(out'[i]) = Written(out'[i])]_vars

\* No request ends the process but GETRANGE of an empty text from behind its
\* start, and the two that read what is not there (string.cpp:248 and
\* ctx.cpp:86).
DownOnlyByStrayRead ==
  [][up /\ ~up' =>
       \/ call'.cmd = "getname"
       \/ call'.cmd = "getdel" /\ call'.keys = <<>>
       \/ /\ call'.cmd = "getrange"
          /\ LET key == call'.keys[1]
             IN Has(key) /\ TextOf(Db[key]) = <<>> /\ Atoll(call'.texts[1]) > 0]_vars

\* The text is the decimal form of an integer that 64 bits hold.
Decimal(text) == \E n \in Int64 : text = ToText(n)

\* An error says what is the case: "value is not an integer or out of range"
\* (string.cpp:67 to 90) only if the argument or the value is none, or the sum
\* does not fit, and "DB index is out of range" (connection.cpp:165) only for
\* an index that is.
ErrorsSpeakTrue ==
  [][/\ out' = <<Error("index")>> => Atoll(call'.texts[1]) \notin Dbs
     /\ out' = <<Error("integer")>> =>
          \/ \E i \in DOMAIN call'.texts : ~Decimal(call'.texts[i])
          \/ \E i \in DOMAIN call'.keys : Has(call'.keys[i]) /\ ~Decimal(Item(call'.keys[i]).text)
          \/ \E n \in {MinInt, MaxInt} : \E i \in DOMAIN call'.keys :
               Has(call'.keys[i]) /\ Item(call'.keys[i]).text = ToText(n)
          \/ \E i \in DOMAIN call'.texts : call'.texts[i] = ToText(MinInt)]_vars

=============================================================================
