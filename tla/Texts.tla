------------------------------- MODULE Texts -------------------------------
(***************************************************************************)
(* What the commands on values promise to a client that knows of texts     *)
(* only: each key holds a text, and every command is defined on texts.     *)
(* Whether a text is kept as a number or as itself is the business of      *)
(* Commands, which implements this.                                        *)
(*                                                                         *)
(* Numbers are read and written here by their definition, digit by digit,  *)
(* where Strings follows the loops of the code and of its library.         *)
(***************************************************************************)
EXTENDS Strings, FiniteSetsExt

CONSTANTS Keys, DbNum, MaxIndex

VARIABLES up, cur_db, call, out,
          store  \* for each database, the keys that exist and their texts

vars == <<up, cur_db, call, out, store>>

Dbs == 0 .. DbNum - 1
Request(cmd, keys, texts) == [cmd |-> cmd, keys |-> keys, texts |-> texts]

Init ==
  /\ up = TRUE
  /\ cur_db = 0
  /\ store = [d \in Dbs |-> [k \in {} |-> <<>>]]
  /\ call = Request("none", <<>>, <<>>) /\ out = <<>>

-----------------------------------------------------------------------------
(* Texts and the numbers that they begin with. *)

\* The text has blanks up to b, then perhaps a sign up to s, then digits up to e.
IsSplit(text, b, s, e) ==
  /\ \A i \in 1 .. b : text[i] = Blank
  /\ s = b \/ (s = b + 1 /\ text[s] \in {Minus, Plus})
  /\ \A i \in s + 1 .. e : text[i] \in Digit
  /\ e < Len(text) => text[e + 1] \notin Digit

Splits(text) ==
  {x \in (0 .. Len(text)) \X (0 .. Len(text)) \X (0 .. Len(text)) :
     x[1] <= x[2] /\ x[2] < x[3] /\ IsSplit(text, x[1], x[2], x[3])}

\* The powers of the base.
Power[k \in Nat] == IF k = 0 THEN 1 ELSE Radix * Power[k - 1]

DigitsValue(text, s, e) == MapThenSumSet(LAMBDA i : text[i] * Power[e - i], s + 1 .. e)

Nearest(n) == IF n > MaxInt THEN MaxInt ELSE IF n < MinInt THEN MinInt ELSE n

\* The number that a text begins with, 0 if there is none.
Prefix(text) ==
  IF Splits(text) = {} THEN 0
  ELSE LET split == CHOOSE x \in Splits(text) : TRUE
           size == DigitsValue(text, split[2], split[3])
       IN Nearest(IF \E i \in 1 .. split[2] : text[i] = Minus THEN -size ELSE size)

Decimal(n) ==
  LET size == IF n < 0 THEN -n ELSE n
      count == CHOOSE c \in 1 .. size + 1 : size < Power[c] /\ (c = 1 \/ size >= Power[c - 1])
      digits == [i \in 1 .. count |-> (size \div Power[count - i]) % Radix]
  IN IF n < 0 THEN <<Minus>> \o digits ELSE digits

\* What is kept of a text that is stored: of one that begins with a number
\* other than 0, that number, and any other text as it is.
Kept(text) == IF Prefix(text) # 0 THEN Decimal(Prefix(text)) ELSE text

\* A text that the commands take for an integer.
Numeric(text) == text = <<0>> \/ Prefix(text) # 0

-----------------------------------------------------------------------------

Db == store[cur_db]
Has(key) == key \in DOMAIN Db
Item(key) == IF Has(key) THEN Bulk(Db[key]) ELSE Null
Holding(key, text) == [k \in DOMAIN Db \cup {key} |-> IF k = key THEN text ELSE Db[k]]
Lacking(key) == [k \in DOMAIN Db \ {key} |-> Db[k]]

\* The request that a step handles, and its arguments.
Is(cmd) == call'.cmd = cmd
Key(i) == call'.keys[i]
Arg(i) == call'.texts[i]

Done(db, pieces) ==
  /\ store' = [store EXCEPT ![cur_db] = db]
  /\ out' = pieces
  /\ UNCHANGED <<up, cur_db>>

Answer(piece) == Done(Db, <<piece>>)

Gone == up' = FALSE /\ out' = <<>> /\ UNCHANGED <<cur_db, store>>

Set == Done(Holding(Key(1), Kept(Arg(1))), <<Simple("OK")>>)

\* The length in the reply is that of the argument for a new key, and 0 for
\* one that exists.
AppendTo ==
  IF Has(Key(1)) THEN Done(Holding(Key(1), Kept(Db[Key(1)] \o Arg(1))), <<Integer(0)>>)
  ELSE Done(Holding(Key(1), Kept(Arg(1))), <<Integer(Len(Arg(1)))>>)

\* Without a key, any key may be taken, or the process ends.
GetDel ==
  \/ \E key \in Keys :
       /\ call'.keys # <<>> => key = Key(1)
       /\ Done(Lacking(key), <<Item(key)>>)
  \/ call'.keys = <<>> /\ Gone

StrLen == Answer(Integer(IF Has(Key(1)) THEN Len(Db[Key(1)]) ELSE 0))

\* A number is told from a text, but for 0, which INCR and SET keep differently.
Encoding ==
  IF ~Has(Key(1)) THEN Answer(Null)
  ELSE \E word \in {"int", "raw"} :
         /\ Db[Key(1)] # <<0>> => ((word = "int") <=> Prefix(Db[Key(1)]) # 0)
         /\ Answer(Word(word))

MGet ==
  Done(Db, <<Array(Len(call'.keys))>> \o [i \in DOMAIN call'.keys |-> Item(Key(i))])

\* Of several pairs with the same key the last one counts.
MSet ==
  LET at(k) == {i \in DOMAIN call'.keys : Key(i) = k}
      named == {k \in Keys : at(k) # {}}
  IN Done([k \in DOMAIN Db \cup named |-> IF k \in named THEN Kept(Arg(Max(at(k)))) ELSE Db[k]],
          <<Simple("OK")>>)

\* The place, from 0 on, that an index means in a text of this length.
Place(index, size) == Max({0, IF index < 0 THEN index + size ELSE index})

\* The characters from one place to the other; a range behind the end is the
\* last character.  Of an empty text, only the place 0 can be asked for.
GetRange ==
  LET text == IF Has(Key(1)) THEN Db[Key(1)] ELSE <<>>
      start == Place(Prefix(Arg(1)), Len(text))
      end == Place(Prefix(Arg(2)), Len(text))
      places == {p \in 0 .. Len(text) - 1 : p <= end /\ (p >= start \/ p = Len(text) - 1)}
  IN IF ~Numeric(Arg(1)) \/ ~Numeric(Arg(2)) THEN Answer(Error("integer"))
     ELSE IF Has(Key(1)) /\ text = <<>> /\ 0 < start /\ start <= end THEN Gone
     ELSE IF start > end \/ places = {} THEN Answer(Bulk(<<>>))
     ELSE Answer(Bulk(SubSeq(text, Min(places) + 1, Max(places) + 1)))

\* A new key gets the number; one that exists is never a number for INCR.
Count(n) ==
  IF Has(Key(1)) THEN Answer(Error("integer"))
  ELSE Done(Holding(Key(1), Decimal(n)), <<Integer(n)>>)

IncrBy == IF Numeric(Arg(1)) THEN Count(Prefix(Arg(1))) ELSE Done(Db, <<>>)

DecrBy ==
  IF Numeric(Arg(1)) /\ Prefix(Arg(1)) # MinInt THEN Count(-Prefix(Arg(1)))
  ELSE Answer(Error("integer"))

\* The databases are numbered modulo the width of an int.  Which of the two
\* replies comes is left open.
Select ==
  LET chosen == {d \in Dbs : (Prefix(Arg(1)) - d) % (2 * (MaxIndex + 1)) = 0}
  IN IF ~Numeric(Arg(1)) THEN Answer(Error("integer"))
     ELSE /\ \E piece \in {Simple("OK"), Error("index")} : out' = <<piece>>
          /\ IF chosen = {} THEN cur_db' = cur_db ELSE cur_db' \in chosen
          /\ UNCHANGED <<up, store>>

\* The name of a client is undefined, and any id may be.
GetName == Answer(Null) \/ Gone \/ (Len(out') = 1 /\ out'[1].type = "bulk" /\ Done(Db, out'))
Id == Len(out') = 1 /\ out'[1].n > 0 /\ Answer(Integer(out'[1].n))

Next ==
  /\ up
  /\ \/ Is("set") /\ Set
     \/ Is("append") /\ AppendTo
     \/ Is("get") /\ Answer(Item(Key(1)))
     \/ Is("getdel") /\ GetDel
     \/ Is("strlen") /\ StrLen
     \/ Is("encoding") /\ Encoding
     \/ Is("mget") /\ MGet
     \/ Is("mset") /\ MSet
     \/ Is("getrange") /\ GetRange
     \/ Is("incr") /\ Count(1)
     \/ Is("decr") /\ Count(-1)
     \/ Is("incrby") /\ IncrBy
     \/ Is("decrby") /\ DecrBy
     \/ Is("select") /\ Select
     \/ Is("echo") /\ Answer(Bulk(Arg(1)))
     \/ Is("ping") /\ Answer(Simple("PONG"))
     \/ Is("setname") /\ Answer(Simple("OK"))
     \/ Is("getname") /\ GetName
     \/ Is("id") /\ Id
     \/ Is("refuse") /\ Answer(Error("arity"))
     \/ Is("refuse silently") /\ Done(Db, <<>>)

Spec == Init /\ [][Next]_vars

=============================================================================
