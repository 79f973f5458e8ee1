------------------------------ MODULE Keyspace ------------------------------
(***************************************************************************)
(* The databases of mydss (src/src/db/inst.cpp) and the commands that read *)
(* and write them (src/src/cmd/generic.cpp, src/src/cmd/string.cpp), in    *)
(* the order in which the one thread handles them, whatever session they   *)
(* come from: the selected database is one for the whole instance.         *)
(*                                                                         *)
(* A command reads the clock several times, once at least for every lookup *)
(* of a key that expires, and the clock may advance in between.  So every  *)
(* action takes a sequence of readings, the times that these calls return. *)
(*                                                                         *)
(* Values are abstract here: what APPEND and INCR compute is any value.    *)
(***************************************************************************)
EXTENDS Objects, Sequences, FiniteSets

CONSTANTS
  Keys,
  Values,
  NoValue,   \* what a reply without a value holds
  DbNum,     \* db_num of the configuration
  Second,    \* milliseconds in a second
  Times,     \* the time arguments of the EXPIRE commands
  Options,   \* the options of the EXPIRE commands
  MaxArgs,   \* bound: keys, or pairs, in one command
  MaxTime,   \* bound: the clock stops here
  Drift      \* bound: how far the clock advances within a command

ASSUME KeyspaceAssumption ==
  /\ NoValue \notin Values
  /\ DbNum \in Nat \ {0}
  /\ Second \in Nat \ {0}
  /\ Times \subseteq -MaxInt - 1 .. MaxInt  \* they are int64_t
  /\ Options \subseteq {"nx", "xx", "gt", "lt"}
  /\ MaxArgs \in Nat
  /\ MaxTime \in 0 .. MaxInt - 1           \* the clock never says Forever
  /\ Drift \in Nat

VARIABLES
  now,     \* the clock, in milliseconds
  cur_db,  \* Inst::cur_db_
  dbs,     \* Inst::dbs_
  call,    \* the last command and its arguments (history)
  reply    \* the pieces of the reply to it

vars == <<now, cur_db, dbs, call, reply>>

Dbs == 0 .. DbNum - 1

Objs == [value : Values, expire : Int, access : Nat]

Pieces == [type : {"integer", "bulk", "array", "null", "ok", "error"},
           n : Int, value : Values \cup {NoValue}]

Piece(type, n, value) == [type |-> type, n |-> n, value |-> value]
Int64(n) == Piece("integer", n, NoValue)
Bulk(value) == Piece("bulk", 0, value)
Array(n) == Piece("array", n, NoValue)
Null == Piece("null", 0, NoValue)
Ok == Piece("ok", 0, NoValue)
Error == Piece("error", 0, NoValue)

TypeOK ==
  /\ now \in 0 .. MaxTime
  /\ cur_db \in Dbs
  /\ DOMAIN dbs = Dbs
  /\ \A d \in Dbs : DOMAIN dbs[d] \subseteq Keys /\ dbs[d] \in [DOMAIN dbs[d] -> Objs]
  /\ reply \in Seq(Pieces)

Init ==
  /\ now = 0
  /\ cur_db = 0
  /\ dbs = [d \in Dbs |-> [k \in {} |-> 0]]
  /\ call = <<>> /\ reply = <<>>

-----------------------------------------------------------------------------

\* What n successive calls of TimeInMsec return within one command.
Readings(n) ==
  {r \in [1 .. n -> {t \in now .. MaxTime : t <= now + Drift}] :
     \A i \in 1 .. n - 1 : r[i] <= r[i + 1]}

Db == dbs[cur_db]

\* A command ends at time t: the selected database is objs, and the pieces
\* are sent.
Commit(objs, pieces, t) ==
  /\ dbs' = [dbs EXCEPT ![cur_db] = objs]
  /\ reply' = pieces
  /\ now' = t
  /\ UNCHANGED cur_db

KeySeqs == UNION {[1 .. n -> Keys] : n \in 1 .. MaxArgs}
PairSeqs == UNION {[1 .. n -> Keys \X Values] : n \in 1 .. MaxArgs}

Tick ==
  /\ now < MaxTime
  /\ now' = now + 1
  /\ UNCHANGED <<cur_db, dbs, call, reply>>

\* A command whose arguments are refused, or that is not known.
Refuse ==
  /\ call' = <<"refuse">>
  /\ Commit(Db, <<Error>>, now)

\* Variant with a mistake: the index is not checked.
SelectUnchecked(db) ==
  /\ call' = <<"select", db>>
  /\ cur_db' = db /\ reply' = <<Ok>>
  /\ UNCHANGED <<now, dbs>>

\* Connection::Select.  The two replies are the wrong way round.
Select(db) ==
  /\ call' = <<"select", db>>
  /\ IF db \in Dbs
     THEN cur_db' = db /\ reply' = <<Error>>
     ELSE cur_db' = cur_db /\ reply' = <<Ok>>
  /\ UNCHANGED <<now, dbs>>

-----------------------------------------------------------------------------
(* cmd/string.cpp *)

\* GET; and, for what they do to the database, the commands that look at one
\* object in other ways: STRLEN, GETRANGE, TYPE and the OBJECT subcommands.
Get(key) ==
  /\ call' = <<"get", key>>
  /\ \E r \in Readings(1) :
       LET objs == GetObject(Db, key, r[1])
       IN Commit(objs, <<IF key \in DOMAIN objs THEN Bulk(objs[key].value) ELSE Null>>, r[1])

GetDel(key) ==
  /\ call' = <<"getdel", key>>
  /\ \E r \in Readings(2) :
       LET objs == GetObject(Db, key, r[1])
       IN IF key \in DOMAIN objs
          THEN Commit(Erase(objs, key), <<Bulk(objs[key].value)>>, r[2])
          ELSE Commit(objs, <<Null>>, r[2])

\* The array piece first, and then a piece for each key.
MGet(keys) ==
  /\ call' = <<"mget", keys>>
  /\ \E r \in Readings(Len(keys)) :
       LET after[i \in 0 .. Len(keys)] ==
             IF i = 0 THEN Db ELSE GetObject(after[i - 1], keys[i], r[i])
           item(i) == IF keys[i] \in DOMAIN after[i]
                      THEN Bulk(after[i][keys[i]].value) ELSE Null
       IN Commit(after[Len(keys)],
                 <<Array(Len(keys))>> \o [i \in 1 .. Len(keys) |-> item(i)],
                 r[Len(keys)])

\* A new object, whatever was there: the time to live is gone.
Set(key, value) ==
  /\ call' = <<"set", key, value>>
  /\ \E r \in Readings(1) : Commit(Put(Db, key, Object(value, r[1])), <<Ok>>, r[1])

MSet(pairs) ==
  /\ call' = <<"mset", pairs>>
  /\ \E r \in Readings(Len(pairs)) :
       LET after[i \in 0 .. Len(pairs)] ==
             IF i = 0 THEN Db
             ELSE Put(after[i - 1], pairs[i][1], Object(pairs[i][2], r[i]))
       IN Commit(after[Len(pairs)], <<Ok>>, r[Len(pairs)])

\* Each pair by itself: the ones before and after a key that exists are set.
MSetNx(pairs) ==
  /\ call' = <<"msetnx", pairs>>
  /\ LET n == Len(pairs)
     IN \E r \in Readings(2 * n) :
          LET after[i \in 0 .. n] ==
                IF i = 0 THEN Db
                ELSE LET objs == GetObject(after[i - 1], pairs[i][1], r[2 * i - 1])
                     IN IF pairs[i][1] \in DOMAIN objs THEN objs
                        ELSE Put(objs, pairs[i][1], Object(pairs[i][2], r[2 * i]))
              free(i) == ~Finds(after[i - 1], pairs[i][1], r[2 * i - 1])
          IN Commit(after[n], <<Int64(IF \A i \in 1 .. n : free(i) THEN 1 ELSE 0)>>, r[2 * n])

\* APPEND changes an object in place, which keeps its time to live, and then
\* replies with the length of a string that was moved away, 0.  A new object
\* has some length, say 1.
AppendTo(key, value) ==
  /\ call' = <<"append", key, value>>
  /\ \E r \in Readings(2) :
       LET objs == GetObject(Db, key, r[1])
       IN IF key \in DOMAIN objs
          THEN Commit([objs EXCEPT ![key].value = value], <<Int64(0)>>, r[2])
          ELSE Commit(Put(objs, key, Object(value, r[2])), <<Int64(1)>>, r[2])

\* INCR, DECR, INCRBY and DECRBY: a new number, or an error, as the encoding
\* that StringIncrBy looks at is raw for every object.
IncrBy(key, value) ==
  /\ call' = <<"incrby", key, value>>
  /\ \E r \in Readings(2) :
       LET objs == GetObject(Db, key, r[1])
       IN IF key \in DOMAIN objs
          THEN Commit(objs, <<Error>>, r[2])
          ELSE Commit(Put(objs, key, Object(value, r[2])), <<Int64(1)>>, r[2])

-----------------------------------------------------------------------------
(* cmd/generic.cpp *)

\* DEL counts the keys that it finds; an expired one goes uncounted.
Del(keys) ==
  /\ call' = <<"del", keys>>
  /\ LET n == Len(keys)
     IN \E r \in Readings(n) :
          LET after[i \in 0 .. n] ==
                IF i = 0 THEN Db ELSE Erase(after[i - 1], keys[i])
              found == {i \in 1 .. n : Finds(after[i - 1], keys[i], r[i])}
          IN Commit(after[n], <<Int64(Cardinality(found))>>, r[n])

\* EXISTS counts a key as often as it is named.
Exists(keys) ==
  /\ call' = <<"exists", keys>>
  /\ LET n == Len(keys)
     IN \E r \in Readings(n) :
          LET after[i \in 0 .. n] ==
                IF i = 0 THEN Db ELSE GetObject(after[i - 1], keys[i], r[i])
              found == {i \in 1 .. n : keys[i] \in DOMAIN after[i]}
          IN Commit(after[n], <<Int64(Cardinality(found))>>, r[n])

\* TOUCH is EXISTS that sets the access time.
TouchKeys(keys) ==
  /\ call' = <<"touch", keys>>
  /\ LET n == Len(keys)
     IN \E r \in Readings(2 * n) :
          LET swept(objs, i) == GetObject(objs, keys[i], r[2 * i - 1])
              after[i \in 0 .. n] ==
                IF i = 0 THEN Db
                ELSE LET objs == swept(after[i - 1], i)
                     IN IF keys[i] \in DOMAIN objs
                        THEN Put(objs, keys[i], Touch(objs[keys[i]], r[2 * i]))
                        ELSE objs
              found == {i \in 1 .. n : keys[i] \in DOMAIN after[i]}
          IN Commit(after[n], <<Int64(Cardinality(found))>>, r[2 * n])

\* new_pttl of SetExpire: "time" is a number of seconds or milliseconds from
\* now, or a moment.
NewPTtl(cmd, time, t) ==
  LET msec == CASE cmd = "expire" -> Wrap(time * Second)
                [] cmd = "pexpire" -> time
                [] cmd = "expireat" -> Wrap(time * Second - t)
                [] cmd = "pexpireat" -> Wrap(time - t)
  IN IF msec < 0 THEN 0 ELSE msec

Conflict(opts) ==
  \/ "nx" \in opts /\ opts # {"nx"}
  \/ {"gt", "lt"} \subseteq opts

\* Do the options let the new time to live replace the old one?
Allowed(opts, new_pttl, old_pttl) ==
  /\ "nx" \in opts => old_pttl <= 0
  /\ "xx" \in opts => old_pttl # -1
  /\ "gt" \in opts => new_pttl > old_pttl
  /\ "lt" \in opts => new_pttl < old_pttl

\* EXPIRE, PEXPIRE, EXPIREAT and PEXPIREAT.
SetExpire(cmd, key, time, opts) ==
  /\ call' = <<cmd, key, time, opts>>
  /\ \E r \in Readings(4) :
       LET new_pttl == NewPTtl(cmd, time, r[1])
           objs == GetObject(Db, key, r[2])
           old_pttl == PTtl(objs[key], r[3])
       IN IF Conflict(opts) THEN Commit(Db, <<Error>>, r[4])
          ELSE IF key \notin DOMAIN objs THEN Commit(objs, <<Int64(0)>>, r[4])
          ELSE IF Allowed(opts, new_pttl, old_pttl)
               THEN Commit(Put(objs, key, SetPTtl(objs[key], new_pttl, r[4])), <<Int64(1)>>, r[4])
               ELSE Commit(objs, <<Int64(0)>>, r[4])

Persist(key) ==
  /\ call' = <<"persist", key>>
  /\ \E r \in Readings(2) :
       LET objs == GetObject(Db, key, r[1])
       IN IF key \in DOMAIN objs /\ PTtl(objs[key], r[2]) # -1
          THEN Commit(Put(objs, key, SetPTtl(objs[key], -1, r[2])), <<Int64(1)>>, r[2])
          ELSE Commit(objs, <<Int64(0)>>, r[2])

\* PTTL; and TTL, which divides by Second what is not -1.
TimeToLive(key, unit) ==
  /\ call' = <<"ttl", key, unit>>
  /\ \E r \in Readings(2) :
       LET objs == GetObject(Db, key, r[1])
           pttl == PTtl(objs[key], r[2])
       IN Commit(objs,
                 <<Int64(IF key \notin DOMAIN objs THEN -2
                         ELSE IF pttl = -1 THEN -1 ELSE pttl \div unit)>>,
                 r[2])

\* OBJECT IDLETIME; it does not touch the object.
IdleTime(key) ==
  /\ call' = <<"idletime", key>>
  /\ \E r \in Readings(2) :
       LET objs == GetObject(Db, key, r[1])
       IN Commit(objs,
                 <<IF key \in DOMAIN objs
                   THEN Int64((r[2] - objs[key].access) \div Second) ELSE Null>>,
                 r[2])

\* RENAME stores the object under the new key and deletes the key, whether
\* expired by then or not.  When the two are the same the object is lost.
Rename(key, new_key) ==
  /\ call' = <<"rename", key, new_key>>
  /\ \E r \in Readings(3) :
       LET objs == GetObject(Db, key, r[1])
       IN IF key \in DOMAIN objs
          THEN Commit(Erase(Put(objs, new_key, Touch(objs[key], r[2])), key), <<Ok>>, r[3])
          ELSE Commit(objs, <<Error>>, r[3])

\* RENAMENX looks the new key up after the key.
RenameNx(key, new_key) ==
  /\ call' = <<"renamenx", key, new_key>>
  /\ \E r \in Readings(4) :
       LET objs == GetObject(Db, key, r[1])
           swept == GetObject(objs, new_key, r[2])
       IN IF key \notin DOMAIN objs THEN Commit(objs, <<Error>>, r[4])
          ELSE IF new_key \in DOMAIN swept THEN Commit(swept, <<Int64(0)>>, r[4])
          ELSE Commit(Erase(Put(swept, new_key, Touch(objs[key], r[3])), key), <<Int64(1)>>, r[4])

-----------------------------------------------------------------------------

Next ==
  \/ Tick
  \/ Refuse
  \/ \E db \in -1 .. DbNum : Select(db)
  \/ \E key \in Keys : Get(key) \/ GetDel(key) \/ Persist(key) \/ IdleTime(key)
  \/ \E key \in Keys, unit \in {1, Second} : TimeToLive(key, unit)
  \/ \E key \in Keys, value \in Values :
       Set(key, value) \/ AppendTo(key, value) \/ IncrBy(key, value)
  \/ \E keys \in KeySeqs : MGet(keys) \/ Del(keys) \/ Exists(keys) \/ TouchKeys(keys)
  \/ \E pairs \in PairSeqs : MSet(pairs) \/ MSetNx(pairs)
  \/ \E key \in Keys, new_key \in Keys : Rename(key, new_key) \/ RenameNx(key, new_key)
  \/ \E cmd \in {"expire", "pexpire", "expireat", "pexpireat"},
        key \in Keys, time \in Times, opts \in SUBSET Options :
       SetExpire(cmd, key, time, opts)

Spec == Init /\ [][Next]_vars

-----------------------------------------------------------------------------

\* The databases as a client can see them: without the expired objects.
Promise == INSTANCE Store WITH store <- [d \in Dbs |-> Alive(dbs[d], now)]

\* Lazy expiry cannot be told from keys that vanish when they expire: every
\* command, however its several looks at the clock fall (ctx.cpp:33 and 56,
\* generic.cpp:113-137), does what it would do to a database without expired
\* objects, in one moment for each key.
KeepsPromise == Promise!Spec

\* generic.cpp:133, "with an expire time it is not set": an EXPIRE with NX
\* that replies 1 does not replace the time at which a key expires.
NxKeepsExpiry ==
  [][\A cmd \in {"expire", "pexpire", "expireat", "pexpireat"},
        key \in Keys, time \in Times :
       (dbs' # dbs /\ call' = <<cmd, key, time, {"nx"}>> /\ reply' = <<Int64(1)>>)
         => (key \notin DOMAIN Db \/ Db[key].expire = Forever)]_vars

=============================================================================
