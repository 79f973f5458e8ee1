------------------------------- MODULE Store -------------------------------
(***************************************************************************)
(* What the databases of mydss promise, without the way they keep it: a    *)
(* key is gone the moment it expires, and each command looks at a key at   *)
(* one moment between its start and its end.  The objects that expired and *)
(* wait in the map to be found, and the number of times that a command     *)
(* reads the clock, are the business of Keyspace, which implements this.   *)
(*                                                                         *)
(* A command with several keys may look at each of them at a moment of its *)
(* own: it promises no snapshot.                                           *)
(***************************************************************************)
EXTENDS Objects, Sequences, FiniteSets

CONSTANTS Keys, Values, NoValue, DbNum, Second, Times, Options, MaxArgs

VARIABLES now, cur_db, call, reply,
          store  \* for each database, the keys that exist and their objects

vars == <<now, cur_db, call, reply, store>>

Dbs == 0 .. DbNum - 1

Piece(type, n, value) == [type |-> type, n |-> n, value |-> value]
Int64(n) == Piece("integer", n, NoValue)
Bulk(value) == Piece("bulk", 0, value)
Null == Piece("null", 0, NoValue)
Ok == Piece("ok", 0, NoValue)
Error == Piece("error", 0, NoValue)

Init ==
  /\ now = 0
  /\ cur_db = 0
  /\ call = <<>> /\ reply = <<>>
  /\ store = [d \in Dbs |-> [k \in {} |-> 0]]

-----------------------------------------------------------------------------

Db == store[cur_db]

\* Not expired at t.
Lasts(obj, t) == obj.expire = Forever \/ obj.expire > t

Expired(objs, t) ==
  [k \in {key \in DOMAIN objs : Lasts(objs[key], t)} |-> objs[k]]

\* The key exists at the moment t of a command.
Exist(key, t) == key \in DOMAIN Db /\ Lasts(Db[key], t)

Moments == now .. now'

\* Time has passed, and the selected database is objs but for what expired.
Becomes(objs) ==
  /\ now' >= now
  /\ store' = [d \in Dbs |-> Expired(IF d = cur_db THEN objs ELSE store[d], now')]
  /\ UNCHANGED cur_db

Replies(piece) == reply' = <<piece>>

Tick == Becomes(Db) /\ UNCHANGED <<call, reply>>

Refuse ==
  /\ call' = <<"refuse">>
  /\ Replies(Error) /\ Becomes(Db)

\* Which of the two replies comes is left open.
Select(db) ==
  /\ call' = <<"select", db>>
  /\ Replies(Ok) \/ Replies(Error)
  /\ cur_db' = IF db \in Dbs THEN db ELSE cur_db
  /\ UNCHANGED <<now, store>>

-----------------------------------------------------------------------------

\* The reply about a key that is looked at in the moment t.
Item(key, t) == IF Exist(key, t) THEN Bulk(Db[key].value) ELSE Null

Get(key) ==
  /\ call' = <<"get", key>>
  /\ Becomes(Db)
  /\ \E t \in Moments : Replies(Item(key, t))

MGet(keys) ==
  /\ call' = <<"mget", keys>>
  /\ Len(reply') = Len(keys) + 1
  /\ reply'[1] = Piece("array", Len(keys), NoValue)
  /\ \A i \in 1 .. Len(keys) : \E t \in Moments : reply'[i + 1] = Item(keys[i], t)
  /\ Becomes(Db)

GetDel(key) ==
  /\ call' = <<"getdel", key>>
  /\ \E t \in Moments : Replies(Item(key, t))
  /\ Becomes(Erase(Db, key))

Set(key, value) ==
  /\ call' = <<"set", key, value>>
  /\ Replies(Ok)
  /\ \E t \in Moments : Becomes(Put(Db, key, Object(value, t)))

\* The pairs with this key.
Named(pairs, key) == {i \in 1 .. Len(pairs) : pairs[i][1] = key}

\* The keys of "free" get the value of the pair that "chosen" names for them.
Assigned(pairs, free, chosen, at) ==
  [k \in DOMAIN Db \cup free |->
     IF k \in free THEN Object(pairs[chosen[k]][2], at[k]) ELSE Db[k]]

KeysOf(pairs) == {pairs[i][1] : i \in 1 .. Len(pairs)}

\* Of several pairs with the same key the last one counts.
MSet(pairs) ==
  /\ call' = <<"mset", pairs>>
  /\ Replies(Ok)
  /\ \E at \in [KeysOf(pairs) -> Moments] :
       Becomes(Assigned(pairs, KeysOf(pairs),
                        [k \in KeysOf(pairs) |->
                           CHOOSE i \in Named(pairs, k) : \A j \in Named(pairs, k) : j <= i],
                        at))

\* No key that exists is overwritten.  Of several pairs with the same key one
\* counts: the first, or one that follows the end of an object that was there.
\* The reply is 1 if every pair was set.
MSetNx(pairs) ==
  /\ call' = <<"msetnx", pairs>>
  /\ \E free \in SUBSET KeysOf(pairs) :
       /\ \A k \in KeysOf(pairs) : \E t \in Moments : (k \in free) = ~Exist(k, t)
       /\ Replies(Int64(IF free = KeysOf(pairs) /\ Cardinality(free) = Len(pairs) THEN 1 ELSE 0))
       /\ \E chosen \in [free -> 1 .. Len(pairs)], at \in [free -> Moments] :
            /\ \A k \in free : /\ chosen[k] \in Named(pairs, k)
                               /\ \/ Exist(k, now)
                                  \/ \A j \in Named(pairs, k) : chosen[k] <= j
            /\ Becomes(Assigned(pairs, free, chosen, at))

\* The length that it replies is left open.
AppendTo(key, value) ==
  /\ call' = <<"append", key, value>>
  /\ Len(reply') = 1 /\ Replies(Int64(reply'[1].n))
  /\ \E t \in Moments :
       IF Exist(key, t) THEN Becomes([Db EXCEPT ![key].value = value])
       ELSE \E u \in Moments : Becomes(Put(Db, key, Object(value, u)))

IncrBy(key, value) ==
  /\ call' = <<"incrby", key, value>>
  /\ \E t \in Moments :
       IF Exist(key, t) THEN Replies(Error) /\ Becomes(Db)
       ELSE /\ Replies(Int64(1))
            /\ \E u \in Moments : Becomes(Put(Db, key, Object(value, u)))

-----------------------------------------------------------------------------

\* Of the keys in this list, how many exist at t?
Count(keys, t) == Cardinality({i \in 1 .. Len(keys) : Exist(keys[i], t)})

\* A count that is taken while the keys may expire.
Counted(keys) ==
  /\ Len(reply') = 1 /\ Replies(Int64(reply'[1].n))
  /\ Count(keys, now') <= reply'[1].n
  /\ reply'[1].n <= Count(keys, now)

Exists(keys) ==
  /\ call' = <<"exists", keys>>
  /\ Becomes(Db) /\ Counted(keys)

ListOf(keys) == {keys[i] : i \in 1 .. Len(keys)}

TouchKeys(keys) ==
  /\ call' = <<"touch", keys>>
  /\ Counted(keys)
  /\ \E at \in [ListOf(keys) -> Moments] :
       Becomes([k \in DOMAIN Db |-> IF k \in ListOf(keys) THEN Touch(Db[k], at[k]) ELSE Db[k]])

\* A key that is named twice is deleted, and counted, once.
Del(keys) ==
  /\ call' = <<"del", keys>>
  /\ Len(reply') = 1 /\ Replies(Int64(reply'[1].n))
  /\ reply'[1].n \in Cardinality({k \in ListOf(keys) : Exist(k, now')}) ..
                     Cardinality({k \in ListOf(keys) : Exist(k, now)})
  /\ Becomes([k \in DOMAIN Db \ ListOf(keys) |-> Db[k]])

\* The milliseconds left at t, -1 if the object does not expire.
Left(obj, t) ==
  IF obj.expire = Forever THEN -1 ELSE IF Lasts(obj, t) THEN obj.expire - t ELSE 0

\* The moment that an EXPIRE command means, when it is given at t.
Due(cmd, time, t) ==
  CASE cmd = "expire" -> t + Wrap(time * Second)
    [] cmd = "pexpire" -> t + time
    [] cmd = "expireat" -> Wrap(time * Second)
    [] cmd = "pexpireat" -> time

Permits(opts, new, left) ==
  /\ "nx" \in opts => left <= 0
  /\ "xx" \in opts => left # -1
  /\ "gt" \in opts => new > left
  /\ "lt" \in opts => new < left

\* The time to live is set, to end when it is due or as much later as the
\* command takes, or it stays.  The new time is computed at one moment, the key
\* is looked for at the next and the options are judged at a third: a key that
\* ends before the third has 0 left then, and NX and GT permit a new time.  A
\* moment past the end of int64_t has wrapped into the past, so the key is gone,
\* and the very end of int64_t is no moment: the key lasts forever.
SetExpire(cmd, key, time, opts) ==
  /\ call' = <<cmd, key, time, opts>>
  /\ LET left(t) == Wrap(Due(cmd, time, t) - t)
         new(t) == IF left(t) < 0 THEN 0 ELSE left(t)
         permitted(s, u) == Permits(opts, new(s), Left(Db[key], u))
     IN IF ("nx" \in opts /\ opts # {"nx"}) \/ {"gt", "lt"} \subseteq opts
        THEN Replies(Error) /\ Becomes(Db)
        ELSE \E s \in Moments : \E t \in s .. now' :
               IF ~Exist(key, t) THEN Replies(Int64(0)) /\ Becomes(Db)
               ELSE \E u \in t .. now' :
                      IF ~permitted(s, u) THEN Replies(Int64(0)) /\ Becomes(Db)
                      ELSE /\ Replies(Int64(1))
                           /\ \E late \in 0 .. now' - now :
                                Becomes([Db EXCEPT ![key].expire = Wrap(Due(cmd, time, now) + late)])

Persist(key) ==
  /\ call' = <<"persist", key>>
  /\ \E t \in Moments :
       IF Exist(key, t) /\ Db[key].expire # Forever
       THEN Replies(Int64(1)) /\ Becomes([Db EXCEPT ![key].expire = Forever])
       ELSE Replies(Int64(0)) /\ Becomes(Db)

TimeToLive(key, unit) ==
  /\ call' = <<"ttl", key, unit>>
  /\ \E t \in Moments :
       IF Exist(key, t)
       THEN \E u \in t .. now' :
              Replies(Int64(IF Left(Db[key], u) = -1 THEN -1 ELSE Left(Db[key], u) \div unit))
       ELSE Replies(Int64(-2))
  /\ Becomes(Db)

IdleTime(key) ==
  /\ call' = <<"idletime", key>>
  /\ \E t \in Moments :
       IF Exist(key, t)
       THEN \E u \in t .. now' : Replies(Int64((u - Db[key].access) \div Second))
       ELSE Replies(Null)
  /\ Becomes(Db)

\* The key moves to the new one with its value and its time to live, and what
\* was there is gone.  A key that is moved to itself is lost.
Moved(key, new_key, t) == Erase(Put(Db, new_key, Touch(Db[key], t)), key)

Rename(key, new_key) ==
  /\ call' = <<"rename", key, new_key>>
  /\ \E t \in Moments :
       IF Exist(key, t)
       THEN Replies(Ok) /\ \E u \in Moments : Becomes(Moved(key, new_key, u))
       ELSE Replies(Error) /\ Becomes(Db)

RenameNx(key, new_key) ==
  /\ call' = <<"renamenx", key, new_key>>
  /\ \E t \in Moments :
       IF ~Exist(key, t) THEN Replies(Error) /\ Becomes(Db)
       ELSE \E u \in t .. now' :
              IF Exist(new_key, u) THEN Replies(Int64(0)) /\ Becomes(Db)
              ELSE Replies(Int64(1)) /\ \E w \in Moments : Becomes(Moved(key, new_key, w))

-----------------------------------------------------------------------------

KeySeqs == UNION {[1 .. n -> Keys] : n \in 1 .. MaxArgs}
PairSeqs == UNION {[1 .. n -> Keys \X Values] : n \in 1 .. MaxArgs}

Next ==
  \/ Tick
  \/ Refuse
  \/ \E db \in -1 .. DbNum : Select(db)
  \/ \E key \in Keys : Get(key) \/ GetDel(key) \/ Persist(key) \/ IdleTime(key)
  \/ \E key \in Keys, unit \in {1, Second} : TimeToLive(key, unit)
  \/ \E key \in Keys, value \in Values :
       Set(key, value) \/ AppendTo(key, value) \/ IncrBy(key, value)
  \/ \E keys \in KeySeqs : MGet(keys) \/ Del(keys) \/ Exists(keys) \/ TouchKeys(keys)
  \/ \E pairs \in PairSeqs : MSet(pairs) \/ MSetNx(pairs)
  \/ \E key \in Keys, new_key \in Keys : Rename(key, new_key) \/ RenameNx(key, new_key)
  \/ \E cmd \in {"expire", "pexpire", "expireat", "pexpireat"},
        key \in Keys, time \in Times, opts \in SUBSET Options :
       SetExpire(cmd, key, time, opts)

Spec == Init /\ [][Next]_vars

=============================================================================
