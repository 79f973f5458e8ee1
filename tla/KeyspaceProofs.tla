--------------------------- MODULE KeyspaceProofs ---------------------------
(***************************************************************************)
(* Theorems about the databases: their types, and that lazy expiry with    *)
(* several readings of the clock in a command implements the promise of    *)
(* Store.  The first parts are about numbers of 64 bits, and objects and   *)
(* maps; then there is a part for each group of commands.  Those that go   *)
(* through a list of keys are recursive functions of the place in it.      *)
(***************************************************************************)
EXTENDS Keyspace, Recursions, SequenceTheorems, FiniteSetTheorems, TLAPS

-----------------------------------------------------------------------------
(* Numbers of 64 bits.                                                       *)

USE KeyspaceAssumption, MaxIntAssumption

\* Division with remainder.
LEMMA Remainder ==
  ASSUME NEW m \in Nat \ {0}, NEW n \in Int
  PROVE  /\ n % m \in 0 .. m - 1
         /\ \E k \in Int : n = m * k + (n % m)
<1>1. n % m \in 0 .. m - 1 /\ n \div m \in Int /\ n = m * (n \div m) + (n % m)
  BY Z3
<1> DEFINE q == n \div m
           s == n % m
<1>2. q \in Int /\ n = m * q + s
  BY <1>1
<1> HIDE DEF q, s
<1>3. \E k \in Int : n = m * k + s
  BY <1>2, Zenon
<1> QED
  BY <1>1, <1>3 DEF s

\* The remainder is the only number below m that differs by a multiple of m.
LEMMA RemainderIs ==
  ASSUME NEW m \in Nat \ {0}, NEW n \in Int, NEW k \in Int, NEW r \in 0 .. m - 1, n = m * k + r
  PROVE  n % m = r
<1> DEFINE s == n % m
<1>1. PICK q \in Int : n = m * q + (n % m)
  BY Remainder
<1>2. s \in 0 .. m - 1 /\ n = m * q + s
  BY <1>1, Remainder
<1> HIDE DEF s
<1> DEFINE j == k - q
<1>3. m * j = s - r /\ j \in Int
  BY <1>2
<1> HIDE DEF j
<1>4. (j >= 1 => m * j >= m) /\ (j <= -1 => m * j <= -m)
  BY <1>3
<1>5. s - r < m /\ s - r > -m
  BY <1>2
<1>6. j = 0
  BY <1>3, <1>4, <1>5
<1>7. s = r
  BY <1>2, <1>3, <1>6
<1> QED
  BY <1>7 DEF s

\* The wrap-around of int64_t: its range, where it is the identity, and that it
\* may be done once at the end.
LEMMA WrapLaws ==
  /\ \A n \in Int : Wrap(n) \in -MaxInt - 1 .. MaxInt
  /\ \A n \in -MaxInt - 1 .. MaxInt : Wrap(n) = n
  /\ \A a, b \in Int : Wrap(Wrap(a) + b) = Wrap(a + b)
<1> DEFINE m == 2 * (MaxInt + 1)
           Rest(n) == (n + MaxInt + 1) % m
<1>1. m \in Nat \ {0} /\ m = 2 * MaxInt + 2
  OBVIOUS
<1>2. \A n : Wrap(n) = Rest(n) - (MaxInt + 1)
  BY DEF Wrap
<1> HIDE DEF m
<1>3. ASSUME NEW n \in Int PROVE Rest(n) \in 0 .. m - 1
  <2>1. n + MaxInt + 1 \in Int
    OBVIOUS
  <2> QED
    BY <1>1, <2>1, Remainder
<1>4. ASSUME NEW n \in -MaxInt - 1 .. MaxInt PROVE Rest(n) = n + MaxInt + 1
  <2> DEFINE x == n + MaxInt + 1
  <2>1. x \in Int /\ x \in 0 .. m - 1 /\ x = m * 0 + x
    BY <1>1
  <2> HIDE DEF x
  <2>2. x % m = x
    BY <1>1, <2>1, RemainderIs
  <2> QED
    BY <2>2 DEF x
<1>5. ASSUME NEW a \in Int, NEW b \in Int
      PROVE  Rest(Wrap(a) + b) = Rest(a + b)
  <2> DEFINE x == a + MaxInt + 1
             y == Wrap(a) + b + MaxInt + 1
             z == a + b + MaxInt + 1
  <2>1. x \in Int /\ z \in Int
    BY <1>1
  <2> HIDE DEF x, y, z
  <2>2. PICK q \in Int : x = m * q + (x % m)
    BY <1>1, <2>1, Remainder
  <2>3. PICK p \in Int : z = m * p + (z % m)
    BY <1>1, <2>1, Remainder
  <2>4. q \in Int /\ p \in Int /\ x = m * q + (x % m) /\ z = m * p + (z % m)
    BY <2>2, <2>3
  <2>5. y = (x % m) + b
    <3>1. Wrap(a) = (x % m) - (MaxInt + 1) /\ x % m \in Int
      BY <1>2, <1>3, <1>1 DEF x
    <3> QED
      BY <3>1 DEF y
  <2>6. z = x + b
    BY DEF x, z
  <2>7. x % m \in Int /\ z % m \in 0 .. m - 1
    BY <1>1, <2>1, Remainder
  <2> DEFINE k == p - q
             rest == z % m
  <2>8. y = m * k + rest
    <3>1. m * k = m * p - m * q
      BY <1>1, <2>4
    <3>2. m * q \in Int /\ m * p \in Int
      BY <1>1, <2>4
    <3> DEFINE mp == m * p
               mq == m * q
               mk == m * k
               over == x % m
    <3>3. x = mq + over /\ z = mp + rest /\ mk = mp - mq /\ y = over + b
      BY <2>4, <2>5, <3>1
    <3>4. mp \in Int /\ mq \in Int /\ over \in Int /\ rest \in Int
      BY <2>7, <3>2
    <3> HIDE DEF mp, mq, mk, over, rest
    <3>5. y = mk + rest
      BY <2>6, <3>3, <3>4
    <3> QED
      BY <3>5 DEF mk
  <2>9. y \in Int /\ k \in Int /\ rest \in 0 .. m - 1
    BY <2>1, <2>5, <2>7
  <2> HIDE DEF k, rest
  <2>10. y % m = rest
    BY <1>1, <2>8, <2>9, RemainderIs
  <2>11. Wrap(a) + b + MaxInt + 1 = y /\ a + b + MaxInt + 1 = z
    BY DEF y, z
  <2>12. Rest(Wrap(a) + b) = y % m /\ Rest(a + b) = z % m
    BY <2>11
  <2> QED
    BY <2>10, <2>12 DEF rest
<1>6. \A n \in Int : Wrap(n) \in -MaxInt - 1 .. MaxInt
  BY <1>1, <1>2, <1>3
<1>7. \A n \in -MaxInt - 1 .. MaxInt : Wrap(n) = n
  BY <1>2, <1>4
<1>8. \A a, b \in Int : Wrap(Wrap(a) + b) = Wrap(a + b)
  BY <1>2, <1>5
<1> QED
  BY <1>6, <1>7, <1>8

-----------------------------------------------------------------------------
(* Objects and maps.                                                         *)

\* What a database may be.
Maps == UNION {[K -> Objs] : K \in SUBSET Keys}

\* A map is known by its keys and their objects.
LEMMA MapParts ==
  ASSUME NEW objs \in Maps
  PROVE  /\ DOMAIN objs \subseteq Keys
         /\ \A k \in DOMAIN objs : objs[k] \in Objs
         /\ objs = [k \in DOMAIN objs |-> objs[k]]
  BY DEF Maps

LEMMA MapMade ==
  ASSUME NEW K, K \subseteq Keys, NEW f, f = [k \in K |-> f[k]], \A k \in K : f[k] \in Objs
  PROVE  f \in Maps
<1>1. f \in [K -> Objs]
  OBVIOUS
<1> QED
  BY <1>1 DEF Maps

\* The operations on a map make maps.
LEMMA PutMap ==
  ASSUME NEW objs \in Maps, NEW key \in Keys, NEW obj \in Objs
  PROVE  /\ Put(objs, key, obj) \in Maps
         /\ DOMAIN Put(objs, key, obj) = DOMAIN objs \cup {key}
         /\ Put(objs, key, obj)[key] = obj
         /\ \A k \in DOMAIN objs : k # key => Put(objs, key, obj)[k] = objs[k]
<1>1. Put(objs, key, obj) \in [DOMAIN objs \cup {key} -> Objs]
  BY MapParts DEF Put
<1>2. DOMAIN objs \cup {key} \subseteq Keys
  BY MapParts
<1> QED
  BY <1>1, <1>2 DEF Maps, Put

LEMMA EraseMap ==
  ASSUME NEW objs \in Maps, NEW key
  PROVE  /\ Erase(objs, key) \in Maps
         /\ DOMAIN Erase(objs, key) = DOMAIN objs \ {key}
         /\ \A k \in DOMAIN objs : k # key => Erase(objs, key)[k] = objs[k]
<1>1. Erase(objs, key) \in [DOMAIN objs \ {key} -> Objs]
  BY MapParts DEF Erase
<1>2. DOMAIN objs \ {key} \subseteq Keys
  BY MapParts
<1> QED
  BY <1>1, <1>2 DEF Maps, Erase

\* Ctx::GetObject returns what the lookup finds, and leaves the other keys alone.
LEMMA GetObjectMap ==
  ASSUME NEW objs \in Maps, NEW key \in Keys, NEW t
  PROVE  /\ GetObject(objs, key, t) \in Maps
         /\ DOMAIN GetObject(objs, key, t) \subseteq DOMAIN objs
         /\ \A k \in DOMAIN objs : k # key => k \in DOMAIN GetObject(objs, key, t)
         /\ \A k \in DOMAIN GetObject(objs, key, t) : GetObject(objs, key, t)[k] = objs[k]
         /\ key \in DOMAIN GetObject(objs, key, t) <=> Finds(objs, key, t)
<1>1. CASE Finds(objs, key, t)
  BY <1>1 DEF GetObject, Finds
<1>2. CASE ~Finds(objs, key, t)
  BY <1>2, EraseMap DEF GetObject
<1> QED
  BY <1>1, <1>2

LEMMA AliveMap ==
  ASSUME NEW objs \in Maps, NEW t
  PROVE  /\ Alive(objs, t) \in Maps
         /\ \A k : k \in DOMAIN Alive(objs, t) <=> Finds(objs, k, t)
         /\ \A k \in DOMAIN Alive(objs, t) : Alive(objs, t)[k] = objs[k]
<1> DEFINE K == {k \in DOMAIN objs : Finds(objs, k, t)}
<1>1. Alive(objs, t) = [k \in K |-> objs[k]]
  BY DEF Alive, Finds
<1>2. \A k \in K : objs[k] \in Objs
  BY MapParts
<1>3. K \subseteq Keys
  BY MapParts
<1>4. [k \in K |-> objs[k]] \in [K -> Objs]
  BY <1>2
<1>5. \A k : k \in K <=> Finds(objs, k, t)
  BY DEF Finds
<1> HIDE DEF K
<1> QED
  BY <1>1, <1>3, <1>4, <1>5 DEF Maps

\* Once expired, an object stays so, and what PTtl says of it is what Lasts says.
LEMMA PTtlLasts ==
  ASSUME NEW obj \in Objs, NEW t \in Int
  PROVE  /\ PTtl(obj, t) # 0 <=> Promise!Lasts(obj, t)
         /\ PTtl(obj, t) = Promise!Left(obj, t)
         /\ \A u \in Int : t <= u /\ PTtl(obj, u) # 0 => PTtl(obj, t) # 0
  BY DEF PTtl, Promise!Lasts, Promise!Left, Objs, Forever, Promise!Forever

\* Two maps that no lookup at t can tell apart.
Like(a, b, t) ==
  \A k \in Keys : /\ Finds(a, k, t) <=> Finds(b, k, t)
                  /\ Finds(a, k, t) => a[k] = b[k]

LEMMA FindsEarlier ==
  ASSUME NEW objs \in Maps, NEW k, NEW t \in Int, NEW u \in Int, t <= u, Finds(objs, k, u)
  PROVE  Finds(objs, k, t)
  BY MapParts, PTtlLasts DEF Finds

LEMMA LikeLater ==
  ASSUME NEW a \in Maps, NEW b \in Maps, NEW t \in Int, NEW u \in Int, t <= u, Like(a, b, t)
  PROVE  Like(a, b, u)
<1> SUFFICES ASSUME NEW k \in Keys
             PROVE  /\ Finds(a, k, u) <=> Finds(b, k, u)
                    /\ Finds(a, k, u) => a[k] = b[k]
  BY DEF Like
<1>1. Finds(a, k, u) => Finds(a, k, t)
  BY FindsEarlier
<1>2. Finds(b, k, u) => Finds(b, k, t)
  BY FindsEarlier
<1>3. (Finds(a, k, t) <=> Finds(b, k, t)) /\ (Finds(a, k, t) => a[k] = b[k])
  BY DEF Like
<1> QED
  BY <1>1, <1>2, <1>3 DEF Finds

LEMMA LikeTrans ==
  ASSUME NEW a, NEW b, NEW c, NEW t, Like(a, b, t), Like(b, c, t)
  PROVE  Like(a, c, t)
  BY DEF Like

LEMMA LikeSame ==
  ASSUME NEW a, NEW t
  PROVE  Like(a, a, t)
  BY DEF Like

\* What a lookup drops, no later lookup would find.
LEMMA LikeSwept ==
  ASSUME NEW a \in Maps, NEW key \in Keys, NEW t
  PROVE  Like(GetObject(a, key, t), a, t)
<1> SUFFICES ASSUME NEW k \in Keys
             PROVE  /\ Finds(GetObject(a, key, t), k, t) <=> Finds(a, k, t)
                    /\ Finds(GetObject(a, key, t), k, t) => GetObject(a, key, t)[k] = a[k]
  BY DEF Like
<1> QED
  BY GetObjectMap DEF Finds

LEMMA LikeAlive ==
  ASSUME NEW a \in Maps, NEW t \in Int, NEW u \in Int, t <= u
  PROVE  Like(a, Alive(a, t), u)
<1> SUFFICES ASSUME NEW k \in Keys
             PROVE  /\ Finds(a, k, u) <=> Finds(Alive(a, t), k, u)
                    /\ Finds(a, k, u) => a[k] = Alive(a, t)[k]
  BY DEF Like
<1>1. Finds(a, k, u) => k \in DOMAIN Alive(a, t)
  <2>1. Finds(a, k, u) => Finds(a, k, t)
    BY FindsEarlier
  <2> QED
    BY <2>1, AliveMap
<1>2. k \in DOMAIN Alive(a, t) => k \in DOMAIN a /\ Alive(a, t)[k] = a[k]
  <2>1. k \in DOMAIN Alive(a, t) => Finds(a, k, t)
    BY AliveMap
  <2> QED
    BY <2>1, AliveMap DEF Finds
<1> QED
  BY <1>1, <1>2 DEF Finds

\* A lookup depends on the one key.
LEMMA FindsSame ==
  ASSUME NEW a, NEW b, NEW k, NEW t,
         k \in DOMAIN a <=> k \in DOMAIN b, k \in DOMAIN a => a[k] = b[k]
  PROVE  Finds(a, k, t) <=> Finds(b, k, t)
  BY Zenon DEF Finds

\* The same change to both.
LEMMA LikePut ==
  ASSUME NEW a \in Maps, NEW b \in Maps, NEW t, Like(a, b, t),
         NEW key \in Keys, NEW obj \in Objs
  PROVE  Like(Put(a, key, obj), Put(b, key, obj), t)
<1> DEFINE p == Put(a, key, obj)
           q == Put(b, key, obj)
<1>1. /\ DOMAIN p = DOMAIN a \cup {key} /\ p[key] = obj
      /\ DOMAIN q = DOMAIN b \cup {key} /\ q[key] = obj
      /\ \A k \in DOMAIN a : k # key => p[k] = a[k]
      /\ \A k \in DOMAIN b : k # key => q[k] = b[k]
  BY PutMap
<1> HIDE DEF p, q
<1> SUFFICES ASSUME NEW k \in Keys
             PROVE  /\ Finds(p, k, t) <=> Finds(q, k, t)
                    /\ Finds(p, k, t) => p[k] = q[k]
  BY DEF Like, p, q
<1>2. CASE k = key
  <2>1. k \in DOMAIN p /\ k \in DOMAIN q /\ p[k] = q[k]
    BY <1>1, <1>2
  <2> QED
    BY <2>1, FindsSame
<1>3. CASE k # key
  <2>1. /\ k \in DOMAIN p <=> k \in DOMAIN a
        /\ k \in DOMAIN a => p[k] = a[k]
        /\ k \in DOMAIN q <=> k \in DOMAIN b
        /\ k \in DOMAIN b => q[k] = b[k]
    BY <1>1, <1>3
  <2>2. (Finds(p, k, t) <=> Finds(a, k, t)) /\ (Finds(q, k, t) <=> Finds(b, k, t))
    BY <2>1, FindsSame
  <2>3. (Finds(a, k, t) <=> Finds(b, k, t)) /\ (Finds(a, k, t) => a[k] = b[k])
    BY DEF Like
  <2>4. Finds(a, k, t) => k \in DOMAIN a /\ k \in DOMAIN b
    BY <2>3 DEF Finds
  <2> QED
    BY <2>1, <2>2, <2>3, <2>4
<1> QED
  BY <1>2, <1>3

LEMMA LikeErase ==
  ASSUME NEW a \in Maps, NEW b \in Maps, NEW t, Like(a, b, t), NEW key \in Keys
  PROVE  Like(Erase(a, key), Erase(b, key), t)
<1> DEFINE p == Erase(a, key)
           q == Erase(b, key)
<1>1. /\ DOMAIN p = DOMAIN a \ {key} /\ DOMAIN q = DOMAIN b \ {key}
      /\ \A k \in DOMAIN a : k # key => p[k] = a[k]
      /\ \A k \in DOMAIN b : k # key => q[k] = b[k]
  BY EraseMap
<1> HIDE DEF p, q
<1> SUFFICES ASSUME NEW k \in Keys
             PROVE  /\ Finds(p, k, t) <=> Finds(q, k, t)
                    /\ Finds(p, k, t) => p[k] = q[k]
  BY DEF Like, p, q
<1>2. CASE k = key
  BY <1>1, <1>2 DEF Finds
<1>3. CASE k # key
  <2>1. /\ k \in DOMAIN p <=> k \in DOMAIN a
        /\ k \in DOMAIN a => p[k] = a[k]
        /\ k \in DOMAIN q <=> k \in DOMAIN b
        /\ k \in DOMAIN b => q[k] = b[k]
    BY <1>1, <1>3
  <2>2. (Finds(p, k, t) <=> Finds(a, k, t)) /\ (Finds(q, k, t) <=> Finds(b, k, t))
    BY <2>1, FindsSame
  <2>3. (Finds(a, k, t) <=> Finds(b, k, t)) /\ (Finds(a, k, t) => a[k] = b[k])
    BY DEF Like
  <2>4. Finds(a, k, t) => k \in DOMAIN a /\ k \in DOMAIN b
    BY <2>3 DEF Finds
  <2> QED
    BY <2>1, <2>2, <2>3, <2>4
<1> QED
  BY <1>2, <1>3

-----------------------------------------------------------------------------
(* A command and the moments of it.                                          *)

LEMMA DbTyped ==
  ASSUME TypeOK
  PROVE  /\ now \in Int /\ now \in Nat /\ cur_db \in Dbs /\ Db \in Maps
         /\ DOMAIN dbs = Dbs /\ \A d \in Dbs : dbs[d] \in Maps
<1>1. \A d \in Dbs : dbs[d] \in Maps
  BY DEF TypeOK, Maps
<1> QED
  BY <1>1 DEF TypeOK, Db

\* Which is what TypeOK says of them.
LEMMA MapsTyped ==
  ASSUME NEW objs \in Maps
  PROVE  DOMAIN objs \subseteq Keys /\ objs \in [DOMAIN objs -> Objs]
  BY DEF Maps

\* The readings are moments of the command, one after the other.
LEMMA ReadingMoments ==
  ASSUME TypeOK, NEW n \in Nat, NEW r \in Readings(n)
  PROVE  /\ \A i \in 1 .. n : r[i] \in now .. MaxTime
         /\ \A i, j \in 1 .. n : i <= j => r[i] <= r[j]
<1>1. /\ now \in Nat /\ MaxTime \in Nat
      /\ \A i \in 1 .. n : r[i] \in now .. MaxTime
      /\ \A i \in 1 .. n - 1 : r[i] <= r[i + 1]
  BY DbTyped DEF Readings
<1>2. ASSUME NEW i \in 1 .. n PROVE \A j \in i .. n : r[i] <= r[j]
  <2> DEFINE S == {m \in 0 .. n - i : r[i] <= r[i + m]}
  <2>1. 0 \in S
    BY <1>1
  <2>2. ASSUME NEW m \in 1 .. n - i, m - 1 \in S PROVE m \in S
    <3>1. i + (m - 1) \in 1 .. n - 1 /\ i + (m - 1) + 1 = i + m /\ i + m \in 1 .. n
      OBVIOUS
    <3>2. r[i + (m - 1)] <= r[i + m]
      BY <1>1, <3>1
    <3>3. r[i] \in Int /\ r[i + (m - 1)] \in Int /\ r[i + m] \in Int
      BY <1>1, <3>1
    <3> QED
      BY <2>2, <3>2, <3>3
  <2>3. n - i \in Nat
    OBVIOUS
  <2> HIDE DEF S
  <2>4. \A m \in 0 .. n - i : m \in S
    BY <2>1, <2>2, <2>3, Induct
  <2>5. ASSUME NEW j \in i .. n PROVE r[i] <= r[j]
    <3>1. j - i \in 0 .. n - i /\ i + (j - i) = j
      OBVIOUS
    <3> QED
      BY <2>4, <3>1 DEF S
  <2> QED
    BY <2>5
<1> QED
  BY <1>1, <1>2

\* The databases of Store.
LEMMA PromiseDb ==
  ASSUME TypeOK
  PROVE  /\ Promise!Db = Alive(Db, now)
         /\ Promise!Db \in Maps
         /\ \A t \in Int : now <= t => Like(Db, Promise!Db, t)
<1>1. Promise!Db = Alive(Db, now)
  BY DbTyped DEF Promise!Db, Db
<1> QED
  BY <1>1, DbTyped, AliveMap, LikeAlive

\* A key exists for Store when a lookup would find it.
LEMMA ExistFinds ==
  ASSUME TypeOK, NEW k \in Keys, NEW t \in Int, now <= t
  PROVE  /\ Promise!Exist(k, t) <=> Finds(Db, k, t)
         /\ Finds(Db, k, t) => Db[k] \in Objs /\ Promise!Db[k] = Db[k]
<1>1. Like(Db, Promise!Db, t) /\ Promise!Db \in Maps /\ Db \in Maps
  BY PromiseDb, DbTyped
<1>2. /\ Finds(Db, k, t) <=> Finds(Promise!Db, k, t)
      /\ Finds(Db, k, t) => Promise!Db[k] = Db[k]
  BY <1>1 DEF Like
<1>3. Promise!Exist(k, t) <=> Finds(Promise!Db, k, t)
  BY <1>1, MapParts, PTtlLasts DEF Promise!Exist, Finds
<1> QED
  BY <1>1, <1>2, <1>3, MapParts DEF Finds

\* What a client can see after a command.
LEMMA Becoming ==
  ASSUME TypeOK, NEW t \in now .. MaxTime, NEW objs \in Maps,
         now' = t, cur_db' = cur_db,
         \A d \in Dbs : dbs'[d] = IF d = cur_db THEN objs ELSE dbs[d],
         NEW abs \in Maps, Like(objs, abs, t)
  PROVE  Promise!Becomes(abs)
<1>1. now' = t /\ cur_db' = cur_db /\ t \in Int /\ now <= t
  BY DbTyped
<1>2. ASSUME NEW a \in Maps, NEW b \in Maps, Like(a, b, t)
      PROVE  Alive(a, t) = Promise!Expired(b, t)
  <2>1. {k \in DOMAIN a : PTtl(a[k], t) # 0} = {k \in DOMAIN b : Promise!Lasts(b[k], t)}
    <3>1. {k \in DOMAIN a : PTtl(a[k], t) # 0} = {k \in Keys : Finds(a, k, t)}
      BY MapParts DEF Finds
    <3>2. {k \in DOMAIN b : Promise!Lasts(b[k], t)} = {k \in Keys : Finds(b, k, t)}
      BY <1>1, MapParts, PTtlLasts DEF Finds
    <3> QED
      BY <1>2, <3>1, <3>2 DEF Like
  <2>2. \A k \in DOMAIN a : PTtl(a[k], t) # 0 => a[k] = b[k]
    BY <1>2, MapParts DEF Like, Finds
  <2> QED
    BY <2>1, <2>2 DEF Alive, Promise!Expired
<1>3. ASSUME NEW d \in Dbs
      PROVE  Alive(dbs'[d], now') =
               Promise!Expired(IF d = cur_db THEN abs ELSE Alive(dbs[d], now), now')
  <2>1. CASE d = cur_db
    <3>1. dbs'[d] = objs
      BY <2>1
    <3> QED
      BY <1>1, <1>2, <2>1, <3>1
  <2>2. CASE d # cur_db
    <3>1. dbs'[d] = dbs[d] /\ dbs[d] \in Maps
      BY <2>2, DbTyped
    <3>2. Like(dbs[d], Alive(dbs[d], now), t) /\ Alive(dbs[d], now) \in Maps
      BY <1>1, <3>1, LikeAlive, AliveMap, DbTyped
    <3> QED
      BY <1>1, <1>2, <2>2, <3>1, <3>2
  <2> QED
    BY <2>1, <2>2
<1>4. [d \in Dbs |-> Alive(dbs[d], now)]' =
        [d \in Dbs |-> Promise!Expired(IF d = cur_db THEN abs ELSE Alive(dbs[d], now), now')]
  BY <1>3
<1>5. Dbs = Promise!Dbs
  BY DEF Dbs, Promise!Dbs
<1>6. \A d \in Dbs : [e \in Dbs |-> Alive(dbs[e], now)][d] = Alive(dbs[d], now)
  OBVIOUS
<1> QED
  BY <1>1, <1>4, <1>5, <1>6, DbTyped DEF Promise!Becomes, Promise!Db

\* The words that Keyspace and Store have in common.
LEMMA SameWords ==
  /\ Promise!Null = Null /\ Promise!Ok = Ok /\ Promise!Error = Error
  /\ \A n : Promise!Int64(n) = Int64(n)
  /\ \A v : Promise!Bulk(v) = Bulk(v)
  /\ \A objs, k, o : Promise!Put(objs, k, o) = Put(objs, k, o)
  /\ \A objs, k : Promise!Erase(objs, k) = Erase(objs, k)
  /\ \A v, t : Promise!Object(v, t) = Object(v, t)
  /\ \A o, t : Promise!Touch(o, t) = Touch(o, t)
  /\ \A n : Promise!Wrap(n) = Wrap(n)
  /\ Promise!Forever = Forever
  /\ Promise!Moments = now .. now'
  BY DEF Promise!Null, Null, Promise!Ok, Ok, Promise!Error, Error, Promise!Int64, Int64,
         Promise!Bulk, Bulk, Promise!Piece, Piece, Promise!Put, Put, Promise!Erase, Erase,
         Promise!Object, Object, Promise!Touch, Touch, Promise!Wrap, Wrap,
         Promise!Forever, Forever, Promise!Moments

LEMMA PiecesTyped ==
  /\ Null \in Pieces /\ Ok \in Pieces /\ Error \in Pieces
  /\ \A n \in Int : Int64(n) \in Pieces
  /\ \A v \in Values : Bulk(v) \in Pieces
  /\ \A n \in Int : Array(n) \in Pieces
  BY DEF Pieces, Null, Ok, Error, Int64, Bulk, Array, Piece

LEMMA ObjectsTyped ==
  ASSUME NEW t \in Nat
  PROVE  /\ \A v \in Values : Object(v, t) \in Objs
         /\ \A o \in Objs : Touch(o, t) \in Objs
         /\ \A o \in Objs, v \in Values : [o EXCEPT !.value = v] \in Objs
         /\ \A o \in Objs, e \in Int : [o EXCEPT !.expire = e] \in Objs
  BY DEF Objs, Object, Touch, Forever

\* What every command does in the end.
LEMMA Serves ==
  ASSUME TypeOK, NEW t \in now .. MaxTime, NEW objs \in Maps, NEW pieces \in Seq(Pieces),
         Commit(objs, pieces, t),
         NEW abs \in Maps, Like(objs, abs, t)
  PROVE  TypeOK' /\ Promise!Becomes(abs) /\ now' = t /\ reply' = pieces
<1>1. now' = t /\ cur_db' = cur_db /\ reply' = pieces /\ now' \in 0 .. MaxTime
  BY DEF TypeOK, Commit
<1>2. DOMAIN dbs' = Dbs /\ \A d \in Dbs : dbs'[d] = IF d = cur_db THEN objs ELSE dbs[d]
  BY DbTyped DEF Commit
<1>3. \A d \in Dbs : DOMAIN dbs'[d] \subseteq Keys /\ dbs'[d] \in [DOMAIN dbs'[d] -> Objs]
  BY <1>2, DbTyped, MapsTyped
<1>4. TypeOK'
  BY <1>1, <1>2, <1>3 DEF TypeOK
<1> QED
  BY <1>1, <1>2, <1>4, Becoming

\* The first lookup of a command.
LEMMA Lookup ==
  ASSUME TypeOK, NEW key \in Keys, NEW t \in now .. MaxTime
  PROVE  LET objs == GetObject(Db, key, t)
         IN /\ objs \in Maps /\ t \in Nat /\ Promise!Db \in Maps
            /\ \A u \in Int : t <= u => Like(objs, Promise!Db, u)
            /\ key \in DOMAIN objs <=> Promise!Exist(key, t)
            /\ key \in DOMAIN objs => /\ objs[key] \in Objs
                                      /\ Promise!Db[key] = objs[key]
                                      /\ key \in DOMAIN Promise!Db
            /\ \A u \in Int : t <= u /\ key \notin DOMAIN objs => ~Finds(Promise!Db, key, u)
<1> DEFINE objs == GetObject(Db, key, t)
<1>1. t \in Nat /\ t \in Int /\ now <= t /\ Db \in Maps /\ now \in Int
  BY DbTyped
<1>2. objs \in Maps /\ (key \in DOMAIN objs <=> Finds(Db, key, t))
  BY <1>1, GetObjectMap
<1>3. \A k \in DOMAIN objs : k \in DOMAIN Db /\ objs[k] = Db[k]
  BY <1>1, GetObjectMap
<1>4. Like(objs, Db, t)
  BY <1>1, LikeSwept
<1> HIDE DEF objs
<1>5. Promise!Db \in Maps /\ Like(Db, Promise!Db, t)
  BY <1>1, PromiseDb
<1>6. Like(objs, Promise!Db, t)
  BY <1>4, <1>5, LikeTrans
<1>7. \A u \in Int : t <= u => Like(objs, Promise!Db, u)
  BY <1>1, <1>2, <1>5, <1>6, LikeLater
<1>8. key \in DOMAIN objs <=> Promise!Exist(key, t)
  BY <1>1, <1>2, ExistFinds
<1>9. key \in DOMAIN objs => objs[key] \in Objs /\ Promise!Db[key] = objs[key]
  BY <1>1, <1>2, <1>3, ExistFinds
<1>10. key \in DOMAIN objs => key \in DOMAIN Promise!Db
  BY <1>8 DEF Promise!Exist
<1>11. ASSUME NEW u \in Int, t <= u, key \notin DOMAIN objs PROVE ~Finds(Promise!Db, key, u)
  <2>1. ~Finds(objs, key, u)
    BY <1>11 DEF Finds
  <2>2. Like(objs, Promise!Db, u)
    BY <1>7, <1>11
  <2> QED
    BY <2>1, <2>2 DEF Like
<1> QED
  BY <1>1, <1>2, <1>5, <1>7, <1>8, <1>9, <1>10, <1>11 DEF objs

\* A key that is not found may as well be erased.
LEMMA LikeGone ==
  ASSUME NEW a \in Maps, NEW b \in Maps, NEW t, Like(a, b, t), NEW key \in Keys,
         ~Finds(b, key, t)
  PROVE  Like(a, Erase(b, key), t)
<1> DEFINE q == Erase(b, key)
<1>1. DOMAIN q = DOMAIN b \ {key} /\ \A k \in DOMAIN b : k # key => q[k] = b[k]
  BY EraseMap
<1> HIDE DEF q
<1> SUFFICES ASSUME NEW k \in Keys
             PROVE  /\ Finds(a, k, t) <=> Finds(q, k, t)
                    /\ Finds(a, k, t) => a[k] = q[k]
  BY DEF Like, q
<1>2. (Finds(a, k, t) <=> Finds(b, k, t)) /\ (Finds(a, k, t) => a[k] = b[k])
  BY DEF Like
<1>3. CASE k = key
  BY <1>1, <1>2, <1>3 DEF Finds
<1>4. CASE k # key
  <2>1. (k \in DOMAIN q <=> k \in DOMAIN b) /\ (k \in DOMAIN b => q[k] = b[k])
    BY <1>1, <1>4
  <2>2. Finds(q, k, t) <=> Finds(b, k, t)
    BY <2>1, FindsSame
  <2>3. Finds(b, k, t) => k \in DOMAIN b
    BY DEF Finds
  <2> QED
    BY <1>2, <2>1, <2>2, <2>3
<1> QED
  BY <1>3, <1>4

\* A change in place is a Put.
LEMMA ChangeIsPut ==
  ASSUME NEW objs \in Maps, NEW key \in DOMAIN objs, NEW obj
  PROVE  [objs EXCEPT ![key] = obj] = Put(objs, key, obj)
<1>1. DOMAIN objs \cup {key} = DOMAIN objs
  OBVIOUS
<1>2. objs = [k \in DOMAIN objs |-> objs[k]]
  BY MapParts
<1> QED
  BY <1>1, <1>2 DEF Put

-----------------------------------------------------------------------------
(* The commands on one key (cmd/string.cpp).                                 *)

LEMMA TickStep ==
  ASSUME TypeOK, Tick
  PROVE  TypeOK' /\ Promise!Tick
<1>1. now + 1 \in now .. MaxTime /\ now \in Nat /\ reply' = reply /\ call' = call /\ now' = now + 1
  BY DEF Tick, TypeOK
<1>2. UNCHANGED <<cur_db, dbs>>
  BY DEF Tick
<1>3. Like(Db, Promise!Db, now + 1) /\ Promise!Db \in Maps /\ Db \in Maps
  BY <1>1, PromiseDb, DbTyped
<1>4. Promise!Becomes(Promise!Db)
  BY <1>1, <1>2, <1>3, Becoming DEF Db
<1>5. TypeOK'
  BY <1>1, <1>2 DEF TypeOK
<1> QED
  BY <1>1, <1>4, <1>5 DEF Promise!Tick

LEMMA RefuseStep ==
  ASSUME TypeOK, Refuse
  PROVE  TypeOK' /\ Promise!Refuse
<1>1. call' = <<"refuse">> /\ Commit(Db, <<Error>>, now)
  BY DEF Refuse
<1>2. now \in now .. MaxTime /\ <<Error>> \in Seq(Pieces)
  BY PiecesTyped DEF TypeOK
<1>3. Like(Db, Promise!Db, now) /\ Promise!Db \in Maps /\ Db \in Maps
  BY PromiseDb, DbTyped
<1>4. TypeOK' /\ Promise!Becomes(Promise!Db) /\ reply' = <<Error>>
  BY <1>1, <1>2, <1>3, Serves
<1> QED
  BY <1>1, <1>4, SameWords DEF Promise!Refuse, Promise!Replies

LEMMA SelectStep ==
  ASSUME TypeOK, NEW db \in -1 .. DbNum, Select(db)
  PROVE  TypeOK' /\ Promise!Select(db)
<1>1. Promise!Dbs = Dbs
  BY DEF Promise!Dbs, Dbs
<1>2. /\ call' = <<"select", db>>
      /\ reply' = <<Ok>> \/ reply' = <<Error>>
      /\ cur_db' = IF db \in Dbs THEN db ELSE cur_db
      /\ UNCHANGED <<now, dbs>>
  BY DEF Select
<1>3. <<Ok>> \in Seq(Pieces) /\ <<Error>> \in Seq(Pieces)
  BY PiecesTyped
<1>4. TypeOK'
  BY <1>2, <1>3 DEF TypeOK
<1>5. UNCHANGED [d \in Dbs |-> Alive(dbs[d], now)]
  BY <1>2
<1> QED
  BY <1>1, <1>2, <1>4, <1>5, SameWords DEF Promise!Select, Promise!Replies

LEMMA GetStep ==
  ASSUME TypeOK, NEW key \in Keys, Get(key)
  PROVE  TypeOK' /\ Promise!Get(key)
<1> DEFINE Found(t) == GetObject(Db, key, t)
           Said(t) == IF key \in DOMAIN Found(t) THEN Bulk(Found(t)[key].value) ELSE Null
<1>1. PICK r \in Readings(1) : Commit(Found(r[1]), <<Said(r[1])>>, r[1])
  BY DEF Get
<1> DEFINE t == r[1]
<1>2. t \in now .. MaxTime
  BY ReadingMoments
<1> HIDE DEF t
<1>3. /\ Found(t) \in Maps /\ Promise!Db \in Maps /\ Like(Found(t), Promise!Db, t)
      /\ key \in DOMAIN Found(t) <=> Promise!Exist(key, t)
      /\ key \in DOMAIN Found(t) => Found(t)[key] \in Objs /\ Promise!Db[key] = Found(t)[key]
      /\ t \in Nat
  BY <1>2, Lookup
<1> HIDE DEF Found
<1>4. Said(t) \in Pieces /\ <<Said(t)>> \in Seq(Pieces)
  BY <1>3, PiecesTyped DEF Objs
<1>5. Said(t) = Promise!Item(key, t)
  BY <1>3, SameWords DEF Promise!Item
<1> HIDE DEF Said
<1>6. TypeOK' /\ Promise!Becomes(Promise!Db) /\ now' = t /\ reply' = <<Said(t)>>
  BY <1>1, <1>2, <1>3, <1>4, Serves DEF t
<1>7. t \in Promise!Moments
  BY <1>2, <1>6, SameWords, DbTyped
<1>8. call' = <<"get", key>>
  BY DEF Get
<1> QED
  BY <1>5, <1>6, <1>7, <1>8 DEF Promise!Get, Promise!Replies

LEMMA GetDelStep ==
  ASSUME TypeOK, NEW key \in Keys, GetDel(key)
  PROVE  TypeOK' /\ Promise!GetDel(key)
<1> DEFINE Found(t) == GetObject(Db, key, t)
<1>1. PICK r \in Readings(2) :
        IF key \in DOMAIN Found(r[1])
        THEN Commit(Erase(Found(r[1]), key), <<Bulk(Found(r[1])[key].value)>>, r[2])
        ELSE Commit(Found(r[1]), <<Null>>, r[2])
  BY DEF GetDel
<1> DEFINE t == r[1]
           u == r[2]
<1>2. t \in now .. MaxTime /\ u \in now .. MaxTime /\ t <= u /\ u \in Int
  BY ReadingMoments, DbTyped
<1> HIDE DEF t, u
<1>3. /\ Found(t) \in Maps /\ Promise!Db \in Maps /\ Like(Found(t), Promise!Db, u)
      /\ key \in DOMAIN Found(t) <=> Promise!Exist(key, t)
      /\ key \in DOMAIN Found(t) => Found(t)[key] \in Objs /\ Promise!Db[key] = Found(t)[key]
      /\ key \notin DOMAIN Found(t) => ~Finds(Promise!Db, key, u)
  BY <1>2, Lookup
<1> HIDE DEF Found
<1>4. Erase(Promise!Db, key) \in Maps /\ Erase(Found(t), key) \in Maps
  BY <1>3, EraseMap
<1>5. TypeOK' /\ Promise!Becomes(Erase(Promise!Db, key)) /\ now' = u
      /\ reply' = <<Promise!Item(key, t)>>
  <2>1. CASE key \in DOMAIN Found(t)
    <3>1. Commit(Erase(Found(t), key), <<Bulk(Found(t)[key].value)>>, u)
      BY <1>1, <2>1 DEF t, u
    <3>2. Like(Erase(Found(t), key), Erase(Promise!Db, key), u)
      BY <1>3, LikeErase
    <3>3. <<Bulk(Found(t)[key].value)>> \in Seq(Pieces)
      BY <1>3, <2>1, PiecesTyped DEF Objs
    <3>4. Promise!Item(key, t) = Bulk(Found(t)[key].value)
      BY <1>3, <2>1, SameWords DEF Promise!Item
    <3> QED
      BY <1>2, <1>4, <3>1, <3>2, <3>3, <3>4, Serves
  <2>2. CASE key \notin DOMAIN Found(t)
    <3>1. Commit(Found(t), <<Null>>, u)
      BY <1>1, <2>2 DEF t, u
    <3>2. Like(Found(t), Erase(Promise!Db, key), u)
      BY <1>3, <2>2, LikeGone
    <3>3. <<Null>> \in Seq(Pieces)
      BY PiecesTyped
    <3>4. Promise!Item(key, t) = Null
      BY <1>3, <2>2, SameWords DEF Promise!Item
    <3> QED
      BY <1>2, <1>3, <1>4, <3>1, <3>2, <3>3, <3>4, Serves
  <2> QED
    BY <2>1, <2>2
<1>6. t \in Promise!Moments
  BY <1>2, <1>5, SameWords, DbTyped
<1>7. call' = <<"getdel", key>>
  BY DEF GetDel
<1> QED
  BY <1>5, <1>6, <1>7, SameWords DEF Promise!GetDel, Promise!Replies

LEMMA SetStep ==
  ASSUME TypeOK, NEW key \in Keys, NEW value \in Values, Set(key, value)
  PROVE  TypeOK' /\ Promise!Set(key, value)
<1>1. PICK r \in Readings(1) : Commit(Put(Db, key, Object(value, r[1])), <<Ok>>, r[1])
  BY DEF Set
<1> DEFINE t == r[1]
<1>2. t \in now .. MaxTime
  BY ReadingMoments
<1> HIDE DEF t
<1>3. t \in Nat /\ t \in Int /\ now <= t /\ Db \in Maps
  BY <1>2, DbTyped
<1>4. Object(value, t) \in Objs /\ Like(Db, Promise!Db, t) /\ Promise!Db \in Maps
  BY <1>3, ObjectsTyped, PromiseDb
<1> DEFINE objs == Put(Db, key, Object(value, t))
           abs == Put(Promise!Db, key, Object(value, t))
<1>5. objs \in Maps /\ abs \in Maps /\ Like(objs, abs, t)
  BY <1>3, <1>4, PutMap, LikePut
<1>6. Commit(objs, <<Ok>>, t) /\ <<Ok>> \in Seq(Pieces)
  BY <1>1, PiecesTyped DEF t
<1> HIDE DEF objs, abs
<1>7. TypeOK' /\ Promise!Becomes(abs) /\ now' = t /\ reply' = <<Ok>>
  BY <1>2, <1>5, <1>6, Serves
<1>8. t \in Promise!Moments
  BY <1>2, <1>7, SameWords, DbTyped
<1>9. call' = <<"set", key, value>>
  BY DEF Set
<1> QED
  BY <1>7, <1>8, <1>9, SameWords DEF abs, Promise!Set, Promise!Replies

LEMMA AppendStep ==
  ASSUME TypeOK, NEW key \in Keys, NEW value \in Values, AppendTo(key, value)
  PROVE  TypeOK' /\ Promise!AppendTo(key, value)
<1> DEFINE Found(t) == GetObject(Db, key, t)
<1>1. PICK r \in Readings(2) :
        IF key \in DOMAIN Found(r[1])
        THEN Commit([Found(r[1]) EXCEPT ![key].value = value], <<Int64(0)>>, r[2])
        ELSE Commit(Put(Found(r[1]), key, Object(value, r[2])), <<Int64(1)>>, r[2])
  BY DEF AppendTo
<1> DEFINE t == r[1]
           u == r[2]
<1>2. t \in now .. MaxTime /\ u \in now .. MaxTime /\ t <= u /\ u \in Nat /\ u \in Int
  BY ReadingMoments, DbTyped
<1> HIDE DEF t, u
<1>3. /\ Found(t) \in Maps /\ Promise!Db \in Maps /\ Like(Found(t), Promise!Db, u)
      /\ key \in DOMAIN Found(t) <=> Promise!Exist(key, t)
      /\ key \in DOMAIN Found(t) => /\ Found(t)[key] \in Objs
                                    /\ Promise!Db[key] = Found(t)[key]
                                    /\ key \in DOMAIN Promise!Db
  BY <1>2, Lookup
<1> HIDE DEF Found
<1>4. <<Int64(0)>> \in Seq(Pieces) /\ <<Int64(1)>> \in Seq(Pieces)
  BY PiecesTyped
<1>5. call' = <<"append", key, value>>
  BY DEF AppendTo
<1>6. CASE key \in DOMAIN Found(t)
  <2> DEFINE obj == [Found(t)[key] EXCEPT !.value = value]
  <2>1. obj \in Objs
    BY <1>2, <1>3, <1>6, ObjectsTyped
  <2>2. /\ [Found(t) EXCEPT ![key].value = value] = Put(Found(t), key, obj)
        /\ [Promise!Db EXCEPT ![key].value = value] = Put(Promise!Db, key, obj)
    <3>1. /\ [Found(t) EXCEPT ![key].value = value] = [Found(t) EXCEPT ![key] = obj]
          /\ [Promise!Db EXCEPT ![key].value = value] = [Promise!Db EXCEPT ![key] = obj]
      BY <1>3, <1>6
    <3> HIDE DEF obj
    <3> QED
      BY <1>3, <1>6, <3>1, ChangeIsPut
  <2>3. Commit(Put(Found(t), key, obj), <<Int64(0)>>, u)
    BY <1>1, <1>6, <2>2 DEF t, u
  <2> HIDE DEF obj
  <2>4. /\ Put(Found(t), key, obj) \in Maps /\ Put(Promise!Db, key, obj) \in Maps
        /\ Like(Put(Found(t), key, obj), Put(Promise!Db, key, obj), u)
    BY <1>3, <2>1, PutMap, LikePut
  <2>5. TypeOK' /\ Promise!Becomes(Put(Promise!Db, key, obj)) /\ now' = u /\ reply' = <<Int64(0)>>
    BY <1>2, <1>4, <2>3, <2>4, Serves
  <2>6. t \in Promise!Moments /\ Promise!Exist(key, t)
    BY <1>2, <1>3, <1>6, <2>5, SameWords, DbTyped
  <2>7. Len(reply') = 1 /\ reply' = <<Promise!Int64(reply'[1].n)>>
    BY <2>5, SameWords DEF Int64, Piece
  <2> QED
    BY <1>5, <2>2, <2>5, <2>6, <2>7 DEF Promise!AppendTo, Promise!Replies
<1>7. CASE key \notin DOMAIN Found(t)
  <2> DEFINE obj == Object(value, u)
  <2>1. obj \in Objs
    BY <1>2, ObjectsTyped
  <2>2. Commit(Put(Found(t), key, obj), <<Int64(1)>>, u)
    BY <1>1, <1>7 DEF t, u
  <2> HIDE DEF obj
  <2>3. /\ Put(Found(t), key, obj) \in Maps /\ Put(Promise!Db, key, obj) \in Maps
        /\ Like(Put(Found(t), key, obj), Put(Promise!Db, key, obj), u)
    BY <1>3, <2>1, PutMap, LikePut
  <2>4. TypeOK' /\ Promise!Becomes(Put(Promise!Db, key, obj)) /\ now' = u /\ reply' = <<Int64(1)>>
    BY <1>2, <1>4, <2>2, <2>3, Serves
  <2>5. t \in Promise!Moments /\ u \in Promise!Moments /\ ~Promise!Exist(key, t)
    BY <1>2, <1>3, <1>7, <2>4, SameWords, DbTyped
  <2>6. Len(reply') = 1 /\ reply' = <<Promise!Int64(reply'[1].n)>>
    BY <2>4, SameWords DEF Int64, Piece
  <2>7. Promise!Becomes(Promise!Put(Promise!Db, key, Promise!Object(value, u)))
    BY <2>4, SameWords DEF obj
  <2> QED
    BY <1>5, <2>4, <2>5, <2>6, <2>7 DEF Promise!AppendTo, Promise!Replies
<1> QED
  BY <1>6, <1>7

LEMMA IncrStep ==
  ASSUME TypeOK, NEW key \in Keys, NEW value \in Values, IncrBy(key, value)
  PROVE  TypeOK' /\ Promise!IncrBy(key, value)
<1> DEFINE Found(t) == GetObject(Db, key, t)
<1>1. PICK r \in Readings(2) :
        IF key \in DOMAIN Found(r[1])
        THEN Commit(Found(r[1]), <<Error>>, r[2])
        ELSE Commit(Put(Found(r[1]), key, Object(value, r[2])), <<Int64(1)>>, r[2])
  BY DEF IncrBy
<1> DEFINE t == r[1]
           u == r[2]
<1>2. t \in now .. MaxTime /\ u \in now .. MaxTime /\ t <= u /\ u \in Nat /\ u \in Int
  BY ReadingMoments, DbTyped
<1> HIDE DEF t, u
<1>3. /\ Found(t) \in Maps /\ Promise!Db \in Maps /\ Like(Found(t), Promise!Db, u)
      /\ key \in DOMAIN Found(t) <=> Promise!Exist(key, t)
  BY <1>2, Lookup
<1> HIDE DEF Found
<1>4. <<Error>> \in Seq(Pieces) /\ <<Int64(1)>> \in Seq(Pieces)
  BY PiecesTyped
<1>5. call' = <<"incrby", key, value>>
  BY DEF IncrBy
<1>6. CASE key \in DOMAIN Found(t)
  <2>1. Commit(Found(t), <<Error>>, u)
    BY <1>1, <1>6 DEF t, u
  <2>2. TypeOK' /\ Promise!Becomes(Promise!Db) /\ now' = u /\ reply' = <<Error>>
    BY <1>2, <1>3, <1>4, <2>1, Serves
  <2>3. t \in Promise!Moments /\ Promise!Exist(key, t)
    BY <1>2, <1>3, <1>6, <2>2, SameWords, DbTyped
  <2> QED
    BY <1>5, <2>2, <2>3, SameWords DEF Promise!IncrBy, Promise!Replies
<1>7. CASE key \notin DOMAIN Found(t)
  <2> DEFINE obj == Object(value, u)
  <2>1. obj \in Objs
    BY <1>2, ObjectsTyped
  <2>2. Commit(Put(Found(t), key, obj), <<Int64(1)>>, u)
    BY <1>1, <1>7 DEF t, u
  <2> HIDE DEF obj
  <2>3. /\ Put(Found(t), key, obj) \in Maps /\ Put(Promise!Db, key, obj) \in Maps
        /\ Like(Put(Found(t), key, obj), Put(Promise!Db, key, obj), u)
    BY <1>3, <2>1, PutMap, LikePut
  <2>4. TypeOK' /\ Promise!Becomes(Put(Promise!Db, key, obj)) /\ now' = u /\ reply' = <<Int64(1)>>
    BY <1>2, <1>4, <2>2, <2>3, Serves
  <2>5. t \in Promise!Moments /\ u \in Promise!Moments /\ ~Promise!Exist(key, t)
    BY <1>2, <1>3, <1>7, <2>4, SameWords, DbTyped
  <2>6. Promise!Becomes(Promise!Put(Promise!Db, key, Promise!Object(value, u)))
    BY <2>4, SameWords DEF obj
  <2> QED
    BY <1>5, <2>4, <2>5, <2>6, SameWords DEF Promise!IncrBy, Promise!Replies
<1> QED
  BY <1>6, <1>7

\* The lookup of every command that looks at an object and changes nothing.
LEMMA TtlStep ==
  ASSUME TypeOK, NEW key \in Keys, NEW unit \in {1, Second}, TimeToLive(key, unit)
  PROVE  TypeOK' /\ Promise!TimeToLive(key, unit)
<1> DEFINE Found(t) == GetObject(Db, key, t)
           Said(t, u) == IF key \notin DOMAIN Found(t) THEN -2
                         ELSE IF PTtl(Found(t)[key], u) = -1 THEN -1
                              ELSE PTtl(Found(t)[key], u) \div unit
<1>1. PICK r \in Readings(2) : Commit(Found(r[1]), <<Int64(Said(r[1], r[2]))>>, r[2])
  BY DEF TimeToLive
<1> DEFINE t == r[1]
           u == r[2]
<1>2. t \in now .. MaxTime /\ u \in now .. MaxTime /\ t <= u /\ u \in Int /\ t \in Int
  BY ReadingMoments, DbTyped
<1> HIDE DEF t, u
<1>3. /\ Found(t) \in Maps /\ Promise!Db \in Maps /\ Like(Found(t), Promise!Db, u)
      /\ key \in DOMAIN Found(t) <=> Promise!Exist(key, t)
      /\ key \in DOMAIN Found(t) => Found(t)[key] \in Objs /\ Promise!Db[key] = Found(t)[key]
  BY <1>2, Lookup
<1> HIDE DEF Found
<1>4. key \in DOMAIN Found(t) =>
        PTtl(Found(t)[key], u) \in Int /\ PTtl(Found(t)[key], u) = Promise!Left(Promise!Db[key], u)
  <2>1. ASSUME NEW obj \in Objs PROVE PTtl(obj, u) \in Int
    BY <1>2 DEF PTtl, Objs
  <2> QED
    BY <1>2, <1>3, <2>1, PTtlLasts
<1>5. Said(t, u) \in Int
  <2>1. unit \in Nat \ {0}
    OBVIOUS
  <2> QED
    BY <1>4, <2>1
<1>6. <<Int64(Said(t, u))>> \in Seq(Pieces)
  BY <1>5, PiecesTyped
<1>7. Commit(Found(t), <<Int64(Said(t, u))>>, u)
  BY <1>1 DEF t, u
<1>8. TypeOK' /\ Promise!Becomes(Promise!Db) /\ now' = u /\ reply' = <<Int64(Said(t, u))>>
  <2> HIDE DEF Said
  <2> QED
    BY <1>2, <1>3, <1>6, <1>7, Serves
<1>9. t \in Promise!Moments /\ u \in t .. now'
  BY <1>2, <1>8, SameWords, DbTyped
<1>10. IF Promise!Exist(key, t)
       THEN Said(t, u) = IF Promise!Left(Promise!Db[key], u) = -1 THEN -1
                         ELSE Promise!Left(Promise!Db[key], u) \div unit
       ELSE Said(t, u) = -2
  BY <1>3, <1>4
<1>11. call' = <<"ttl", key, unit>>
  BY DEF TimeToLive
<1> HIDE DEF Said
<1> QED
  BY <1>8, <1>9, <1>10, <1>11, SameWords DEF Promise!TimeToLive, Promise!Replies

LEMMA IdleStep ==
  ASSUME TypeOK, NEW key \in Keys, IdleTime(key)
  PROVE  TypeOK' /\ Promise!IdleTime(key)
<1> DEFINE Found(t) == GetObject(Db, key, t)
           Idle(t, u) == (u - Found(t)[key].access) \div Second
           Said(t, u) == IF key \in DOMAIN Found(t) THEN Int64(Idle(t, u)) ELSE Null
<1>1. PICK r \in Readings(2) : Commit(Found(r[1]), <<Said(r[1], r[2])>>, r[2])
  BY DEF IdleTime
<1> DEFINE t == r[1]
           u == r[2]
<1>2. t \in now .. MaxTime /\ u \in now .. MaxTime /\ t <= u /\ u \in Int /\ t \in Int
  BY ReadingMoments, DbTyped
<1> HIDE DEF t, u
<1>3. /\ Found(t) \in Maps /\ Promise!Db \in Maps /\ Like(Found(t), Promise!Db, u)
      /\ key \in DOMAIN Found(t) <=> Promise!Exist(key, t)
      /\ key \in DOMAIN Found(t) => Found(t)[key] \in Objs /\ Promise!Db[key] = Found(t)[key]
  BY <1>2, Lookup
<1> HIDE DEF Found
<1>4. key \in DOMAIN Found(t) => Idle(t, u) \in Int
  <2>1. Second \in Nat \ {0}
    OBVIOUS
  <2>2. key \in DOMAIN Found(t) => u - Found(t)[key].access \in Int
    BY <1>2, <1>3 DEF Objs
  <2> QED
    BY <2>1, <2>2
<1>5. <<Said(t, u)>> \in Seq(Pieces)
  <2>1. Said(t, u) \in Pieces
    <3> HIDE DEF Idle
    <3> QED
      BY <1>4, PiecesTyped
  <2> HIDE DEF Said
  <2> QED
    BY <2>1
<1>6. Commit(Found(t), <<Said(t, u)>>, u)
  BY <1>1 DEF t, u
<1>7. TypeOK' /\ Promise!Becomes(Promise!Db) /\ now' = u /\ reply' = <<Said(t, u)>>
  <2> HIDE DEF Said
  <2> QED
    BY <1>2, <1>3, <1>5, <1>6, Serves
<1>8. t \in Promise!Moments /\ u \in t .. now'
  BY <1>2, <1>7, SameWords, DbTyped
<1>9. IF Promise!Exist(key, t)
      THEN Said(t, u) = Int64((u - Promise!Db[key].access) \div Second)
      ELSE Said(t, u) = Null
  BY <1>3
<1>10. call' = <<"idletime", key>>
  BY DEF IdleTime
<1> HIDE DEF Said
<1> QED
  BY <1>7, <1>8, <1>9, <1>10, SameWords DEF Promise!IdleTime, Promise!Replies

LEMMA PersistStep ==
  ASSUME TypeOK, NEW key \in Keys, Persist(key)
  PROVE  TypeOK' /\ Promise!Persist(key)
<1> DEFINE Found(t) == GetObject(Db, key, t)
<1>1. PICK r \in Readings(2) :
        IF key \in DOMAIN Found(r[1]) /\ PTtl(Found(r[1])[key], r[2]) # -1
        THEN Commit(Put(Found(r[1]), key, SetPTtl(Found(r[1])[key], -1, r[2])), <<Int64(1)>>, r[2])
        ELSE Commit(Found(r[1]), <<Int64(0)>>, r[2])
  BY DEF Persist
<1> DEFINE t == r[1]
           u == r[2]
<1>2. t \in now .. MaxTime /\ u \in now .. MaxTime /\ t <= u /\ u \in Nat /\ u \in Int
  BY ReadingMoments, DbTyped
<1> HIDE DEF t, u
<1>3. /\ Found(t) \in Maps /\ Promise!Db \in Maps /\ Like(Found(t), Promise!Db, u)
      /\ key \in DOMAIN Found(t) <=> Promise!Exist(key, t)
      /\ key \in DOMAIN Found(t) => /\ Found(t)[key] \in Objs
                                    /\ Promise!Db[key] = Found(t)[key]
                                    /\ key \in DOMAIN Promise!Db
  BY <1>2, Lookup
<1> HIDE DEF Found
<1>4. <<Int64(0)>> \in Seq(Pieces) /\ <<Int64(1)>> \in Seq(Pieces)
  BY PiecesTyped
<1>5. call' = <<"persist", key>>
  BY DEF Persist
<1>6. key \in DOMAIN Found(t) =>
        (PTtl(Found(t)[key], u) # -1 <=> Promise!Db[key].expire # Forever)
  <2>1. ASSUME NEW obj \in Objs PROVE PTtl(obj, u) # -1 <=> obj.expire # Forever
    BY <1>2 DEF PTtl, Objs, Forever
  <2> QED
    BY <1>3, <2>1
<1>7. CASE key \in DOMAIN Found(t) /\ PTtl(Found(t)[key], u) # -1
  <2> DEFINE obj == [Found(t)[key] EXCEPT !.expire = Forever]
  <2>1. obj \in Objs /\ obj = SetPTtl(Found(t)[key], -1, u)
    BY <1>2, <1>3, <1>7, ObjectsTyped DEF SetPTtl, Forever
  <2>2. [Promise!Db EXCEPT ![key].expire = Forever] = Put(Promise!Db, key, obj)
    <3>1. [Promise!Db EXCEPT ![key].expire = Forever] = [Promise!Db EXCEPT ![key] = obj]
      BY <1>3, <1>7
    <3> HIDE DEF obj
    <3> QED
      BY <1>3, <1>7, <3>1, ChangeIsPut
  <2> HIDE DEF obj
  <2>3. Commit(Put(Found(t), key, obj), <<Int64(1)>>, u)
    BY <1>1, <1>7, <2>1 DEF t, u
  <2>4. /\ Put(Found(t), key, obj) \in Maps /\ Put(Promise!Db, key, obj) \in Maps
        /\ Like(Put(Found(t), key, obj), Put(Promise!Db, key, obj), u)
    BY <1>3, <2>1, PutMap, LikePut
  <2>5. TypeOK' /\ Promise!Becomes(Put(Promise!Db, key, obj)) /\ now' = u /\ reply' = <<Int64(1)>>
    BY <1>2, <1>4, <2>3, <2>4, Serves
  <2>6. t \in Promise!Moments /\ Promise!Exist(key, t) /\ Promise!Db[key].expire # Forever
    BY <1>2, <1>3, <1>6, <1>7, <2>5, SameWords, DbTyped
  <2>7. Promise!Becomes([Promise!Db EXCEPT ![key].expire = Promise!Forever])
    BY <2>2, <2>5, SameWords
  <2> QED
    BY <1>5, <2>5, <2>6, <2>7, SameWords DEF Promise!Persist, Promise!Replies
<1>8. CASE ~(key \in DOMAIN Found(t) /\ PTtl(Found(t)[key], u) # -1)
  <2>1. Commit(Found(t), <<Int64(0)>>, u)
    BY <1>1, <1>8 DEF t, u
  <2>2. TypeOK' /\ Promise!Becomes(Promise!Db) /\ now' = u /\ reply' = <<Int64(0)>>
    BY <1>2, <1>3, <1>4, <2>1, Serves
  <2>3. t \in Promise!Moments /\ ~(Promise!Exist(key, t) /\ Promise!Db[key].expire # Forever)
    BY <1>2, <1>3, <1>6, <1>8, <2>2, SameWords, DbTyped
  <2> QED
    BY <1>5, <2>2, <2>3, SameWords DEF Promise!Persist, Promise!Replies
<1> QED
  BY <1>7, <1>8

LEMMA RenameStep ==
  ASSUME TypeOK, NEW key \in Keys, NEW new_key \in Keys, Rename(key, new_key)
  PROVE  TypeOK' /\ Promise!Rename(key, new_key)
<1> DEFINE Found(t) == GetObject(Db, key, t)
<1>1. PICK r \in Readings(3) :
        IF key \in DOMAIN Found(r[1])
        THEN Commit(Erase(Put(Found(r[1]), new_key, Touch(Found(r[1])[key], r[2])), key), <<Ok>>, r[3])
        ELSE Commit(Found(r[1]), <<Error>>, r[3])
  BY DEF Rename
<1> DEFINE t == r[1]
           u == r[2]
           v == r[3]
<1>2. /\ t \in now .. MaxTime /\ u \in now .. MaxTime /\ v \in now .. MaxTime
      /\ t <= v /\ u <= v /\ u \in Nat /\ v \in Int
  BY ReadingMoments, DbTyped
<1> HIDE DEF t, u, v
<1>3. /\ Found(t) \in Maps /\ Promise!Db \in Maps /\ Like(Found(t), Promise!Db, v)
      /\ key \in DOMAIN Found(t) <=> Promise!Exist(key, t)
      /\ key \in DOMAIN Found(t) => Found(t)[key] \in Objs /\ Promise!Db[key] = Found(t)[key]
  BY <1>2, Lookup
<1> HIDE DEF Found
<1>4. <<Ok>> \in Seq(Pieces) /\ <<Error>> \in Seq(Pieces)
  BY PiecesTyped
<1>5. call' = <<"rename", key, new_key>>
  BY DEF Rename
<1>6. CASE key \in DOMAIN Found(t)
  <2> DEFINE obj == Touch(Found(t)[key], u)
             objs == Put(Found(t), new_key, obj)
             abs == Put(Promise!Db, new_key, obj)
  <2>1. obj \in Objs
    BY <1>2, <1>3, <1>6, ObjectsTyped
  <2>2. abs = Promise!Put(Promise!Db, new_key, Promise!Touch(Promise!Db[key], u))
    BY <1>3, <1>6, SameWords
  <2>3. Commit(Erase(objs, key), <<Ok>>, v)
    BY <1>1, <1>6 DEF t, u, v
  <2> HIDE DEF obj
  <2>4. objs \in Maps /\ abs \in Maps /\ Like(objs, abs, v)
    BY <1>3, <2>1, PutMap, LikePut
  <2> HIDE DEF objs, abs
  <2>5. Erase(objs, key) \in Maps /\ Erase(abs, key) \in Maps /\ Like(Erase(objs, key), Erase(abs, key), v)
    BY <2>4, EraseMap, LikeErase
  <2>6. TypeOK' /\ Promise!Becomes(Erase(abs, key)) /\ now' = v /\ reply' = <<Ok>>
    BY <1>2, <1>4, <2>3, <2>5, Serves
  <2>7. t \in Promise!Moments /\ u \in Promise!Moments /\ Promise!Exist(key, t)
    BY <1>2, <1>3, <1>6, <2>6, SameWords, DbTyped
  <2>8. Erase(abs, key) = Promise!Moved(key, new_key, u)
    BY <2>2, SameWords DEF Promise!Moved
  <2> QED
    BY <1>5, <2>6, <2>7, <2>8, SameWords DEF Promise!Rename, Promise!Replies
<1>7. CASE key \notin DOMAIN Found(t)
  <2>1. Commit(Found(t), <<Error>>, v)
    BY <1>1, <1>7 DEF t, v
  <2>2. TypeOK' /\ Promise!Becomes(Promise!Db) /\ now' = v /\ reply' = <<Error>>
    BY <1>2, <1>3, <1>4, <2>1, Serves
  <2>3. t \in Promise!Moments /\ ~Promise!Exist(key, t)
    BY <1>2, <1>3, <1>7, <2>2, SameWords, DbTyped
  <2> QED
    BY <1>5, <2>2, <2>3, SameWords DEF Promise!Rename, Promise!Replies
<1> QED
  BY <1>6, <1>7

LEMMA RenameNxStep ==
  ASSUME TypeOK, NEW key \in Keys, NEW new_key \in Keys, RenameNx(key, new_key)
  PROVE  TypeOK' /\ Promise!RenameNx(key, new_key)
<1> DEFINE Found(t) == GetObject(Db, key, t)
           Swept(t, u) == GetObject(Found(t), new_key, u)
<1>1. PICK r \in Readings(4) :
        IF key \notin DOMAIN Found(r[1]) THEN Commit(Found(r[1]), <<Error>>, r[4])
        ELSE IF new_key \in DOMAIN Swept(r[1], r[2])
        THEN Commit(Swept(r[1], r[2]), <<Int64(0)>>, r[4])
        ELSE Commit(Erase(Put(Swept(r[1], r[2]), new_key, Touch(Found(r[1])[key], r[3])), key),
                    <<Int64(1)>>, r[4])
  BY DEF RenameNx
<1> DEFINE t == r[1]
           u == r[2]
           w == r[3]
           v == r[4]
<1>2. /\ t \in now .. MaxTime /\ u \in now .. MaxTime /\ w \in now .. MaxTime /\ v \in now .. MaxTime
      /\ t <= u /\ u <= v /\ t <= v /\ w <= v /\ w \in Nat /\ u \in Int /\ v \in Int /\ now <= u
  BY ReadingMoments, DbTyped
<1> HIDE DEF t, u, w, v
<1>3. /\ Found(t) \in Maps /\ Promise!Db \in Maps
      /\ Like(Found(t), Promise!Db, u) /\ Like(Found(t), Promise!Db, v)
      /\ key \in DOMAIN Found(t) <=> Promise!Exist(key, t)
      /\ key \in DOMAIN Found(t) => Found(t)[key] \in Objs /\ Promise!Db[key] = Found(t)[key]
  BY <1>2, Lookup
<1> HIDE DEF Found
<1>4. /\ Swept(t, u) \in Maps /\ Like(Swept(t, u), Found(t), u)
      /\ new_key \in DOMAIN Swept(t, u) <=> Finds(Found(t), new_key, u)
  BY <1>3, GetObjectMap, LikeSwept
<1> HIDE DEF Swept
<1>5. /\ Like(Swept(t, u), Promise!Db, v)
      /\ new_key \in DOMAIN Swept(t, u) <=> Promise!Exist(new_key, u)
  <2>1. Like(Swept(t, u), Promise!Db, u)
    BY <1>3, <1>4, LikeTrans
  <2>2. Finds(Found(t), new_key, u) <=> Finds(Promise!Db, new_key, u)
    BY <1>3 DEF Like
  <2>3. Finds(Db, new_key, u) <=> Finds(Promise!Db, new_key, u)
    BY <1>2, PromiseDb DEF Like
  <2>4. Promise!Exist(new_key, u) <=> Finds(Db, new_key, u)
    BY <1>2, ExistFinds
  <2> QED
    BY <1>2, <1>3, <1>4, <2>1, <2>2, <2>3, <2>4, LikeLater
<1>6. <<Int64(0)>> \in Seq(Pieces) /\ <<Int64(1)>> \in Seq(Pieces) /\ <<Error>> \in Seq(Pieces)
  BY PiecesTyped
<1>7. call' = <<"renamenx", key, new_key>>
  BY DEF RenameNx
<1>8. CASE key \notin DOMAIN Found(t)
  <2>1. Commit(Found(t), <<Error>>, v)
    BY <1>1, <1>8 DEF t, v
  <2>2. TypeOK' /\ Promise!Becomes(Promise!Db) /\ now' = v /\ reply' = <<Error>>
    BY <1>2, <1>3, <1>6, <2>1, Serves
  <2>3. t \in Promise!Moments /\ ~Promise!Exist(key, t)
    BY <1>2, <1>3, <1>8, <2>2, SameWords, DbTyped
  <2> QED
    BY <1>7, <2>2, <2>3, SameWords DEF Promise!RenameNx, Promise!Replies
<1>9. CASE key \in DOMAIN Found(t) /\ new_key \in DOMAIN Swept(t, u)
  <2>1. Commit(Swept(t, u), <<Int64(0)>>, v)
    BY <1>1, <1>9 DEF t, u, v
  <2>2. TypeOK' /\ Promise!Becomes(Promise!Db) /\ now' = v /\ reply' = <<Int64(0)>>
    BY <1>2, <1>3, <1>4, <1>5, <1>6, <2>1, Serves
  <2>3. /\ t \in Promise!Moments /\ Promise!Exist(key, t)
        /\ u \in t .. now' /\ Promise!Exist(new_key, u)
    BY <1>2, <1>3, <1>5, <1>9, <2>2, SameWords, DbTyped
  <2> QED
    BY <1>7, <2>2, <2>3, SameWords DEF Promise!RenameNx, Promise!Replies
<1>10. CASE key \in DOMAIN Found(t) /\ new_key \notin DOMAIN Swept(t, u)
  <2> DEFINE obj == Touch(Found(t)[key], w)
             objs == Put(Swept(t, u), new_key, obj)
             abs == Put(Promise!Db, new_key, obj)
  <2>1. obj \in Objs
    BY <1>2, <1>3, <1>10, ObjectsTyped
  <2>2. abs = Promise!Put(Promise!Db, new_key, Promise!Touch(Promise!Db[key], w))
    BY <1>3, <1>10, SameWords
  <2>3. Commit(Erase(objs, key), <<Int64(1)>>, v)
    BY <1>1, <1>10 DEF t, u, w, v
  <2> HIDE DEF obj
  <2>4. objs \in Maps /\ abs \in Maps /\ Like(objs, abs, v)
    BY <1>3, <1>4, <1>5, <2>1, PutMap, LikePut
  <2> HIDE DEF objs, abs
  <2>5. Erase(objs, key) \in Maps /\ Erase(abs, key) \in Maps /\ Like(Erase(objs, key), Erase(abs, key), v)
    BY <2>4, EraseMap, LikeErase
  <2>6. TypeOK' /\ Promise!Becomes(Erase(abs, key)) /\ now' = v /\ reply' = <<Int64(1)>>
    BY <1>2, <1>6, <2>3, <2>5, Serves
  <2>7. /\ t \in Promise!Moments /\ Promise!Exist(key, t)
        /\ u \in t .. now' /\ ~Promise!Exist(new_key, u) /\ w \in Promise!Moments
    BY <1>2, <1>3, <1>5, <1>10, <2>6, SameWords, DbTyped
  <2>8. Erase(abs, key) = Promise!Moved(key, new_key, w)
    BY <2>2, SameWords DEF Promise!Moved
  <2> QED
    BY <1>7, <2>6, <2>7, <2>8, SameWords DEF Promise!RenameNx, Promise!Replies
<1> QED
  BY <1>8, <1>9, <1>10

-----------------------------------------------------------------------------
(* The EXPIRE commands.                                                      *)

Cmds == {"expire", "pexpire", "expireat", "pexpireat"}

\* Has ended at t.
Ended(e, t) == e # Forever /\ e <= t

\* The argument as SetExpire takes it (generic.cpp:60-84), as a moment: for the
\* commands with AT this is the argument itself, for the others it counts from s.
LEMMA DueTime ==
  ASSUME NEW cmd \in Cmds, NEW time \in Times, NEW s \in Int
  PROVE  LET sec == Wrap(time * Second)
             due == Promise!Due(cmd, time, s)
         IN /\ sec \in -MaxInt - 1 .. MaxInt /\ time \in -MaxInt - 1 .. MaxInt
            /\ due = CASE cmd = "expire" -> s + sec
                       [] cmd = "pexpire" -> s + time
                       [] cmd = "expireat" -> sec
                       [] cmd = "pexpireat" -> time
            /\ NewPTtl(cmd, time, s) = IF Wrap(due - s) < 0 THEN 0 ELSE Wrap(due - s)
<1> DEFINE sec == Wrap(time * Second)
           due == Promise!Due(cmd, time, s)
<1>1. time * Second \in Int /\ time \in -MaxInt - 1 .. MaxInt /\ time \in Int
  OBVIOUS
<1>2. sec \in -MaxInt - 1 .. MaxInt /\ Wrap(sec) = sec /\ Wrap(time) = time
  BY <1>1, WrapLaws
<1>3. Wrap(time * Second - s) = Wrap(sec - s)
  <2>1. /\ Wrap(time * Second + (-s)) = Wrap(sec + (-s))
        /\ -s \in Int
    BY <1>1, WrapLaws
  <2> DEFINE product == time * Second
  <2>2. product + (-s) = product - s /\ sec + (-s) = sec - s
    <3> HIDE DEF product, sec
    <3>1. product \in Int /\ sec \in Int
      BY <1>1, <1>2 DEF product
    <3> QED
      BY <3>1
  <2> QED
    BY <2>1, <2>2
<1>4. due = CASE cmd = "expire" -> s + sec
              [] cmd = "pexpire" -> s + time
              [] cmd = "expireat" -> sec
              [] cmd = "pexpireat" -> time
  BY SameWords DEF Promise!Due
<1>5. NewPTtl(cmd, time, s) = IF Wrap(due - s) < 0 THEN 0 ELSE Wrap(due - s)
  <2> DEFINE msec == CASE cmd = "expire" -> sec
                       [] cmd = "pexpire" -> time
                       [] cmd = "expireat" -> Wrap(time * Second - s)
                       [] cmd = "pexpireat" -> Wrap(time - s)
  <2>1. NewPTtl(cmd, time, s) = IF msec < 0 THEN 0 ELSE msec
    BY DEF NewPTtl
  <2>2. msec = Wrap(due - s)
    <3> HIDE DEF sec, due
    <3>1. CASE cmd = "expire"
      <4>1. due - s = sec
        BY <1>2, <1>4, <3>1
      <4> QED
        BY <1>2, <3>1, <4>1
    <3>2. CASE cmd = "pexpire"
      <4>1. due - s = time
        BY <1>1, <1>4, <3>2
      <4> QED
        BY <1>2, <3>2, <4>1
    <3>3. CASE cmd = "expireat"
      BY <1>3, <1>4, <3>3 DEF sec
    <3>4. CASE cmd = "pexpireat"
      BY <1>4, <3>4
    <3> QED
      BY <3>1, <3>2, <3>3, <3>4 DEF Cmds
  <2> QED
    BY <2>1, <2>2
<1> QED
  BY <1>1, <1>2, <1>4, <1>5

\* The expire time that SetPTtl stores at v, for a time to live that was computed
\* at s: the moment that the command means, later by no more than the command took;
\* or both are over by then.
LEMMA ExpireTime ==
  ASSUME NEW cmd \in Cmds, NEW time \in Times,
         NEW from \in Int, NEW s \in Int, NEW v \in 0 .. MaxTime,
         0 <= from, from <= s, s <= v
  PROVE  /\ NewPTtl(cmd, time, s) \in Nat
         /\ Wrap(v + NewPTtl(cmd, time, s)) \in Int
         /\ \E late \in 0 .. v - from :
              LET meant == Wrap(Promise!Due(cmd, time, from) + late)
                  set == Wrap(v + NewPTtl(cmd, time, s))
              IN meant \in Int /\ (set = meant \/ (Ended(set, v) /\ Ended(meant, v)))
<1> DEFINE sec == Wrap(time * Second)
           due == Promise!Due(cmd, time, from)
           msec == Wrap(Promise!Due(cmd, time, s) - s)
<1>1. /\ sec \in -MaxInt - 1 .. MaxInt /\ time \in -MaxInt - 1 .. MaxInt
      /\ due = CASE cmd = "expire" -> from + sec
                 [] cmd = "pexpire" -> from + time
                 [] cmd = "expireat" -> sec
                 [] cmd = "pexpireat" -> time
  BY DueTime
<1>2. /\ Promise!Due(cmd, time, s) = CASE cmd = "expire" -> s + sec
                                       [] cmd = "pexpire" -> s + time
                                       [] cmd = "expireat" -> sec
                                       [] cmd = "pexpireat" -> time
      /\ NewPTtl(cmd, time, s) = IF msec < 0 THEN 0 ELSE msec
  BY DueTime
<1> HIDE DEF sec, due
<1> DEFINE base == Promise!Due(cmd, time, s) - s
<1>3. base \in Int /\ due \in Int
  BY <1>1, <1>2 DEF Cmds
<1>4. msec \in -MaxInt - 1 .. MaxInt /\ msec = Wrap(base)
  BY <1>3, WrapLaws
<1>5. \/ base = due - from /\ cmd \in {"expire", "pexpire"} /\ base \in -MaxInt - 1 .. MaxInt
      \/ base = due - s /\ cmd \in {"expireat", "pexpireat"} /\ due \in -MaxInt - 1 .. MaxInt
  BY <1>1, <1>2 DEF Cmds
<1> HIDE DEF base, msec
<1>6. v \in Int /\ 0 <= v /\ v < MaxInt /\ s \in Int /\ from \in Int /\ 0 <= from
  OBVIOUS
<1>7. CASE msec >= 0
  <2>1. NewPTtl(cmd, time, s) = msec
    BY <1>2, <1>4, <1>7
  <2>2. Wrap(v + msec) = Wrap(v + base)
    <3>1. Wrap(Wrap(base) + v) = Wrap(base + v)
      BY <1>3, <1>6, WrapLaws
    <3> QED
      BY <1>3, <1>4, <1>6, <3>1
  <2>3. \E late \in 0 .. v - from : v + base = due + late
    <3>1. CASE base = due - from
      <4>1. v - from \in 0 .. v - from /\ v + base = due + (v - from)
        BY <1>3, <1>6, <3>1
      <4> QED
        BY <4>1
    <3>2. CASE base = due - s
      <4>1. v - s \in 0 .. v - from /\ v + base = due + (v - s)
        BY <1>3, <1>6, <3>2
      <4> QED
        BY <4>1
    <3> QED
      BY <1>5, <3>1, <3>2
  <2>4. PICK late \in 0 .. v - from : v + base = due + late
    BY <2>3
  <2>5. Wrap(v + msec) = Wrap(due + late)
    BY <2>2, <2>4
  <2>6. Wrap(v + msec) \in Int /\ msec \in Nat
    BY <1>4, <1>6, <1>7, WrapLaws
  <2>7. Wrap(due + late) \in Int /\ late \in 0 .. v - from
    BY <2>4, <2>5, <2>6
  <2> HIDE DEF due
  <2>8. \E l \in 0 .. v - from : Wrap(due + l) \in Int /\ Wrap(v + msec) = Wrap(due + l)
    BY <2>5, <2>7
  <2> QED
    BY <2>1, <2>6, <2>8 DEF due
<1>8. CASE msec < 0
  <2>1. NewPTtl(cmd, time, s) = 0
    BY <1>2, <1>8
  <2>2. Wrap(v + 0) = v
    BY <1>6, WrapLaws
  <2>3. Ended(v, v)
    BY <1>6 DEF Ended, Forever
  <2>4. due \in -MaxInt - 1 .. MaxInt /\ due <= v
    <3>1. CASE base = due - from /\ base \in -MaxInt - 1 .. MaxInt
      <4>1. Wrap(base) = base
        BY <3>1, WrapLaws
      <4> QED
        BY <1>3, <1>4, <1>6, <1>8, <3>1, <4>1
    <3>2. CASE base = due - s /\ due \in -MaxInt - 1 .. MaxInt
      <4>1. CASE base \in -MaxInt - 1 .. MaxInt
        <5>1. Wrap(base) = base
          BY <4>1, WrapLaws
        <5> QED
          BY <1>3, <1>4, <1>6, <1>8, <3>2, <5>1
      <4>2. CASE base < -MaxInt - 1
        BY <1>3, <1>6, <3>2, <4>2
      <4>3. base <= MaxInt
        BY <1>6, <3>2
      <4> QED
        BY <1>3, <4>1, <4>2, <4>3
    <3> QED
      BY <1>5, <3>1, <3>2
  <2>5. Wrap(due + 0) = due
    BY <2>4, WrapLaws
  <2>6. Ended(due, v)
    BY <1>6, <2>4 DEF Ended, Forever
  <2>7. 0 \in 0 .. v - from
    BY <1>6
  <2> QED
    BY <1>3, <1>6, <2>1, <2>2, <2>3, <2>5, <2>6, <2>7 DEF due
<1> QED
  BY <1>4, <1>7, <1>8

\* Two objects that have ended are alike.
LEMMA LikeEnded ==
  ASSUME NEW a \in Maps, NEW b \in Maps, NEW t \in Int, Like(a, b, t), NEW key \in Keys,
         NEW o \in Objs, NEW p \in Objs, Ended(o.expire, t), Ended(p.expire, t)
  PROVE  Like(Put(a, key, o), Put(b, key, p), t)
<1> DEFINE c == Put(a, key, o)
           d == Put(b, key, o)
           e == Put(b, key, p)
<1>1. c \in Maps /\ d \in Maps /\ Like(c, d, t)
  BY PutMap, LikePut
<1>2. PTtl(o, t) = 0 /\ PTtl(p, t) = 0
  BY DEF PTtl, Ended, Objs, Forever
<1>3. /\ DOMAIN d = DOMAIN b \cup {key} /\ d[key] = o
      /\ \A k \in DOMAIN b : k # key => d[k] = b[k]
  BY PutMap
<1>7. /\ DOMAIN e = DOMAIN b \cup {key} /\ e[key] = p
      /\ \A k \in DOMAIN b : k # key => e[k] = b[k]
  BY PutMap
<1> HIDE DEF c, d, e
<1>4. ASSUME NEW k \in Keys
      PROVE  (Finds(d, k, t) <=> Finds(e, k, t)) /\ (Finds(d, k, t) => d[k] = e[k])
  <2>1. CASE k = key
    BY <1>2, <1>3, <1>7, <2>1 DEF Finds
  <2>2. CASE k # key
    <3>1. (k \in DOMAIN d <=> k \in DOMAIN e) /\ (k \in DOMAIN d => d[k] = e[k])
      BY <1>3, <1>7, <2>2
    <3> QED
      BY <3>1, FindsSame DEF Finds
  <2> QED
    BY <2>1, <2>2
<1>5. Like(d, e, t)
  BY <1>4 DEF Like
<1>6. Like(c, e, t)
  BY <1>1, <1>5, LikeTrans
<1> QED
  BY <1>6 DEF c, e

LEMMA SetExpireStep ==
  ASSUME TypeOK, NEW cmd \in Cmds, NEW key \in Keys, NEW time \in Times,
         NEW opts \in SUBSET Options, SetExpire(cmd, key, time, opts)
  PROVE  TypeOK' /\ Promise!SetExpire(cmd, key, time, opts)
<1> DEFINE Found(t) == GetObject(Db, key, t)
           New(s) == NewPTtl(cmd, time, s)
           Refused == ("nx" \in opts /\ opts # {"nx"}) \/ {"gt", "lt"} \subseteq opts
<1>1. PICK r \in Readings(4) :
        IF Refused THEN Commit(Db, <<Error>>, r[4])
        ELSE IF key \notin DOMAIN Found(r[2]) THEN Commit(Found(r[2]), <<Int64(0)>>, r[4])
        ELSE IF Allowed(opts, New(r[1]), PTtl(Found(r[2])[key], r[3]))
        THEN Commit(Put(Found(r[2]), key, SetPTtl(Found(r[2])[key], New(r[1]), r[4])),
                    <<Int64(1)>>, r[4])
        ELSE Commit(Found(r[2]), <<Int64(0)>>, r[4])
  BY DEF SetExpire, Conflict
<1> DEFINE s == r[1]
           t == r[2]
           u == r[3]
           v == r[4]
<1>2. /\ s \in now .. MaxTime /\ t \in now .. MaxTime /\ u \in now .. MaxTime /\ v \in now .. MaxTime
      /\ s <= t /\ t <= u /\ u <= v /\ s <= v
      /\ s \in Int /\ t \in Int /\ u \in Int /\ v \in Int /\ v \in 0 .. MaxTime
      /\ now \in Int /\ 0 <= now /\ now <= s /\ now <= v /\ t <= v
  BY ReadingMoments, DbTyped
<1> HIDE DEF s, t, u, v
<1>3. /\ Found(t) \in Maps /\ Promise!Db \in Maps /\ Like(Found(t), Promise!Db, v)
      /\ key \in DOMAIN Found(t) <=> Promise!Exist(key, t)
      /\ key \in DOMAIN Found(t) => /\ Found(t)[key] \in Objs
                                    /\ Promise!Db[key] = Found(t)[key]
                                    /\ key \in DOMAIN Promise!Db
  BY <1>2, Lookup
<1>4. /\ <<Int64(0)>> \in Seq(Pieces) /\ <<Int64(1)>> \in Seq(Pieces) /\ <<Error>> \in Seq(Pieces)
      /\ Db \in Maps /\ Like(Db, Promise!Db, v)
  BY <1>2, PiecesTyped, DbTyped, PromiseDb
<1>5. call' = <<cmd, key, time, opts>>
  BY DEF SetExpire
<1>6. IF Refused THEN Commit(Db, <<Error>>, v)
      ELSE IF key \notin DOMAIN Found(t) THEN Commit(Found(t), <<Int64(0)>>, v)
      ELSE IF Allowed(opts, New(s), PTtl(Found(t)[key], u))
      THEN Commit(Put(Found(t), key, SetPTtl(Found(t)[key], New(s), v)), <<Int64(1)>>, v)
      ELSE Commit(Found(t), <<Int64(0)>>, v)
  BY <1>1 DEF s, t, u, v
<1> HIDE DEF Found
\* The words of the promise.
<1> DEFINE Left(w) == Promise!Wrap(Promise!Due(cmd, time, w) - w)
           Fresh(w) == IF Left(w) < 0 THEN 0 ELSE Left(w)
           Permitted(w, x) == Promise!Permits(opts, Fresh(w), Promise!Left(Promise!Db[key], x))
<1>7. New(s) = Fresh(s)
  BY <1>2, DueTime, SameWords
<1>8. key \in DOMAIN Found(t) =>
        (Allowed(opts, New(s), PTtl(Found(t)[key], u)) <=> Permitted(s, u))
  <2>1. key \in DOMAIN Found(t) => PTtl(Found(t)[key], u) = Promise!Left(Promise!Db[key], u)
    BY <1>2, <1>3, PTtlLasts
  <2> HIDE DEF New, Fresh
  <2> QED
    BY <1>7, <2>1 DEF Allowed, Promise!Permits
<1> DEFINE Answer ==
      IF Refused
      THEN Promise!Replies(Promise!Error) /\ Promise!Becomes(Promise!Db)
      ELSE \E a \in Promise!Moments : \E b \in a .. now' :
             IF ~Promise!Exist(key, b)
             THEN Promise!Replies(Promise!Int64(0)) /\ Promise!Becomes(Promise!Db)
             ELSE \E c \in b .. now' :
                    IF ~Permitted(a, c)
                    THEN Promise!Replies(Promise!Int64(0)) /\ Promise!Becomes(Promise!Db)
                    ELSE /\ Promise!Replies(Promise!Int64(1))
                         /\ \E late \in 0 .. now' - now :
                              Promise!Becomes([Promise!Db EXCEPT ![key].expire =
                                Promise!Wrap(Promise!Due(cmd, time, now) + late)])
<1>9. ASSUME TypeOK', Answer PROVE TypeOK' /\ Promise!SetExpire(cmd, key, time, opts)
  BY <1>5, <1>9 DEF Promise!SetExpire
<1> HIDE DEF New, Fresh, Left
<1>10. CASE Refused
  <2>1. TypeOK' /\ Promise!Becomes(Promise!Db) /\ reply' = <<Error>>
    <3> HIDE DEF Refused
    <3> QED
      BY <1>2, <1>3, <1>4, <1>6, <1>10, Serves
  <2> QED
    BY <1>9, <1>10, <2>1, SameWords DEF Promise!Replies
<1>11. CASE ~Refused /\ key \notin DOMAIN Found(t)
  <2>1. TypeOK' /\ Promise!Becomes(Promise!Db) /\ now' = v /\ reply' = <<Int64(0)>>
    <3> HIDE DEF Refused
    <3> QED
      BY <1>2, <1>3, <1>4, <1>6, <1>11, Serves
  <2>2. s \in Promise!Moments /\ t \in s .. now' /\ ~Promise!Exist(key, t)
    BY <1>2, <1>3, <1>11, <2>1, SameWords
  <2> HIDE DEF Refused
  <2> QED
    BY <1>9, <1>11, <2>1, <2>2, SameWords DEF Promise!Replies
<1>12. CASE ~Refused /\ key \in DOMAIN Found(t) /\ ~Permitted(s, u)
  <2>1. TypeOK' /\ Promise!Becomes(Promise!Db) /\ now' = v /\ reply' = <<Int64(0)>>
    <3> HIDE DEF Refused, Permitted
    <3> QED
      BY <1>2, <1>3, <1>4, <1>6, <1>8, <1>12, Serves
  <2>2. s \in Promise!Moments /\ t \in s .. now' /\ Promise!Exist(key, t) /\ u \in t .. now'
    BY <1>2, <1>3, <1>12, <2>1, SameWords
  <2> HIDE DEF Refused, Permitted
  <2> QED
    BY <1>9, <1>12, <2>1, <2>2, SameWords DEF Promise!Replies
<1>13. CASE ~Refused /\ key \in DOMAIN Found(t) /\ Permitted(s, u)
  <2> DEFINE set == Wrap(v + New(s))
             obj == [Found(t)[key] EXCEPT !.expire = set]
  <2>1. PICK late \in 0 .. v - now :
          LET meant == Wrap(Promise!Due(cmd, time, now) + late)
          IN meant \in Int /\ (set = meant \/ (Ended(set, v) /\ Ended(meant, v)))
    BY <1>2, ExpireTime DEF New
  <2> DEFINE meant == Wrap(Promise!Due(cmd, time, now) + late)
             abs == [Found(t)[key] EXCEPT !.expire = meant]
  <2>2. set \in Int /\ New(s) \in Nat
    BY <1>2, ExpireTime DEF New
  <2>3. SetPTtl(Found(t)[key], New(s), v) = obj
    BY <2>2 DEF SetPTtl
  <2>4. /\ late \in 0 .. v - now /\ meant \in Int
        /\ set = meant \/ (Ended(set, v) /\ Ended(meant, v))
    BY <2>1
  <2> HIDE DEF set, meant
  <2>5. obj \in Objs /\ abs \in Objs /\ obj.expire = set /\ abs.expire = meant
    BY <1>3, <1>13, <2>2, <2>4 DEF Objs
  <2>6. [Promise!Db EXCEPT ![key].expire = meant] = Put(Promise!Db, key, abs)
    <3>1. [Promise!Db EXCEPT ![key].expire = meant] = [Promise!Db EXCEPT ![key] = abs]
      BY <1>3, <1>13
    <3> HIDE DEF abs
    <3> QED
      BY <1>3, <1>13, <3>1, ChangeIsPut
  <2>7. set = meant => obj = abs
    OBVIOUS
  <2> HIDE DEF obj, abs
  <2>8. /\ Put(Found(t), key, obj) \in Maps /\ Put(Promise!Db, key, abs) \in Maps
        /\ Like(Put(Found(t), key, obj), Put(Promise!Db, key, abs), v)
    BY <1>2, <1>3, <2>4, <2>5, <2>7, PutMap, LikePut, LikeEnded
  <2>9. Commit(Put(Found(t), key, obj), <<Int64(1)>>, v)
    <3> HIDE DEF Refused, Permitted
    <3> QED
      BY <1>6, <1>8, <1>13, <2>3
  <2>10. /\ TypeOK' /\ Promise!Becomes(Put(Promise!Db, key, abs))
         /\ now' = v /\ reply' = <<Int64(1)>>
    BY <1>2, <1>4, <2>8, <2>9, Serves
  <2>11. /\ s \in Promise!Moments /\ t \in s .. now' /\ Promise!Exist(key, t) /\ u \in t .. now'
         /\ late \in 0 .. now' - now
    BY <1>2, <1>3, <1>13, <2>4, <2>10, SameWords
  <2>12. Promise!Becomes([Promise!Db EXCEPT ![key].expire =
                            Promise!Wrap(Promise!Due(cmd, time, now) + late)])
    BY <2>6, <2>10, SameWords DEF meant
  <2>13. Promise!Replies(Promise!Int64(1))
    BY <2>10, SameWords DEF Promise!Replies
  <2> HIDE DEF Refused, Permitted
  <2>14. Answer
    BY <1>13, <2>11, <2>12, <2>13
  <2> QED
    BY <1>9, <2>10, <2>14
<1> QED
  BY <1>10, <1>11, <1>12, <1>13

-----------------------------------------------------------------------------
(* The commands with several keys that look at each: MGET and EXISTS.        *)

\* The lists of a request.
LEMMA KeyList ==
  ASSUME NEW keys \in KeySeqs
  PROVE  /\ Len(keys) \in Nat \ {0} /\ Len(keys) \in Nat
         /\ keys \in [1 .. Len(keys) -> Keys]
         /\ \A i \in 1 .. Len(keys) : keys[i] \in Keys
<1>1. PICK n \in 1 .. MaxArgs : keys \in [1 .. n -> Keys]
  BY DEF KeySeqs
<1>2. n \in Nat /\ keys \in Seq(Keys)
  BY <1>1, SeqDef
<1>3. Len(keys) = n
  BY <1>1, <1>2, LenProperties
<1> QED
  BY <1>1, <1>3

\* A key that exists at a moment of a command exists at all earlier ones.
LEMMA ExistEarlier ==
  ASSUME TypeOK, NEW k \in Keys, NEW t \in Int, NEW u \in Int, now <= t, t <= u,
         Promise!Exist(k, u)
  PROVE  Promise!Exist(k, t)
<1>1. Finds(Db, k, u) /\ Db \in Maps
  BY ExistFinds, DbTyped
<1>2. Finds(Db, k, t)
  BY <1>1, FindsEarlier
<1> QED
  BY <1>2, ExistFinds

\* The databases that the loop of MGET or EXISTS goes through.
Looks(keys, r) ==
  LET after[i \in 0 .. Len(keys)] ==
        IF i = 0 THEN Db ELSE GetObject(after[i - 1], keys[i], r[i])
  IN after

LEMMA LooksRun ==
  ASSUME TypeOK, NEW keys \in KeySeqs, NEW r \in Readings(Len(keys))
  PROVE  /\ Looks(keys, r)[0] = Db
         /\ \A i \in 1 .. Len(keys) :
              Looks(keys, r)[i] = GetObject(Looks(keys, r)[i - 1], keys[i], r[i])
<1> DEFINE n == Len(keys)
           F == [p \in Maps \X (1 .. n) |-> GetObject(p[1], keys[p[2]], r[p[2]])]
           after[i \in 0 .. n] == IF i = 0 THEN Db ELSE GetObject(after[i - 1], keys[i], r[i])
<1>1. n \in Nat /\ Db \in Maps /\ \A i \in 1 .. n : keys[i] \in Keys
  BY KeyList, DbTyped
<1>2. F \in [Maps \X (1 .. n) -> Maps]
  <2>1. \A p \in Maps \X (1 .. n) : GetObject(p[1], keys[p[2]], r[p[2]]) \in Maps
    BY <1>1, GetObjectMap
  <2> QED
    BY <2>1
<1>3. PICK f \in [0 .. n -> Maps] :
        Follows(f, Db, F, n)
  <2> HIDE DEF F, n
  <2> QED
    BY <1>1, <1>2, ListRecursion
<1>4. f = [i \in 0 .. n |-> IF i = 0 THEN Db ELSE GetObject(f[i - 1], keys[i], r[i])]
  <2>1. ASSUME NEW i \in 1 .. n
        PROVE  f[i] = GetObject(f[i - 1], keys[i], r[i])
    <3>1. i - 1 \in 0 .. n
      BY <1>1, <2>1
    <3>2. <<f[i - 1], i>> \in Maps \X (1 .. n)
      BY <3>1
    <3> QED
      BY <1>3, <3>2 DEF Follows
  <2> DEFINE G(i) == GetObject(f[i - 1], keys[i], r[i])
  <2>2. \A i \in 1 .. n : f[i] = G(i)
    BY <2>1
  <2> HIDE DEF F, n, G
  <2>3. f = [i \in 0 .. n |-> IF i = 0 THEN Db ELSE G(i)]
    BY <1>1, <1>3, <2>2 DEF Follows
  <2> QED
    BY <2>3 DEF G
<1>5. after = [i \in 0 .. n |-> IF i = 0 THEN Db ELSE GetObject(after[i - 1], keys[i], r[i])]
  BY <1>4, Zenon
<1>6. Looks(keys, r) = after
  BY DEF Looks
<1> HIDE DEF after
<1> QED
  BY <1>1, <1>5, <1>6

\* They only lose keys that have expired, so that each lookup finds what it would
\* find in the database that the command began with.
LEMMA LooksLike ==
  ASSUME TypeOK, NEW keys \in KeySeqs, NEW r \in Readings(Len(keys))
  PROVE  /\ \A i \in 1 .. Len(keys) :
              /\ keys[i] \in DOMAIN Looks(keys, r)[i] <=> Promise!Exist(keys[i], r[i])
              /\ keys[i] \in DOMAIN Looks(keys, r)[i] =>
                   /\ Looks(keys, r)[i][keys[i]] = Promise!Db[keys[i]]
                   /\ Promise!Db[keys[i]] \in Objs
         /\ Looks(keys, r)[Len(keys)] \in Maps
         /\ Like(Looks(keys, r)[Len(keys)], Promise!Db, r[Len(keys)])
<1> DEFINE n == Len(keys)
           after == Looks(keys, r)
           Kept(m) == /\ after[m] \in Maps
                      /\ \A k \in DOMAIN after[m] : k \in DOMAIN Db /\ after[m][k] = Db[k]
                      /\ \A k \in DOMAIN Db \ DOMAIN after[m] :
                           \E j \in 1 .. m : ~Finds(Db, k, r[j])
           S == {m \in 0 .. n : Kept(m)}
<1>1. /\ n \in Nat /\ n \in 1 .. n /\ Db \in Maps /\ \A i \in 1 .. n : keys[i] \in Keys
      /\ DOMAIN Db \subseteq Keys /\ now \in Int
  BY KeyList, DbTyped, MapParts
<1>2. /\ \A i \in 1 .. n : r[i] \in now .. MaxTime /\ r[i] \in Int /\ now <= r[i]
      /\ \A i, j \in 1 .. n : i <= j => r[i] <= r[j]
  BY <1>1, ReadingMoments
<1>3. after[0] = Db /\ \A i \in 1 .. n : after[i] = GetObject(after[i - 1], keys[i], r[i])
  BY LooksRun
<1> HIDE DEF n, after
<1>4. ASSUME NEW m \in 0 .. n, Kept(m), NEW i \in m .. n, i # 0, NEW k \in Keys
      PROVE  Finds(after[m], k, r[i]) <=> Finds(Db, k, r[i])
  <2>1. Finds(after[m], k, r[i]) => k \in DOMAIN after[m]
    BY DEF Finds
  <2>2. Finds(Db, k, r[i]) => k \in DOMAIN after[m]
    <3>1. SUFFICES ASSUME Finds(Db, k, r[i]), k \notin DOMAIN after[m] PROVE FALSE
      OBVIOUS
    <3>2. PICK j \in 1 .. m : ~Finds(Db, k, r[j])
      BY <1>4, <3>1 DEF Finds
    <3>3. i \in 1 .. n /\ j \in 1 .. n /\ j <= i
      BY <1>1, <1>4, <3>2
    <3>4. r[j] <= r[i] /\ r[j] \in Int /\ r[i] \in Int
      BY <1>2, <3>3
    <3>5. Finds(Db, k, r[j])
      BY <1>1, <3>1, <3>4, FindsEarlier
    <3> QED
      BY <3>2, <3>5
  <2>3. k \in DOMAIN after[m] => k \in DOMAIN Db /\ after[m][k] = Db[k]
    BY <1>4
  <2> QED
    BY <2>1, <2>2, <2>3 DEF Finds
<1>5. 0 \in S
  BY <1>1, <1>3
<1>6. ASSUME NEW m \in 1 .. n, m - 1 \in S PROVE m \in S
  <2>1. Kept(m - 1) /\ m - 1 \in 0 .. n /\ m \in m - 1 .. n /\ keys[m] \in Keys
    BY <1>1, <1>6
  <2>2. after[m] = GetObject(after[m - 1], keys[m], r[m])
    BY <1>3
  <2>3. /\ after[m] \in Maps /\ DOMAIN after[m] \subseteq DOMAIN after[m - 1]
        /\ \A k \in DOMAIN after[m - 1] : k # keys[m] => k \in DOMAIN after[m]
        /\ \A k \in DOMAIN after[m] : after[m][k] = after[m - 1][k]
        /\ keys[m] \in DOMAIN after[m] <=> Finds(after[m - 1], keys[m], r[m])
    BY <2>1, <2>2, GetObjectMap
  <2>4. Finds(after[m - 1], keys[m], r[m]) <=> Finds(Db, keys[m], r[m])
    BY <1>4, <2>1
  <2>5. ASSUME NEW k \in DOMAIN Db \ DOMAIN after[m]
        PROVE  \E j \in 1 .. m : ~Finds(Db, k, r[j])
    <3>1. CASE k \in DOMAIN after[m - 1]
      <4>1. k = keys[m] /\ m \in 1 .. m
        BY <2>3, <2>5, <3>1
      <4> QED
        BY <2>3, <2>4, <2>5, <4>1
    <3>2. CASE k \notin DOMAIN after[m - 1]
      <4>1. PICK j \in 1 .. m - 1 : ~Finds(Db, k, r[j])
        BY <2>1, <3>2
      <4>2. j \in 1 .. m
        BY <4>1
      <4> QED
        BY <4>1, <4>2
    <3> QED
      BY <3>1, <3>2
  <2>6. Kept(m)
    BY <2>1, <2>3, <2>5
  <2> QED
    BY <2>6
<1>7. \A m \in 0 .. n : Kept(m)
  <2> HIDE DEF Kept
  <2>1. \A m \in 0 .. n : m \in S
    <3> HIDE DEF S
    <3> QED
      BY <1>1, <1>5, <1>6, Induct
  <2> QED
    BY <2>1
<1>8. ASSUME NEW i \in 1 .. n
      PROVE  /\ keys[i] \in DOMAIN after[i] <=> Promise!Exist(keys[i], r[i])
             /\ keys[i] \in DOMAIN after[i] => /\ after[i][keys[i]] = Promise!Db[keys[i]]
                                               /\ Promise!Db[keys[i]] \in Objs
  <2>1. i \in 0 .. n /\ i - 1 \in 0 .. n /\ i \in i - 1 .. n /\ keys[i] \in Keys
    BY <1>1
  <2>2. Kept(i) /\ Kept(i - 1)
    BY <1>7, <2>1
  <2>3. keys[i] \in DOMAIN after[i] <=> Finds(after[i - 1], keys[i], r[i])
    BY <1>3, <2>1, <2>2, GetObjectMap
  <2>4. Finds(after[i - 1], keys[i], r[i]) <=> Finds(Db, keys[i], r[i])
    BY <1>4, <2>1, <2>2
  <2>5. /\ Promise!Exist(keys[i], r[i]) <=> Finds(Db, keys[i], r[i])
        /\ Finds(Db, keys[i], r[i]) => Db[keys[i]] \in Objs /\ Promise!Db[keys[i]] = Db[keys[i]]
    BY <1>2, <2>1, ExistFinds
  <2>6. keys[i] \in DOMAIN after[i] => after[i][keys[i]] = Db[keys[i]]
    BY <2>2
  <2> QED
    BY <2>3, <2>4, <2>5, <2>6
<1>9. after[n] \in Maps /\ Like(after[n], Promise!Db, r[n])
  <2>1. n \in 0 .. n /\ n \in n .. n /\ n # 0
    BY <1>1
  <2>2. Kept(n)
    BY <1>7, <2>1
  <2>3. \A k \in Keys : Finds(after[n], k, r[n]) <=> Finds(Db, k, r[n])
    BY <1>4, <2>1, <2>2
  <2>4. \A k \in Keys : Finds(after[n], k, r[n]) => after[n][k] = Db[k]
    BY <2>2 DEF Finds
  <2>5. Like(after[n], Db, r[n])
    BY <2>3, <2>4 DEF Like
  <2>6. Like(Db, Promise!Db, r[n])
    BY <1>1, <1>2, PromiseDb
  <2> QED
    BY <2>2, <2>5, <2>6, LikeTrans
<1> QED
  BY <1>8, <1>9 DEF n, after

\* The last reading is the end of the command.
LEMMA LastReading ==
  ASSUME TypeOK, NEW n \in Nat \ {0}, NEW r \in Readings(n)
  PROVE  /\ r[n] \in now .. MaxTime /\ r[n] \in Int /\ now \in Int /\ now <= r[n]
         /\ \A i \in 1 .. n : r[i] \in now .. r[n] /\ r[i] \in Int /\ r[i] \in Nat
<1>1. /\ \A i \in 1 .. n : r[i] \in now .. MaxTime
      /\ \A i, j \in 1 .. n : i <= j => r[i] <= r[j]
  BY ReadingMoments
<1>2. n \in 1 .. n /\ \A i \in 1 .. n : i <= n
  OBVIOUS
<1> QED
  BY <1>1, <1>2, DbTyped

LEMMA MGetStep ==
  ASSUME TypeOK, NEW keys \in KeySeqs, MGet(keys)
  PROVE  TypeOK' /\ Promise!MGet(keys)
<1> DEFINE n == Len(keys)
           After(r) == Looks(keys, r)
           Said(r, i) == IF keys[i] \in DOMAIN After(r)[i]
                         THEN Bulk(After(r)[i][keys[i]].value) ELSE Null
           Items(r) == [i \in 1 .. n |-> Said(r, i)]
<1>1. PICK r \in Readings(n) : Commit(After(r)[n], <<Array(n)>> \o Items(r), r[n])
  BY DEF MGet, Looks
<1>2. /\ n \in Nat \ {0} /\ n \in Nat /\ \A i \in 1 .. n : keys[i] \in Keys
      /\ r[n] \in now .. MaxTime /\ \A i \in 1 .. n : r[i] \in now .. r[n]
  BY KeyList, LastReading
<1>3. /\ \A i \in 1 .. n :
           /\ keys[i] \in DOMAIN After(r)[i] <=> Promise!Exist(keys[i], r[i])
           /\ keys[i] \in DOMAIN After(r)[i] => /\ After(r)[i][keys[i]] = Promise!Db[keys[i]]
                                                /\ Promise!Db[keys[i]] \in Objs
      /\ After(r)[n] \in Maps /\ Like(After(r)[n], Promise!Db, r[n])
  BY LooksLike
<1> HIDE DEF After
<1>4. ASSUME NEW i \in 1 .. n
      PROVE  Said(r, i) = Promise!Item(keys[i], r[i]) /\ Said(r, i) \in Pieces
  BY <1>3, SameWords, PiecesTyped DEF Promise!Item, Objs
<1> HIDE DEF Said
<1>5. Items(r) \in [1 .. n -> Pieces] /\ \A i \in 1 .. n : Items(r)[i] = Said(r, i)
  BY <1>4
<1> HIDE DEF Items
<1>6. Items(r) \in Seq(Pieces) /\ Len(Items(r)) = n
  BY <1>2, <1>5, SeqDef
<1> DEFINE head == <<Array(n)>>
           pieces == head \o Items(r)
<1>7. head \in Seq(Pieces) /\ Len(head) = 1 /\ head[1] = Array(n)
  BY <1>2, PiecesTyped
<1> HIDE DEF head
<1>8. /\ pieces \in Seq(Pieces) /\ Len(pieces) = n + 1
      /\ pieces[1] = Array(n) /\ \A i \in 1 .. n : pieces[i + 1] = Said(r, i)
  <2>1. /\ pieces \in Seq(Pieces) /\ Len(pieces) = 1 + n
        /\ \A i \in 1 .. 1 + n : pieces[i] = IF i <= 1 THEN head[i] ELSE Items(r)[i - 1]
    <3> DEFINE items == Items(r)
    <3>1. items \in Seq(Pieces) /\ Len(items) = n /\ pieces = head \o items
      BY <1>6
    <3> HIDE DEF items, pieces
    <3>2. /\ head \o items \in Seq(Pieces)
          /\ Len(head \o items) = Len(head) + Len(items)
          /\ \A i \in 1 .. Len(head) + Len(items) :
               (head \o items)[i] = IF i <= Len(head) THEN head[i] ELSE items[i - Len(head)]
      BY <1>7, <3>1, ConcatProperties
    <3> QED
      BY <1>7, <3>1, <3>2 DEF items
  <2> HIDE DEF pieces
  <2>2. pieces[1] = Array(n)
    BY <1>2, <1>7, <2>1
  <2>3. ASSUME NEW i \in 1 .. n PROVE pieces[i + 1] = Said(r, i)
    <3>1. i + 1 \in 1 .. 1 + n /\ ~(i + 1 <= 1) /\ (i + 1) - 1 = i
      BY <1>2
    <3> QED
      BY <1>5, <2>1, <3>1
  <2> QED
    BY <1>2, <2>1, <2>2, <2>3
<1>9. Commit(After(r)[n], pieces, r[n])
  BY <1>1 DEF head
<1> HIDE DEF pieces
<1>10. Promise!Db \in Maps
  BY PromiseDb
<1>11. TypeOK' /\ Promise!Becomes(Promise!Db) /\ now' = r[n] /\ reply' = pieces
  BY <1>2, <1>3, <1>8, <1>9, <1>10, Serves
<1>12. ASSUME NEW i \in 1 .. n
       PROVE  \E t \in Promise!Moments : reply'[i + 1] = Promise!Item(keys[i], t)
  <2>1. r[i] \in Promise!Moments
    BY <1>2, <1>11, SameWords
  <2> QED
    BY <1>4, <1>8, <1>11, <2>1
<1>13. reply'[1] = Promise!Piece("array", n, NoValue) /\ Len(reply') = n + 1
  BY <1>8, <1>11 DEF Promise!Piece, Array, Piece
<1>14. call' = <<"mget", keys>>
  BY DEF MGet
<1> QED
  BY <1>11, <1>12, <1>13, <1>14 DEF Promise!MGet

\* A set has as many elements for Store as for Keyspace.
LEMMA SameCardinality == \A S : Promise!Cardinality(S) = Cardinality(S)
  BY Zenon DEF Promise!Cardinality, Cardinality

\* A count of keys that are looked for at moments of the command, each at its own.
LEMMA Counting ==
  ASSUME TypeOK, NEW keys \in KeySeqs, NEW t \in Int, now <= t,
         NEW at \in [1 .. Len(keys) -> now .. t],
         NEW found, found = {i \in 1 .. Len(keys) : Promise!Exist(keys[i], at[i])}
  PROVE  /\ Cardinality(found) \in Int
         /\ Promise!Count(keys, t) <= Cardinality(found)
         /\ Cardinality(found) <= Promise!Count(keys, now)
<1> DEFINE n == Len(keys)
           At(u) == {i \in 1 .. n : Promise!Exist(keys[i], u)}
<1>1. n \in Nat /\ now \in Int /\ \A i \in 1 .. n : keys[i] \in Keys /\ at[i] \in now .. t
  BY KeyList, DbTyped
<1>2. ASSUME NEW u PROVE Promise!Count(keys, u) = Cardinality(At(u))
  BY SameCardinality, Zenon DEF Promise!Count
<1>3. found \subseteq 1 .. n /\ \A i \in 1 .. n : i \in found <=> Promise!Exist(keys[i], at[i])
  OBVIOUS
<1>4. \A u : At(u) \subseteq 1 .. n /\ \A i \in 1 .. n : i \in At(u) <=> Promise!Exist(keys[i], u)
  OBVIOUS
<1> HIDE DEF At, n
<1>5. At(t) \subseteq found
  <2> SUFFICES ASSUME NEW i \in 1 .. n, Promise!Exist(keys[i], t)
               PROVE  Promise!Exist(keys[i], at[i])
    BY <1>3, <1>4
  <2>1. at[i] \in Int /\ now <= at[i] /\ at[i] <= t /\ keys[i] \in Keys
    BY <1>1
  <2> QED
    BY <2>1, ExistEarlier
<1>6. found \subseteq At(now)
  <2> SUFFICES ASSUME NEW i \in 1 .. n, Promise!Exist(keys[i], at[i])
               PROVE  Promise!Exist(keys[i], now)
    BY <1>3, <1>4
  <2>1. at[i] \in Int /\ now <= at[i] /\ keys[i] \in Keys /\ now <= now
    BY <1>1
  <2> QED
    BY <1>1, <2>1, ExistEarlier
<1>7. IsFiniteSet(1 .. n)
  BY <1>1, FS_Interval
<1>8. IsFiniteSet(At(now)) /\ IsFiniteSet(found)
  BY <1>3, <1>4, <1>7, FS_Subset
<1>9. Cardinality(At(t)) <= Cardinality(found) /\ Cardinality(found) <= Cardinality(At(now))
  BY <1>5, <1>6, <1>8, FS_Subset
<1>10. Cardinality(found) \in Nat
  BY <1>8, FS_CardinalityType
<1> QED
  BY <1>2, <1>9, <1>10

LEMMA CountReplied ==
  ASSUME TypeOK, NEW keys \in KeySeqs, NEW t \in Int, now <= t,
         NEW at \in [1 .. Len(keys) -> now .. t],
         NEW found, found = {i \in 1 .. Len(keys) : Promise!Exist(keys[i], at[i])}
  PROVE  /\ <<Int64(Cardinality(found))>> \in Seq(Pieces)
         /\ reply' = <<Int64(Cardinality(found))>> /\ now' = t => Promise!Counted(keys)
<1> DEFINE c == Cardinality(found)
<1>1. c \in Int /\ Promise!Count(keys, t) <= c /\ c <= Promise!Count(keys, now)
  BY Counting
<1> HIDE DEF c
<1>2. <<Int64(c)>> \in Seq(Pieces)
  BY <1>1, PiecesTyped
<1>3. Len(<<Int64(c)>>) = 1 /\ <<Int64(c)>>[1].n = c
  BY DEF Int64, Piece
<1>4. ASSUME reply' = <<Int64(c)>>, now' = t PROVE Promise!Counted(keys)
  <2>1. Len(reply') = 1 /\ reply'[1].n = c
    BY <1>3, <1>4
  <2>2. reply' = <<Promise!Int64(reply'[1].n)>>
    BY <1>4, <2>1, SameWords
  <2> QED
    BY <1>1, <1>4, <2>1, <2>2 DEF Promise!Counted, Promise!Replies
<1> QED
  BY <1>2, <1>4 DEF c

LEMMA ExistsStep ==
  ASSUME TypeOK, NEW keys \in KeySeqs, Exists(keys)
  PROVE  TypeOK' /\ Promise!Exists(keys)
<1> DEFINE n == Len(keys)
           After(r) == Looks(keys, r)
           Found(r) == {i \in 1 .. n : keys[i] \in DOMAIN After(r)[i]}
<1>1. PICK r \in Readings(n) : Commit(After(r)[n], <<Int64(Cardinality(Found(r)))>>, r[n])
  BY DEF Exists, Looks
<1>2. /\ n \in Nat \ {0} /\ r[n] \in now .. MaxTime /\ r[n] \in Int /\ now <= r[n]
      /\ \A i \in 1 .. n : r[i] \in now .. r[n]
  BY KeyList, LastReading
<1>3. /\ \A i \in 1 .. n : keys[i] \in DOMAIN After(r)[i] <=> Promise!Exist(keys[i], r[i])
      /\ After(r)[n] \in Maps /\ Like(After(r)[n], Promise!Db, r[n])
  BY LooksLike
<1> HIDE DEF After
<1> DEFINE at == [i \in 1 .. n |-> r[i]]
           found == Found(r)
<1>4. at \in [1 .. n -> now .. r[n]] /\ \A i \in 1 .. n : at[i] = r[i]
  BY <1>2
<1>5. found = {i \in 1 .. n : Promise!Exist(keys[i], at[i])}
  BY <1>3, <1>4
<1>6. Commit(After(r)[n], <<Int64(Cardinality(found))>>, r[n])
  BY <1>1
<1> HIDE DEF at, found, Found
<1>7. /\ <<Int64(Cardinality(found))>> \in Seq(Pieces)
      /\ reply' = <<Int64(Cardinality(found))>> /\ now' = r[n] => Promise!Counted(keys)
  BY <1>2, <1>4, <1>5, CountReplied
<1>8. /\ TypeOK' /\ Promise!Becomes(Promise!Db) /\ now' = r[n]
      /\ reply' = <<Int64(Cardinality(found))>>
  BY <1>2, <1>3, <1>6, <1>7, PromiseDb, Serves
<1>9. call' = <<"exists", keys>>
  BY DEF Exists
<1> QED
  BY <1>7, <1>8, <1>9 DEF Promise!Exists

-----------------------------------------------------------------------------
(* TOUCH, whose loop changes what it finds.                                  *)

\* One turn of the loop.
TouchOne(objs, key, t, u) ==
  LET swept == GetObject(objs, key, t)
  IN IF key \in DOMAIN swept THEN Put(swept, key, Touch(swept[key], u)) ELSE swept

LEMMA TouchOneMap ==
  ASSUME NEW objs \in Maps, NEW key \in Keys, NEW t, NEW u \in Nat
  PROVE  LET one == TouchOne(objs, key, t, u)
         IN /\ one \in Maps /\ DOMAIN one \subseteq DOMAIN objs
            /\ \A k \in DOMAIN objs : k # key => k \in DOMAIN one /\ one[k] = objs[k]
            /\ key \in DOMAIN one <=> Finds(objs, key, t)
            /\ key \in DOMAIN one => one[key] = Touch(objs[key], u)
<1> DEFINE swept == GetObject(objs, key, t)
           one == TouchOne(objs, key, t, u)
<1>1. /\ swept \in Maps /\ DOMAIN swept \subseteq DOMAIN objs
      /\ \A k \in DOMAIN objs : k # key => k \in DOMAIN swept
      /\ \A k \in DOMAIN swept : swept[k] = objs[k]
      /\ key \in DOMAIN swept <=> Finds(objs, key, t)
  BY GetObjectMap
<1>2. one = IF key \in DOMAIN swept THEN Put(swept, key, Touch(swept[key], u)) ELSE swept
  BY DEF TouchOne
<1> HIDE DEF swept, one
<1>3. CASE key \in DOMAIN swept
  <2> DEFINE obj == Touch(swept[key], u)
  <2>1. swept[key] \in Objs /\ obj \in Objs
    BY <1>1, <1>3, MapParts, ObjectsTyped
  <2>2. one = Put(swept, key, obj) /\ obj = Touch(objs[key], u)
    BY <1>1, <1>2, <1>3
  <2> HIDE DEF obj
  <2> DEFINE put == Put(swept, key, obj)
  <2>3. /\ put \in Maps /\ DOMAIN put = DOMAIN swept \cup {key} /\ put[key] = obj
        /\ \A k \in DOMAIN swept : k # key => put[k] = swept[k]
    BY <1>1, <2>1, PutMap
  <2>4. one = put
    BY <2>2
  <2> HIDE DEF put
  <2> QED
    BY <1>1, <1>3, <2>2, <2>3, <2>4 DEF one
<1>4. CASE key \notin DOMAIN swept
  <2>1. one = swept
    BY <1>2, <1>4
  <2> QED
    BY <1>1, <1>4, <2>1 DEF one
<1> QED
  BY <1>3, <1>4

\* The databases that the loop goes through.
Touches(keys, r) ==
  LET after[i \in 0 .. Len(keys)] ==
        IF i = 0 THEN Db
        ELSE TouchOne(after[i - 1], keys[i], r[2 * i - 1], r[2 * i])
  IN after

\* The readings that a turn of a loop takes, two each.
LEMMA ReadingPairs ==
  ASSUME TypeOK, NEW n \in Nat \ {0}, NEW r \in Readings(2 * n)
  PROVE  /\ r[2 * n] \in now .. MaxTime /\ r[2 * n] \in Int /\ now \in Int /\ now <= r[2 * n]
         /\ \A i \in 1 .. n : /\ r[2 * i] \in now .. r[2 * n] /\ r[2 * i] \in Nat
                              /\ r[2 * i - 1] \in now .. r[2 * n] /\ r[2 * i - 1] \in Nat
         /\ \A i, j \in 1 .. n : i <= j => r[2 * i - 1] <= r[2 * j - 1]
         /\ \A i \in 1 .. n : r[2 * i - 1] <= r[2 * i]
<1> DEFINE N == 2 * n
<1>1. N \in Nat \ {0} /\ N \in Nat
  OBVIOUS
<1>2. \A i \in 1 .. n : 2 * i \in 1 .. N /\ 2 * i - 1 \in 1 .. N /\ 2 * i - 1 <= 2 * i
  OBVIOUS
<1>3. \A i, j \in 1 .. n : i <= j => 2 * i - 1 <= 2 * j - 1
  OBVIOUS
<1> HIDE DEF N
<1>4. r \in Readings(N)
  BY DEF N
<1>5. /\ r[N] \in now .. MaxTime /\ r[N] \in Int /\ now \in Int /\ now <= r[N]
      /\ \A i \in 1 .. N : r[i] \in now .. r[N] /\ r[i] \in Int /\ r[i] \in Nat
  BY <1>1, <1>4, LastReading
<1>6. \A i, j \in 1 .. N : i <= j => r[i] <= r[j]
  BY <1>1, <1>4, ReadingMoments
<1> QED
  BY <1>2, <1>3, <1>5, <1>6 DEF N

LEMMA TouchesRun ==
  ASSUME TypeOK, NEW keys \in KeySeqs, NEW r \in Readings(2 * Len(keys))
  PROVE  /\ Touches(keys, r)[0] = Db
         /\ \A i \in 1 .. Len(keys) :
              Touches(keys, r)[i] =
                TouchOne(Touches(keys, r)[i - 1], keys[i], r[2 * i - 1], r[2 * i])
<1> DEFINE n == Len(keys)
           Round(objs, i) == TouchOne(objs, keys[i], r[2 * i - 1], r[2 * i])
           F == [p \in Maps \X (1 .. n) |-> Round(p[1], p[2])]
           after[i \in 0 .. n] == IF i = 0 THEN Db ELSE Round(after[i - 1], i)
<1>1. n \in Nat /\ n \in Nat \ {0} /\ Db \in Maps /\ \A i \in 1 .. n : keys[i] \in Keys
  BY KeyList, DbTyped
<1>2. \A i \in 1 .. n : r[2 * i] \in Nat
  BY <1>1, ReadingPairs
<1>3. F \in [Maps \X (1 .. n) -> Maps]
  <2>1. ASSUME NEW objs \in Maps, NEW i \in 1 .. n PROVE Round(objs, i) \in Maps
    BY <1>1, <1>2, TouchOneMap
  <2> HIDE DEF Round, n
  <2>2. \A p \in Maps \X (1 .. n) : Round(p[1], p[2]) \in Maps
    BY <2>1
  <2> QED
    BY <2>2
<1>4. PICK f \in [0 .. n -> Maps] : Follows(f, Db, F, n)
  <2> HIDE DEF F, n
  <2> QED
    BY <1>1, <1>3, ListRecursion
<1>5. f = [i \in 0 .. n |-> IF i = 0 THEN Db ELSE Round(f[i - 1], i)]
  <2> HIDE DEF Round
  <2>1. ASSUME NEW i \in 1 .. n PROVE f[i] = Round(f[i - 1], i)
    <3>1. i - 1 \in 0 .. n
      BY <1>1, <2>1
    <3>2. <<f[i - 1], i>> \in Maps \X (1 .. n)
      BY <3>1
    <3> QED
      BY <1>4, <3>2 DEF Follows
  <2> DEFINE G(i) == Round(f[i - 1], i)
  <2>2. \A i \in 1 .. n : f[i] = G(i)
    BY <2>1
  <2> HIDE DEF F, n, G
  <2>3. f = [i \in 0 .. n |-> IF i = 0 THEN Db ELSE G(i)]
    BY <1>1, <1>4, <2>2 DEF Follows
  <2> QED
    BY <2>3 DEF G
<1>6. after = [i \in 0 .. n |-> IF i = 0 THEN Db ELSE Round(after[i - 1], i)]
  BY <1>5, Zenon
<1>7. Touches(keys, r) = after
  BY DEF Touches
<1> HIDE DEF after
<1> QED
  BY <1>1, <1>6, <1>7

\* A touch does not change when an object expires, and the last one counts.
LEMMA TouchLaws ==
  ASSUME NEW o \in Objs, NEW a, NEW b, NEW t
  PROVE  /\ PTtl(Touch(o, a), t) = PTtl(o, t)
         /\ Touch(Touch(o, a), b) = Touch(o, b)
  BY DEF Touch, PTtl, Objs

\* They lose only keys that have expired, and touch those they keep.
LEMMA TouchesKeep ==
  ASSUME TypeOK, NEW keys \in KeySeqs, NEW r \in Readings(2 * Len(keys))
  PROVE  LET n == Len(keys)
             after == Touches(keys, r)
         IN /\ \A m \in 0 .. n : after[m] \in Maps
            /\ \A m \in 0 .. n : \A k \in DOMAIN after[m] :
                 /\ k \in DOMAIN Db
                 /\ IF \E j \in 1 .. m : keys[j] = k
                    THEN \E a \in now .. r[2 * n] : after[m][k] = Touch(Db[k], a)
                    ELSE after[m][k] = Db[k]
            /\ \A m \in 0 .. n, k \in Keys, t \in Int :
                 (\A j \in 1 .. m : r[2 * j - 1] <= t)
                   => (Finds(after[m], k, t) <=> Finds(Db, k, t))
<1> DEFINE n == Len(keys)
           after == Touches(keys, r)
           Done(m, k) == \E j \in 1 .. m : keys[j] = k
           Right(m, k) == IF Done(m, k)
                          THEN \E a \in now .. r[2 * n] : after[m][k] = Touch(Db[k], a)
                          ELSE after[m][k] = Db[k]
           Kept(m) == /\ after[m] \in Maps
                      /\ \A k \in DOMAIN after[m] : k \in DOMAIN Db /\ Right(m, k)
                      /\ \A k \in DOMAIN Db \ DOMAIN after[m] :
                           \E j \in 1 .. m : ~Finds(Db, k, r[2 * j - 1])
           S == {m \in 0 .. n : Kept(m)}
<1>1. /\ n \in Nat /\ n \in Nat \ {0} /\ Db \in Maps /\ \A i \in 1 .. n : keys[i] \in Keys
      /\ DOMAIN Db \subseteq Keys /\ now \in Int /\ \A k \in DOMAIN Db : Db[k] \in Objs
  BY KeyList, DbTyped, MapParts
<1>2. \A i \in 1 .. n : /\ r[2 * i] \in now .. r[2 * n] /\ r[2 * i] \in Nat
                        /\ r[2 * i - 1] \in Int
  BY <1>1, ReadingPairs
<1>3. /\ after[0] = Db
      /\ \A i \in 1 .. n : after[i] = TouchOne(after[i - 1], keys[i], r[2 * i - 1], r[2 * i])
  BY TouchesRun
<1>10. \A i, j \in 1 .. n : i <= j => r[2 * i - 1] <= r[2 * j - 1]
  BY <1>1, ReadingPairs
<1> HIDE DEF n, after
<1>4. ASSUME NEW m \in 0 .. n, Kept(m), NEW k \in Keys, NEW t \in Int,
             \A j \in 1 .. m : r[2 * j - 1] <= t
      PROVE  Finds(after[m], k, t) <=> Finds(Db, k, t)
  <2>1. Finds(Db, k, t) => k \in DOMAIN after[m]
    <3>1. SUFFICES ASSUME Finds(Db, k, t), k \notin DOMAIN after[m] PROVE FALSE
      OBVIOUS
    <3>2. PICK j \in 1 .. m : ~Finds(Db, k, r[2 * j - 1])
      BY <1>4, <3>1 DEF Finds
    <3>3. j \in 1 .. n
      BY <1>1, <1>4, <3>2
    <3> DEFINE s == r[2 * j - 1]
    <3>4. s <= t /\ s \in Int /\ ~Finds(Db, k, s)
      BY <1>2, <1>4, <3>2, <3>3
    <3> HIDE DEF s
    <3>5. Finds(Db, k, s)
      BY <1>1, <3>1, <3>4, FindsEarlier
    <3> QED
      BY <3>4, <3>5
  <2>2. k \in DOMAIN after[m] => k \in DOMAIN Db /\ PTtl(after[m][k], t) = PTtl(Db[k], t)
    <3> SUFFICES ASSUME k \in DOMAIN after[m]
                 PROVE  k \in DOMAIN Db /\ PTtl(after[m][k], t) = PTtl(Db[k], t)
      OBVIOUS
    <3>1. k \in DOMAIN Db /\ Right(m, k) /\ Db[k] \in Objs
      BY <1>1, <1>4
    <3>2. (\E a \in now .. r[2 * n] : after[m][k] = Touch(Db[k], a)) \/ after[m][k] = Db[k]
      BY <3>1
    <3> QED
      BY <3>1, <3>2, TouchLaws
  <2> QED
    BY <2>1, <2>2 DEF Finds
<1>5. 0 \in S
  BY <1>1, <1>3
<1>6. ASSUME NEW m \in 1 .. n, m - 1 \in S PROVE m \in S
  <2>1. Kept(m - 1) /\ m - 1 \in 0 .. n /\ m \in 0 .. n /\ keys[m] \in Keys
    BY <1>1, <1>6
  <2> DEFINE s == r[2 * m - 1]
             u == r[2 * m]
             old == after[m - 1]
             new == after[m]
             key == keys[m]
  <2>2. s \in Int /\ u \in now .. r[2 * n] /\ u \in Nat
    BY <1>2
  <2>3. new = TouchOne(old, key, s, u)
    BY <1>3
  <2>4. Finds(old, key, s) <=> Finds(Db, key, s)
    <3>1. \A j \in 1 .. m - 1 : j \in 1 .. n /\ j <= m /\ m \in 1 .. n
      BY <1>1
    <3>2. \A j \in 1 .. m - 1 : r[2 * j - 1] <= s
      BY <3>1, <1>10
    <3> HIDE DEF Kept
    <3> QED
      BY <1>4, <2>1, <2>2, <3>2
  <2>5. /\ old \in Maps
        /\ \A k \in DOMAIN old : k \in DOMAIN Db /\ Right(m - 1, k)
        /\ \A k \in DOMAIN Db \ DOMAIN old : \E j \in 1 .. m - 1 : ~Finds(Db, k, r[2 * j - 1])
    BY <2>1
  <2>6. key \in Keys
    BY <2>1
  <2> HIDE DEF s, u, old, new, key
  <2>7. /\ new \in Maps /\ DOMAIN new \subseteq DOMAIN old
        /\ \A k \in DOMAIN old : k # key => k \in DOMAIN new /\ new[k] = old[k]
        /\ key \in DOMAIN new <=> Finds(old, key, s)
        /\ key \in DOMAIN new => new[key] = Touch(old[key], u)
    BY <2>2, <2>3, <2>5, <2>6, TouchOneMap
  <2>8. \A k : Done(m, k) <=> (Done(m - 1, k) \/ k = key)
    <3>1. m \in Int /\ \A j : j \in 1 .. m <=> (j \in 1 .. m - 1 \/ j = m)
      OBVIOUS
    <3> QED
      BY <3>1 DEF key
  <2>9. ASSUME NEW k \in DOMAIN new PROVE k \in DOMAIN Db /\ Right(m, k)
    <3>1. k \in DOMAIN old /\ k \in DOMAIN Db /\ Right(m - 1, k) /\ Db[k] \in Objs
      BY <1>1, <2>5, <2>7
    <3>2. CASE k = key
      <4>1. new[k] = Touch(old[k], u)
        BY <2>7, <3>2
      <4>2. (\E a \in now .. r[2 * n] : old[k] = Touch(Db[k], a)) \/ old[k] = Db[k]
        BY <3>1 DEF old
      <4>3. new[k] = Touch(Db[k], u)
        BY <3>1, <4>1, <4>2, TouchLaws
      <4> QED
        BY <2>2, <2>8, <3>1, <3>2, <4>3 DEF new
    <3>3. CASE k # key
      <4>1. new[k] = old[k] /\ (Done(m, k) <=> Done(m - 1, k))
        BY <2>7, <2>8, <3>1, <3>3
      <4> HIDE DEF Done
      <4> QED
        BY <3>1, <4>1 DEF new, old
    <3> QED
      BY <3>2, <3>3
  <2>10. ASSUME NEW k \in DOMAIN Db \ DOMAIN new
         PROVE  \E j \in 1 .. m : ~Finds(Db, k, r[2 * j - 1])
    <3>1. CASE k \in DOMAIN old
      <4>1. k = key /\ m \in 1 .. m
        BY <2>7, <2>10, <3>1
      <4>2. ~Finds(Db, k, s)
        BY <2>4, <2>7, <2>10, <4>1
      <4> QED
        BY <4>1, <4>2 DEF s
    <3>2. CASE k \notin DOMAIN old
      <4>1. PICK j \in 1 .. m - 1 : ~Finds(Db, k, r[2 * j - 1])
        BY <2>5, <2>10, <3>2
      <4>2. j \in 1 .. m
        BY <4>1
      <4> QED
        BY <4>1, <4>2
    <3> QED
      BY <3>1, <3>2
  <2> HIDE DEF Right
  <2>11. Kept(m)
    BY <2>7, <2>9, <2>10 DEF new
  <2> QED
    BY <2>1, <2>11
<1>7. \A m \in 0 .. n : Kept(m)
  <2> HIDE DEF Kept
  <2>1. \A m \in 0 .. n : m \in S
    <3> HIDE DEF S
    <3> QED
      BY <1>1, <1>5, <1>6, Induct
  <2> QED
    BY <2>1
<1>8. \A m \in 0 .. n, k \in Keys, t \in Int :
        (\A j \in 1 .. m : r[2 * j - 1] <= t) => (Finds(after[m], k, t) <=> Finds(Db, k, t))
  <2> HIDE DEF Kept
  <2> QED
    BY <1>4, <1>7
<1>9. /\ \A m \in 0 .. n : after[m] \in Maps
      /\ \A m \in 0 .. n : \A k \in DOMAIN after[m] : k \in DOMAIN Db /\ Right(m, k)
  <2> HIDE DEF Right
  <2> QED
    BY <1>7
<1> QED
  BY <1>8, <1>9 DEF n, after

LEMMA TouchStep ==
  ASSUME TypeOK, NEW keys \in KeySeqs, TouchKeys(keys)
  PROVE  TypeOK' /\ Promise!TouchKeys(keys)
<1> DEFINE n == Len(keys)
           After(r) == Touches(keys, r)
           Found(r) == {i \in 1 .. n : keys[i] \in DOMAIN After(r)[i]}
<1>1. PICK r \in Readings(2 * n) :
        Commit(After(r)[n], <<Int64(Cardinality(Found(r)))>>, r[2 * n])
  BY DEF TouchKeys, Touches, TouchOne
<1> DEFINE after == After(r)
           found == Found(r)
           end == r[2 * n]
           at == [i \in 1 .. n |-> r[2 * i - 1]]
           named == Promise!ListOf(keys)
<1>2. /\ n \in Nat \ {0} /\ n \in Nat /\ \A i \in 1 .. n : keys[i] \in Keys
      /\ Db \in Maps /\ \A k \in DOMAIN Db : Db[k] \in Objs
  BY KeyList, DbTyped, MapParts
<1>3. /\ end \in now .. MaxTime /\ end \in Int /\ end \in Nat /\ now <= end /\ now \in Nat
      /\ \A i \in 1 .. n : r[2 * i - 1] \in now .. end /\ r[2 * i] \in Nat
      /\ \A i, j \in 1 .. n : i <= j => r[2 * i - 1] <= r[2 * j - 1]
  <2>1. /\ end \in now .. MaxTime /\ end \in Int /\ now \in Int /\ now <= end
        /\ \A i \in 1 .. n : r[2 * i - 1] \in now .. end /\ r[2 * i] \in Nat
        /\ \A i, j \in 1 .. n : i <= j => r[2 * i - 1] <= r[2 * j - 1]
    BY <1>2, ReadingPairs
  <2> HIDE DEF end
  <2>2. now \in Nat /\ end \in Nat
    BY <2>1, DbTyped
  <2> QED
    BY <2>1, <2>2
<1>4. /\ \A m \in 0 .. n : after[m] \in Maps
      /\ \A m \in 0 .. n : \A k \in DOMAIN after[m] :
           /\ k \in DOMAIN Db
           /\ IF \E j \in 1 .. m : keys[j] = k
              THEN \E a \in now .. end : after[m][k] = Touch(Db[k], a)
              ELSE after[m][k] = Db[k]
      /\ \A m \in 0 .. n, k \in Keys, t \in Int :
           (\A j \in 1 .. m : r[2 * j - 1] <= t) => (Finds(after[m], k, t) <=> Finds(Db, k, t))
  BY TouchesKeep
<1>5. \A i \in 1 .. n : after[i] = TouchOne(after[i - 1], keys[i], r[2 * i - 1], r[2 * i])
  BY TouchesRun
<1>6. Commit(after[n], <<Int64(Cardinality(found))>>, end)
  BY <1>1
<1>7. \A i \in 1 .. n : i \in found <=> keys[i] \in DOMAIN after[i]
  OBVIOUS
<1>8. at \in [1 .. n -> now .. end] /\ \A i \in 1 .. n : at[i] = r[2 * i - 1]
  BY <1>3
<1>9. found \subseteq 1 .. n
  OBVIOUS
<1>10. \A k : k \in named <=> \E j \in 1 .. n : keys[j] = k
  BY DEF Promise!ListOf
<1> HIDE DEF after, found, Found, end, at, named
<1>11. ASSUME NEW i \in 1 .. n PROVE i \in found <=> Promise!Exist(keys[i], at[i])
  <2>1. i - 1 \in 0 .. n /\ keys[i] \in Keys /\ r[2 * i] \in Nat /\ at[i] \in Int /\ now <= at[i]
    BY <1>2, <1>3, <1>8
  <2>2. after[i - 1] \in Maps /\ after[i] = TouchOne(after[i - 1], keys[i], at[i], r[2 * i])
    BY <1>4, <1>5, <1>8, <2>1
  <2>3. keys[i] \in DOMAIN after[i] <=> Finds(after[i - 1], keys[i], at[i])
    BY <2>1, <2>2, TouchOneMap
  <2>4. \A j \in 1 .. i - 1 : r[2 * j - 1] <= at[i]
    <3>1. \A j \in 1 .. i - 1 : j \in 1 .. n /\ j <= i
      BY <1>2
    <3> QED
      BY <1>3, <1>8, <3>1
  <2>5. Finds(after[i - 1], keys[i], at[i]) <=> Finds(Db, keys[i], at[i])
    BY <1>4, <2>1, <2>4
  <2>6. Promise!Exist(keys[i], at[i]) <=> Finds(Db, keys[i], at[i])
    BY <2>1, ExistFinds
  <2> QED
    BY <1>7, <2>3, <2>5, <2>6
<1>12. found = {i \in 1 .. n : Promise!Exist(keys[i], at[i])}
  BY <1>9, <1>11
<1>13. /\ <<Int64(Cardinality(found))>> \in Seq(Pieces)
       /\ reply' = <<Int64(Cardinality(found))>> /\ now' = end => Promise!Counted(keys)
  BY <1>3, <1>8, <1>12, CountReplied
<1> DEFINE Fits(k, a) == k \in DOMAIN after[n] => after[n][k] = Touch(Db[k], a)
           access == [k \in named |-> CHOOSE a \in now .. end : Fits(k, a)]
           obj(k) == IF k \in named THEN Touch(Promise!Db[k], access[k]) ELSE Promise!Db[k]
           abs == [k \in DOMAIN Promise!Db |-> obj(k)]
<1>14. n \in 0 .. n /\ now \in now .. end
  BY <1>2, <1>3
<1>15. /\ access \in [named -> now .. end]
       /\ \A k \in named : Fits(k, access[k])
  <2>1. ASSUME NEW k \in named PROVE \E a \in now .. end : Fits(k, a)
    <3>1. CASE k \in DOMAIN after[n]
      BY <1>4, <1>10, <1>14, <3>1
    <3>2. CASE k \notin DOMAIN after[n]
      BY <1>14, <3>2
    <3> QED
      BY <3>1, <3>2
  <2> HIDE DEF Fits
  <2>2. \A k \in named : /\ (CHOOSE a \in now .. end : Fits(k, a)) \in now .. end
                         /\ Fits(k, CHOOSE a \in now .. end : Fits(k, a))
    BY <2>1
  <2> QED
    BY <2>2
<1> HIDE DEF access
<1>16. Promise!Db \in Maps /\ Like(Db, Promise!Db, end)
  BY <1>3, PromiseDb, DbTyped
<1>17. \A k \in DOMAIN Promise!Db : k \in Keys /\ Promise!Db[k] \in Objs
  BY <1>16, MapParts
<1>18. \A k \in DOMAIN Promise!Db : obj(k) \in Objs
  <2>1. ASSUME NEW k \in named PROVE access[k] \in Nat
    <3>1. access[k] \in now .. end
      BY <1>15
    <3> QED
      BY <1>3, <3>1
  <2> QED
    BY <1>17, <2>1, ObjectsTyped
<1>19. abs \in Maps /\ DOMAIN abs = DOMAIN Promise!Db /\ \A k \in DOMAIN abs : abs[k] = obj(k)
  <2>1. DOMAIN Promise!Db \subseteq Keys
    BY <1>16, MapParts
  <2> HIDE DEF obj
  <2>2. abs = [k \in DOMAIN Promise!Db |-> abs[k]] /\ \A k \in DOMAIN Promise!Db : abs[k] \in Objs
    BY <1>18
  <2>3. abs \in Maps
    <3> DEFINE K == DOMAIN Promise!Db
    <3> HIDE DEF abs
    <3> QED
      BY <2>1, <2>2, MapMade
  <2> QED
    BY <2>3
<1> HIDE DEF abs
<1>20. Like(after[n], abs, end)
  <2> SUFFICES ASSUME NEW k \in Keys
               PROVE  /\ Finds(after[n], k, end) <=> Finds(abs, k, end)
                      /\ Finds(after[n], k, end) => after[n][k] = abs[k]
    BY DEF Like
  <2>1. Finds(after[n], k, end) <=> Finds(Db, k, end)
    <3>1. \A j \in 1 .. n : r[2 * j - 1] <= end
      BY <1>3
    <3> QED
      BY <1>3, <1>4, <1>14, <3>1
  <2>2. /\ Finds(Db, k, end) <=> Finds(Promise!Db, k, end)
        /\ Finds(Db, k, end) => Db[k] = Promise!Db[k]
    BY <1>16 DEF Like
  <2>3. Finds(Promise!Db, k, end) <=> Finds(abs, k, end)
    <3>1. k \in DOMAIN Promise!Db => PTtl(abs[k], end) = PTtl(Promise!Db[k], end)
      BY <1>17, <1>19, TouchLaws
    <3> QED
      BY <1>19, <3>1 DEF Finds
  <2>4. ASSUME Finds(after[n], k, end) PROVE after[n][k] = abs[k]
    <3>1. k \in DOMAIN after[n] /\ Db[k] = Promise!Db[k] /\ k \in DOMAIN abs
      BY <2>1, <2>2, <2>3, <2>4 DEF Finds
    <3>2. CASE k \in named
      <4>1. after[n][k] = Touch(Db[k], access[k])
        BY <1>15, <3>1, <3>2
      <4> QED
        BY <1>19, <3>1, <3>2, <4>1
    <3>3. CASE k \notin named
      <4>1. after[n][k] = Db[k]
        BY <1>4, <1>10, <1>14, <3>1, <3>3
      <4> QED
        BY <1>19, <3>1, <3>3, <4>1
    <3> QED
      BY <3>2, <3>3
  <2> QED
    BY <2>1, <2>2, <2>3, <2>4
<1>21. /\ TypeOK' /\ Promise!Becomes(abs) /\ now' = end
       /\ reply' = <<Int64(Cardinality(found))>>
  <2>1. after[n] \in Maps
    BY <1>4, <1>14
  <2> QED
    BY <1>3, <1>6, <1>13, <1>19, <1>20, <2>1, Serves
<1>22. access \in [named -> Promise!Moments]
  BY <1>15, <1>21, SameWords
<1>23. abs = [k \in DOMAIN Promise!Db |->
                IF k \in named THEN Promise!Touch(Promise!Db[k], access[k]) ELSE Promise!Db[k]]
  BY SameWords DEF abs
<1>24. call' = <<"touch", keys>>
  BY DEF TouchKeys
<1> QED
  BY <1>13, <1>21, <1>22, <1>23, <1>24 DEF Promise!TouchKeys, named

-----------------------------------------------------------------------------
(* DEL.                                                                      *)

\* The databases that the loop goes through.
Erases(keys) ==
  LET after[i \in 0 .. Len(keys)] == IF i = 0 THEN Db ELSE Erase(after[i - 1], keys[i])
  IN after

LEMMA ErasesRun ==
  ASSUME TypeOK, NEW keys \in KeySeqs
  PROVE  /\ Erases(keys)[0] = Db
         /\ \A i \in 1 .. Len(keys) : Erases(keys)[i] = Erase(Erases(keys)[i - 1], keys[i])
<1> DEFINE n == Len(keys)
           Round(objs, i) == Erase(objs, keys[i])
           F == [p \in Maps \X (1 .. n) |-> Round(p[1], p[2])]
           after[i \in 0 .. n] == IF i = 0 THEN Db ELSE Round(after[i - 1], i)
<1>1. n \in Nat /\ Db \in Maps /\ \A i \in 1 .. n : keys[i] \in Keys
  BY KeyList, DbTyped
<1>2. F \in [Maps \X (1 .. n) -> Maps]
  <2>1. ASSUME NEW objs \in Maps, NEW i \in 1 .. n PROVE Round(objs, i) \in Maps
    BY <1>1, EraseMap
  <2> HIDE DEF Round, n
  <2>2. \A p \in Maps \X (1 .. n) : Round(p[1], p[2]) \in Maps
    BY <2>1
  <2> QED
    BY <2>2
<1>3. PICK f \in [0 .. n -> Maps] : Follows(f, Db, F, n)
  <2> HIDE DEF F, n
  <2> QED
    BY <1>1, <1>2, ListRecursion
<1>4. f = [i \in 0 .. n |-> IF i = 0 THEN Db ELSE Round(f[i - 1], i)]
  <2> HIDE DEF Round
  <2>1. ASSUME NEW i \in 1 .. n PROVE f[i] = Round(f[i - 1], i)
    <3>1. i - 1 \in 0 .. n
      BY <1>1, <2>1
    <3>2. <<f[i - 1], i>> \in Maps \X (1 .. n)
      BY <3>1
    <3> QED
      BY <1>3, <3>2 DEF Follows
  <2> DEFINE G(i) == Round(f[i - 1], i)
  <2>2. \A i \in 1 .. n : f[i] = G(i)
    BY <2>1
  <2> HIDE DEF F, n, G
  <2>3. f = [i \in 0 .. n |-> IF i = 0 THEN Db ELSE G(i)]
    BY <1>1, <1>3, <2>2 DEF Follows
  <2> QED
    BY <2>3 DEF G
<1>5. after = [i \in 0 .. n |-> IF i = 0 THEN Db ELSE Round(after[i - 1], i)]
  BY <1>4, Zenon
<1>6. Erases(keys) = after
  BY DEF Erases
<1> HIDE DEF after
<1> QED
  BY <1>1, <1>5, <1>6

\* What is left are the keys that were not named so far.
LEMMA ErasesLeave ==
  ASSUME TypeOK, NEW keys \in KeySeqs
  PROVE  LET after == Erases(keys)
         IN \A m \in 0 .. Len(keys) :
              /\ after[m] \in Maps
              /\ \A k : k \in DOMAIN after[m] <=> k \in DOMAIN Db /\ \A j \in 1 .. m : keys[j] # k
              /\ \A k \in DOMAIN after[m] : after[m][k] = Db[k]
<1> DEFINE n == Len(keys)
           after == Erases(keys)
           Kept(m) == /\ after[m] \in Maps
                      /\ \A k : k \in DOMAIN after[m]
                                  <=> k \in DOMAIN Db /\ \A j \in 1 .. m : keys[j] # k
                      /\ \A k \in DOMAIN after[m] : after[m][k] = Db[k]
           S == {m \in 0 .. n : Kept(m)}
<1>1. n \in Nat /\ Db \in Maps
  BY KeyList, DbTyped
<1>2. after[0] = Db /\ \A i \in 1 .. n : after[i] = Erase(after[i - 1], keys[i])
  BY ErasesRun
<1> HIDE DEF n, after
<1>3. 0 \in S
  BY <1>1, <1>2
<1>4. ASSUME NEW m \in 1 .. n, m - 1 \in S PROVE m \in S
  <2>1. Kept(m - 1) /\ m \in 0 .. n /\ m \in Int
    BY <1>1, <1>4
  <2> DEFINE old == after[m - 1]
             new == after[m]
             key == keys[m]
  <2>2. new = Erase(old, key) /\ old \in Maps
    BY <1>2, <2>1
  <2> HIDE DEF old, new, key
  <2>3. /\ new \in Maps /\ DOMAIN new = DOMAIN old \ {key}
        /\ \A k \in DOMAIN old : k # key => new[k] = old[k]
    BY <2>2, EraseMap
  <2>4. \A j : j \in 1 .. m <=> (j \in 1 .. m - 1 \/ j = m)
    BY <2>1
  <2>5. Kept(m)
    BY <2>1, <2>3, <2>4 DEF old, new, key
  <2> QED
    BY <2>1, <2>5
<1>5. \A m \in 0 .. n : Kept(m)
  <2> HIDE DEF Kept
  <2>1. \A m \in 0 .. n : m \in S
    <3> HIDE DEF S
    <3> QED
      BY <1>1, <1>3, <1>4, Induct
  <2> QED
    BY <2>1
<1> QED
  BY <1>5 DEF n, after

\* Each key is counted once, if it is found when it is met for the first time.
LEMMA CountingKeys ==
  ASSUME TypeOK, NEW keys \in KeySeqs, NEW t \in Int, now <= t,
         NEW at \in [1 .. Len(keys) -> now .. t],
         NEW found, found \subseteq 1 .. Len(keys),
         \A i \in 1 .. Len(keys) :
           i \in found <=> /\ \A j \in 1 .. i - 1 : keys[j] # keys[i]
                           /\ Promise!Exist(keys[i], at[i])
  PROVE  /\ Cardinality(found) \in Int
         /\ Cardinality(found) \in
              Cardinality({k \in Promise!ListOf(keys) : Promise!Exist(k, t)}) ..
              Cardinality({k \in Promise!ListOf(keys) : Promise!Exist(k, now)})
<1> DEFINE n == Len(keys)
           named == Promise!ListOf(keys)
           Here(u) == {k \in named : Promise!Exist(k, u)}
           met == {keys[i] : i \in found}
           f == [i \in found |-> keys[i]]
           g == [i \in 1 .. n |-> keys[i]]
<1>1. n \in Nat /\ now \in Int /\ \A i \in 1 .. n : keys[i] \in Keys /\ at[i] \in now .. t
  BY KeyList, DbTyped
<1>2. \A k : k \in named <=> \E i \in 1 .. n : keys[i] = k
  BY DEF Promise!ListOf
<1>3. g \in Surjection(1 .. n, named)
  BY <1>2 DEF Surjection
<1>4. f \in Surjection(found, met)
  BY DEF Surjection
<1>5. f \in Injection(found, met)
  <2> SUFFICES ASSUME NEW i \in found, NEW j \in found, keys[i] = keys[j] PROVE i = j
    BY DEF Injection, IsInjective
  <2>1. i \in Int /\ j \in Int /\ i \in 1 .. n /\ j \in 1 .. n
    BY <1>1
  <2>2. ~(j \in 1 .. i - 1) /\ ~(i \in 1 .. j - 1)
    BY <2>1
  <2> QED
    BY <2>1, <2>2
<1>6. IsFiniteSet(1 .. n)
  BY <1>1, FS_Interval
<1>7. IsFiniteSet(found) /\ IsFiniteSet(named)
  <2>1. IsFiniteSet(found)
    BY <1>6, FS_Subset
  <2> HIDE DEF n, named, g
  <2> QED
    BY <1>3, <1>6, <2>1, FS_Surjection
<1>8. Cardinality(met) = Cardinality(found)
  <2> HIDE DEF met, f
  <2> QED
    BY <1>4, <1>5, <1>7, FS_Surjection
<1>9. Here(t) \subseteq met
  <2> SUFFICES ASSUME NEW k \in named, Promise!Exist(k, t) PROVE k \in met
    OBVIOUS
  <2> DEFINE T == {i \in 1 .. n : keys[i] = k}
  <2>1. T \subseteq Nat /\ T # {}
    BY <1>1, <1>2
  <2>2. PICK i \in T : \A j \in T : i <= j
    <3> HIDE DEF T
    <3> QED
      BY <2>1, Least
  <2>3. i \in 1 .. n /\ keys[i] = k /\ i \in Int
    BY <1>1
  <2>4. \A j \in 1 .. i - 1 : keys[j] # keys[i]
    <3> SUFFICES ASSUME NEW j \in 1 .. i - 1, keys[j] = keys[i] PROVE FALSE
      OBVIOUS
    <3>1. j \in 1 .. n /\ ~(i <= j)
      BY <1>1, <2>3
    <3> QED
      BY <2>2, <2>3, <3>1
  <2>5. Promise!Exist(keys[i], at[i])
    <3>1. at[i] \in Int /\ now <= at[i] /\ at[i] <= t /\ k \in Keys
      BY <1>1, <2>3
    <3>2. Promise!Exist(k, at[i])
      BY <3>1, ExistEarlier
    <3> QED
      BY <2>3, <3>2
  <2> QED
    BY <2>3, <2>4, <2>5
<1>10. met \subseteq Here(now)
  <2> SUFFICES ASSUME NEW i \in found PROVE keys[i] \in Here(now)
    OBVIOUS
  <2>1. i \in 1 .. n /\ Promise!Exist(keys[i], at[i])
    OBVIOUS
  <2>2. at[i] \in Int /\ now <= at[i] /\ now <= now /\ keys[i] \in Keys
    BY <1>1, <2>1
  <2>3. Promise!Exist(keys[i], now)
    BY <1>1, <2>1, <2>2, ExistEarlier
  <2> QED
    BY <1>2, <2>1, <2>3
<1>11. Here(now) \subseteq named
  OBVIOUS
<1>12. Cardinality(found) \in Int
  BY <1>7, FS_CardinalityType
<1>13. Cardinality(found) \in Cardinality(Here(t)) .. Cardinality(Here(now))
  <2> HIDE DEF Here, met, named
  <2>1. IsFiniteSet(Here(now)) /\ IsFiniteSet(met)
    BY <1>7, <1>10, <1>11, FS_Subset
  <2>2. IsFiniteSet(Here(t)) /\ Cardinality(Here(t)) <= Cardinality(met)
    BY <1>9, <2>1, FS_Subset
  <2>3. Cardinality(met) <= Cardinality(Here(now))
    BY <1>10, <2>1, FS_Subset
  <2>4. Cardinality(Here(t)) \in Int /\ Cardinality(Here(now)) \in Int
    BY <2>1, <2>2, FS_CardinalityType
  <2> QED
    BY <1>8, <1>12, <2>2, <2>3, <2>4
<1> QED
  BY <1>12, <1>13

LEMMA DelStep ==
  ASSUME TypeOK, NEW keys \in KeySeqs, Del(keys)
  PROVE  TypeOK' /\ Promise!Del(keys)
<1> DEFINE n == Len(keys)
           after == Erases(keys)
           Found(r) == {i \in 1 .. n : Finds(after[i - 1], keys[i], r[i])}
           named == Promise!ListOf(keys)
<1>1. PICK r \in Readings(n) : Commit(after[n], <<Int64(Cardinality(Found(r)))>>, r[n])
  BY DEF Del, Erases
<1> DEFINE found == Found(r)
           c == Cardinality(found)
           at == [i \in 1 .. n |-> r[i]]
           abs == [k \in DOMAIN Promise!Db \ named |-> Promise!Db[k]]
<1>2. /\ n \in Nat \ {0} /\ n \in Nat /\ \A i \in 1 .. n : keys[i] \in Keys
      /\ r[n] \in now .. MaxTime /\ r[n] \in Int /\ now <= r[n] /\ now \in Int
      /\ \A i \in 1 .. n : r[i] \in now .. r[n] /\ r[i] \in Int
  BY KeyList, LastReading
<1>3. /\ \A m \in 0 .. n :
           /\ after[m] \in Maps
           /\ \A k : k \in DOMAIN after[m] <=> k \in DOMAIN Db /\ \A j \in 1 .. m : keys[j] # k
           /\ \A k \in DOMAIN after[m] : after[m][k] = Db[k]
  BY ErasesLeave
<1>4. at \in [1 .. n -> now .. r[n]] /\ \A i \in 1 .. n : at[i] = r[i]
  BY <1>2
<1>5. \A k : k \in named <=> \E i \in 1 .. n : keys[i] = k
  BY DEF Promise!ListOf
<1>6. found \subseteq 1 .. n /\ \A i \in 1 .. n : i \in found <=> Finds(after[i - 1], keys[i], r[i])
  OBVIOUS
<1>7. Commit(after[n], <<Int64(c)>>, r[n])
  BY <1>1
<1> HIDE DEF after, Found, found, at, named
<1>8. ASSUME NEW i \in 1 .. n
      PROVE  i \in found <=> /\ \A j \in 1 .. i - 1 : keys[j] # keys[i]
                             /\ Promise!Exist(keys[i], at[i])
  <2>1. i - 1 \in 0 .. n /\ at[i] = r[i] /\ r[i] \in Int /\ now <= r[i] /\ keys[i] \in Keys
    BY <1>2, <1>4
  <2>2. Promise!Exist(keys[i], at[i]) <=> Finds(Db, keys[i], r[i])
    BY <2>1, ExistFinds
  <2>3. /\ \A k : k \in DOMAIN after[i - 1]
                    <=> k \in DOMAIN Db /\ \A j \in 1 .. i - 1 : keys[j] # k
        /\ \A k \in DOMAIN after[i - 1] : after[i - 1][k] = Db[k]
    BY <1>3, <2>1
  <2> QED
    BY <1>6, <2>2, <2>3 DEF Finds
<1>9. /\ c \in Int
      /\ c \in Cardinality({k \in named : Promise!Exist(k, r[n])}) ..
               Cardinality({k \in named : Promise!Exist(k, now)})
  BY <1>2, <1>4, <1>6, <1>8, CountingKeys DEF named
<1> HIDE DEF c
<1>10. Promise!Db \in Maps /\ Like(Db, Promise!Db, r[n]) /\ Db \in Maps
  BY <1>2, PromiseDb, DbTyped
<1>11. abs \in Maps /\ DOMAIN abs = DOMAIN Promise!Db \ named
       /\ \A k \in DOMAIN abs : abs[k] = Promise!Db[k]
  <2>1. /\ DOMAIN Promise!Db \ named \subseteq Keys
        /\ \A k \in DOMAIN Promise!Db \ named : abs[k] \in Objs
    BY <1>10, MapParts
  <2>2. abs = [k \in DOMAIN Promise!Db \ named |-> abs[k]]
    OBVIOUS
  <2>3. abs \in Maps
    <3> DEFINE K == DOMAIN Promise!Db \ named
    <3>1. K \subseteq Keys /\ abs = [k \in K |-> abs[k]] /\ \A k \in K : abs[k] \in Objs
      BY <2>1, <2>2
    <3> HIDE DEF abs, K
    <3> QED
      BY <3>1, MapMade
  <2> QED
    BY <2>3
<1>12. n \in 0 .. n
  BY <1>2
<1>13. after[n] \in Maps
  BY <1>3, <1>12
<1>14. Like(after[n], abs, r[n])
  <2> SUFFICES ASSUME NEW k \in Keys
               PROVE  /\ Finds(after[n], k, r[n]) <=> Finds(abs, k, r[n])
                      /\ Finds(after[n], k, r[n]) => after[n][k] = abs[k]
    BY DEF Like
  <2> HIDE DEF abs
  <2>1. /\ k \in DOMAIN after[n] <=> k \in DOMAIN Db /\ k \notin named
        /\ k \in DOMAIN after[n] => after[n][k] = Db[k]
    BY <1>3, <1>5, <1>12
  <2>2. /\ Finds(Db, k, r[n]) <=> Finds(Promise!Db, k, r[n])
        /\ Finds(Db, k, r[n]) => Db[k] = Promise!Db[k]
    BY <1>10 DEF Like
  <2>3. Finds(after[n], k, r[n]) <=> Finds(Db, k, r[n]) /\ k \notin named
    BY <2>1 DEF Finds
  <2>4. Finds(abs, k, r[n]) <=> Finds(Promise!Db, k, r[n]) /\ k \notin named
    BY <1>11 DEF Finds
  <2>5. Finds(after[n], k, r[n]) => k \in DOMAIN after[n] /\ k \in DOMAIN abs
    BY <2>2, <2>3, <2>4 DEF Finds
  <2> QED
    BY <1>11, <2>1, <2>2, <2>3, <2>4, <2>5
<1>15. <<Int64(c)>> \in Seq(Pieces)
  BY <1>9, PiecesTyped
<1>16. TypeOK' /\ Promise!Becomes(abs) /\ now' = r[n] /\ reply' = <<Int64(c)>>
  <2> HIDE DEF abs
  <2> QED
    BY <1>2, <1>7, <1>11, <1>13, <1>14, <1>15, Serves
<1>17. Len(reply') = 1 /\ reply'[1].n = c /\ reply' = <<Promise!Int64(reply'[1].n)>>
  <2>1. Len(<<Int64(c)>>) = 1 /\ <<Int64(c)>>[1].n = c
    BY DEF Int64, Piece
  <2> QED
    BY <1>16, <2>1, SameWords
<1>18. reply'[1].n \in Promise!Cardinality({k \in named : Promise!Exist(k, now')}) ..
                       Promise!Cardinality({k \in named : Promise!Exist(k, now)})
  BY <1>9, <1>16, <1>17, SameCardinality
<1>19. call' = <<"del", keys>>
  BY DEF Del
<1> QED
  BY <1>16, <1>17, <1>18, <1>19 DEF Promise!Del, Promise!Replies, named

-----------------------------------------------------------------------------
(* MSET and MSETNX.                                                          *)

\* The lists of a request.
LEMMA PairList ==
  ASSUME NEW pairs \in PairSeqs
  PROVE  /\ Len(pairs) \in Nat \ {0} /\ Len(pairs) \in Nat
         /\ \A i \in 1 .. Len(pairs) : pairs[i][1] \in Keys /\ pairs[i][2] \in Values
<1>1. PICK n \in 1 .. MaxArgs : pairs \in [1 .. n -> Keys \X Values]
  BY DEF PairSeqs
<1>2. n \in Nat /\ pairs \in Seq(Keys \X Values)
  BY <1>1, SeqDef
<1>3. Len(pairs) = n
  BY <1>1, <1>2, LenProperties
<1>4. \A i \in 1 .. n : pairs[i] \in Keys \X Values
  BY <1>1
<1>5. \A p \in Keys \X Values : p[1] \in Keys /\ p[2] \in Values
  OBVIOUS
<1> QED
  BY <1>2, <1>3, <1>4, <1>5

\* A set of places in a list has a last one.
LEMMA Greatest ==
  ASSUME NEW n \in Nat, NEW T, T \subseteq 1 .. n, T # {}
  PROVE  \E x \in T : \A y \in T : y <= x
<1> DEFINE U == {n - y : y \in T}
<1>1. U \subseteq Nat /\ U # {}
  <2>1. ASSUME NEW y \in T PROVE n - y \in Nat
    <3>1. y \in 1 .. n
      OBVIOUS
    <3> QED
      BY <3>1
  <2> QED
    BY <2>1
<1>2. PICK z \in U : \A y \in U : z <= y
  <2> HIDE DEF U
  <2> QED
    BY <1>1, Least
<1>3. PICK x \in T : z = n - x
  OBVIOUS
<1>4. ASSUME NEW y \in T PROVE y <= x
  <2>1. n - y \in U /\ y \in Int /\ x \in Int
    OBVIOUS
  <2>2. n - x <= n - y
    BY <1>2, <1>3, <2>1
  <2> QED
    BY <2>1, <2>2
<1> QED
  BY <1>4

\* The databases of Store with some keys set to the values of pairs.
LEMMA AssignedMap ==
  ASSUME TypeOK, NEW pairs \in PairSeqs, NEW free, free \subseteq Promise!KeysOf(pairs),
         NEW chosen \in [free -> 1 .. Len(pairs)], NEW at \in [free -> Nat],
         NEW abs, abs = Promise!Assigned(pairs, free, chosen, at)
  PROVE  abs \in Maps
<1> DEFINE obj(k) == IF k \in free THEN Object(pairs[chosen[k]][2], at[k]) ELSE Promise!Db[k]
           K == DOMAIN Promise!Db \cup free
<1>1. abs = [k \in K |-> obj(k)]
  BY SameWords DEF Promise!Assigned
<1>2. Promise!Db \in Maps
  BY PromiseDb
<1>3. \A k \in DOMAIN Promise!Db : k \in Keys /\ Promise!Db[k] \in Objs
  BY <1>2, MapParts
<1>4. \A i \in 1 .. Len(pairs) : pairs[i][1] \in Keys /\ pairs[i][2] \in Values
  BY PairList
<1>5. \A k \in free : k \in Keys
  BY <1>4 DEF Promise!KeysOf
<1>6. \A k \in free : obj(k) \in Objs
  <2> SUFFICES ASSUME NEW k \in free PROVE Object(pairs[chosen[k]][2], at[k]) \in Objs
    OBVIOUS
  <2>1. chosen[k] \in 1 .. Len(pairs) /\ at[k] \in Nat
    OBVIOUS
  <2>2. pairs[chosen[k]][2] \in Values
    BY <1>4, <2>1
  <2> QED
    BY <2>1, <2>2, ObjectsTyped
<1>7. K \subseteq Keys /\ \A k \in K : obj(k) \in Objs
  BY <1>3, <1>5, <1>6
<1>8. abs \in Maps
  <2> HIDE DEF K, obj
  <2>1. abs = [k \in K |-> abs[k]] /\ \A k \in K : abs[k] \in Objs
    BY <1>1, <1>7
  <2> QED
    BY <1>7, <2>1, MapMade
<1> QED
  BY <1>8

\* What PutMap says, of a map that is known to be put together so.
LEMMA PutIs ==
  ASSUME NEW one, NEW objs \in Maps, NEW k \in Keys, NEW o \in Objs, one = Put(objs, k, o)
  PROVE  /\ one \in Maps /\ one[k] = o
         /\ \A j : j \in DOMAIN one <=> j \in DOMAIN objs \/ j = k
         /\ \A j \in DOMAIN objs : j # k => one[j] = objs[j]
<1>1. Put(objs, k, o) \in Maps
  BY PutMap
<1> QED
  BY <1>1 DEF Put

\* The databases that the loop of MSET goes through.
MSets(pairs, r) ==
  LET after[i \in 0 .. Len(pairs)] ==
        IF i = 0 THEN Db ELSE Put(after[i - 1], pairs[i][1], Object(pairs[i][2], r[i]))
  IN after

LEMMA MSetsRun ==
  ASSUME TypeOK, NEW pairs \in PairSeqs, NEW r \in Readings(Len(pairs))
  PROVE  /\ MSets(pairs, r)[0] = Db
         /\ \A i \in 1 .. Len(pairs) :
              MSets(pairs, r)[i] =
                Put(MSets(pairs, r)[i - 1], pairs[i][1], Object(pairs[i][2], r[i]))
<1> DEFINE n == Len(pairs)
           Round(objs, i) == Put(objs, pairs[i][1], Object(pairs[i][2], r[i]))
           F == [p \in Maps \X (1 .. n) |-> Round(p[1], p[2])]
           after[i \in 0 .. n] == IF i = 0 THEN Db ELSE Round(after[i - 1], i)
<1>1. /\ n \in Nat /\ n \in Nat \ {0} /\ Db \in Maps
      /\ \A i \in 1 .. n : pairs[i][1] \in Keys /\ pairs[i][2] \in Values
  BY PairList, DbTyped
<1>2. \A i \in 1 .. n : r[i] \in Nat
  BY <1>1, LastReading
<1>3. F \in [Maps \X (1 .. n) -> Maps]
  <2>1. ASSUME NEW objs \in Maps, NEW i \in 1 .. n PROVE Round(objs, i) \in Maps
    <3>1. Object(pairs[i][2], r[i]) \in Objs
      BY <1>1, <1>2, ObjectsTyped
    <3> QED
      BY <1>1, <3>1, PutMap
  <2> HIDE DEF Round, n
  <2>2. \A p \in Maps \X (1 .. n) : Round(p[1], p[2]) \in Maps
    BY <2>1
  <2> QED
    BY <2>2
<1>4. PICK f \in [0 .. n -> Maps] : Follows(f, Db, F, n)
  <2> HIDE DEF F, n
  <2> QED
    BY <1>1, <1>3, ListRecursion
<1>5. f = [i \in 0 .. n |-> IF i = 0 THEN Db ELSE Round(f[i - 1], i)]
  <2> HIDE DEF Round
  <2>1. ASSUME NEW i \in 1 .. n PROVE f[i] = Round(f[i - 1], i)
    <3>1. i - 1 \in 0 .. n
      BY <1>1, <2>1
    <3>2. <<f[i - 1], i>> \in Maps \X (1 .. n)
      BY <3>1
    <3> QED
      BY <1>4, <3>2 DEF Follows
  <2> DEFINE G(i) == Round(f[i - 1], i)
  <2>2. \A i \in 1 .. n : f[i] = G(i)
    BY <2>1
  <2> HIDE DEF F, n, G
  <2>3. f = [i \in 0 .. n |-> IF i = 0 THEN Db ELSE G(i)]
    BY <1>1, <1>4, <2>2 DEF Follows
  <2> QED
    BY <2>3 DEF G
<1>6. after = [i \in 0 .. n |-> IF i = 0 THEN Db ELSE Round(after[i - 1], i)]
  BY <1>5, Zenon
<1>7. MSets(pairs, r) = after
  BY DEF MSets
<1> HIDE DEF after
<1> QED
  BY <1>1, <1>6, <1>7

\* A key holds what the last pair with it says.
LEMMA MSetsPut ==
  ASSUME TypeOK, NEW pairs \in PairSeqs, NEW r \in Readings(Len(pairs))
  PROVE  LET after == MSets(pairs, r)
         IN \A m \in 0 .. Len(pairs) :
              /\ after[m] \in Maps
              /\ \A k : k \in DOMAIN after[m]
                          <=> k \in DOMAIN Db \/ \E j \in 1 .. m : pairs[j][1] = k
              /\ \A k \in DOMAIN after[m] :
                   (\A j \in 1 .. m : pairs[j][1] # k) => after[m][k] = Db[k]
              /\ \A j \in 1 .. m :
                   (\A i \in j + 1 .. m : pairs[i][1] # pairs[j][1])
                     => after[m][pairs[j][1]] = Object(pairs[j][2], r[j])
<1> DEFINE n == Len(pairs)
           after == MSets(pairs, r)
           Kept(m) == /\ after[m] \in Maps
                      /\ \A k : k \in DOMAIN after[m]
                                  <=> k \in DOMAIN Db \/ \E j \in 1 .. m : pairs[j][1] = k
                      /\ \A k \in DOMAIN after[m] :
                           (\A j \in 1 .. m : pairs[j][1] # k) => after[m][k] = Db[k]
                      /\ \A j \in 1 .. m :
                           (\A i \in j + 1 .. m : pairs[i][1] # pairs[j][1])
                             => after[m][pairs[j][1]] = Object(pairs[j][2], r[j])
           S == {m \in 0 .. n : Kept(m)}
<1>1. /\ n \in Nat /\ n \in Nat \ {0} /\ Db \in Maps
      /\ \A i \in 1 .. n : pairs[i][1] \in Keys /\ pairs[i][2] \in Values
  BY PairList, DbTyped
<1>2. \A i \in 1 .. n : r[i] \in Nat
  BY <1>1, LastReading
<1>3. /\ after[0] = Db
      /\ \A i \in 1 .. n : after[i] = Put(after[i - 1], pairs[i][1], Object(pairs[i][2], r[i]))
  BY MSetsRun
<1> HIDE DEF n, after
<1>4. 0 \in S
  BY <1>1, <1>3
<1>5. ASSUME NEW m \in 1 .. n, m - 1 \in S PROVE m \in S
  <2>1. Kept(m - 1) /\ m \in 0 .. n /\ m \in Int
    BY <1>1, <1>5
  <2> DEFINE old == after[m - 1]
             new == after[m]
             key == pairs[m][1]
             obj == Object(pairs[m][2], r[m])
  <2>2. old \in Maps /\ key \in Keys /\ obj \in Objs
    BY <1>1, <1>2, <2>1, ObjectsTyped
  <2>11. new = Put(old, key, obj)
    BY <1>3
  <2>3. /\ \A k : k \in DOMAIN old <=> k \in DOMAIN Db \/ \E j \in 1 .. m - 1 : pairs[j][1] = k
        /\ \A k \in DOMAIN old :
             (\A j \in 1 .. m - 1 : pairs[j][1] # k) => old[k] = Db[k]
        /\ \A j \in 1 .. m - 1 :
             (\A i \in j + 1 .. m - 1 : pairs[i][1] # pairs[j][1])
               => old[pairs[j][1]] = Object(pairs[j][2], r[j])
    BY <2>1
  <2>4. \A j : j \in 1 .. m <=> (j \in 1 .. m - 1 \/ j = m)
    BY <2>1
  <2>5. key = pairs[m][1] /\ obj = Object(pairs[m][2], r[m])
    OBVIOUS
  <2> HIDE DEF old, new, key, obj
  <2>6. /\ new \in Maps /\ new[key] = obj
        /\ \A k : k \in DOMAIN new <=> k \in DOMAIN old \/ k = key
        /\ \A k \in DOMAIN old : k # key => new[k] = old[k]
    BY <2>2, <2>11, PutIs
  <2>7. \A k : k \in DOMAIN new <=> k \in DOMAIN Db \/ \E j \in 1 .. m : pairs[j][1] = k
    BY <2>3, <2>4, <2>5, <2>6
  <2>8. ASSUME NEW k \in DOMAIN new, \A j \in 1 .. m : pairs[j][1] # k PROVE new[k] = Db[k]
    <3>1. k # key /\ \A j \in 1 .. m - 1 : pairs[j][1] # k
      BY <2>4, <2>5, <2>8
    <3> QED
      BY <2>3, <2>6, <3>1
  <2>9. ASSUME NEW j \in 1 .. m, \A i \in j + 1 .. m : pairs[i][1] # pairs[j][1]
        PROVE  new[pairs[j][1]] = Object(pairs[j][2], r[j])
    <3>1. CASE j = m
      BY <2>5, <2>6, <3>1
    <3>2. CASE j \in 1 .. m - 1
      <4>1. m \in j + 1 .. m /\ \A i \in j + 1 .. m - 1 : i \in j + 1 .. m
        BY <2>1, <3>2
      <4>2. pairs[j][1] # key
        BY <2>5, <2>9, <4>1
      <4>3. old[pairs[j][1]] = Object(pairs[j][2], r[j])
        BY <2>3, <2>9, <3>2, <4>1
      <4>4. pairs[j][1] \in DOMAIN old
        BY <2>3, <3>2
      <4> QED
        BY <2>6, <4>2, <4>3, <4>4
    <3> QED
      BY <2>4, <3>1, <3>2
  <2>10. Kept(m)
    BY <2>6, <2>7, <2>8, <2>9 DEF new
  <2> QED
    BY <2>1, <2>10
<1>6. \A m \in 0 .. n : Kept(m)
  <2> HIDE DEF Kept
  <2>1. \A m \in 0 .. n : m \in S
    <3> HIDE DEF S
    <3> QED
      BY <1>1, <1>4, <1>5, Induct
  <2> QED
    BY <2>1
<1> QED
  BY <1>6 DEF n, after

LEMMA MSetStep ==
  ASSUME TypeOK, NEW pairs \in PairSeqs, MSet(pairs)
  PROVE  TypeOK' /\ Promise!MSet(pairs)
<1> DEFINE n == Len(pairs)
           After(r) == MSets(pairs, r)
<1>1. PICK r \in Readings(n) : Commit(After(r)[n], <<Ok>>, r[n])
  BY DEF MSet, MSets
<1> DEFINE after == After(r)
           end == r[n]
           named == Promise!KeysOf(pairs)
           chosen == [k \in named |->
                        CHOOSE i \in Promise!Named(pairs, k) :
                          \A j \in Promise!Named(pairs, k) : j <= i]
           at == [k \in named |-> r[chosen[k]]]
           abs == Promise!Assigned(pairs, named, chosen, at)
<1>2. n \in Nat \ {0} /\ n \in Nat /\ Db \in Maps
  BY PairList, DbTyped
<1>3. /\ end \in now .. MaxTime /\ end \in Int /\ now <= end
      /\ \A i \in 1 .. n : r[i] \in now .. end /\ r[i] \in Nat
  BY <1>2, LastReading
<1>4. /\ after[n] \in Maps
      /\ \A k : k \in DOMAIN after[n] <=> k \in DOMAIN Db \/ \E j \in 1 .. n : pairs[j][1] = k
      /\ \A k \in DOMAIN after[n] :
           (\A j \in 1 .. n : pairs[j][1] # k) => after[n][k] = Db[k]
      /\ \A j \in 1 .. n :
           (\A i \in j + 1 .. n : pairs[i][1] # pairs[j][1])
             => after[n][pairs[j][1]] = Object(pairs[j][2], r[j])
  <2>1. n \in 0 .. n
    BY <1>2
  <2> HIDE DEF n
  <2> QED
    BY <2>1, MSetsPut DEF n
<1>5. \A k : k \in named <=> \E j \in 1 .. n : pairs[j][1] = k
  BY DEF Promise!KeysOf
<1>6. \A k, j : j \in Promise!Named(pairs, k) <=> j \in 1 .. n /\ pairs[j][1] = k
  BY DEF Promise!Named
<1>7. Commit(after[n], <<Ok>>, end)
  BY <1>1
<1> HIDE DEF after, After, end, named
<1>8. ASSUME NEW k \in named
      PROVE  /\ chosen[k] \in 1 .. n /\ pairs[chosen[k]][1] = k
             /\ \A i \in chosen[k] + 1 .. n : pairs[i][1] # k
  <2> DEFINE T == Promise!Named(pairs, k)
             Last(i) == \A j \in T : j <= i
  <2>1. T \subseteq 1 .. n /\ T # {}
    BY <1>5, <1>6
  <2> HIDE DEF T, n
  <2>2. \E i \in T : Last(i)
    BY <1>2, <2>1, Greatest
  <2> HIDE DEF Last
  <2>3. (CHOOSE i \in T : Last(i)) \in T /\ Last(CHOOSE i \in T : Last(i))
    BY <2>2
  <2>4. chosen[k] = CHOOSE i \in T : Last(i)
    BY DEF T, Last
  <2>5. chosen[k] \in T /\ Last(chosen[k])
    BY <2>3, <2>4
  <2> HIDE DEF chosen
  <2>6. chosen[k] \in 1 .. n /\ pairs[chosen[k]][1] = k
    BY <1>6, <2>5 DEF T
  <2>7. ASSUME NEW i \in chosen[k] + 1 .. n, pairs[i][1] = k PROVE FALSE
    <3>1. i \in 1 .. n /\ ~(i <= chosen[k])
      BY <1>2, <2>6, <2>7
    <3>2. i \in T
      BY <1>6, <2>7, <3>1 DEF T
    <3> QED
      BY <2>5, <3>1, <3>2 DEF Last
  <2> QED
    BY <2>6, <2>7
<1>9. chosen \in [named -> 1 .. n] /\ DOMAIN chosen = named
  <2>1. chosen = [k \in named |-> chosen[k]]
    OBVIOUS
  <2> HIDE DEF chosen
  <2> QED
    BY <1>8, <2>1
<1> HIDE DEF chosen
<1>10. /\ at \in [named -> Nat] /\ at \in [named -> now .. end]
       /\ \A k \in named : at[k] = r[chosen[k]]
  BY <1>3, <1>8
<1> HIDE DEF at
<1>11. /\ abs \in Maps
       /\ \A k : k \in DOMAIN abs <=> k \in DOMAIN Promise!Db \/ k \in named
       /\ \A k \in named : abs[k] = Object(pairs[chosen[k]][2], at[k])
       /\ \A k \in DOMAIN Promise!Db : k \notin named => abs[k] = Promise!Db[k]
  <2>1. named \subseteq Promise!KeysOf(pairs)
    BY DEF named
  <2>2. chosen \in [named -> 1 .. Len(pairs)] /\ at \in [named -> Nat]
    BY <1>9, <1>10
  <2> DEFINE obj(k) == IF k \in named THEN Object(pairs[chosen[k]][2], at[k]) ELSE Promise!Db[k]
  <2>3. abs = Promise!Assigned(pairs, named, chosen, at)
    OBVIOUS
  <2>4. abs = [k \in DOMAIN Promise!Db \cup named |-> obj(k)]
    BY SameWords DEF Promise!Assigned
  <2> HIDE DEF abs
  <2>5. abs \in Maps
    BY <2>1, <2>2, <2>3, AssignedMap
  <2>6. /\ \A k \in named : obj(k) = Object(pairs[chosen[k]][2], at[k])
        /\ \A k \in DOMAIN Promise!Db : k \notin named => obj(k) = Promise!Db[k]
    OBVIOUS
  <2> HIDE DEF obj
  <2>7. \A k : k \in DOMAIN abs <=> k \in DOMAIN Promise!Db \/ k \in named
    BY <2>4
  <2>8. \A k \in DOMAIN abs : abs[k] = obj(k)
    BY <2>4
  <2> QED
    BY <2>5, <2>6, <2>7, <2>8
<1>12. Promise!Db \in Maps /\ Like(Db, Promise!Db, end)
  BY <1>3, PromiseDb, DbTyped
<1> HIDE DEF abs
<1>13. Like(after[n], abs, end)
  <2> SUFFICES ASSUME NEW k \in Keys
               PROVE  /\ Finds(after[n], k, end) <=> Finds(abs, k, end)
                      /\ Finds(after[n], k, end) => after[n][k] = abs[k]
    BY DEF Like
  <2>1. CASE k \in named
    <3>1. k \in DOMAIN after[n] /\ k \in DOMAIN abs
      BY <1>4, <1>5, <1>11, <2>1
    <3>2. after[n][k] = Object(pairs[chosen[k]][2], r[chosen[k]])
      BY <1>4, <1>8, <2>1
    <3>3. after[n][k] = abs[k]
      BY <1>10, <1>11, <2>1, <3>2
    <3> QED
      BY <3>1, <3>3, FindsSame
  <2>2. CASE k \notin named
    <3>1. /\ k \in DOMAIN after[n] <=> k \in DOMAIN Db
          /\ k \in DOMAIN Db => after[n][k] = Db[k]
          /\ k \in DOMAIN abs <=> k \in DOMAIN Promise!Db
          /\ k \in DOMAIN Promise!Db => abs[k] = Promise!Db[k]
      BY <1>4, <1>5, <1>11, <2>2
    <3>2. /\ Finds(after[n], k, end) <=> Finds(Db, k, end)
          /\ Finds(abs, k, end) <=> Finds(Promise!Db, k, end)
      BY <3>1, FindsSame
    <3>3. /\ Finds(Db, k, end) <=> Finds(Promise!Db, k, end)
          /\ Finds(Db, k, end) => Db[k] = Promise!Db[k]
      BY <1>12 DEF Like
    <3>4. Finds(Db, k, end) => k \in DOMAIN Db /\ k \in DOMAIN Promise!Db
      BY <3>3 DEF Finds
    <3> QED
      BY <3>1, <3>2, <3>3, <3>4
  <2> QED
    BY <2>1, <2>2
<1>14. <<Ok>> \in Seq(Pieces)
  BY PiecesTyped
<1>15. TypeOK' /\ Promise!Becomes(abs) /\ now' = end /\ reply' = <<Ok>>
  BY <1>3, <1>4, <1>7, <1>11, <1>13, <1>14, Serves
<1>16. at \in [named -> Promise!Moments]
  BY <1>10, <1>15, SameWords
<1>17. call' = <<"mset", pairs>> /\ Promise!Replies(Promise!Ok)
  BY <1>15, SameWords DEF MSet, Promise!Replies
<1>18. Promise!Becomes(Promise!Assigned(pairs, Promise!KeysOf(pairs),
                        [k \in Promise!KeysOf(pairs) |->
                           CHOOSE i \in Promise!Named(pairs, k) :
                             \A j \in Promise!Named(pairs, k) : j <= i],
                        at))
  BY <1>15 DEF abs, chosen, named
<1> QED
  BY <1>15, <1>16, <1>17, <1>18 DEF Promise!MSet, named

\* One turn of the loop of MSETNX.
NxOne(objs, key, value, t, u) ==
  LET swept == GetObject(objs, key, t)
  IN IF key \in DOMAIN swept THEN swept ELSE Put(swept, key, Object(value, u))

LEMMA NxOneMap ==
  ASSUME NEW objs \in Maps, NEW key \in Keys, NEW value \in Values, NEW t, NEW u \in Nat
  PROVE  LET one == NxOne(objs, key, value, t, u)
         IN /\ one \in Maps /\ key \in DOMAIN one
            /\ \A k : k # key => (k \in DOMAIN one <=> k \in DOMAIN objs)
            /\ \A k \in DOMAIN objs : k # key => one[k] = objs[k]
            /\ Finds(objs, key, t) => one[key] = objs[key]
            /\ ~Finds(objs, key, t) => one[key] = Object(value, u)
<1> DEFINE swept == GetObject(objs, key, t)
           one == NxOne(objs, key, value, t, u)
<1>1. /\ swept \in Maps /\ DOMAIN swept \subseteq DOMAIN objs
      /\ \A k \in DOMAIN objs : k # key => k \in DOMAIN swept
      /\ \A k \in DOMAIN swept : swept[k] = objs[k]
      /\ key \in DOMAIN swept <=> Finds(objs, key, t)
  BY GetObjectMap
<1>2. one = IF key \in DOMAIN swept THEN swept ELSE Put(swept, key, Object(value, u))
  BY DEF NxOne
<1> HIDE DEF swept, one
<1>3. CASE key \in DOMAIN swept
  <2>1. one = swept
    BY <1>2, <1>3
  <2> QED
    BY <1>1, <1>3, <2>1 DEF one
<1>4. CASE key \notin DOMAIN swept
  <2> DEFINE obj == Object(value, u)
  <2>1. obj \in Objs
    BY ObjectsTyped
  <2>2. one = Put(swept, key, obj)
    BY <1>2, <1>4
  <2>3. obj = Object(value, u)
    OBVIOUS
  <2> HIDE DEF obj
  <2>4. /\ one \in Maps /\ one[key] = obj
        /\ \A k : k \in DOMAIN one <=> k \in DOMAIN swept \/ k = key
        /\ \A k \in DOMAIN swept : k # key => one[k] = swept[k]
    BY <1>1, <2>1, <2>2, PutIs
  <2> QED
    BY <1>1, <1>4, <2>3, <2>4 DEF one
<1> QED
  BY <1>3, <1>4

\* The databases that the loop goes through.
NxSets(pairs, r) ==
  LET after[i \in 0 .. Len(pairs)] ==
        IF i = 0 THEN Db
        ELSE NxOne(after[i - 1], pairs[i][1], pairs[i][2], r[2 * i - 1], r[2 * i])
  IN after

LEMMA NxSetsRun ==
  ASSUME TypeOK, NEW pairs \in PairSeqs, NEW r \in Readings(2 * Len(pairs))
  PROVE  /\ NxSets(pairs, r)[0] = Db
         /\ \A i \in 1 .. Len(pairs) :
              NxSets(pairs, r)[i] =
                NxOne(NxSets(pairs, r)[i - 1], pairs[i][1], pairs[i][2], r[2 * i - 1], r[2 * i])
<1> DEFINE n == Len(pairs)
           Round(objs, i) == NxOne(objs, pairs[i][1], pairs[i][2], r[2 * i - 1], r[2 * i])
           F == [p \in Maps \X (1 .. n) |-> Round(p[1], p[2])]
           after[i \in 0 .. n] == IF i = 0 THEN Db ELSE Round(after[i - 1], i)
<1>1. /\ n \in Nat /\ n \in Nat \ {0} /\ Db \in Maps
      /\ \A i \in 1 .. n : pairs[i][1] \in Keys /\ pairs[i][2] \in Values
  BY PairList, DbTyped
<1>2. \A i \in 1 .. n : r[2 * i] \in Nat
  BY <1>1, ReadingPairs
<1>3. F \in [Maps \X (1 .. n) -> Maps]
  <2>1. ASSUME NEW objs \in Maps, NEW i \in 1 .. n PROVE Round(objs, i) \in Maps
    BY <1>1, <1>2, NxOneMap
  <2> HIDE DEF Round, n
  <2>2. \A p \in Maps \X (1 .. n) : Round(p[1], p[2]) \in Maps
    BY <2>1
  <2> QED
    BY <2>2
<1>4. PICK f \in [0 .. n -> Maps] : Follows(f, Db, F, n)
  <2> HIDE DEF F, n
  <2> QED
    BY <1>1, <1>3, ListRecursion
<1>5. f = [i \in 0 .. n |-> IF i = 0 THEN Db ELSE Round(f[i - 1], i)]
  <2> HIDE DEF Round
  <2>1. ASSUME NEW i \in 1 .. n PROVE f[i] = Round(f[i - 1], i)
    <3>1. i - 1 \in 0 .. n
      BY <1>1, <2>1
    <3>2. <<f[i - 1], i>> \in Maps \X (1 .. n)
      BY <3>1
    <3> QED
      BY <1>4, <3>2 DEF Follows
  <2> DEFINE G(i) == Round(f[i - 1], i)
  <2>2. \A i \in 1 .. n : f[i] = G(i)
    BY <2>1
  <2> HIDE DEF F, n, G
  <2>3. f = [i \in 0 .. n |-> IF i = 0 THEN Db ELSE G(i)]
    BY <1>1, <1>4, <2>2 DEF Follows
  <2> QED
    BY <2>3 DEF G
<1>6. after = [i \in 0 .. n |-> IF i = 0 THEN Db ELSE Round(after[i - 1], i)]
  BY <1>5, Zenon
<1>7. NxSets(pairs, r) = after
  BY DEF NxSets
<1> HIDE DEF after
<1> QED
  BY <1>1, <1>6, <1>7

\* The pair j is the first one with its key that does not find the key stored
\* already.
First(pairs, r, j) ==
  LET k == pairs[j][1]
  IN /\ ~Finds(Db, k, r[2 * j - 1])
     /\ \A i \in 1 .. j - 1 : pairs[i][1] = k => Finds(Db, k, r[2 * i - 1])

LEMMA FirstIsOne ==
  ASSUME NEW pairs, NEW r, NEW i \in Nat \ {0}, NEW j \in Nat \ {0}, pairs[i][1] = pairs[j][1],
         First(pairs, r, i), First(pairs, r, j)
  PROVE  i = j
<1>1. i \notin 1 .. j - 1 /\ j \notin 1 .. i - 1
  BY DEF First
<1> QED
  BY <1>1

\* As long as there is none, every pair with the key has found it.
LEMMA FirstComes ==
  ASSUME NEW pairs, NEW r, NEW m \in Nat, NEW k,
         \A j \in 1 .. m : pairs[j][1] = k => ~First(pairs, r, j)
  PROVE  \A j \in 1 .. m : pairs[j][1] = k => Finds(Db, k, r[2 * j - 1])
<1> DEFINE T == {j \in 1 .. m : pairs[j][1] = k /\ ~Finds(Db, k, r[2 * j - 1])}
<1> SUFFICES ASSUME T # {} PROVE FALSE
  OBVIOUS
<1>1. T \subseteq Nat
  OBVIOUS
<1>2. PICK j \in T : \A i \in T : j <= i
  <2> HIDE DEF T
  <2> QED
    BY <1>1, Least
<1>3. j \in 1 .. m /\ pairs[j][1] = k /\ ~Finds(Db, k, r[2 * j - 1])
  OBVIOUS
<1>4. \A i \in 1 .. j - 1 : i \in 1 .. m /\ ~(j <= i)
  BY <1>3
<1>5. \A i \in 1 .. j - 1 : pairs[i][1] = k => Finds(Db, k, r[2 * i - 1])
  BY <1>2, <1>4
<1>6. First(pairs, r, j)
  BY <1>3, <1>5 DEF First
<1> QED
  BY <1>3, <1>6

\* What a command stores does not expire.
LEMMA NewIsFound ==
  ASSUME NEW objs, NEW k \in DOMAIN objs, NEW v, NEW u, objs[k] = Object(v, u), NEW t
  PROVE  Finds(objs, k, t)
  BY DEF Finds, PTtl, Object

\* A pair does not find its key exactly if it is such a first one.
LEMMA NxFree ==
  ASSUME NEW pairs, NEW r, NEW i \in Nat \ {0}, NEW old, NEW k, k = pairs[i][1],
         \A j \in 1 .. i - 1 : pairs[j][1] = k /\ First(pairs, r, j) =>
           k \in DOMAIN old /\ old[k] = Object(pairs[j][2], r[2 * j]),
         (\A j \in 1 .. i - 1 : pairs[j][1] = k => ~First(pairs, r, j)) =>
           (k \in DOMAIN old <=> k \in DOMAIN Db) /\ (k \in DOMAIN Db => old[k] = Db[k])
  PROVE  ~Finds(old, k, r[2 * i - 1]) <=> First(pairs, r, i)
<1>1. CASE \E j \in 1 .. i - 1 : pairs[j][1] = k /\ First(pairs, r, j)
  <2>1. PICK j \in 1 .. i - 1 : pairs[j][1] = k /\ First(pairs, r, j)
    BY <1>1
  <2>2. k \in DOMAIN old /\ old[k] = Object(pairs[j][2], r[2 * j])
    BY <2>1
  <2>3. Finds(old, k, r[2 * i - 1])
    BY <2>2, NewIsFound
  <2>4. j \in Nat \ {0} /\ j # i
    OBVIOUS
  <2>5. ~First(pairs, r, i)
    BY <2>1, <2>4, FirstIsOne
  <2> QED
    BY <2>3, <2>5
<1>2. CASE \A j \in 1 .. i - 1 : pairs[j][1] = k => ~First(pairs, r, j)
  <2>1. i - 1 \in Nat
    OBVIOUS
  <2>2. \A j \in 1 .. i - 1 : pairs[j][1] = k => Finds(Db, k, r[2 * j - 1])
    BY <1>2, <2>1, FirstComes
  <2>3. First(pairs, r, i) <=> ~Finds(Db, k, r[2 * i - 1])
    BY <2>2 DEF First
  <2>4. (k \in DOMAIN old <=> k \in DOMAIN Db) /\ (k \in DOMAIN Db => old[k] = Db[k])
    BY <1>2
  <2> DEFINE t == r[2 * i - 1]
  <2>5. Finds(old, k, t) <=> Finds(Db, k, t)
    BY <2>4, FindsSame
  <2> QED
    BY <2>3, <2>5
<1> QED
  BY <1>1, <1>2

\* A key holds what that pair says, or else what it did.
LEMMA NxSetsPut ==
  ASSUME TypeOK, NEW pairs \in PairSeqs, NEW r \in Readings(2 * Len(pairs))
  PROVE  LET after == NxSets(pairs, r)
         IN \A m \in 0 .. Len(pairs) :
              /\ after[m] \in Maps
              /\ \A j \in 1 .. m : First(pairs, r, j) =>
                   /\ pairs[j][1] \in DOMAIN after[m]
                   /\ after[m][pairs[j][1]] = Object(pairs[j][2], r[2 * j])
              /\ \A k \in Keys : (\A j \in 1 .. m : pairs[j][1] = k => ~First(pairs, r, j)) =>
                   /\ k \in DOMAIN after[m] <=> k \in DOMAIN Db
                   /\ k \in DOMAIN Db => after[m][k] = Db[k]
<1> DEFINE n == Len(pairs)
           after == NxSets(pairs, r)
           Stored(m) == \A j \in 1 .. m : First(pairs, r, j) =>
                          /\ pairs[j][1] \in DOMAIN after[m]
                          /\ after[m][pairs[j][1]] = Object(pairs[j][2], r[2 * j])
           Same(m) == \A k \in Keys : (\A j \in 1 .. m : pairs[j][1] = k => ~First(pairs, r, j)) =>
                        /\ k \in DOMAIN after[m] <=> k \in DOMAIN Db
                        /\ k \in DOMAIN Db => after[m][k] = Db[k]
           Kept(m) == after[m] \in Maps /\ Stored(m) /\ Same(m)
           S == {m \in 0 .. n : Kept(m)}
<1>1. /\ n \in Nat /\ n \in Nat \ {0} /\ Db \in Maps
      /\ \A i \in 1 .. n : pairs[i][1] \in Keys /\ pairs[i][2] \in Values
  BY PairList, DbTyped
<1>2. \A i \in 1 .. n : r[2 * i] \in Nat
  BY <1>1, ReadingPairs
<1>3. /\ after[0] = Db
      /\ \A i \in 1 .. n :
           after[i] = NxOne(after[i - 1], pairs[i][1], pairs[i][2], r[2 * i - 1], r[2 * i])
  BY NxSetsRun
<1> HIDE DEF n, after
<1>4. 0 \in S
  BY <1>1, <1>3
<1>5. ASSUME NEW m \in 1 .. n, m - 1 \in S PROVE m \in S
  <2> DEFINE old == after[m - 1]
             new == after[m]
             key == pairs[m][1]
             value == pairs[m][2]
             s == r[2 * m - 1]
             u == r[2 * m]
  <2>1. /\ old \in Maps /\ key \in Keys /\ value \in Values /\ u \in Nat
        /\ m \in 0 .. n /\ m \in Nat \ {0}
    BY <1>1, <1>2, <1>5
  <2>2. new = NxOne(old, key, value, s, u)
    BY <1>3
  <2>3. \A j \in 1 .. m - 1 : First(pairs, r, j) =>
          pairs[j][1] \in DOMAIN old /\ old[pairs[j][1]] = Object(pairs[j][2], r[2 * j])
    BY <1>5
  <2>4. \A k \in Keys : (\A j \in 1 .. m - 1 : pairs[j][1] = k => ~First(pairs, r, j)) =>
          /\ k \in DOMAIN old <=> k \in DOMAIN Db
          /\ k \in DOMAIN Db => old[k] = Db[k]
    BY <1>5
  <2>5. \A j : j \in 1 .. m <=> (j \in 1 .. m - 1 \/ j = m)
    BY <2>1
  <2>6. key = pairs[m][1] /\ value = pairs[m][2] /\ s = r[2 * m - 1] /\ u = r[2 * m]
    OBVIOUS
  <2> HIDE DEF old, new, key, value, s, u
  <2>7. /\ new \in Maps /\ key \in DOMAIN new
        /\ \A k : k # key => (k \in DOMAIN new <=> k \in DOMAIN old)
        /\ \A k \in DOMAIN old : k # key => new[k] = old[k]
        /\ Finds(old, key, s) => new[key] = old[key]
        /\ ~Finds(old, key, s) => new[key] = Object(value, u)
    BY <2>1, <2>2, NxOneMap
  <2>8. ~Finds(old, key, s) <=> First(pairs, r, m)
    <3>1. \A j \in 1 .. m - 1 : pairs[j][1] = key /\ First(pairs, r, j) =>
            key \in DOMAIN old /\ old[key] = Object(pairs[j][2], r[2 * j])
      BY <2>3
    <3>2. (\A j \in 1 .. m - 1 : pairs[j][1] = key => ~First(pairs, r, j)) =>
            (key \in DOMAIN old <=> key \in DOMAIN Db) /\ (key \in DOMAIN Db => old[key] = Db[key])
      BY <2>1, <2>4
    <3>3. ~Finds(old, key, r[2 * m - 1]) <=> First(pairs, r, m)
      BY <2>1, <2>6, <3>1, <3>2, NxFree
    <3> QED
      BY <2>6, <3>3
  <2>9. ASSUME NEW j \in 1 .. m, First(pairs, r, j)
        PROVE  /\ pairs[j][1] \in DOMAIN new
               /\ new[pairs[j][1]] = Object(pairs[j][2], r[2 * j])
    <3>1. CASE j = m
      BY <2>6, <2>7, <2>8, <2>9, <3>1
    <3>2. CASE j \in 1 .. m - 1 /\ pairs[j][1] # key
      BY <2>3, <2>7, <2>9, <3>2
    <3>3. CASE j \in 1 .. m - 1 /\ pairs[j][1] = key
      <4>1. j \in Nat \ {0} /\ j # m
        BY <2>1, <3>3
      <4>2. ~First(pairs, r, m)
        BY <2>1, <2>6, <2>9, <3>3, <4>1, FirstIsOne
      <4> QED
        BY <2>3, <2>7, <2>8, <2>9, <3>3, <4>2
    <3> QED
      BY <2>5, <3>1, <3>2, <3>3
  <2>10. ASSUME NEW k \in Keys, \A j \in 1 .. m : pairs[j][1] = k => ~First(pairs, r, j)
         PROVE  /\ k \in DOMAIN new <=> k \in DOMAIN Db
                /\ k \in DOMAIN Db => new[k] = Db[k]
    <3>1. /\ k \in DOMAIN old <=> k \in DOMAIN Db
          /\ k \in DOMAIN Db => old[k] = Db[k]
      BY <2>4, <2>5, <2>10
    <3>2. CASE k # key
      BY <2>7, <3>1, <3>2
    <3>3. CASE k = key
      <4>1. Finds(old, key, s)
        BY <2>5, <2>6, <2>8, <2>10, <3>3
      <4>2. key \in DOMAIN old /\ new[key] = old[key]
        BY <2>7, <4>1 DEF Finds
      <4> QED
        BY <2>7, <3>1, <3>3, <4>2
    <3> QED
      BY <3>2, <3>3
  <2>11. Kept(m)
    BY <2>7, <2>9, <2>10 DEF new
  <2> QED
    BY <2>1, <2>11
<1>6. \A m \in 0 .. n : Kept(m)
  <2> HIDE DEF Kept
  <2>1. \A m \in 0 .. n : m \in S
    <3> HIDE DEF S
    <3> QED
      BY <1>1, <1>4, <1>5, Induct
  <2> QED
    BY <2>1
<1> QED
  BY <1>6 DEF n, after

\* All pairs are set exactly if every key is new and no key is named twice.
LEMMA NxAll ==
  ASSUME NEW pairs \in PairSeqs, NEW r, NEW free,
         free = {k \in Promise!KeysOf(pairs) :
                   \E j \in 1 .. Len(pairs) : pairs[j][1] = k /\ First(pairs, r, j)}
  PROVE  (\A i \in 1 .. Len(pairs) : First(pairs, r, i))
           <=> free = Promise!KeysOf(pairs) /\ Cardinality(free) = Len(pairs)
<1> DEFINE n == Len(pairs)
           named == Promise!KeysOf(pairs)
           g == [i \in 1 .. n |-> pairs[i][1]]
<1>1. n \in Nat
  BY PairList
<1>2. \A k : k \in named <=> \E j \in 1 .. n : pairs[j][1] = k
  BY DEF Promise!KeysOf
<1>3. \A k : k \in free <=> \E j \in 1 .. n : pairs[j][1] = k /\ First(pairs, r, j)
  BY <1>2
<1> HIDE DEF n, named
<1>4. g \in Surjection(1 .. n, named)
  BY <1>2 DEF Surjection
<1>5. Cardinality(named) = n <=> g \in Injection(1 .. n, named)
  <2>1. IsFiniteSet(1 .. n) /\ Cardinality(1 .. n) = n
    BY <1>1, FS_Interval
  <2> HIDE DEF g
  <2> QED
    BY <1>4, <2>1, FS_Surjection
<1>6. g \in Injection(1 .. n, named)
        <=> \A i, j \in 1 .. n : pairs[i][1] = pairs[j][1] => i = j
  BY <1>2 DEF Injection, IsInjective
<1> HIDE DEF g
<1>7. \A i, j \in 1 .. n : i \in Nat \ {0} /\ j \in Nat \ {0}
  BY <1>1
<1>8. ASSUME \A i \in 1 .. n : First(pairs, r, i)
      PROVE  free = named /\ Cardinality(free) = n
  <2>1. free = named
    BY <1>2, <1>3, <1>8
  <2>2. \A i, j \in 1 .. n : pairs[i][1] = pairs[j][1] => i = j
    BY <1>7, <1>8, FirstIsOne
  <2> QED
    BY <1>5, <1>6, <2>1, <2>2
<1>9. ASSUME free = named, Cardinality(free) = n, NEW i \in 1 .. n
      PROVE  First(pairs, r, i)
  <2>1. \A a, b \in 1 .. n : pairs[a][1] = pairs[b][1] => a = b
    BY <1>5, <1>6, <1>9
  <2>2. pairs[i][1] \in free
    BY <1>2, <1>9
  <2>3. PICK j \in 1 .. n : pairs[j][1] = pairs[i][1] /\ First(pairs, r, j)
    BY <1>3, <2>2
  <2> QED
    BY <2>1, <2>3
<1> QED
  BY <1>8, <1>9 DEF n, named

LEMMA MSetNxStep ==
  ASSUME TypeOK, NEW pairs \in PairSeqs, MSetNx(pairs)
  PROVE  TypeOK' /\ Promise!MSetNx(pairs)
<1> DEFINE n == Len(pairs)
           After(r) == NxSets(pairs, r)
           Free(r, i) == ~Finds(After(r)[i - 1], pairs[i][1], r[2 * i - 1])
           Said(r) == IF \A i \in 1 .. n : Free(r, i) THEN 1 ELSE 0
<1>1. PICK r \in Readings(2 * n) : Commit(After(r)[n], <<Int64(Said(r))>>, r[2 * n])
  BY DEF MSetNx, NxSets, NxOne
<1> DEFINE after == After(r)
           end == r[2 * n]
           named == Promise!KeysOf(pairs)
           Mine(k, j) == pairs[j][1] = k /\ First(pairs, r, j)
           free == {k \in named : \E j \in 1 .. n : Mine(k, j)}
           chosen == [k \in free |-> CHOOSE j \in 1 .. n : Mine(k, j)]
           at == [k \in free |-> r[2 * chosen[k]]]
           abs == Promise!Assigned(pairs, free, chosen, at)
           said == Said(r)
<1>2. /\ n \in Nat \ {0} /\ n \in Nat /\ \A i \in 1 .. n : pairs[i][1] \in Keys
  BY PairList
<1>3. /\ end \in now .. MaxTime /\ end \in Int /\ now <= end /\ now \in Int
      /\ \A i \in 1 .. n : /\ r[2 * i] \in now .. end /\ r[2 * i] \in Nat
                           /\ r[2 * i - 1] \in now .. end /\ r[2 * i - 1] \in Int
  BY <1>2, ReadingPairs
<1>4. \A m \in 0 .. n :
        /\ after[m] \in Maps
        /\ \A j \in 1 .. m : First(pairs, r, j) =>
             /\ pairs[j][1] \in DOMAIN after[m]
             /\ after[m][pairs[j][1]] = Object(pairs[j][2], r[2 * j])
        /\ \A k \in Keys : (\A j \in 1 .. m : pairs[j][1] = k => ~First(pairs, r, j)) =>
             /\ k \in DOMAIN after[m] <=> k \in DOMAIN Db
             /\ k \in DOMAIN Db => after[m][k] = Db[k]
  BY NxSetsPut
<1>5. \A k : k \in named <=> \E j \in 1 .. n : pairs[j][1] = k
  BY DEF Promise!KeysOf
<1>6. \A k, j : j \in Promise!Named(pairs, k) <=> j \in 1 .. n /\ pairs[j][1] = k
  BY DEF Promise!Named
<1>7. Commit(after[n], <<Int64(said)>>, end)
  BY <1>1
<1>8. /\ free \subseteq named
      /\ \A k : k \in free <=> \E j \in 1 .. n : Mine(k, j)
  BY <1>5
<1>9. said = IF \A i \in 1 .. n : ~Finds(after[i - 1], pairs[i][1], r[2 * i - 1]) THEN 1 ELSE 0
  OBVIOUS
<1>10. free = {k \in Promise!KeysOf(pairs) :
                 \E j \in 1 .. Len(pairs) : pairs[j][1] = k /\ First(pairs, r, j)}
  OBVIOUS
<1> HIDE DEF After, Free, Said, after, end, named, free, said
<1>11. ASSUME NEW i \in 1 .. n
       PROVE  ~Finds(after[i - 1], pairs[i][1], r[2 * i - 1]) <=> First(pairs, r, i)
  <2> DEFINE old == after[i - 1]
             k == pairs[i][1]
  <2>1. i - 1 \in 0 .. n /\ i \in Nat \ {0} /\ k \in Keys
    BY <1>2
  <2>2. /\ \A j \in 1 .. i - 1 : First(pairs, r, j) =>
             pairs[j][1] \in DOMAIN old /\ old[pairs[j][1]] = Object(pairs[j][2], r[2 * j])
        /\ (\A j \in 1 .. i - 1 : pairs[j][1] = k => ~First(pairs, r, j)) =>
             (k \in DOMAIN old <=> k \in DOMAIN Db) /\ (k \in DOMAIN Db => old[k] = Db[k])
    BY <1>4, <2>1
  <2>3. k = pairs[i][1]
    OBVIOUS
  <2> HIDE DEF old, k
  <2>4. \A j \in 1 .. i - 1 : pairs[j][1] = k /\ First(pairs, r, j) =>
          k \in DOMAIN old /\ old[k] = Object(pairs[j][2], r[2 * j])
    BY <2>2
  <2>5. ~Finds(old, k, r[2 * i - 1]) <=> First(pairs, r, i)
    BY <2>1, <2>2, <2>3, <2>4, NxFree
  <2> QED
    BY <2>5 DEF old, k
<1>12. said = IF free = named /\ Cardinality(free) = n THEN 1 ELSE 0
  <2>1. (\A i \in 1 .. n : First(pairs, r, i)) <=> free = named /\ Cardinality(free) = n
    BY <1>10, NxAll DEF named
  <2> QED
    BY <1>9, <1>11, <2>1
<1>13. ASSUME NEW k \in free
       PROVE  chosen[k] \in 1 .. n /\ pairs[chosen[k]][1] = k /\ First(pairs, r, chosen[k])
  <2>1. \E j \in 1 .. n : Mine(k, j)
    BY <1>8
  <2> HIDE DEF Mine
  <2>2. chosen[k] \in 1 .. n /\ Mine(k, chosen[k])
    BY <2>1
  <2> QED
    BY <2>2 DEF Mine
<1>14. chosen \in [free -> 1 .. n]
  <2>1. chosen = [k \in free |-> chosen[k]]
    OBVIOUS
  <2> HIDE DEF chosen
  <2> QED
    BY <1>13, <2>1
<1> HIDE DEF chosen
<1>15. /\ at \in [free -> Nat] /\ at \in [free -> now .. end]
       /\ \A k \in free : at[k] = r[2 * chosen[k]]
  BY <1>3, <1>13
<1> HIDE DEF at
<1>16. /\ abs \in Maps
       /\ \A k : k \in DOMAIN abs <=> k \in DOMAIN Promise!Db \/ k \in free
       /\ \A k \in free : abs[k] = Object(pairs[chosen[k]][2], at[k])
       /\ \A k \in DOMAIN Promise!Db : k \notin free => abs[k] = Promise!Db[k]
  <2>1. free \subseteq Promise!KeysOf(pairs)
    BY <1>8 DEF named
  <2>2. chosen \in [free -> 1 .. Len(pairs)] /\ at \in [free -> Nat]
    BY <1>14, <1>15
  <2> DEFINE obj(k) == IF k \in free THEN Object(pairs[chosen[k]][2], at[k]) ELSE Promise!Db[k]
  <2>3. abs = Promise!Assigned(pairs, free, chosen, at)
    OBVIOUS
  <2>4. abs = [k \in DOMAIN Promise!Db \cup free |-> obj(k)]
    BY SameWords DEF Promise!Assigned
  <2> HIDE DEF abs
  <2>5. abs \in Maps
    BY <2>1, <2>2, <2>3, AssignedMap
  <2>6. /\ \A k \in free : obj(k) = Object(pairs[chosen[k]][2], at[k])
        /\ \A k \in DOMAIN Promise!Db : k \notin free => obj(k) = Promise!Db[k]
    OBVIOUS
  <2> HIDE DEF obj
  <2>7. \A k : k \in DOMAIN abs <=> k \in DOMAIN Promise!Db \/ k \in free
    BY <2>4
  <2>8. \A k \in DOMAIN abs : abs[k] = obj(k)
    BY <2>4
  <2> QED
    BY <2>5, <2>6, <2>7, <2>8
<1>17. Promise!Db \in Maps /\ Like(Db, Promise!Db, end)
  BY <1>3, PromiseDb
<1> HIDE DEF abs
<1>18. n \in 0 .. n
  BY <1>2
<1>19. Like(after[n], abs, end)
  <2> SUFFICES ASSUME NEW k \in Keys
               PROVE  /\ Finds(after[n], k, end) <=> Finds(abs, k, end)
                      /\ Finds(after[n], k, end) => after[n][k] = abs[k]
    BY DEF Like
  <2>1. CASE k \in free
    <3>1. /\ pairs[chosen[k]][1] = k /\ k \in DOMAIN after[n] /\ k \in DOMAIN abs
          /\ after[n][k] = Object(pairs[chosen[k]][2], r[2 * chosen[k]])
      <4>1. chosen[k] \in 1 .. n /\ pairs[chosen[k]][1] = k /\ First(pairs, r, chosen[k])
        BY <1>13, <2>1
      <4> QED
        BY <1>4, <1>16, <1>18, <2>1, <4>1
    <3>2. after[n][k] = abs[k]
      BY <1>15, <1>16, <2>1, <3>1
    <3> QED
      BY <3>1, <3>2, FindsSame
  <2>2. CASE k \notin free
    <3>1. \A j \in 1 .. n : pairs[j][1] = k => ~First(pairs, r, j)
      BY <1>8, <2>2
    <3>2. /\ k \in DOMAIN after[n] <=> k \in DOMAIN Db
          /\ k \in DOMAIN Db => after[n][k] = Db[k]
          /\ k \in DOMAIN abs <=> k \in DOMAIN Promise!Db
          /\ k \in DOMAIN Promise!Db => abs[k] = Promise!Db[k]
      BY <1>4, <1>16, <1>18, <2>2, <3>1
    <3>3. /\ Finds(after[n], k, end) <=> Finds(Db, k, end)
          /\ Finds(abs, k, end) <=> Finds(Promise!Db, k, end)
      BY <3>2, FindsSame
    <3>4. /\ Finds(Db, k, end) <=> Finds(Promise!Db, k, end)
          /\ Finds(Db, k, end) => Db[k] = Promise!Db[k]
      BY <1>17 DEF Like
    <3>5. Finds(Db, k, end) => k \in DOMAIN Db /\ k \in DOMAIN Promise!Db
      BY <3>4 DEF Finds
    <3> QED
      BY <3>2, <3>3, <3>4, <3>5
  <2> QED
    BY <2>1, <2>2
<1>20. <<Int64(said)>> \in Seq(Pieces)
  <2>1. said \in Int
    BY <1>12
  <2> QED
    BY <2>1, PiecesTyped
<1>21. TypeOK' /\ Promise!Becomes(abs) /\ now' = end /\ reply' = <<Int64(said)>>
  <2>1. after[n] \in Maps
    BY <1>4, <1>18
  <2> QED
    BY <1>3, <1>7, <1>16, <1>19, <1>20, <2>1, Serves
<1>22. /\ at \in [free -> Promise!Moments]
       /\ \A i \in 1 .. n : r[2 * i - 1] \in Promise!Moments
  BY <1>3, <1>15, <1>21, SameWords
<1>23. ASSUME NEW j \in 1 .. n
       PROVE  Promise!Exist(pairs[j][1], r[2 * j - 1]) <=> Finds(Db, pairs[j][1], r[2 * j - 1])
  <2> DEFINE t == r[2 * j - 1]
  <2>1. t \in Int /\ now <= t /\ pairs[j][1] \in Keys
    BY <1>2, <1>3
  <2> HIDE DEF t
  <2>2. Promise!Exist(pairs[j][1], t) <=> Finds(Db, pairs[j][1], t)
    BY <2>1, ExistFinds
  <2> QED
    BY <2>2 DEF t
<1>24. ASSUME NEW k \in named
       PROVE  \E t \in Promise!Moments : (k \in free) = ~Promise!Exist(k, t)
  <2>1. CASE k \in free
    <3> DEFINE j == chosen[k]
    <3>1. j \in 1 .. n /\ pairs[j][1] = k /\ ~Finds(Db, k, r[2 * j - 1])
      BY <1>13, <2>1 DEF First
    <3> HIDE DEF j
    <3>2. ~Promise!Exist(k, r[2 * j - 1]) /\ r[2 * j - 1] \in Promise!Moments
      BY <1>22, <1>23, <3>1
    <3> QED
      BY <2>1, <3>2
  <2>2. CASE k \notin free
    <3>1. PICK j \in 1 .. n : pairs[j][1] = k
      BY <1>5
    <3>2. \A i \in 1 .. n : pairs[i][1] = k => ~First(pairs, r, i)
      BY <1>8, <2>2
    <3>3. Finds(Db, k, r[2 * j - 1])
      BY <1>2, <3>1, <3>2, FirstComes
    <3>4. Promise!Exist(k, r[2 * j - 1]) /\ r[2 * j - 1] \in Promise!Moments
      BY <1>22, <1>23, <3>1, <3>3
    <3> QED
      BY <2>2, <3>4
  <2> QED
    BY <2>1, <2>2
<1>25. ASSUME NEW k \in free
       PROVE  /\ chosen[k] \in Promise!Named(pairs, k)
              /\ \/ Promise!Exist(k, now)
                 \/ \A j \in Promise!Named(pairs, k) : chosen[k] <= j
  <2> DEFINE c == chosen[k]
  <2>1. c \in 1 .. n /\ pairs[c][1] = k /\ First(pairs, r, c)
    BY <1>13
  <2> HIDE DEF c
  <2>2. c \in Promise!Named(pairs, k)
    BY <1>6, <2>1
  <2>3. ASSUME NEW j \in Promise!Named(pairs, k), ~(c <= j) PROVE Promise!Exist(k, now)
    <3>1. j \in 1 .. n /\ pairs[j][1] = k /\ j \in 1 .. c - 1
      <4>1. j \in 1 .. n /\ pairs[j][1] = k
        BY <1>6
      <4> QED
        BY <1>2, <2>1, <2>3, <4>1
    <3>2. Finds(Db, k, r[2 * j - 1])
      BY <2>1, <3>1 DEF First
    <3> DEFINE t == r[2 * j - 1]
    <3>3. Promise!Exist(k, t) /\ t \in Int /\ now <= t /\ now <= now /\ k \in Keys
      BY <1>2, <1>3, <1>23, <3>1, <3>2
    <3> HIDE DEF t
    <3> QED
      BY <1>3, <3>3, ExistEarlier
  <2>4. c \in Promise!Named(pairs, k)
        /\ (Promise!Exist(k, now) \/ \A j \in Promise!Named(pairs, k) : c <= j)
    BY <2>2, <2>3
  <2> QED
    BY <2>4 DEF c
<1>26. Promise!Replies(Promise!Int64(IF free = named /\ Promise!Cardinality(free) = n THEN 1 ELSE 0))
  BY <1>12, <1>21, SameWords, SameCardinality DEF Promise!Replies
<1>27. call' = <<"msetnx", pairs>>
  BY DEF MSetNx
<1>28. free \in SUBSET named
  BY <1>8
<1>29. Promise!Becomes(Promise!Assigned(pairs, free, chosen, at))
  BY <1>21 DEF abs
<1>30. \E choice \in [free -> 1 .. n], moment \in [free -> Promise!Moments] :
         /\ \A k \in free : /\ choice[k] \in Promise!Named(pairs, k)
                            /\ \/ Promise!Exist(k, now)
                               \/ \A j \in Promise!Named(pairs, k) : choice[k] <= j
         /\ Promise!Becomes(Promise!Assigned(pairs, free, choice, moment))
  BY <1>14, <1>22, <1>25, <1>29
<1> QED
  BY <1>21, <1>24, <1>26, <1>27, <1>28, <1>30 DEF Promise!MSetNx, named

-----------------------------------------------------------------------------
(* The promise.                                                              *)

LEMMA PromiseInit ==
  ASSUME Init
  PROVE  TypeOK /\ Promise!Init
<1> DEFINE none == [k \in {} |-> 0]
<1>1. 0 \in Dbs /\ 0 \in 0 .. MaxTime
  BY DEF Dbs
<1>2. now = 0 /\ cur_db = 0 /\ dbs = [d \in Dbs |-> none] /\ call = <<>> /\ reply = <<>>
  BY DEF Init
<1>3. DOMAIN none = {} /\ none \in [DOMAIN none -> Objs]
  OBVIOUS
<1>4. Alive(none, 0) = none
  BY DEF Alive
<1> HIDE DEF none
<1>5. DOMAIN dbs = Dbs /\ \A d \in Dbs : dbs[d] = none
  BY <1>2
<1>6. TypeOK
  <2>1. \A d \in Dbs : DOMAIN dbs[d] \subseteq Keys /\ dbs[d] \in [DOMAIN dbs[d] -> Objs]
    BY <1>3, <1>5
  <2>2. reply \in Seq(Pieces)
    BY <1>2
  <2> QED
    BY <1>1, <1>2, <1>5, <2>1, <2>2 DEF TypeOK
<1>7. Promise!Dbs = Dbs
  BY DEF Promise!Dbs, Dbs
<1>8. [d \in Dbs |-> Alive(dbs[d], now)] = [d \in Promise!Dbs |-> none]
  BY <1>2, <1>4, <1>5, <1>7
<1> QED
  BY <1>2, <1>6, <1>8 DEF Promise!Init, none

\* Each step of the databases is a step of the promise.
LEMMA PromiseStep ==
  ASSUME TypeOK, Next
  PROVE  TypeOK' /\ Promise!Next
<1>1. Promise!KeySeqs = KeySeqs /\ Promise!PairSeqs = PairSeqs
  BY DEF Promise!KeySeqs, KeySeqs, Promise!PairSeqs, PairSeqs
<1>2. CASE Tick
  BY <1>2, TickStep DEF Promise!Next
<1>3. CASE Refuse
  BY <1>3, RefuseStep DEF Promise!Next
<1>4. CASE \E db \in -1 .. DbNum : Select(db)
  <2>1. PICK db \in -1 .. DbNum : Select(db)
    BY <1>4
  <2>2. TypeOK' /\ Promise!Select(db)
    BY <2>1, SelectStep
  <2> QED
    BY <2>2 DEF Promise!Next
<1>5. ASSUME NEW key \in Keys,
             Get(key) \/ GetDel(key) \/ Persist(key) \/ IdleTime(key)
      PROVE  TypeOK' /\ Promise!Next
  <2>1. TypeOK' /\ \/ Promise!Get(key) \/ Promise!GetDel(key)
                   \/ Promise!Persist(key) \/ Promise!IdleTime(key)
    BY <1>5, GetStep, GetDelStep, PersistStep, IdleStep
  <2> QED
    BY <2>1 DEF Promise!Next
<1>6. ASSUME NEW key \in Keys, NEW unit \in {1, Second}, TimeToLive(key, unit)
      PROVE  TypeOK' /\ Promise!Next
  <2>1. TypeOK' /\ Promise!TimeToLive(key, unit)
    BY <1>6, TtlStep
  <2> QED
    BY <2>1 DEF Promise!Next
<1>7. ASSUME NEW key \in Keys, NEW value \in Values,
             Set(key, value) \/ AppendTo(key, value) \/ IncrBy(key, value)
      PROVE  TypeOK' /\ Promise!Next
  <2>1. TypeOK' /\ \/ Promise!Set(key, value) \/ Promise!AppendTo(key, value)
                   \/ Promise!IncrBy(key, value)
    BY <1>7, SetStep, AppendStep, IncrStep
  <2> QED
    BY <2>1 DEF Promise!Next
<1>8. ASSUME NEW keys \in KeySeqs,
             MGet(keys) \/ Del(keys) \/ Exists(keys) \/ TouchKeys(keys)
      PROVE  TypeOK' /\ Promise!Next
  <2>1. TypeOK' /\ \/ Promise!MGet(keys) \/ Promise!Del(keys)
                   \/ Promise!Exists(keys) \/ Promise!TouchKeys(keys)
    BY <1>8, MGetStep, DelStep, ExistsStep, TouchStep
  <2> QED
    BY <1>1, <2>1 DEF Promise!Next
<1>9. ASSUME NEW pairs \in PairSeqs, MSet(pairs) \/ MSetNx(pairs)
      PROVE  TypeOK' /\ Promise!Next
  <2>1. TypeOK' /\ (Promise!MSet(pairs) \/ Promise!MSetNx(pairs))
    BY <1>9, MSetStep, MSetNxStep
  <2> QED
    BY <1>1, <2>1 DEF Promise!Next
<1>10. ASSUME NEW key \in Keys, NEW new_key \in Keys,
              Rename(key, new_key) \/ RenameNx(key, new_key)
       PROVE  TypeOK' /\ Promise!Next
  <2>1. TypeOK' /\ (Promise!Rename(key, new_key) \/ Promise!RenameNx(key, new_key))
    BY <1>10, RenameStep, RenameNxStep
  <2> QED
    BY <2>1 DEF Promise!Next
<1>11. ASSUME NEW cmd \in Cmds, NEW key \in Keys, NEW time \in Times,
              NEW opts \in SUBSET Options, SetExpire(cmd, key, time, opts)
       PROVE  TypeOK' /\ Promise!Next
  <2>1. TypeOK' /\ Promise!SetExpire(cmd, key, time, opts)
    BY <1>11, SetExpireStep
  <2> QED
    BY <2>1 DEF Promise!Next, Cmds
<1> QED
  BY <1>2, <1>3, <1>4, <1>5, <1>6, <1>7, <1>8, <1>9, <1>10, <1>11 DEF Next, Cmds

LEMMA PromiseStutter ==
  ASSUME TypeOK, UNCHANGED vars
  PROVE  TypeOK' /\ UNCHANGED Promise!vars
<1>1. /\ now' = now /\ cur_db' = cur_db /\ dbs' = dbs /\ call' = call /\ reply' = reply
  BY DEF vars
<1>2. TypeOK'
  BY <1>1 DEF TypeOK
<1>3. [d \in Dbs |-> Alive(dbs[d], now)]' = [d \in Dbs |-> Alive(dbs[d], now)]
  BY <1>1 DEF Dbs
<1> QED
  BY <1>1, <1>2, <1>3 DEF Promise!vars

-----------------------------------------------------------------------------

\* The databases hold objects under keys, the selected database is one of
\* them and the clock does not pass its end (inst.hpp:44, object.hpp).
THEOREM KeyspaceTypeCorrect == Spec => []TypeOK
<1>1. Init => TypeOK
  BY PromiseInit
<1>2. TypeOK /\ [Next]_vars => TypeOK'
  BY PromiseStep, PromiseStutter
<1> QED
  BY <1>1, <1>2, PTL DEF Spec

\* Lazy expiry keeps the promise of Store, with any keys, any values, lists of
\* any length and any readings of the clock: no client can tell the objects
\* that expired and were not met yet from objects that are gone, and each
\* command does to each key what it would do in one moment (ctx.cpp:33 and 56,
\* generic.cpp:113-137).
THEOREM PromiseKept == Spec => KeepsPromise
<1>1. Init => Promise!Init
  BY PromiseInit
<1>2. TypeOK /\ [Next]_vars => [Promise!Next]_(Promise!vars)
  BY PromiseStep, PromiseStutter
<1> QED
  BY <1>1, <1>2, KeyspaceTypeCorrect, PTL DEF Spec, KeepsPromise, Promise!Spec
=============================================================================
