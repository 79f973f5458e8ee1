------------------------------ MODULE Objects ------------------------------
(***************************************************************************)
(* Objects of mydss and the map of a database that holds them              *)
(* (src/include/module/object.hpp, src/include/db/db.hpp, and the lookups  *)
(* of src/src/module/ctx.cpp).  An object is a value, the time at which it *)
(* expires and the time of its last access; a database is a function from  *)
(* the stored keys to objects.  An expired object stays in the map until a *)
(* lookup meets it.  Every operator takes the time that its call to        *)
(* gettimeofday returned.                                                  *)
(***************************************************************************)
EXTENDS Integers

CONSTANT MaxInt  \* INT64_MAX

ASSUME MaxIntAssumption == MaxInt \in Nat

\* The expire_time_ of an object that does not expire.
Forever == MaxInt

\* Addition of int64_t wraps around (in the builds that define overflow so).
Wrap(n) == ((n + MaxInt + 1) % (2 * (MaxInt + 1))) - (MaxInt + 1)

\* A new object of class String: its constructor touches it.
Object(value, now) == [value |-> value, expire |-> Forever, access |-> now]

Touch(obj, now) == [obj EXCEPT !.access = now]

\* Object::PTtl, the milliseconds that are left; -1 when the object does not
\* expire and 0 when it has expired.
PTtl(obj, now) ==
  IF obj.expire = Forever THEN -1
  ELSE IF obj.expire < now THEN 0
  ELSE obj.expire - now

\* Object::SetPTtl.  The sum may wrap around, or be Forever itself.
SetPTtl(obj, msec, now) ==
  [obj EXCEPT !.expire = IF msec = -1 THEN Forever ELSE Wrap(now + msec)]

-----------------------------------------------------------------------------
(* The map of a database. *)

Put(objs, key, obj) ==
  [k \in DOMAIN objs \cup {key} |-> IF k = key THEN obj ELSE objs[k]]

Erase(objs, key) == [k \in DOMAIN objs \ {key} |-> objs[k]]

\* A lookup finds the key: it is stored and has not expired.
Finds(objs, key, now) == key \in DOMAIN objs /\ PTtl(objs[key], now) # 0

\* Variant with a mistake: an expired object is found like any other.
GetObjectStale(objs, key, now) == objs

\* The map after Ctx::GetObject, which drops the object that it finds expired.
\* The call returned an object if and only if the key is in this map.
GetObject(objs, key, now) ==
  IF Finds(objs, key, now) THEN objs ELSE Erase(objs, key)

\* The entries that a lookup at this time would find.
Alive(objs, now) ==
  [k \in {key \in DOMAIN objs : PTtl(objs[key], now) # 0} |-> objs[k]]

=============================================================================
