----------------------------- MODULE Recursions -----------------------------
(***************************************************************************)
(* Recursion and induction for the proofs about recursive functions.  The  *)
(* library's theorems about them have an operator for a parameter; these   *)
(* have sets for the predicates and functions for the steps, and follow    *)
(* from the fact that a set of natural numbers has a least one.            *)
(***************************************************************************)
EXTENDS Integers, WellFoundedInduction, TLAPS

\* A set of natural numbers has a least one.
LEMMA Least ==
  ASSUME NEW Rest, Rest \subseteq Nat, Rest # {}
  PROVE  \E x \in Rest : \A y \in Rest : x <= y
<1> DEFINE R == OpToRel(<, Nat)
<1>1. IsWellFoundedOn(R, Nat)
  BY NatLessThanWellFounded
<1>2. \A x, y \in Nat : y < x => <<y, x>> \in R
  BY DEF OpToRel
<1> HIDE DEF R
<1>3. PICK x \in Rest : \A y \in Rest : ~(<<y, x>> \in R)
  BY <1>1, WFMin
<1>4. \A y \in Rest : ~(y < x)
  BY <1>2, <1>3
<1>5. x \in Nat /\ \A y \in Rest : y \in Nat
  OBVIOUS
<1>6. \A y \in Rest : x <= y
  BY <1>4, <1>5
<1> QED
  BY <1>6

\* The way of a recursion: from x on to pre[x], which is smaller, and to an end in B.
Descends(D, B, pre, size) ==
  /\ pre \in [D -> D] /\ size \in [D -> Nat]
  /\ \A x \in D : x \notin B => size[pre[x]] < size[x]

\* What holds at the ends and is passed on along such a way holds everywhere.
LEMMA Descent ==
  ASSUME NEW D, NEW B, NEW pre, NEW size, Descends(D, B, pre, size),
         NEW S, \A x \in D : (x \in B \/ pre[x] \in S) => x \in S
  PROVE  \A x \in D : x \in S
<1> DEFINE Rest == {m \in Nat : \E x \in D : size[x] = m /\ x \notin S}
<1> SUFFICES ASSUME NEW z \in D, z \notin S PROVE FALSE
  OBVIOUS
<1>1. pre \in [D -> D] /\ size \in [D -> Nat] /\ \A x \in D : x \notin B => size[pre[x]] < size[x]
  BY DEF Descends
<1>2. Rest \subseteq Nat /\ Rest # {}
  BY <1>1
<1>3. PICK m \in Rest : \A k \in Rest : m <= k
  <2> HIDE DEF Rest
  <2> QED
    BY <1>2, Least
<1>4. PICK x \in D : size[x] = m /\ x \notin S
  OBVIOUS
<1>5. x \notin B /\ pre[x] \notin S /\ pre[x] \in D
  BY <1>1, <1>4
<1> DEFINE k == size[pre[x]]
<1>6. k \in Nat /\ k < m /\ m \in Nat
  BY <1>1, <1>4, <1>5
<1>7. k \in Rest
  BY <1>5, <1>6
<1> HIDE DEF k, Rest
<1> QED
  BY <1>3, <1>6, <1>7

\* One turn of a recursion: the end, or the turn of F on what comes before.
Turn(f, x, B, pre, a, F) == IF x \in B THEN a[x] ELSE F[<<f[pre[x]], x>>]

\* A function that obeys the recursion.
Obeys(f, D, B, pre, a, F) == \A x \in D : f[x] = Turn(f, x, B, pre, a, F)

\* There is one.
LEMMA Recursion ==
  ASSUME NEW D, NEW B, NEW pre, NEW size, Descends(D, B, pre, size),
         NEW V, NEW a \in [D -> V], NEW F \in [V \X D -> V]
  PROVE  \E f \in [D -> V] : Obeys(f, D, B, pre, a, F)
<1> DEFINE Good(f, m) == \A x \in D : size[x] <= m => f[x] = Turn(f, x, B, pre, a, F)
           Upto(m) == \E f \in [D -> V] : Good(f, m)
           Rest == {m \in Nat : ~Upto(m)}
<1>1. pre \in [D -> D] /\ size \in [D -> Nat] /\ \A x \in D : x \notin B => size[pre[x]] < size[x]
  BY DEF Descends
<1>2. ASSUME NEW f \in [D -> V], NEW x \in D PROVE Turn(f, x, B, pre, a, F) \in V
  <2>1. a[x] \in V /\ <<f[pre[x]], x>> \in V \X D
    BY <1>1
  <2> QED
    BY <2>1 DEF Turn
\* Two that obey it up to m agree up to m.
<1>3. ASSUME NEW m \in Nat, NEW f, NEW g, Good(f, m), Good(g, m)
      PROVE  \A x \in D : size[x] <= m => f[x] = g[x]
  <2> DEFINE S == {x \in D : size[x] <= m => f[x] = g[x]}
  <2>1. ASSUME NEW x \in D, x \in B \/ pre[x] \in S PROVE x \in S
    <3> SUFFICES ASSUME size[x] <= m PROVE f[x] = g[x]
      OBVIOUS
    <3>1. f[x] = Turn(f, x, B, pre, a, F) /\ g[x] = Turn(g, x, B, pre, a, F)
      BY <1>3
    <3>2. x \notin B => f[pre[x]] = g[pre[x]]
      <4> SUFFICES ASSUME x \notin B PROVE f[pre[x]] = g[pre[x]]
        OBVIOUS
      <4> DEFINE p == pre[x]
      <4>1. p \in D /\ size[p] \in Nat /\ size[x] \in Nat /\ size[p] < size[x]
        BY <1>1
      <4>2. size[p] <= m
        BY <4>1
      <4> QED
        BY <2>1, <4>2
    <3> QED
      BY <3>1, <3>2 DEF Turn
  <2>2. \A x \in D : x \in S
    <3> HIDE DEF S
    <3> QED
      BY <2>1, Descent
  <2> QED
    BY <2>2
\* One more turn reaches one further.
<1>4. ASSUME NEW m \in Nat, NEW f \in [D -> V], m = 0 \/ Good(f, m - 1) PROVE Upto(m)
  <2> DEFINE g == [x \in D |-> Turn(f, x, B, pre, a, F)]
  <2>1. g \in [D -> V]
    BY <1>2
  <2>2. \A x \in D : g[x] = Turn(f, x, B, pre, a, F)
    OBVIOUS
  <2> HIDE DEF g
  <2>3. ASSUME NEW x \in D, size[x] <= m PROVE g[x] = Turn(g, x, B, pre, a, F)
    <3>1. CASE x \in B
      BY <2>2, <3>1 DEF Turn
    <3>2. CASE x \notin B
      <4> DEFINE p == pre[x]
      <4>1. p \in D /\ size[p] \in Nat /\ size[x] \in Nat /\ size[p] < size[x]
        BY <1>1, <3>2
      <4>2. m # 0 /\ size[p] <= m - 1
        BY <2>3, <4>1
      <4>3. f[p] = Turn(f, p, B, pre, a, F)
        BY <1>4, <4>1, <4>2
      <4>4. g[p] = f[p]
        BY <2>2, <4>1, <4>3
      <4> QED
        BY <2>2, <3>2, <4>4 DEF Turn
    <3> QED
      BY <3>1, <3>2
  <2>4. Good(g, m)
    BY <2>3
  <2> HIDE DEF Good
  <2> QED
    BY <2>1, <2>4
<1> HIDE DEF Good
<1>5. ASSUME NEW m \in Nat PROVE Upto(m)
  <2> SUFFICES ASSUME ~Upto(m) PROVE FALSE
    OBVIOUS
  <2>1. Rest \subseteq Nat /\ Rest # {}
    OBVIOUS
  <2>2. PICK x \in Rest : \A y \in Rest : x <= y
    <3> HIDE DEF Rest
    <3> QED
      BY <2>1, Least
  <2>3. x \in Nat /\ ~Upto(x)
    OBVIOUS
  <2>4. x # 0
    BY <1>4, <2>3
  <2>5. x - 1 \in Nat /\ ~(x <= x - 1)
    BY <2>3, <2>4
  <2>6. Upto(x - 1)
    BY <2>2, <2>5
  <2> QED
    BY <1>4, <2>3, <2>6
<1> DEFINE upto(m) == CHOOSE f \in [D -> V] : Good(f, m)
           h == [x \in D |-> upto(size[x])[x]]
<1>6. ASSUME NEW m \in Nat PROVE upto(m) \in [D -> V] /\ Good(upto(m), m)
  BY <1>5
<1> HIDE DEF upto
<1>7. h \in [D -> V]
  <2>1. ASSUME NEW x \in D PROVE upto(size[x])[x] \in V
    BY <1>1, <1>6
  <2> QED
    BY <2>1
<1>8. \A x \in D : h[x] = upto(size[x])[x]
  OBVIOUS
<1> HIDE DEF h
<1>9. ASSUME NEW x \in D PROVE h[x] = Turn(h, x, B, pre, a, F)
  <2> DEFINE m == size[x]
             f == upto(m)
  <2>1. m \in Nat /\ f \in [D -> V] /\ Good(f, m) /\ h[x] = f[x]
    BY <1>1, <1>6, <1>8
  <2>2. f[x] = Turn(f, x, B, pre, a, F)
    BY <2>1 DEF Good
  <2>3. CASE x \in B
    BY <2>1, <2>2, <2>3 DEF Turn
  <2>4. CASE x \notin B
    <3> DEFINE p == pre[x]
               k == size[p]
               g == upto(k)
    <3>1. p \in D /\ k \in Nat /\ k < m
      BY <1>1, <2>4
    <3>2. Good(g, k) /\ h[p] = g[p]
      BY <1>6, <1>8, <3>1
    <3> HIDE DEF f, g, m
    <3>3. Good(f, k)
      BY <2>1, <3>1, <1>1 DEF Good
    <3>4. k <= k
      BY <3>1
    <3>5. f[p] = g[p]
      BY <1>3, <3>1, <3>2, <3>3, <3>4
    <3> QED
      BY <2>1, <2>2, <2>4, <3>2, <3>5 DEF Turn
  <2> QED
    BY <2>3, <2>4
<1> QED
  BY <1>7, <1>9 DEF Obeys

\* Counting down comes to an end.
Before == [k \in Nat |-> IF k = 0 THEN 0 ELSE k - 1]

Itself == [n \in Nat |-> n]

\* What is true of 0, and of each number after one that has it, is true of all.
LEMMA CountInduction ==
  ASSUME NEW S, 0 \in S, \A k \in Nat : k \in S => k + 1 \in S
  PROVE  \A k \in Nat : k \in S
<1>1. Descends(Nat, {0}, Before, Itself)
  BY DEF Descends, Before, Itself
<1>2. ASSUME NEW k \in Nat, k \in {0} \/ Before[k] \in S PROVE k \in S
  <2>1. CASE k = 0
    BY <2>1
  <2>2. CASE k # 0
    <3>1. k - 1 \in Nat /\ Before[k] = k - 1 /\ (k - 1) + 1 = k
      BY <2>2 DEF Before
    <3> QED
      BY <1>2, <2>2, <3>1
  <2> QED
    BY <2>1, <2>2
<1> QED
  BY <1>1, <1>2, Descent

\* A function that obeys a recursion that counts from 0.
Counts(f, V, a, F) ==
  /\ f \in [Nat -> V]
  /\ f[0] = a
  /\ \A k \in Nat : f[k + 1] = F[<<f[k], k>>]

\* There is one.
LEMMA CountRecursion ==
  ASSUME NEW V, NEW a, NEW F, a \in V /\ F \in [V \X Nat -> V]
  PROVE  \E f : Counts(f, V, a, F)
<1> DEFINE start == [k \in Nat |-> a]
           G == [x \in V \X Nat |-> F[<<x[1], x[2] - 1>>]]
           H == [x \in V \X Nat |-> IF x[2] = 0 THEN a ELSE G[x]]
<1>1. Descends(Nat, {0}, Before, Itself)
  BY DEF Descends, Before, Itself
<1>2. start \in [Nat -> V] /\ H \in [V \X Nat -> V]
  <2>1. ASSUME NEW x \in V \X Nat, x[2] # 0 PROVE G[x] \in V
    <3>1. <<x[1], x[2] - 1>> \in V \X Nat
      BY <2>1
    <3> QED
      BY <3>1
  <2>2. \A x \in V \X Nat : H[x] \in V
    <3> HIDE DEF G
    <3> QED
      BY <2>1
  <2> HIDE DEF G
  <2> QED
    BY <2>2
<1>3. PICK f \in [Nat -> V] : Obeys(f, Nat, {0}, Before, start, H)
  <2> HIDE DEF start, H, G
  <2> QED
    BY <1>1, <1>2, Recursion
<1>4. f[0] = a
  <2>1. f[0] = start[0]
    BY <1>3 DEF Obeys, Turn
  <2> QED
    BY <2>1
<1>5. ASSUME NEW k \in Nat PROVE f[k + 1] = F[<<f[k], k>>]
  <2>1. k + 1 \in Nat /\ k + 1 # 0 /\ Before[k + 1] = k /\ (k + 1) - 1 = k
    BY DEF Before
  <2>2. f[k + 1] = H[<<f[k], k + 1>>]
    <3> HIDE DEF H
    <3> QED
      BY <1>3, <2>1 DEF Obeys, Turn
  <2>3. <<f[k], k + 1>> \in V \X Nat
    BY <1>3, <2>1
  <2>4. H[<<f[k], k + 1>>] = G[<<f[k], k + 1>>]
    <3> HIDE DEF G
    <3> QED
      BY <2>1, <2>3
  <2>5. G[<<f[k], k + 1>>] = F[<<f[k], (k + 1) - 1>>]
    BY <2>3
  <2> QED
    BY <2>1, <2>2, <2>4, <2>5
<1>6. Counts(f, V, a, F)
  BY <1>3, <1>4, <1>5 DEF Counts
<1> QED
  BY <1>6

\* Up to a number: what holds at the start and is passed on holds to the end.
LEMMA Induct ==
  ASSUME NEW n \in Nat, NEW S, 0 \in S,
         \A i \in 1 .. n : i - 1 \in S => i \in S
  PROVE  \A i \in 0 .. n : i \in S
<1> DEFINE T == {i \in 0 .. n : i \notin S}
<1> SUFFICES ASSUME T # {} PROVE FALSE
  OBVIOUS
<1>1. PICK x \in T : \A y \in T : x <= y
  <2>1. T \subseteq Nat
    OBVIOUS
  <2> HIDE DEF T
  <2> QED
    BY <2>1, Least
<1>2. x \in 1 .. n /\ x - 1 \in 0 .. n /\ ~(x <= x - 1)
  OBVIOUS
<1>3. x - 1 \in S
  BY <1>1, <1>2
<1> QED
  BY <1>2, <1>3

\* The values up to n of the recursion that starts with a and goes on by F.
Follows(f, a, F, n) == f[0] = a /\ \A i \in 1 .. n : f[i] = F[<<f[i - 1], i>>]

\* They exist.
LEMMA ListRecursion ==
  ASSUME NEW n \in Nat, NEW T, NEW a \in T, NEW F \in [T \X (1 .. n) -> T]
  PROVE  \E f \in [0 .. n -> T] : Follows(f, a, F, n)
<1> DEFINE S == {m \in 0 .. n : \E f \in [0 .. n -> T] : Follows(f, a, F, m)}
<1>1. 0 \in S
  <2> DEFINE f == [i \in 0 .. n |-> a]
  <2>1. f \in [0 .. n -> T] /\ Follows(f, a, F, 0) /\ 0 \in 0 .. n
    BY DEF Follows
  <2> HIDE DEF f
  <2> QED
    BY <2>1
<1>2. ASSUME NEW m \in 1 .. n, m - 1 \in S PROVE m \in S
  <2>1. PICK f \in [0 .. n -> T] : Follows(f, a, F, m - 1)
    BY <1>2
  <2> DEFINE g == [f EXCEPT ![m] = F[<<f[m - 1], m>>]]
  <2>2. f[m - 1] \in T /\ F[<<f[m - 1], m>>] \in T
    OBVIOUS
  <2>3. g \in [0 .. n -> T] /\ g[m] = F[<<f[m - 1], m>>] /\ \A i \in 0 .. m - 1 : g[i] = f[i]
    BY <2>2
  <2> HIDE DEF g
  <2>4. Follows(g, a, F, m)
    <3>1. g[0] = a
      BY <2>1, <2>3 DEF Follows
    <3>2. ASSUME NEW i \in 1 .. m PROVE g[i] = F[<<g[i - 1], i>>]
      <4>1. CASE i = m
        <5>1. m - 1 \in 0 .. m - 1
          OBVIOUS
        <5>2. g[m - 1] = f[m - 1]
          BY <2>3, <5>1
        <5> QED
          BY <2>3, <4>1, <5>2
      <4>2. CASE i \in 1 .. m - 1
        <5>1. i \in 0 .. m - 1 /\ i - 1 \in 0 .. m - 1
          BY <4>2
        <5>2. g[i] = f[i] /\ g[i - 1] = f[i - 1]
          BY <2>3, <5>1
        <5> QED
          BY <2>1, <4>2, <5>2 DEF Follows
      <4> QED
        BY <4>1, <4>2
    <3> QED
      BY <3>1, <3>2 DEF Follows
  <2> QED
    BY <2>3, <2>4
<1>3. n \in S
  <2> HIDE DEF S
  <2>1. \A i \in 0 .. n : i \in S
    BY <1>1, <1>2, Induct
  <2> QED
    BY <2>1
<1> QED
  BY <1>3

=============================================================================
