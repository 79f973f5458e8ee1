------------------------- MODULE SessionStreamProofs -------------------------
(***************************************************************************)
(* Theorems about the replies of the connections: none is lost while the   *)
(* connection is open, they go out in order, and a close that the server   *)
(* decides on comes after everything before it has been sent.  The first   *)
(* part is about sequences of units and queues of pieces, the second about *)
(* the steps of Session.                                                   *)
(***************************************************************************)
EXTENDS SessionProofs

USE SizesAssumption, SwitchesAssumption

-----------------------------------------------------------------------------
(* The wire: a sequence of units.                                            *)

Units == Nat \X (1 .. PieceSize)

\* What one write(2) puts on the wire: n units of piece i, after the first "done".
Slice(i, done, n) == [k \in 1 .. n |-> <<i, done + k>>]

\* The wire w becomes v by it.
Written(w, i, done, n, v) ==
  /\ w \in Seq(Units) /\ i \in Nat /\ done \in Nat /\ n \in Nat
  /\ done + n <= PieceSize
  /\ v = w \o Slice(i, done, n)

\* Piece i is there, whole and uninterrupted.
Complete(w, i) ==
  \E p \in 0 .. Len(w) - PieceSize : \A k \in 1 .. PieceSize : w[p + k] = <<i, k>>

\* No unit of a piece follows a unit of a later one.
Ordered(w) == \A p \in 1 .. Len(w) - 1 : w[p][1] <= w[p + 1][1]

\* No unit is of a piece after piece n.
UpTo(w, n) == \A p \in 1 .. Len(w) : w[p][1] <= n

\* The last m units are the first m of piece i.
EndsIn(w, i, m) == m <= Len(w) /\ \A k \in 1 .. m : w[Len(w) - m + k] = <<i, k>>

\* The wire after a write.
LEMMA WrittenUnits ==
  ASSUME NEW w, NEW i, NEW done, NEW n, NEW v, Written(w, i, done, n, v)
  PROVE  /\ v \in Seq(Units) /\ Len(v) = Len(w) + n /\ Len(w) \in Nat
         /\ \A p \in 1 .. Len(w) : v[p] = w[p]
         /\ \A k \in 1 .. n : v[Len(w) + k] = <<i, done + k>>
         /\ \A p \in 1 .. Len(w) : w[p][1] \in Nat
         /\ i \in Nat /\ done \in Nat /\ n \in Nat /\ done + n <= PieceSize
<1> USE DEF Written
<1> DEFINE s == Slice(i, done, n)
<1>1. \A k \in 1 .. n : <<i, done + k>> \in Units
  BY DEF Units
<1>2. s \in Seq(Units) /\ Len(s) = n /\ \A k \in 1 .. n : s[k] = <<i, done + k>>
  <2>1. s \in [1 .. n -> Units] /\ \A k \in 1 .. n : s[k] = <<i, done + k>>
    BY <1>1 DEF Slice
  <2> HIDE DEF s
  <2> QED
    BY <2>1, SeqDef
<1> HIDE DEF s
<1>3. Len(w) \in Nat
  BY LenProperties
<1>4. /\ w \o s \in Seq(Units) /\ Len(w \o s) = Len(w) + n
      /\ \A p \in 1 .. Len(w) : (w \o s)[p] = w[p]
      /\ \A k \in 1 .. n : (w \o s)[Len(w) + k] = s[k]
  <2>1. /\ w \o s \in Seq(Units) /\ Len(w \o s) = Len(w) + n
        /\ \A p \in 1 .. Len(w) + n :
             (w \o s)[p] = IF p <= Len(w) THEN w[p] ELSE s[p - Len(w)]
    BY <1>2, ConcatProperties
  <2>2. \A k \in 1 .. n : /\ Len(w) + k \in 1 .. Len(w) + n
                          /\ ~(Len(w) + k <= Len(w)) /\ (Len(w) + k) - Len(w) = k
    BY <1>3
  <2> QED
    BY <1>3, <2>1, <2>2
<1>5. \A p \in 1 .. Len(w) : w[p][1] \in Nat
  BY ElementOfSeq DEF Units
<1> QED
  BY <1>2, <1>3, <1>4, <1>5 DEF s

\* A write takes nothing from the wire: what was delivered stays so.
LEMMA CompleteKept ==
  ASSUME NEW w, NEW i, NEW done, NEW n, NEW v,
         Written(w, i, done, n, v), NEW j, Complete(w, j)
  PROVE  Complete(v, j)
<1>1. /\ Len(v) = Len(w) + n /\ Len(w) \in Nat /\ n \in Nat
      /\ \A p \in 1 .. Len(w) : v[p] = w[p]
  BY WrittenUnits
<1>2. PICK p \in 0 .. Len(w) - PieceSize :
        \A k \in 1 .. PieceSize : w[p + k] = <<j, k>>
  BY DEF Complete
<1>3. p \in 0 .. Len(v) - PieceSize
  BY <1>1, <1>2
<1>4. ASSUME NEW k \in 1 .. PieceSize PROVE v[p + k] = <<j, k>>
  BY <1>1, <1>2
<1> QED
  BY <1>3, <1>4 DEF Complete

\* Units of the last piece, or of a later one, go to the end in order.
LEMMA OrderKept ==
  ASSUME NEW w, NEW i, NEW done, NEW n, NEW v,
         Written(w, i, done, n, v), Ordered(w), UpTo(w, i)
  PROVE  /\ Ordered(v)
         /\ \A m \in Nat : i <= m => UpTo(v, m)
<1>1. /\ Len(v) = Len(w) + n /\ Len(w) \in Nat
      /\ \A p \in 1 .. Len(w) : v[p] = w[p]
      /\ \A k \in 1 .. n : v[Len(w) + k] = <<i, done + k>>
      /\ \A p \in 1 .. Len(w) : w[p][1] \in Nat
      /\ i \in Nat /\ done \in Nat /\ n \in Nat
  BY WrittenUnits
<1>2. \A p \in Len(w) + 1 .. Len(v) : v[p][1] = i
  <2> SUFFICES ASSUME NEW p \in Len(w) + 1 .. Len(v) PROVE v[p][1] = i
    OBVIOUS
  <2>1. p - Len(w) \in 1 .. n /\ Len(w) + (p - Len(w)) = p
    BY <1>1
  <2>2. v[p] = <<i, done + (p - Len(w))>>
    BY <1>1, <2>1
  <2> QED
    BY <2>2
<1>3. \A p \in 1 .. Len(w) : v[p][1] = w[p][1] /\ v[p][1] \in Nat /\ v[p][1] <= i
  BY <1>1 DEF UpTo
<1>4. Ordered(v)
  <2> SUFFICES ASSUME NEW p \in 1 .. Len(v) - 1 PROVE v[p][1] <= v[p + 1][1]
    BY DEF Ordered
  <2>1. CASE p + 1 <= Len(w)
    <3>1. p \in 1 .. Len(w) - 1 /\ p \in 1 .. Len(w) /\ p + 1 \in 1 .. Len(w)
      BY <1>1, <2>1
    <3> QED
      BY <1>3, <3>1 DEF Ordered
  <2>2. CASE p = Len(w)
    <3>1. p \in 1 .. Len(w) /\ p + 1 \in Len(w) + 1 .. Len(v)
      BY <1>1, <2>2
    <3> QED
      BY <1>2, <1>3, <3>1
  <2>3. CASE p > Len(w)
    <3>1. p \in Len(w) + 1 .. Len(v) /\ p + 1 \in Len(w) + 1 .. Len(v)
      BY <1>1, <2>3
    <3> QED
      BY <1>1, <1>2, <3>1
  <2> QED
    BY <1>1, <2>1, <2>2, <2>3
<1>5. ASSUME NEW m \in Nat, i <= m PROVE UpTo(v, m)
  <2> SUFFICES ASSUME NEW p \in 1 .. Len(v) PROVE v[p][1] <= m
    BY DEF UpTo
  <2>1. p \in 1 .. Len(w) \/ p \in Len(w) + 1 .. Len(v)
    BY <1>1
  <2> QED
    BY <1>1, <1>2, <1>3, <1>5, <2>1
<1> QED
  BY <1>4, <1>5

\* A write that goes on where the last one stopped.
LEMMA EndKept ==
  ASSUME NEW w, NEW i, NEW done, NEW n, NEW v,
         Written(w, i, done, n, v), EndsIn(w, i, done)
  PROVE  EndsIn(v, i, done + n)
<1>1. /\ Len(v) = Len(w) + n /\ Len(w) \in Nat
      /\ \A p \in 1 .. Len(w) : v[p] = w[p]
      /\ \A k \in 1 .. n : v[Len(w) + k] = <<i, done + k>>
      /\ \A p \in 1 .. Len(w) : w[p][1] \in Nat
      /\ i \in Nat /\ done \in Nat /\ n \in Nat
  BY WrittenUnits
<1>2. done + n <= Len(v)
  BY <1>1 DEF EndsIn
<1>3. ASSUME NEW k \in 1 .. done + n PROVE v[Len(v) - (done + n) + k] = <<i, k>>
  <2>1. Len(v) - (done + n) + k = Len(w) - done + k
    BY <1>1
  <2>2. CASE k <= done
    <3>1. k \in 1 .. done /\ Len(w) - done + k \in 1 .. Len(w)
      BY <1>1, <2>2 DEF EndsIn
    <3> QED
      BY <1>1, <2>1, <3>1 DEF EndsIn
  <2>3. CASE k > done
    <3>1. k - done \in 1 .. n /\ Len(w) - done + k = Len(w) + (k - done)
      BY <1>1, <2>3
    <3>2. v[Len(w) + (k - done)] = <<i, done + (k - done)>>
      BY <1>1, <3>1
    <3>3. done + (k - done) = k
      BY <1>1
    <3> QED
      BY <2>1, <3>1, <3>2, <3>3
  <2> QED
    BY <1>1, <2>2, <2>3
<1> QED
  BY <1>2, <1>3 DEF EndsIn

\* A wire that ends in a whole piece contains it.
LEMMA EndComplete ==
  ASSUME NEW w \in Seq(Units), NEW i, EndsIn(w, i, PieceSize)
  PROVE  Complete(w, i)
<1>1. Len(w) \in Nat /\ Len(w) - PieceSize \in 0 .. Len(w) - PieceSize
  BY LenProperties DEF EndsIn
<1> QED
  BY <1>1 DEF EndsIn, Complete

-----------------------------------------------------------------------------
(* The queue of pieces, and the wire that it goes to.                        *)

\* The pieces are in line: an entry with units is of a later piece than those
\* before it, and only the front may be cut.
InLine(q) ==
  \A j, k \in 1 .. Len(q) :
    j < k => /\ q[j].id <= q[k].id
             /\ q[k].left > 0 => q[j].id < q[k].id
             /\ q[k].left \in {0, PieceSize}

\* What the front has sent is what the wire ends in.
Resumes(w, q) ==
  q # <<>> /\ q[1].left > 0 => EndsIn(w, q[1].id, PieceSize - q[1].left)

Queued(q, i) == \E j \in 1 .. Len(q) : q[j].id = i /\ q[j].left > 0

\* Every piece that was issued is on the wire or in the queue.
Accounted(w, q, n) == \A i \in 1 .. n : Complete(w, i) \/ Queued(q, i)

\* The wire is behind every entry of the queue.
Behind(w, q, n) ==
  /\ UpTo(w, n)
  /\ \A j \in 1 .. Len(q) : q[j].id \in 1 .. n /\ UpTo(w, q[j].id)

Flow(w, q, n) ==
  Behind(w, q, n) /\ InLine(q) /\ Resumes(w, q) /\ Accounted(w, q, n)

\* The limit may be raised.
LEMMA UpToWider ==
  ASSUME NEW w \in Seq(Units), NEW m \in Nat, NEW n \in Nat, m <= n, UpTo(w, m)
  PROVE  UpTo(w, n)
<1>1. \A p \in 1 .. Len(w) : w[p] \in Nat \X (1 .. PieceSize)
  BY ElementOfSeq DEF Units
<1>2. \A p \in 1 .. Len(w) : w[p][1] \in Nat
  BY <1>1
<1> QED
  BY <1>2 DEF UpTo

\* A piece joins the queue (conn.cpp:78-86): a whole one of the next number, or
\* the empty one that goes by the last number.
LEMMA FlowQueued ==
  ASSUME NEW w \in Seq(Units), NEW q \in Seq(SendReqs), NEW n \in Nat, Flow(w, q, n),
         NEW e \in SendReqs,
         \/ e.left = 0 /\ e.id = n /\ n > 0
         \/ e.left = PieceSize /\ e.id = n + 1
  PROVE  Flow(w, Append(q, e), e.id)
<1> DEFINE r == Append(q, e)
<1>1. /\ Len(r) = Len(q) + 1 /\ Len(q) \in Nat
      /\ r[Len(q) + 1] = e /\ \A j \in 1 .. Len(q) : r[j] = q[j] /\ q[j] \in SendReqs
  BY AppendProperties, ElementOfSeq, LenProperties
<1> HIDE DEF r
<1>2. e.id \in Nat /\ n <= e.id /\ UpTo(w, n) /\ UpTo(w, e.id)
  BY UpToWider DEF Flow, Behind, SendReqs
<1>3. \A j \in 1 .. Len(q) : q[j].id \in 1 .. n /\ UpTo(w, q[j].id)
  BY DEF Flow, Behind
<1>4. Behind(w, r, e.id)
  <2> SUFFICES ASSUME NEW j \in 1 .. Len(r)
               PROVE  r[j].id \in 1 .. e.id /\ UpTo(w, r[j].id)
    BY <1>2 DEF Behind
  <2>1. CASE j = Len(q) + 1
    BY <1>1, <1>2, <2>1
  <2>2. CASE j \in 1 .. Len(q)
    BY <1>1, <1>2, <1>3, <2>2
  <2> QED
    BY <1>1, <2>1, <2>2
<1>5. InLine(r)
  <2> SUFFICES ASSUME NEW j \in 1 .. Len(r), NEW k \in 1 .. Len(r), j < k
               PROVE  /\ r[j].id <= r[k].id
                      /\ r[k].left > 0 => r[j].id < r[k].id
                      /\ r[k].left \in {0, PieceSize}
    BY DEF InLine
  <2>1. CASE k = Len(q) + 1
    <3>1. j \in 1 .. Len(q)
      BY <1>1, <2>1
    <3>2. r[j].id \in 1 .. n /\ r[k] = e
      BY <1>1, <1>3, <2>1, <3>1
    <3> QED
      BY <1>2, <3>2
  <2>2. CASE k \in 1 .. Len(q)
    <3>1. j \in 1 .. Len(q)
      BY <1>1, <2>2
    <3> QED
      BY <1>1, <2>2, <3>1 DEF Flow, InLine
  <2> QED
    BY <1>1, <2>1, <2>2
<1>6. Resumes(w, r)
  <2>1. CASE q = <<>>
    <3>1. Len(q) = 0
      BY <2>1
    <3>2. r[1] = e
      BY <1>1, <3>1
    <3>3. EndsIn(w, e.id, 0)
      BY LenProperties DEF EndsIn
    <3> QED
      BY <3>2, <3>3 DEF Resumes
  <2>2. CASE q # <<>>
    <3>1. 1 \in 1 .. Len(q)
      BY <1>1, <2>2, EmptySeq
    <3>2. r[1] = q[1]
      BY <1>1, <3>1
    <3> QED
      BY <2>2, <3>2 DEF Flow, Resumes
  <2> QED
    BY <2>1, <2>2
<1>7. Accounted(w, r, e.id)
  <2> SUFFICES ASSUME NEW i \in 1 .. e.id PROVE Complete(w, i) \/ Queued(r, i)
    BY DEF Accounted
  <2>1. CASE i \in 1 .. n
    <3>1. CASE Complete(w, i)
      BY <3>1
    <3>2. CASE Queued(q, i)
      <4>1. PICK j \in 1 .. Len(q) : q[j].id = i /\ q[j].left > 0
        BY <3>2 DEF Queued
      <4>2. j \in 1 .. Len(r) /\ r[j] = q[j]
        BY <1>1
      <4> QED
        BY <4>1, <4>2 DEF Queued
    <3> QED
      BY <2>1, <3>1, <3>2 DEF Flow, Accounted
  <2>2. CASE i = n + 1
    <3>1. e.id = i /\ e.left > 0
      BY <2>2
    <3>2. Len(q) + 1 \in 1 .. Len(r)
      BY <1>1
    <3> QED
      BY <1>1, <3>1, <3>2 DEF Queued
  <2> QED
    BY <1>2, <2>1, <2>2
<1> QED
  BY <1>4, <1>5, <1>6, <1>7 DEF Flow, r

\* With nothing queued, every piece is on the wire.
LEMMA AllDelivered ==
  ASSUME NEW w, NEW n, Flow(w, <<>>, n)
  PROVE  \A i \in 1 .. n : Complete(w, i)
<1>1. \A i : ~Queued(<<>>, i)
  BY DEF Queued
<1> QED
  BY <1>1 DEF Flow, Accounted

\* A write of units of the last piece, or of the next one, keeps the pieces that
\* are delivered and leaves the wire behind that piece.
LEMMA FlowWritten ==
  ASSUME NEW w \in Seq(Units), NEW i \in Nat, NEW done, NEW m, NEW v,
         Written(w, i, done, m, v), Ordered(w), UpTo(w, i), EndsIn(w, i, done)
  PROVE  /\ Ordered(v) /\ UpTo(v, i) /\ EndsIn(v, i, done + m)
         /\ \A j : Complete(w, j) => Complete(v, j)
         /\ done + m = PieceSize => Complete(v, i)
<1>1. v \in Seq(Units) /\ done \in Nat /\ m \in Nat
  BY WrittenUnits
<1>2. Ordered(v) /\ UpTo(v, i)
  BY OrderKept
<1>3. EndsIn(v, i, done + m)
  BY EndKept
<1>4. \A j : Complete(w, j) => Complete(v, j)
  BY CompleteKept
<1>5. done + m = PieceSize => Complete(v, i)
  BY <1>1, <1>3, EndComplete
<1> QED
  BY <1>2, <1>3, <1>4, <1>5

\* Nothing is the end of every wire.
LEMMA EndsInNothing ==
  ASSUME NEW w \in Seq(Units), NEW i
  PROVE  EndsIn(w, i, 0)
  BY LenProperties DEF EndsIn

\* A piece that is written directly, whole or in part (conn.cpp:88-111); after a
\* part the whole piece is queued.
LEMMA FlowDirect ==
  ASSUME NEW w \in Seq(Units), NEW q, NEW n \in Nat, Flow(w, q, n), q = <<>>,
         Ordered(w), NEW m, NEW v, Written(w, n + 1, 0, m, v)
  PROVE  /\ Ordered(v)
         /\ m = PieceSize => Flow(v, q, n + 1)
         /\ \A e \in SendReqs :
              e.left = PieceSize /\ e.id = n + 1 => Flow(v, Append(q, e), n + 1)
<1>1. UpTo(w, n + 1) /\ EndsIn(w, n + 1, 0)
  BY UpToWider, EndsInNothing DEF Flow, Behind
<1>2. v \in Seq(Units) /\ m \in Nat
  BY WrittenUnits
<1>3. /\ Ordered(v) /\ UpTo(v, n + 1)
      /\ \A j : Complete(w, j) => Complete(v, j)
      /\ m = PieceSize => Complete(v, n + 1)
  BY <1>1, <1>2, FlowWritten
<1>4. \A i \in 1 .. n : Complete(v, i)
  BY <1>3, AllDelivered
<1>5. ASSUME m = PieceSize PROVE Flow(v, q, n + 1)
  <2>1. Accounted(v, q, n + 1)
    BY <1>3, <1>4, <1>5 DEF Accounted
  <2> QED
    BY <1>3, <2>1 DEF Flow, Behind, InLine, Resumes
<1>6. ASSUME NEW e \in SendReqs, e.left = PieceSize, e.id = n + 1
      PROVE  Flow(v, Append(q, e), n + 1)
  <2> DEFINE r == Append(q, e)
  <2>1. Len(r) = 1 /\ r[1] = e
    OBVIOUS
  <2> HIDE DEF r
  <2>2. Behind(v, r, n + 1)
    BY <1>3, <1>6, <2>1 DEF Behind
  <2>3. InLine(r)
    BY <2>1 DEF InLine
  <2>4. Resumes(v, r)
    BY <1>2, <1>6, <2>1, EndsInNothing DEF Resumes
  <2>5. Accounted(v, r, n + 1)
    <3>1. Queued(r, n + 1)
      BY <1>6, <2>1 DEF Queued
    <3> QED
      BY <1>4, <3>1 DEF Accounted
  <2> QED
    BY <2>2, <2>3, <2>4, <2>5 DEF Flow, r
<1> QED
  BY <1>3, <1>5, <1>6

\* What the queue says of its front.
LEMMA FrontOfFlow ==
  ASSUME NEW w \in Seq(Units), NEW q \in Seq(SendReqs), NEW n \in Nat,
         Flow(w, q, n), q # <<>>
  PROVE  /\ Len(q) \in Nat \ {0} /\ Head(q) = q[1] /\ q[1] \in SendReqs
         /\ q[1].id \in 1 .. n /\ q[1].left \in 0 .. PieceSize
         /\ UpTo(w, q[1].id)
         /\ q[1].left > 0 => EndsIn(w, q[1].id, PieceSize - q[1].left)
         /\ \A i \in 1 .. q[1].id - 1 : Complete(w, i)
         /\ q[1].left = 0 => Complete(w, q[1].id)
<1>1. Len(q) \in Nat \ {0} /\ Head(q) = q[1]
  BY EmptySeq, LenProperties
<1>2. 1 \in 1 .. Len(q)
  BY <1>1
<1>3. q[1] \in SendReqs /\ q[1].left \in 0 .. PieceSize
  <2>1. q[1] \in SendReqs
    BY <1>2, ElementOfSeq
  <2> QED
    BY <2>1 DEF SendReqs
<1>4. q[1].id \in 1 .. n /\ UpTo(w, q[1].id)
  BY <1>2 DEF Flow, Behind
<1>5. ASSUME NEW i \in 1 .. q[1].id, Queued(q, i)
      PROVE  i = q[1].id /\ q[1].left > 0
  <2>1. PICK j \in 1 .. Len(q) : q[j].id = i /\ q[j].left > 0
    BY <1>5 DEF Queued
  <2>2. j = 1 \/ q[1].id < q[j].id
    BY <1>1, <1>2, <2>1 DEF Flow, InLine
  <2> QED
    BY <1>4, <1>5, <2>1, <2>2
<1>6. \A i \in 1 .. q[1].id - 1 : Complete(w, i)
  <2> SUFFICES ASSUME NEW i \in 1 .. q[1].id - 1 PROVE Complete(w, i)
    OBVIOUS
  <2>1. i \in 1 .. n /\ i \in 1 .. q[1].id /\ i # q[1].id
    BY <1>4
  <2> QED
    BY <1>5, <2>1 DEF Flow, Accounted
<1>7. q[1].left = 0 => Complete(w, q[1].id)
  <2>1. q[1].id \in 1 .. n /\ q[1].id \in 1 .. q[1].id
    BY <1>4
  <2> QED
    BY <1>3, <1>5, <2>1 DEF Flow, Accounted
<1> QED
  BY <1>1, <1>3, <1>4, <1>6, <1>7 DEF Flow, Resumes

\* Conn::OnSend sends the rest of the front and pops it (conn.cpp:152-172).
LEMMA FlowFlushed ==
  ASSUME NEW w \in Seq(Units), NEW q \in Seq(SendReqs), NEW n \in Nat,
         Flow(w, q, n), q # <<>>, Ordered(w),
         NEW v, Written(w, q[1].id, PieceSize - q[1].left, q[1].left, v)
  PROVE  /\ Ordered(v) /\ UpTo(v, q[1].id)
         /\ \A i \in 1 .. q[1].id : Complete(v, i)
         /\ Flow(v, Tail(q), n)
<1> DEFINE i == q[1].id
           r == Tail(q)
<1>1. /\ Len(q) \in Nat \ {0} /\ q[1] \in SendReqs
      /\ i \in 1 .. n /\ q[1].left \in 0 .. PieceSize /\ UpTo(w, i)
      /\ q[1].left > 0 => EndsIn(w, i, PieceSize - q[1].left)
      /\ \A j \in 1 .. i - 1 : Complete(w, j)
      /\ q[1].left = 0 => Complete(w, i)
  BY FrontOfFlow
<1>2. /\ Len(r) = Len(q) - 1
      /\ \A j \in 1 .. Len(r) : r[j] = q[j + 1] /\ j + 1 \in 1 .. Len(q)
  BY <1>1, HeadTailProperties
<1> HIDE DEF r
<1>3. v \in Seq(Units)
  BY WrittenUnits
<1>4. Ordered(v) /\ UpTo(v, i) /\ \A m \in Nat : i <= m => UpTo(v, m)
  BY <1>1, OrderKept
<1>5. \A j : Complete(w, j) => Complete(v, j)
  BY CompleteKept
<1>6. Complete(v, i)
  <2>1. CASE q[1].left = 0
    BY <1>1, <1>5, <2>1
  <2>2. CASE q[1].left > 0
    <3>1. EndsIn(v, i, (PieceSize - q[1].left) + q[1].left)
      BY <1>1, <2>2, EndKept
    <3>2. (PieceSize - q[1].left) + q[1].left = PieceSize
      BY <1>1
    <3> QED
      BY <1>3, <3>1, <3>2, EndComplete
  <2> QED
    BY <1>1, <2>1, <2>2
<1>7. \A j \in 1 .. i : Complete(v, j)
  <2> SUFFICES ASSUME NEW j \in 1 .. i PROVE Complete(v, j)
    OBVIOUS
  <2>1. j = i \/ j \in 1 .. i - 1
    BY <1>1
  <2> QED
    BY <1>1, <1>5, <1>6, <2>1
<1>8. Behind(v, r, n)
  <2> SUFFICES ASSUME NEW j \in 1 .. Len(r)
               PROVE  r[j].id \in 1 .. n /\ UpTo(v, r[j].id)
    BY <1>1, <1>4 DEF Behind
  <2>1. r[j].id \in 1 .. n
    BY <1>2 DEF Flow, Behind
  <2>2. i <= r[j].id
    <3>1. 1 \in 1 .. Len(q) /\ 1 < j + 1
      BY <1>1
    <3> QED
      BY <1>2, <3>1 DEF Flow, InLine
  <2> QED
    BY <1>4, <2>1, <2>2
<1>9. InLine(r)
  <2> SUFFICES ASSUME NEW j \in 1 .. Len(r), NEW k \in 1 .. Len(r), j < k
               PROVE  /\ r[j].id <= r[k].id
                      /\ r[k].left > 0 => r[j].id < r[k].id
                      /\ r[k].left \in {0, PieceSize}
    BY DEF InLine
  <2>1. j + 1 < k + 1
    OBVIOUS
  <2> QED
    BY <1>2, <2>1 DEF Flow, InLine
<1>10. Resumes(v, r)
  <2> SUFFICES ASSUME r # <<>>, r[1].left > 0
               PROVE  EndsIn(v, r[1].id, PieceSize - r[1].left)
    BY DEF Resumes
  <2>1. 1 \in 1 .. Len(r)
    <3>1. r \in Seq(SendReqs)
      BY <1>1, HeadTailProperties DEF r
    <3> QED
      BY <3>1, EmptySeq, LenProperties
  <2>2. r[1] = q[2] /\ 1 \in 1 .. Len(q) /\ 2 \in 1 .. Len(q)
    BY <1>2, <2>1
  <2>3. r[1].left = PieceSize
    BY <2>2 DEF Flow, InLine
  <2> QED
    BY <1>3, <2>3, EndsInNothing
<1>11. Accounted(v, r, n)
  <2> SUFFICES ASSUME NEW k \in 1 .. n PROVE Complete(v, k) \/ Queued(r, k)
    BY DEF Accounted
  <2>1. CASE Complete(w, k)
    BY <1>5, <2>1
  <2>2. CASE Queued(q, k)
    <3>1. PICK j \in 1 .. Len(q) : q[j].id = k /\ q[j].left > 0
      BY <2>2 DEF Queued
    <3>2. CASE j = 1
      BY <1>6, <3>1, <3>2
    <3>3. CASE j # 1
      <4>1. j - 1 \in 1 .. Len(r) /\ (j - 1) + 1 = j
        BY <1>1, <1>2, <3>3
      <4>2. r[j - 1] = q[j]
        BY <1>2, <4>1
      <4> QED
        BY <3>1, <4>1, <4>2 DEF Queued
    <3> QED
      BY <3>2, <3>3
  <2> QED
    BY <2>1, <2>2 DEF Flow, Accounted
<1> QED
  BY <1>4, <1>7, <1>8, <1>9, <1>10, <1>11 DEF Flow, r

\* Conn::OnSend sends a part of the front, which stays with the rest
\* (conn.cpp:159-166).
LEMMA FlowCut ==
  ASSUME NEW w \in Seq(Units), NEW q \in Seq(SendReqs), NEW n \in Nat,
         Flow(w, q, n), q # <<>>, Ordered(w), NEW m \in Nat, m < q[1].left,
         NEW v, Written(w, q[1].id, PieceSize - q[1].left, m, v),
         NEW e \in SendReqs, e.id = q[1].id, e.left = q[1].left - m
  PROVE  Ordered(v) /\ Flow(v, <<e>> \o Tail(q), n)
<1> DEFINE i == q[1].id
           r == <<e>> \o Tail(q)
<1>1. /\ Len(q) \in Nat \ {0} /\ q[1] \in SendReqs
      /\ i \in 1 .. n /\ q[1].left \in 0 .. PieceSize /\ UpTo(w, i)
      /\ EndsIn(w, i, PieceSize - q[1].left)
  <2>1. q[1].left \in 0 .. PieceSize => q[1].left > 0
    OBVIOUS
  <2> QED
    BY <2>1, FrontOfFlow
<1>2. /\ Len(r) = Len(q) /\ r[1] = e
      /\ \A j \in 2 .. Len(q) : r[j] = q[j]
  <2>1. /\ Tail(q) \in Seq(SendReqs) /\ Len(Tail(q)) = Len(q) - 1
        /\ \A j \in 1 .. Len(q) - 1 : Tail(q)[j] = q[j + 1]
    BY <1>1, HeadTailProperties
  <2>2. <<e>> \in Seq(SendReqs) /\ Len(<<e>>) = 1 /\ <<e>>[1] = e
    OBVIOUS
  <2>3. /\ Len(r) = 1 + Len(Tail(q))
        /\ \A j \in 1 .. 1 + Len(Tail(q)) :
             r[j] = IF j <= 1 THEN <<e>>[j] ELSE Tail(q)[j - 1]
    BY <2>1, <2>2, ConcatProperties
  <2> HIDE DEF r
  <2>4. ASSUME NEW j \in 2 .. Len(q) PROVE r[j] = q[j]
    <3>1. j \in 1 .. 1 + Len(Tail(q)) /\ j - 1 \in 1 .. Len(q) - 1 /\ (j - 1) + 1 = j
      BY <1>1, <2>1
    <3> QED
      BY <2>1, <2>3, <3>1
  <2> QED
    BY <1>1, <2>1, <2>2, <2>3, <2>4
<1> HIDE DEF r
<1>3. v \in Seq(Units)
  BY WrittenUnits
<1>4. Ordered(v) /\ UpTo(v, i) /\ \A k \in Nat : i <= k => UpTo(v, k)
  BY <1>1, OrderKept
<1>5. \A j : Complete(w, j) => Complete(v, j)
  BY CompleteKept
<1>6. \A j \in 1 .. Len(q) : q[j].id \in 1 .. n /\ i <= q[j].id
  <2> SUFFICES ASSUME NEW j \in 1 .. Len(q) PROVE q[j].id \in 1 .. n /\ i <= q[j].id
    OBVIOUS
  <2>1. q[j].id \in 1 .. n
    BY DEF Flow, Behind
  <2>2. CASE j = 1
    BY <1>1, <2>1, <2>2
  <2>3. CASE j # 1
    <3>1. 1 \in 1 .. Len(q) /\ 1 < j
      BY <1>1, <2>3
    <3> QED
      BY <2>1, <3>1 DEF Flow, InLine
  <2> QED
    BY <2>2, <2>3
<1>7. \A j \in 1 .. Len(q) : r[j].id = q[j].id /\ (r[j].left > 0 <=> q[j].left > 0)
  <2> SUFFICES ASSUME NEW j \in 1 .. Len(q)
               PROVE  r[j].id = q[j].id /\ (r[j].left > 0 <=> q[j].left > 0)
    OBVIOUS
  <2>1. CASE j = 1
    BY <1>1, <1>2, <2>1
  <2>2. CASE j # 1
    BY <1>2, <2>2
  <2> QED
    BY <2>1, <2>2
<1>8. Behind(v, r, n)
  BY <1>1, <1>2, <1>4, <1>6, <1>7 DEF Behind
<1>9. InLine(r)
  <2> SUFFICES ASSUME NEW j \in 1 .. Len(q), NEW k \in 1 .. Len(q), j < k
               PROVE  /\ r[j].id <= r[k].id
                      /\ r[k].left > 0 => r[j].id < r[k].id
                      /\ r[k].left \in {0, PieceSize}
    BY <1>2 DEF InLine
  <2>1. r[k] = q[k]
    BY <1>2
  <2> QED
    BY <1>7, <2>1 DEF Flow, InLine
<1>10. Resumes(v, r)
  <2>1. EndsIn(v, i, (PieceSize - q[1].left) + m)
    BY <1>1, EndKept
  <2>2. (PieceSize - q[1].left) + m = PieceSize - e.left
    BY <1>1
  <2> QED
    BY <1>2, <2>1, <2>2 DEF Resumes
<1>11. Accounted(v, r, n)
  <2> SUFFICES ASSUME NEW k \in 1 .. n PROVE Complete(v, k) \/ Queued(r, k)
    BY DEF Accounted
  <2>1. Queued(q, k) => Queued(r, k)
    BY <1>2, <1>7 DEF Queued
  <2> QED
    BY <1>5, <2>1 DEF Flow, Accounted
<1> QED
  BY <1>4, <1>8, <1>9, <1>10, <1>11 DEF Flow, r

-----------------------------------------------------------------------------
(* The invariant of the replies of a connection.                             *)

\* What a close has left behind: all up to the piece of the close is sent and
\* nothing after it, unless the client went away first.
ClosedFor(c) ==
  sock[c] = "closed" /\ peer[c] = "open" =>
    closer[c] > 0 /\ UpTo(wire[c], closer[c])

Stream(c) ==
  /\ Ordered(wire[c])
  /\ \A i \in 1 .. closer[c] : Complete(wire[c], i)
  /\ sock[c] # "closed" => Flow(wire[c], send[c], issued[c])
  /\ peer[c] = "away" => sock[c] = "none"
  /\ ClosedFor(c)

\* The empty piece of Ctx::Close is never the first piece of a connection.
EmptyLater ==
  pc \in {"serve", "watch"} /\ sock[cur] = "open" =>
    \A j \in 1 .. Len(outs) : outs[j].len = 0 => j > 1 \/ issued[cur] > 0

StreamInv == EmptyLater /\ \A c \in Conns : Stream(c)

\* The types of what the invariant speaks of.
LEMMA StreamTyped ==
  ASSUME TypeOK, NEW c \in Conns
  PROVE  /\ wire[c] \in Seq(Units) /\ send[c] \in Seq(SendReqs)
         /\ issued[c] \in Nat /\ closer[c] \in Nat /\ room[c] \in 0 .. Capacity
         /\ sock[c] \in {"none", "open", "closed"}
         /\ peer[c] \in {"away", "open", "shut", "reset"}
  BY DEF TypeOK, BuffersTyped, ConnsTyped, HistoryTyped, ClientsTyped, Units

\* Before the first client nothing is sent or queued.
LEMMA StreamInit == Init => StreamInv
<1> SUFFICES ASSUME Init PROVE StreamInv
  OBVIOUS
<1>1. ASSUME NEW c \in Conns PROVE Stream(c)
  <2>1. wire[c] = <<>> /\ send[c] = <<>> /\ issued[c] = 0 /\ closer[c] = 0 /\ sock[c] = "none"
    BY DEF Init
  <2>2. Ordered(<<>>) /\ UpTo(<<>>, 0) /\ InLine(<<>>)
    BY DEF Ordered, UpTo, InLine
  <2>3. Flow(<<>>, <<>>, 0)
    BY <2>2 DEF Flow, Behind, Resumes, Accounted
  <2> QED
    BY <2>1, <2>2, <2>3 DEF Stream, ClosedFor
<1> QED
  BY <1>1 DEF Init, StreamInv, EmptyLater

\* A step that neither sends, queues nor closes.
LEMMA StreamKept ==
  ASSUME NEW c \in Conns, Stream(c),
         wire'[c] = wire[c], send'[c] = send[c],
         issued'[c] = issued[c], closer'[c] = closer[c],
         \/ sock'[c] = sock[c] /\ (peer'[c] = peer[c] \/ sock[c] # "closed")
         \/ sock[c] # "closed" /\ sock'[c] # "closed",
         peer'[c] = "away" => peer[c] = "away" /\ sock'[c] = sock[c]
  PROVE  Stream(c)'
  BY DEF Stream, ClosedFor

\* A close for an error, which only a client that is gone causes, or a second one.
LEMMA StreamClosed ==
  ASSUME TypeOK, NEW c \in Conns, Stream(c), Close(c), sock[c] # "none",
         UNCHANGED <<peer, wire, closer>>,
         sock[c] = "closed" \/ peer[c] # "open"
  PROVE  Stream(c)'
<1>1. sock'[c] = "closed"
  BY DEF Close, TypeOK, ConnsTyped
<1> QED
  BY <1>1 DEF Stream, ClosedFor

\* A close that the server decides on, with piece id the last one to be sent.
LEMMA StreamEnds ==
  ASSUME TypeOK, NEW c \in Conns, Stream(c), NEW id \in Nat \ {0},
         Sent(c, id, TRUE), sock[c] = "open", peer' = peer,
         Ordered(wire'[c]), UpTo(wire'[c], id),
         \A i \in 1 .. id : Complete(wire'[c], i)
  PROVE  Stream(c)'
<1>1. sock'[c] = "closed" /\ closer'[c] = id
  BY DEF Sent, Close, TypeOK, ConnsTyped, HistoryTyped
<1> QED
  BY <1>1 DEF Stream, ClosedFor

\* What write(2) does to the wire.
LEMMA WritesSlice ==
  ASSUME TypeOK, NEW c \in Conns, NEW id \in Nat, NEW done \in Nat, NEW n \in Nat,
         done + n <= PieceSize, Write(c, id, done, n)
  PROVE  Written(wire[c], id, done, n, wire'[c])
<1>1. wire'[c] = wire[c] \o [k \in 1 .. n |-> <<id, done + k>>]
  BY DEF Write, TypeOK, BuffersTyped
<1>2. wire[c] \in Seq(Units)
  BY StreamTyped
<1> QED
  BY <1>1, <1>2 DEF Written, Slice

-----------------------------------------------------------------------------
(* The steps.                                                                *)

\* The clients and the loop neither send nor queue.
LEMMA StreamLoop ==
  ASSUME TypeOK, NEW c \in Conns, Stream(c),
         Client(c) \/ Accept(c) \/ Drop(c) \/ Dispatch(c)
  PROVE  Stream(c)'
<1>1. CASE Client(c)
  <2>1. UNCHANGED <<wire, send, issued, closer, sock>>
    BY <1>1 DEF Client, PeerConnect, PeerSend, PeerShut, PeerReset, PeerDrain,
                bufVars, connVars, histVars
  <2>2. /\ peer'[c] = peer[c] \/ sock[c] # "closed"
        /\ peer'[c] = "away" => peer[c] = "away"
    BY <1>1 DEF Client, PeerConnect, PeerSend, PeerShut, PeerReset, PeerDrain, Live,
                clientVars, TypeOK, ClientsTyped, Stream
  <2> QED
    BY <2>1, <2>2, StreamKept
<1>2. CASE Accept(c)
  <2>1. /\ UNCHANGED <<wire, send, issued, closer, peer>>
        /\ sock[c] = "none" /\ sock'[c] = "open" /\ peer[c] # "away"
    BY <1>2 DEF Accept, clientVars, bufVars, histVars, TypeOK, ConnsTyped
  <2> QED
    BY <2>1, StreamKept
<1>3. CASE Drop(c) \/ Dispatch(c)
  <2>1. UNCHANGED <<wire, send, issued, closer, sock, peer>>
    BY <1>3 DEF Drop, Dispatch, clientVars, bufVars, connVars, histVars
  <2> QED
    BY <2>1, StreamKept
<1> QED
  BY <1>1, <1>2, <1>3

\* Reading, handling and watching neither send nor queue; the end of the stream
\* closes a connection whose client has shut down its side.
LEMMA StreamRead ==
  ASSUME IInv, NEW c \in Conns, cur = c, pc # "down", Stream(c),
         \/ RunOut(c) \/ ReadData(c) \/ ReadEof(c) \/ ReadError(c)
         \/ OnRecvAgain(c) \/ AsyncRecvAgain(c) \/ AsyncRecvListen(c)
         \/ OnRecvTail(c) \/ Handle(c) \/ Rearm(c) \/ GiveUp(c)
         \/ AsyncSendWatch(c) \/ OnSendTail(c)
  PROVE  Stream(c)'
<1>1. CASE ReadEof(c)
  <2>1. Close(c) /\ peer[c] = "shut" /\ UNCHANGED <<peer, wire, closer>>
    BY <1>1 DEF ReadEof, clientVars, histVars
  <2>2. TypeOK /\ sock[c] # "none"
    BY Runs DEF IInv, Running
  <2> QED
    BY <2>1, <2>2, StreamClosed
<1>2. CASE ~ReadEof(c)
  <2>1. UNCHANGED <<wire, send, issued, closer, sock, peer>>
    BY <1>2 DEF RunOut, ReadData, ReadError, OnRecvAgain, AsyncRecvAgain,
         AsyncRecvListen, OnRecvTail, Handle, Rearm, GiveUp, AsyncSendWatch,
         OnSendTail, clientVars, bufVars, connVars, histVars
  <2> QED
    BY <2>1, StreamKept
<1> QED
  BY <1>1, <1>2

\* Conn::AsyncSend and Session::OnSend: a piece is queued behind the others,
\* written, or written in part and queued (conn.cpp:75-116).
LEMMA StreamSend ==
  ASSUME IInv, EmptyLater, NEW c \in Conns, cur = c, Stream(c),
         SendQueued(c) \/ SendEmpty(c) \/ SendFails(c) \/ SendWhole(c) \/ SendPart(c)
  PROVE  Stream(c)'
<1> DEFINE n == issued[c]
           e == Request(c, Head(outs).len)
<1>1. Sending /\ pc = "serve" /\ outs # <<>> /\ TypeOK
  BY DEF SendQueued, SendEmpty, SendFails, SendWhole, SendPart, Writable, Sending,
         IInv
<1>2. sock[c] \in {"open", "closed"} /\ (sock[c] = "closed" => send[c] = <<>>)
  BY <1>1, Runs DEF Running, Silent
<1>3. /\ wire[c] \in Seq(Units) /\ send[c] \in Seq(SendReqs) /\ n \in Nat
      /\ room[c] \in 0 .. Capacity
      /\ peer[c] \in {"away", "open", "shut", "reset"}
  BY <1>1, StreamTyped
<1>4. /\ e \in SendReqs /\ e.left = Head(outs).len /\ e.id = PieceId(c)
      /\ Head(outs).len \in {0, PieceSize} /\ Head(outs).close \in BOOLEAN
      /\ PieceId(c) \in Nat
  BY <1>1, RequestTyped DEF Request, Sends
<1>5. sock[c] = "open" /\ Head(outs).len = 0 => n > 0
  <2>1. outs \in Seq(Sends)
    BY <1>1 DEF TypeOK, ThreadTyped
  <2>2. 1 \in 1 .. Len(outs) /\ Head(outs) = outs[1]
    BY <1>1, <2>1, EmptySeq, LenProperties
  <2> QED
    BY <1>1, <2>2 DEF EmptyLater
<1>6. PieceId(c) = IF Head(outs).len = 0 THEN n ELSE n + 1
  BY DEF PieceId
<1>7. /\ Ordered(wire[c]) /\ (sock[c] = "open" => Flow(wire[c], send[c], n))
      /\ \A i \in 1 .. closer[c] : Complete(wire[c], i)
  BY DEF Stream
<1> HIDE DEF e
<1>8. CASE SendQueued(c)
  <2>1. /\ UNCHANGED <<wire, sock, closer, peer>>
        /\ send'[c] = Append(send[c], e) /\ issued'[c] = e.id
    BY <1>4, <1>8 DEF SendQueued, Issue, TypeOK, ConnsTyped, HistoryTyped,
                      clientVars, bufVars, e, IInv
  <2>2. sock[c] = "open"
    BY <1>2, <1>8 DEF SendQueued
  <2>3. Flow(wire[c], Append(send[c], e), e.id)
    BY <1>3, <1>4, <1>5, <1>6, <1>7, <2>2, FlowQueued
  <2> QED
    BY <2>1, <2>2, <2>3 DEF Stream, ClosedFor
<1>9. CASE SendEmpty(c)
  <2>1. /\ UNCHANGED <<peer, wire, issued>> /\ Head(outs).len = 0 /\ send[c] = <<>>
        /\ Sent(c, n, Head(outs).close)
    BY <1>6, <1>9 DEF SendEmpty, clientVars
  <2>2. CASE ~Head(outs).close
    <3>1. UNCHANGED <<send, sock, closer>>
      BY <2>1, <2>2 DEF Sent, connVars
    <3> QED
      BY <2>1, <3>1, StreamKept
  <2>3. CASE Head(outs).close /\ sock[c] = "open"
    <3>1. n > 0 /\ Flow(wire[c], <<>>, n)
      BY <1>5, <1>7, <2>1, <2>3
    <3>2. UpTo(wire[c], n) /\ \A i \in 1 .. n : Complete(wire[c], i)
      BY <3>1, AllDelivered DEF Flow, Behind
    <3>3. Sent(c, n, TRUE) /\ n \in Nat \ {0}
      BY <1>3, <2>1, <2>3, <3>1 DEF Sent
    <3>4. Ordered(wire'[c]) /\ UpTo(wire'[c], n) /\ \A i \in 1 .. n : Complete(wire'[c], i)
      BY <1>7, <2>1, <3>2
    <3> QED
      BY <1>1, <2>1, <2>3, <3>3, <3>4, StreamEnds
  <2>4. CASE Head(outs).close /\ sock[c] = "closed"
    <3>1. Close(c) /\ UNCHANGED closer
      BY <1>1, <2>1, <2>4 DEF Sent, TypeOK, HistoryTyped
    <3> QED
      BY <1>1, <2>1, <2>4, <3>1, StreamClosed
  <2> QED
    BY <1>2, <2>2, <2>3, <2>4
<1>10. CASE SendFails(c)
  <2>1. /\ Close(c) /\ UNCHANGED <<peer, wire, closer>>
        /\ sock[c] = "closed" \/ peer[c] # "open"
    BY <1>10 DEF SendFails, clientVars, histVars
  <2> QED
    BY <1>1, <1>2, <2>1, StreamClosed
<1>11. CASE SendWhole(c) \/ SendPart(c)
  <2> DEFINE m == IF SendWhole(c) THEN PieceSize ELSE room[c]
  <2>1. /\ sock[c] = "open" /\ send[c] = <<>> /\ Head(outs).len = PieceSize
        /\ PieceId(c) = n + 1
    BY <1>4, <1>6, <1>11 DEF SendWhole, SendPart, Writable
  <2>2. m \in Nat /\ m <= PieceSize /\ Write(c, n + 1, 0, m)
    BY <1>3, <1>11, <2>1 DEF SendWhole, SendPart
  <2>3. SendWhole(c) => m = PieceSize
    OBVIOUS
  <2> HIDE DEF m
  <2>4. Written(wire[c], n + 1, 0, m, wire'[c])
    <3>1. n + 1 \in Nat /\ 0 \in Nat /\ 0 + m <= PieceSize
      BY <1>3, <2>2
    <3> HIDE DEF n
    <3> QED
      BY <1>1, <2>2, <3>1, WritesSlice
  <2>5. /\ Ordered(wire'[c])
        /\ m = PieceSize => Flow(wire'[c], send[c], n + 1)
        /\ \A x \in SendReqs : x.left = PieceSize /\ x.id = n + 1
             => Flow(wire'[c], Append(send[c], x), n + 1)
    BY <1>3, <1>7, <2>1, <2>4, FlowDirect
  <2>6. issued'[c] = n + 1 /\ peer' = peer
    BY <1>11, <2>1 DEF SendWhole, SendPart, Issue, clientVars, IInv, TypeOK,
                       HistoryTyped
  <2>7. \A i \in 1 .. closer[c] : Complete(wire'[c], i)
    BY <1>7, <2>4, CompleteKept
  <2>8. CASE SendPart(c)
    <3>1. send'[c] = Append(send[c], e) /\ UNCHANGED <<sock, closer>>
      BY <2>8 DEF SendPart, e, IInv, TypeOK, ConnsTyped
    <3>2. Flow(wire'[c], Append(send[c], e), n + 1)
      BY <1>4, <2>1, <2>5
    <3> QED
      BY <2>1, <2>5, <2>6, <2>7, <3>1, <3>2 DEF Stream, ClosedFor
  <2>9. CASE SendWhole(c)
    <3>1. Sent(c, n + 1, Head(outs).close)
      BY <2>1, <2>9 DEF SendWhole
    <3>2. Flow(wire'[c], send[c], n + 1)
      BY <2>3, <2>5, <2>9
    <3>3. CASE Head(outs).close
      <4>1. /\ UpTo(wire'[c], n + 1)
            /\ \A i \in 1 .. n + 1 : Complete(wire'[c], i)
        BY <2>1, <3>2, AllDelivered DEF Flow, Behind
      <4>2. n + 1 \in Nat \ {0}
        BY <1>3
      <4> QED
        BY <1>1, <2>1, <2>5, <2>6, <3>1, <3>3, <4>1, <4>2, StreamEnds
    <3>4. CASE ~Head(outs).close
      <4>1. UNCHANGED <<send, sock, closer>>
        BY <3>1, <3>4 DEF Sent, connVars
      <4> QED
        BY <2>1, <2>5, <2>6, <2>7, <3>2, <4>1 DEF Stream, ClosedFor
    <3> QED
      BY <3>3, <3>4
  <2> QED
    BY <1>11, <2>8, <2>9
<1> QED
  BY <1>8, <1>9, <1>10, <1>11

\* Conn::OnSend: the front goes out, whole or in part (conn.cpp:146-174).
LEMMA StreamFlush ==
  ASSUME IInv, NEW c \in Conns, cur = c, Stream(c),
         OnSendFails(c) \/ OnSendWhole(c) \/ OnSendPart(c)
  PROVE  Stream(c)'
<1> DEFINE n == issued[c]
           q == send[c]
           front == Head(send[c])
<1>1. pc = "send" /\ q # <<>> /\ TypeOK
  BY DEF OnSendFails, OnSendWhole, OnSendPart, IInv
<1>2. sock[c] = "open"
  BY <1>1, Runs DEF Running, Silent
<1>3. /\ wire[c] \in Seq(Units) /\ q \in Seq(SendReqs) /\ n \in Nat
      /\ room[c] \in 0 .. Capacity
      /\ peer[c] \in {"away", "open", "shut", "reset"}
  BY <1>1, StreamTyped
<1>4. /\ Ordered(wire[c]) /\ Flow(wire[c], q, n)
      /\ \A i \in 1 .. closer[c] : Complete(wire[c], i)
  BY <1>2 DEF Stream
<1>5. /\ front = q[1] /\ front \in SendReqs
      /\ front.id \in 1 .. n /\ front.left \in 0 .. PieceSize
  BY <1>1, <1>3, <1>4, FrontOfFlow
<1>6. ASSUME NEW m \in Nat, m <= front.left,
             Write(c, front.id, PieceSize - front.left, m)
      PROVE  /\ Written(wire[c], q[1].id, PieceSize - q[1].left, m, wire'[c])
             /\ \A i \in 1 .. closer[c] : Complete(wire'[c], i)
  <2>1. /\ front.id \in Nat /\ PieceSize - front.left \in Nat
        /\ (PieceSize - front.left) + m <= PieceSize
    BY <1>5, <1>6
  <2>2. Written(wire[c], front.id, PieceSize - front.left, m, wire'[c])
    BY <1>1, <1>6, <2>1, WritesSlice
  <2> QED
    BY <1>4, <1>5, <2>2, CompleteKept
<1>7. CASE OnSendFails(c)
  <2>1. Close(c) /\ UNCHANGED <<peer, wire, closer>> /\ peer[c] # "open"
    BY <1>7 DEF OnSendFails, clientVars, histVars
  <2> QED
    BY <1>1, <1>2, <2>1, StreamClosed
<1>8. CASE OnSendWhole(c)
  <2>1. /\ Write(c, front.id, PieceSize - front.left, front.left)
        /\ UNCHANGED <<peer, issued>>
    BY <1>8 DEF OnSendWhole, clientVars
  <2>2. /\ Written(wire[c], q[1].id, PieceSize - q[1].left, q[1].left, wire'[c])
        /\ \A i \in 1 .. closer[c] : Complete(wire'[c], i)
    BY <1>5, <1>6, <2>1
  <2>3. /\ Ordered(wire'[c]) /\ UpTo(wire'[c], front.id)
        /\ \A i \in 1 .. front.id : Complete(wire'[c], i)
        /\ Flow(wire'[c], Tail(q), n)
    BY <1>1, <1>3, <1>4, <1>5, <2>2, FlowFlushed
  <2>4. CASE front.close
    <3>1. Sent(c, front.id, TRUE)
      BY <1>8, <2>4 DEF OnSendWhole
    <3>2. front.id \in Nat \ {0}
      BY <1>3, <1>5
    <3> QED
      BY <1>1, <1>2, <2>1, <2>3, <3>1, <3>2, StreamEnds
  <2>5. CASE ~front.close
    <3>1. send'[c] = Tail(q) /\ UNCHANGED <<sock, closer>>
      BY <1>8, <2>5 DEF OnSendWhole, PopSend, IInv, TypeOK, ConnsTyped
    <3> QED
      BY <1>2, <2>1, <2>2, <2>3, <3>1 DEF Stream, ClosedFor
  <2> QED
    BY <2>4, <2>5
<1>9. CASE OnSendPart(c)
  <2> DEFINE rest == [front EXCEPT !.left = @ - room[c]]
  <2>1. /\ Write(c, front.id, PieceSize - front.left, room[c])
        /\ room[c] \in Nat /\ room[c] < front.left
        /\ UNCHANGED <<peer, sock, issued, closer>>
        /\ send' = [send EXCEPT ![c] = <<rest>> \o Tail(@)]
    BY <1>3, <1>9 DEF OnSendPart, clientVars, histVars
  <2>2. rest \in SendReqs /\ rest.id = front.id /\ rest.left = front.left - room[c]
    BY <1>5, <2>1 DEF SendReqs
  <2> HIDE DEF rest
  <2>3. send'[c] = <<rest>> \o Tail(q)
    BY <2>1 DEF IInv, TypeOK, ConnsTyped
  <2>4. room[c] <= front.left
    BY <1>5, <2>1
  <2>5. /\ Written(wire[c], q[1].id, PieceSize - q[1].left, room[c], wire'[c])
        /\ \A i \in 1 .. closer[c] : Complete(wire'[c], i)
    BY <1>6, <2>1, <2>4
  <2>6. Ordered(wire'[c]) /\ Flow(wire'[c], <<rest>> \o Tail(q), n)
    BY <1>1, <1>3, <1>4, <1>5, <2>1, <2>2, <2>5, FlowCut
  <2> QED
    BY <1>2, <2>1, <2>3, <2>5, <2>6 DEF Stream, ClosedFor
<1> QED
  BY <1>7, <1>8, <1>9

\* The pieces of a request begin with one that has units (connection.cpp:134-138).
LEMMA ScriptBegins ==
  ASSUME NEW r \in Requests, NEW j \in 1 .. Len(Script(r)), Script(r)[j].len = 0
  PROVE  j > 1
<1> DEFINE full == [i \in 1 .. r.pieces |-> [len |-> PieceSize, close |-> FALSE]]
           last == IF r.kind = "quit" THEN <<[len |-> 0, close |-> TRUE]>> ELSE <<>>
<1>1. r.pieces \in Nat /\ (r.kind = "quit" => r.pieces = 1)
  <2>1. CASE r \in Commands
    BY <2>1 DEF Commands
  <2>2. CASE r \in {Quit, Bad}
    BY <2>2 DEF Quit, Bad
  <2>3. r \in Commands \/ r \in {Quit, Bad}
    BY Zenon DEF Requests
  <2> QED
    BY <2>1, <2>2, <2>3
<1>2. /\ full \in Seq(Sends) /\ Len(full) = r.pieces
      /\ \A i \in 1 .. r.pieces : full[i].len = PieceSize
  <2> DEFINE piece == [len |-> PieceSize, close |-> FALSE]
  <2>1. piece \in Sends /\ piece.len = PieceSize
    BY DEF Sends
  <2> HIDE DEF piece
  <2>2. /\ [i \in 1 .. r.pieces |-> piece] \in [1 .. r.pieces -> Sends]
        /\ \A i \in 1 .. r.pieces : [k \in 1 .. r.pieces |-> piece][i].len = PieceSize
    BY <2>1
  <2>3. full = [i \in 1 .. r.pieces |-> piece]
    BY DEF piece
  <2> HIDE DEF full
  <2>4. full \in Seq(Sends)
    BY <1>1, <2>2, <2>3, SeqDef
  <2> QED
    BY <1>1, <2>2, <2>3, <2>4, LenProperties
<1>3. last \in Seq(Sends) /\ (r.kind # "quit" => Len(last) = 0)
  <2>1. <<[len |-> 0, close |-> TRUE]>> \in Seq(Sends)
    BY DEF Sends
  <2>2. <<>> \in Seq(Sends) /\ Len(<<>>) = 0
    OBVIOUS
  <2>3. CASE r.kind = "quit"
    BY <2>1, <2>3
  <2>4. CASE r.kind # "quit"
    BY <2>2, <2>4
  <2> QED
    BY <2>3, <2>4
<1> HIDE DEF full, last
<1>4. /\ Len(full \o last) = Len(full) + Len(last)
      /\ \A i \in 1 .. Len(full) + Len(last) : i <= Len(full) => (full \o last)[i] = full[i]
  BY <1>2, <1>3, ConcatProperties
<1>5. Script(r) = full \o last
  BY DEF Script, full, last
<1>6. ASSUME j <= Len(full) PROVE FALSE
  <2>1. j \in 1 .. Len(full)
    BY <1>1, <1>2, <1>6
  <2>2. Script(r)[j] = full[j]
    BY <1>4, <1>5, <1>6
  <2> QED
    BY <1>2, <2>1, <2>2
<1>7. r.kind = "quit"
  BY <1>1, <1>2, <1>3, <1>4, <1>5, <1>6
<1> QED
  BY <1>1, <1>2, <1>6, <1>7

\* A step of a handler leaves no empty piece to a connection that has sent none.
LEMMA EmptyLaterStep ==
  ASSUME IInv, EmptyLater, NEW c \in Conns, Step(c)
  PROVE  EmptyLater'
<1> USE DEF EmptyLater
<1>1. cur = c /\ TypeOK
  BY DEF Step, IInv
<1>2. CASE \/ RunOut(c) \/ ReadEof(c) \/ ReadError(c) \/ OnRecvAgain(c)
           \/ AsyncRecvAgain(c) \/ AsyncRecvListen(c) \/ OnRecvTail(c)
  BY <1>2 DEF RunOut, ReadEof, ReadError, OnRecvAgain, AsyncRecvAgain,
              AsyncRecvListen, OnRecvTail, Goto, Wait, Down, Return
<1>3. CASE \/ Rearm(c) \/ GiveUp(c)
           \/ OnSendFails(c) \/ OnSendWhole(c) \/ OnSendPart(c) \/ OnSendTail(c)
  BY <1>3 DEF Rearm, GiveUp, OnSendFails, OnSendWhole, OnSendPart, OnSendTail,
              Goto, Wait, Down
<1>4. CASE ReadData(c)
  <2>1. PICK batch : Parse(batch)
    BY <1>4 DEF ReadData
  <2> QED
    BY <2>1 DEF Parse
<1>5. CASE Handle(c)
  <2>1. Head(reqs) \in Requests
    BY <1>1, <1>5, HeadTailProperties DEF Handle, TypeOK, ThreadTyped
  <2>2. \A j \in 1 .. Len(Script(Head(reqs))) : Script(Head(reqs))[j].len = 0 => j > 1
    BY <2>1, ScriptBegins
  <2> QED
    BY <1>5, <2>2 DEF Handle
<1>6. CASE AsyncSendWatch(c)
  BY <1>1, <1>6 DEF AsyncSendWatch, Goto, Down, localVars, connVars, histVars
<1>7. CASE \/ SendQueued(c) \/ SendEmpty(c) \/ SendFails(c) \/ SendWhole(c)
           \/ SendPart(c)
  <2>1. Sending /\ pc = "serve" /\ outs # <<>> /\ issued[c] \in Nat /\ outs \in Seq(Sends)
    BY <1>1, <1>7 DEF SendQueued, SendEmpty, SendFails, SendWhole, SendPart,
                      Writable, Sending, TypeOK, HistoryTyped, ThreadTyped
  <2>2. sock[c] = "open" /\ Head(outs).len = 0 => issued[c] > 0
    <3>1. 1 \in 1 .. Len(outs) /\ Head(outs) = outs[1]
      BY <2>1, EmptySeq, LenProperties
    <3> QED
      BY <1>1, <2>1, <3>1
  <2>3. issued'[c] = issued[c] \/ issued'[c] = PieceId(c)
    BY <1>1, <1>7 DEF SendQueued, SendEmpty, SendFails, SendWhole, SendPart, Issue,
                      histVars, TypeOK, HistoryTyped
  <2>4. CASE SendFails(c)
    <3>1. sock'[c] = "closed" /\ (cur' = c \/ pc' = "down")
      BY <1>1, <2>4 DEF SendFails, Close, NextPiece, Down, TypeOK, ConnsTyped
    <3> QED
      BY <3>1
  <2>5. CASE ~SendFails(c)
    <3>1. cur' = c /\ (sock'[c] = "open" => sock[c] = "open")
      BY <1>1, <1>7, <2>5
         DEF SendQueued, SendEmpty, SendWhole, SendPart, Sent, Close, NextPiece, Down,
             localVars, connVars, TypeOK, ConnsTyped
    <3>2. SendEmpty(c) => Head(outs).len = 0 /\ issued' = issued
      BY DEF SendEmpty
    <3>3. ~SendEmpty(c) => issued'[c] = PieceId(c)
      BY <1>1, <1>7, <2>5 DEF SendQueued, SendWhole, SendPart, Issue, TypeOK,
                              HistoryTyped
    <3>4. sock[c] = "open" => issued'[c] > 0
      BY <2>1, <2>2, <3>2, <3>3 DEF PieceId
    <3> QED
      BY <3>1, <3>4
  <2> QED
    BY <2>4, <2>5
<1> QED
  BY <1>2, <1>3, <1>4, <1>5, <1>6, <1>7 DEF Step

\* Every step keeps the invariant of the replies.
LEMMA StreamNext ==
  ASSUME IInv, StreamInv, [Next]_vars
  PROVE  StreamInv'
<1>1. CASE UNCHANGED vars
  <2>1. UNCHANGED <<pc, cur, outs, sock, issued, wire, send, closer, peer>>
    BY <1>1 DEF vars, clientVars, bufVars, connVars, histVars, ctlVars, localVars
  <2>2. EmptyLater'
    BY <2>1 DEF StreamInv, EmptyLater
  <2>3. \A c \in Conns : Stream(c)'
    BY <2>1, StreamKept DEF StreamInv
  <2> QED
    BY <2>2, <2>3 DEF StreamInv
<1>2. ASSUME NEW c \in Conns,
             Client(c) \/ Accept(c) \/ Drop(c) \/ Dispatch(c) \/ Step(c)
      PROVE  StreamInv'
  <2>1. TypeOK /\ EmptyLater /\ Stream(c) /\ pc # "down"
    BY <1>2, StepRuns DEF IInv, StreamInv
  <2>2. Stream(c)'
    <3>1. CASE Client(c) \/ Accept(c) \/ Drop(c) \/ Dispatch(c)
      BY <2>1, <3>1, StreamLoop
    <3>2. CASE Step(c)
      BY <2>1, <3>2, StreamRead, StreamSend, StreamFlush DEF Step
    <3> QED
      BY <1>2, <3>1, <3>2
  <2>3. ASSUME NEW d \in Conns, d # c PROVE Stream(d)'
    <3>1. Same(d) /\ Apart(d)
      BY <1>2, <2>1, <2>3, OthersSame, OthersApart
    <3>2. Stream(d)
      BY DEF StreamInv
    <3> QED
      BY <3>1, <3>2, StreamKept DEF Same, Apart
  <2>4. EmptyLater'
    <3>1. CASE Client(c) \/ Drop(c)
      <4>1. UNCHANGED <<pc, cur, outs, sock, issued>>
        BY <3>1 DEF Client, PeerConnect, PeerSend, PeerShut, PeerReset, PeerDrain,
                    Drop, connVars, histVars, ctlVars, localVars
      <4> QED
        BY <2>1, <4>1 DEF EmptyLater
    <3>2. CASE Accept(c) \/ Dispatch(c)
      <4>1. pc' \notin {"serve", "watch"}
        BY <3>2 DEF Accept, Dispatch
      <4> QED
        BY <4>1 DEF EmptyLater
    <3>3. CASE Step(c)
      BY <2>1, <3>3, EmptyLaterStep
    <3> QED
      BY <1>2, <3>1, <3>2, <3>3
  <2> QED
    BY <2>2, <2>3, <2>4 DEF StreamInv
<1> QED
  BY <1>1, <1>2 DEF Next

\* The invariant of the replies holds in every reachable state.
THEOREM RepliesFlow == Spec => []StreamInv
<1>1. Init => StreamInv
  BY StreamInit
<1>2. IInv /\ StreamInv /\ [Next]_vars => StreamInv'
  BY StreamNext
<1> QED
  BY <1>1, <1>2, Registered, PTL DEF Spec

-----------------------------------------------------------------------------
(* What follows from it. *)

\* What Session calls delivered is what the lemmas call complete.
LEMMA DeliveredComplete ==
  ASSUME NEW c \in Conns, NEW i
  PROVE  Delivered(c, i) <=> Complete(wire[c], i)
  BY DEF Delivered, Complete

\* On an open connection every reply piece is on the wire whole or still queued:
\* none is lost between a short write, the queue and the flush (conn.cpp:75-176).
THEOREM NoReplyLostEver == Spec => []NoReplyLost
<1>1. IInv /\ StreamInv => NoReplyLost
  <2> SUFFICES ASSUME IInv, StreamInv, NEW c \in Conns, sock[c] = "open",
                      NEW i \in 1 .. issued[c]
               PROVE  \/ Delivered(c, i)
                      \/ \E j \in 1 .. Len(send[c]) :
                           send[c][j].id = i /\ send[c][j].left > 0
    BY DEF NoReplyLost
  <2>1. Accounted(wire[c], send[c], issued[c])
    BY DEF StreamInv, Stream, Flow
  <2> QED
    BY <2>1, DeliveredComplete DEF Accounted, Queued
<1> QED
  BY <1>1, Registered, RepliesFlow, PTL

\* Replies go out in the order of the requests: a direct write never overtakes
\* the queue (conn.cpp:78).
THEOREM RepliesOrdered == Spec => []RepliesInOrder
<1>1. StreamInv => RepliesInOrder
  BY DEF StreamInv, Stream, Ordered, RepliesInOrder
<1> QED
  BY <1>1, RepliesFlow, PTL

\* When the server closes a connection on its own account, the client has been
\* sent everything before: the empty piece of Ctx::Close waits its turn
\* (ctx.cpp:79, session.cpp:107-119).
THEOREM ClosesAfterFlush == Spec => []CloseAfterFlush
<1>1. StreamInv => CloseAfterFlush
  BY DeliveredComplete DEF StreamInv, Stream, CloseAfterFlush
<1> QED
  BY <1>1, RepliesFlow, PTL

\* A connection whose client is still there is closed for a request only, and
\* not a unit of a later reply went out on it (session.cpp:77-101).
THEOREM LostOnlyByClose == Spec => []RepliesLostOnlyByClose
<1>1. StreamInv => RepliesLostOnlyByClose
  BY DEF StreamInv, Stream, ClosedFor, UpTo, RepliesLostOnlyByClose
<1> QED
  BY <1>1, RepliesFlow, PTL

=============================================================================
