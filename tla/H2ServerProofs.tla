--------------------------- MODULE H2ServerProofs ---------------------------
(***************************************************************************)
(* The server connection's safety, for any number of streams, any cap and  *)
(* whatever handlers, peer and transport do.                               *)
(***************************************************************************)
EXTENDS H2Server, SequenceTheorems, FiniteSetTheorems, TLAPS

-----------------------------------------------------------------------------
(* What a queue holds about a stream                                       *)

IsHead(f) == f.k \in {"head", "bad request"}
CloseOf(s) == [k |-> "close", s |-> s]
ResetOf(s) == [k |-> "rst", s |-> s]

Heads(q, s) == {i \in DOMAIN q : IsHead(q[i]) /\ q[i].s = s}
HasHead(q, s) == Heads(q, s) # {}
OneHead(q, s) == \A i, j \in Heads(q, s) : i = j
Says(q, f) == \E i \in DOMAIN q : q[i] = f
DataAt(q, s) == {i \in DOMAIN q : q[i].k = "data" /\ q[i].s = s}

\* Behind every head of s there is its closure.
ClosesLater(q, s) == \A i \in Heads(q, s) : \E j \in DOMAIN q : i < j /\ q[j] = CloseOf(s)

\* Heads come in the order of their streams, and so once each.
InOrder(q) == \A s, t \in Streams : \A i \in Heads(q, s), j \in Heads(q, t) : i < j => s < t

\* Taking the first of a queue shifts the others.
LEMMA TailShifts ==
    ASSUME NEW S, NEW q \in Seq(S), q # <<>>
    PROVE  /\ Tail(q) \in Seq(S) /\ Head(q) = q[1] /\ Head(q) \in S
           /\ Len(q) \in Nat \ {0} /\ DOMAIN q = 1..Len(q)
           /\ DOMAIN Tail(q) = 1..(Len(q) - 1)
           /\ \A i \in 1..(Len(q) - 1) : Tail(q)[i] = q[i + 1]
  <1>1. /\ Tail(q) \in Seq(S) /\ Len(Tail(q)) = Len(q) - 1 /\ Head(q) \in S
        /\ \A i \in 1..Len(Tail(q)) : Tail(q)[i] = q[i + 1]
    BY HeadTailProperties
  <1>2. DOMAIN Tail(q) = 1..Len(Tail(q)) /\ DOMAIN q = 1..Len(q)
    BY <1>1, LenProperties
  <1>3. Len(q) \in Nat \ {0}
    BY EmptySeq
  <1> QED
    BY <1>1, <1>2, <1>3

\* What is left of the heads and the closures when the first is taken.
LEMMA TailHeads ==
    ASSUME NEW S, NEW q \in Seq(S), q # <<>>, NEW s
    PROVE  /\ HasHead(Tail(q), s) => HasHead(q, s)
           /\ HasHead(q, s) => HasHead(Tail(q), s) \/ (IsHead(Head(q)) /\ Head(q).s = s)
           /\ OneHead(q, s) => OneHead(Tail(q), s)
           /\ OneHead(q, s) /\ IsHead(Head(q)) /\ Head(q).s = s => ~HasHead(Tail(q), s)
           /\ ClosesLater(q, s) => ClosesLater(Tail(q), s)
           /\ ClosesLater(q, s) /\ IsHead(Head(q)) /\ Head(q).s = s => Says(Tail(q), CloseOf(s))
  <1> DEFINE n == Len(q)
             r == Tail(q)
  <1>1. /\ Head(q) = q[1] /\ n \in Nat \ {0} /\ DOMAIN q = 1..n /\ DOMAIN r = 1..(n - 1)
        /\ \A i \in 1..(n - 1) : r[i] = q[i + 1]
    BY TailShifts
  <1> HIDE DEF n, r
  <1> USE DEF HasHead, OneHead, ClosesLater, Says, Heads
  <1>2. \A i \in Heads(r, s) : i + 1 \in Heads(q, s) /\ i \in Nat
    BY <1>1
  <1>3. \A i \in Heads(q, s) : i - 1 \in Heads(r, s) \/ (i = 1 /\ IsHead(Head(q)) /\ Head(q).s = s)
    <2> SUFFICES ASSUME NEW i \in Heads(q, s), i # 1
                 PROVE  i - 1 \in Heads(r, s)
      BY <1>1
    <2>1. i - 1 \in 1..(n - 1) /\ (i - 1) + 1 = i
      BY <1>1
    <2>2. r[i - 1] = q[i]
      BY <1>1, <2>1
    <2> QED
      BY <1>1, <2>1, <2>2
  <1>4. IsHead(Head(q)) /\ Head(q).s = s => 1 \in Heads(q, s)
    BY <1>1
  <1>5. \A j \in DOMAIN q : j > 1 => j - 1 \in DOMAIN r /\ r[j - 1] = q[j]
    <2> SUFFICES ASSUME NEW j \in DOMAIN q, j > 1
                 PROVE  j - 1 \in DOMAIN r /\ r[j - 1] = q[j]
      OBVIOUS
    <2>1. j - 1 \in 1..(n - 1) /\ (j - 1) + 1 = j
      BY <1>1
    <2> QED
      BY <1>1, <2>1
  <1>6. /\ HasHead(r, s) => HasHead(q, s)
        /\ HasHead(q, s) => HasHead(r, s) \/ (IsHead(Head(q)) /\ Head(q).s = s)
    BY <1>2, <1>3 DEF HasHead
  <1>7. OneHead(q, s) => OneHead(r, s)
    <2> SUFFICES ASSUME OneHead(q, s), NEW i \in Heads(r, s), NEW j \in Heads(r, s)
                 PROVE  i = j
      BY DEF OneHead
    <2>1. i + 1 = j + 1 /\ i \in Nat /\ j \in Nat
      BY <1>2 DEF OneHead
    <2> QED
      BY <2>1
  <1>8. OneHead(q, s) /\ IsHead(Head(q)) /\ Head(q).s = s => ~HasHead(r, s)
    <2> SUFFICES ASSUME OneHead(q, s), 1 \in Heads(q, s), NEW i \in Heads(r, s)
                 PROVE  FALSE
      BY <1>4 DEF HasHead
    <2>1. i + 1 = 1 /\ i \in 1..(n - 1)
      BY <1>1, <1>2 DEF OneHead
    <2> QED
      BY <1>1, <2>1
  <1>9. ClosesLater(q, s) => ClosesLater(r, s)
    <2> SUFFICES ASSUME ClosesLater(q, s), NEW i \in Heads(r, s)
                 PROVE  \E j \in DOMAIN r : i < j /\ r[j] = CloseOf(s)
      BY DEF ClosesLater
    <2>1. PICK j \in DOMAIN q : i + 1 < j /\ q[j] = CloseOf(s)
      BY <1>2 DEF ClosesLater
    <2>2. i \in Nat /\ j \in Nat /\ j > 1 /\ i < j - 1
      BY <1>1, <1>2, <2>1
    <2> QED
      BY <1>5, <2>1, <2>2
  <1>10. ClosesLater(q, s) /\ IsHead(Head(q)) /\ Head(q).s = s => Says(r, CloseOf(s))
    <2> SUFFICES ASSUME ClosesLater(q, s), 1 \in Heads(q, s)
                 PROVE  Says(r, CloseOf(s))
      BY <1>4
    <2>1. PICK j \in DOMAIN q : 1 < j /\ q[j] = CloseOf(s)
      BY DEF ClosesLater
    <2> QED
      BY <1>1, <1>5, <2>1 DEF Says
  <1> QED
    BY <1>6, <1>7, <1>8, <1>9, <1>10 DEF r

\* What is said and is not the first is said behind it.
LEMMA TailSays ==
    ASSUME NEW S, NEW q \in Seq(S), q # <<>>, NEW f
    PROVE  /\ Says(Tail(q), f) => Says(q, f)
           /\ Says(q, f) => Says(Tail(q), f) \/ f = Head(q)
           /\ Says(q, Head(q))
  <1> DEFINE n == Len(q)
             r == Tail(q)
  <1>1. /\ Head(q) = q[1] /\ n \in Nat \ {0} /\ DOMAIN q = 1..n /\ DOMAIN r = 1..(n - 1)
        /\ \A i \in 1..(n - 1) : r[i] = q[i + 1]
    BY TailShifts
  <1> HIDE DEF n, r
  <1>2. Says(r, f) => Says(q, f)
    <2>1. \A i \in 1..(n - 1) : i + 1 \in 1..n
      BY <1>1
    <2> QED
      BY <1>1, <2>1 DEF Says
  <1>3. Says(q, f) => Says(r, f) \/ f = Head(q)
    <2> SUFFICES ASSUME NEW i \in 1..n, q[i] = f, i # 1
                 PROVE  Says(r, f)
      BY <1>1 DEF Says
    <2>1. i - 1 \in 1..(n - 1) /\ (i - 1) + 1 = i
      BY <1>1
    <2> QED
      BY <1>1, <2>1 DEF Says
  <1>4. Says(q, Head(q))
    BY <1>1 DEF Says
  <1> QED
    BY <1>2, <1>3, <1>4 DEF r

\* The order of the heads survives, and the first head taken is before the rest.
LEMMA TailOrder ==
    ASSUME NEW S, NEW q \in Seq(S), q # <<>>, InOrder(q)
    PROVE  /\ InOrder(Tail(q))
           /\ \A t \in Streams :
                 IsHead(Head(q)) /\ Head(q).s \in Streams /\ HasHead(Tail(q), t) => Head(q).s < t
  <1> DEFINE n == Len(q)
             r == Tail(q)
  <1>1. /\ Head(q) = q[1] /\ n \in Nat \ {0} /\ DOMAIN q = 1..n /\ DOMAIN r = 1..(n - 1)
        /\ \A i \in 1..(n - 1) : r[i] = q[i + 1]
    BY TailShifts
  <1> HIDE DEF n, r
  <1>2. \A s \in Streams : \A i \in Heads(r, s) : i + 1 \in Heads(q, s) /\ i \in Nat \ {0}
    BY <1>1 DEF Heads
  <1>3. InOrder(r)
    <2> SUFFICES ASSUME NEW s \in Streams, NEW t \in Streams,
                        NEW i \in Heads(r, s), NEW j \in Heads(r, t), i < j
                 PROVE  s < t
      BY DEF InOrder
    <2>1. i + 1 < j + 1
      BY <1>2
    <2> QED
      BY <1>2, <2>1 DEF InOrder
  <1>4. ASSUME NEW t \in Streams, IsHead(Head(q)), Head(q).s \in Streams, HasHead(r, t)
        PROVE  Head(q).s < t
    <2>1. 1 \in Heads(q, Head(q).s)
      BY <1>1, <1>4 DEF Heads
    <2>2. PICK i \in Heads(r, t) : TRUE
      BY <1>4 DEF HasHead
    <2>3. i + 1 \in Heads(q, t) /\ 1 < i + 1
      BY <1>2, <2>2
    <2> QED
      BY <1>4, <2>1, <2>3 DEF InOrder
  <1> QED
    BY <1>3, <1>4 DEF r

\* What two queues say one after the other.
LEMMA ConcatHeads ==
    ASSUME NEW S, NEW q \in Seq(S), NEW r \in Seq(S), NEW s
    PROVE  /\ HasHead(q \o r, s) <=> HasHead(q, s) \/ HasHead(r, s)
           /\ \A f : Says(q \o r, f) <=> Says(q, f) \/ Says(r, f)
           /\ OneHead(q, s) /\ ~HasHead(r, s) => OneHead(q \o r, s)
           /\ ~HasHead(q, s) /\ OneHead(r, s) => OneHead(q \o r, s)
           /\ ~HasHead(r, s) /\ ClosesLater(q, s) => ClosesLater(q \o r, s)
           /\ ~HasHead(r, s) /\ Says(r, CloseOf(s)) => ClosesLater(q \o r, s)
  <1> DEFINE m == Len(q)
             n == Len(r)
             c == q \o r
  <1>1. /\ c \in Seq(S) /\ Len(c) = m + n
        /\ \A i \in 1..(m + n) : c[i] = IF i <= m THEN q[i] ELSE r[i - m]
    BY ConcatProperties
  <1>2. /\ m \in Nat /\ n \in Nat /\ DOMAIN q = 1..m /\ DOMAIN r = 1..n
        /\ DOMAIN c = 1..(m + n)
    BY <1>1, LenProperties
  <1> HIDE DEF m, n, c
  <1>3. \A i \in 1..m : i \in 1..(m + n) /\ c[i] = q[i]
    BY <1>1, <1>2
  <1>4. \A i \in 1..n : m + i \in 1..(m + n) /\ c[m + i] = r[i] /\ m < m + i
    <2> SUFFICES ASSUME NEW i \in 1..n
                 PROVE  m + i \in 1..(m + n) /\ c[m + i] = r[i] /\ m < m + i
      OBVIOUS
    <2>1. m + i \in 1..(m + n) /\ ~(m + i <= m) /\ (m + i) - m = i /\ m < m + i
      BY <1>2
    <2> QED
      BY <1>1, <2>1
  <1>5. \A i \in 1..(m + n) : i \in 1..m \/ \E j \in 1..n : i = m + j
    <2> SUFFICES ASSUME NEW i \in 1..(m + n), i \notin 1..m
                 PROVE  \E j \in 1..n : i = m + j
      OBVIOUS
    <2>1. i - m \in 1..n /\ i = m + (i - m)
      BY <1>2
    <2> QED
      BY <2>1
  <1>6. \A i \in Heads(c, s) : i \in Heads(q, s) \/ \E j \in Heads(r, s) : i = m + j
    <2> SUFFICES ASSUME NEW i \in Heads(c, s), i \notin Heads(q, s)
                 PROVE  \E j \in Heads(r, s) : i = m + j
      OBVIOUS
    <2>1. i \in 1..(m + n) /\ IsHead(c[i]) /\ c[i].s = s
      BY <1>2 DEF Heads
    <2>2. i \notin 1..m
      BY <1>2, <1>3, <2>1 DEF Heads
    <2>3. PICK j \in 1..n : i = m + j
      BY <1>5, <2>1, <2>2
    <2>4. j \in Heads(r, s)
      BY <1>2, <1>4, <2>1, <2>3 DEF Heads
    <2> QED
      BY <2>3, <2>4
  <1>7. /\ \A i \in Heads(q, s) : i \in Heads(c, s)
        /\ \A i \in Heads(r, s) : m + i \in Heads(c, s)
    BY <1>2, <1>3, <1>4 DEF Heads
  <1>8. HasHead(c, s) <=> HasHead(q, s) \/ HasHead(r, s)
    BY <1>6, <1>7 DEF HasHead
  <1>9. \A f : Says(c, f) <=> Says(q, f) \/ Says(r, f)
    <2> TAKE f
    <2>1. Says(q, f) => Says(c, f)
      BY <1>2, <1>3 DEF Says
    <2>2. Says(r, f) => Says(c, f)
      BY <1>2, <1>4 DEF Says
    <2>3. ASSUME Says(c, f), ~Says(q, f)
          PROVE  Says(r, f)
      <3>1. PICK i \in 1..(m + n) : c[i] = f
        BY <1>2, <2>3 DEF Says
      <3>2. i \notin 1..m
        BY <1>2, <1>3, <2>3, <3>1 DEF Says
      <3>3. PICK j \in 1..n : i = m + j
        BY <1>5, <3>2
      <3> QED
        BY <1>2, <1>4, <3>1, <3>3 DEF Says
    <2> QED
      BY <2>1, <2>2, <2>3
  <1>10. /\ OneHead(q, s) /\ ~HasHead(r, s) => OneHead(c, s)
         /\ ~HasHead(q, s) /\ OneHead(r, s) => OneHead(c, s)
    BY <1>6 DEF OneHead, HasHead
  <1>11. ~HasHead(r, s) /\ ClosesLater(q, s) => ClosesLater(c, s)
    <2> SUFFICES ASSUME ~HasHead(r, s), ClosesLater(q, s), NEW i \in Heads(c, s)
                 PROVE  \E j \in DOMAIN c : i < j /\ c[j] = CloseOf(s)
      BY DEF ClosesLater
    <2>1. i \in Heads(q, s)
      BY <1>6 DEF HasHead
    <2>2. PICK j \in DOMAIN q : i < j /\ q[j] = CloseOf(s)
      BY <2>1 DEF ClosesLater
    <2> QED
      BY <1>2, <1>3, <2>2
  <1>12. ~HasHead(r, s) /\ Says(r, CloseOf(s)) => ClosesLater(c, s)
    <2> SUFFICES ASSUME ~HasHead(r, s), Says(r, CloseOf(s)), NEW i \in Heads(c, s)
                 PROVE  \E j \in DOMAIN c : i < j /\ c[j] = CloseOf(s)
      BY DEF ClosesLater
    <2>1. i \in 1..m
      BY <1>2, <1>6 DEF HasHead, Heads
    <2>2. PICK j \in 1..n : r[j] = CloseOf(s)
      BY <1>2 DEF Says
    <2>3. i < m + j
      BY <1>2, <2>1
    <2> QED
      BY <1>2, <1>4, <2>2, <2>3
  <1> QED
    BY <1>8, <1>9, <1>10, <1>11, <1>12 DEF c

\* A queue of one, and one of none.
LEMMA ShortQueues ==
    ASSUME NEW f, NEW s
    PROVE  /\ HasHead(<<f>>, s) <=> IsHead(f) /\ f.s = s
           /\ OneHead(<<f>>, s)
           /\ \A g : Says(<<f>>, g) <=> f = g
           /\ ~HasHead(<<>>, s)
           /\ \A g : ~Says(<<>>, g)
           /\ DataAt(<<>>, s) = {}
           /\ DataAt(<<f>>, s) = IF f.k = "data" /\ f.s = s THEN {1} ELSE {}
  <1>1. DOMAIN <<f>> = {1} /\ <<f>>[1] = f
    OBVIOUS
  <1>2. DOMAIN <<>> = {}
    OBVIOUS
  <1>3. Heads(<<f>>, s) = IF IsHead(f) /\ f.s = s THEN {1} ELSE {}
    BY <1>1 DEF Heads
  <1>4. Heads(<<>>, s) = {}
    BY <1>2 DEF Heads
  <1>5. DataAt(<<f>>, s) = IF f.k = "data" /\ f.s = s THEN {1} ELSE {}
    BY <1>1 DEF DataAt
  <1>6. DataAt(<<>>, s) = {}
    BY <1>2 DEF DataAt
  <1>7. \A g : Says(<<f>>, g) <=> f = g
    BY <1>1 DEF Says
  <1>8. \A g : ~Says(<<>>, g)
    BY <1>2 DEF Says
  <1> QED
    BY <1>3, <1>4, <1>5, <1>6, <1>7, <1>8 DEF HasHead, OneHead

\* A queue holds finitely many chunks of a stream, whose number grows by the one put in
\* and shrinks by the one taken out.
LEMMA DataCounted ==
    ASSUME NEW S, NEW q \in Seq(S), NEW s
    PROVE  IsFiniteSet(DataAt(q, s)) /\ Cardinality(DataAt(q, s)) \in Nat
  <1>1. DOMAIN q = 1..Len(q) /\ Len(q) \in Nat
    BY LenProperties
  <1>2. IsFiniteSet(1..Len(q)) /\ DataAt(q, s) \in SUBSET (1..Len(q))
    BY <1>1, FS_Interval DEF DataAt
  <1>3. IsFiniteSet(DataAt(q, s))
    BY <1>2, FS_Subset
  <1> QED
    BY <1>3, FS_CardinalityType

\* Chunks are counted over what has none behind it as before.
LEMMA ConcatCounts ==
    ASSUME NEW S, NEW q \in Seq(S), NEW r \in Seq(S), NEW s, DataAt(r, s) = {}
    PROVE  DataAt(q \o r, s) = DataAt(q, s)
  <1> DEFINE m == Len(q)
             n == Len(r)
             c == q \o r
  <1>1. /\ c \in Seq(S) /\ Len(c) = m + n
        /\ \A i \in 1..(m + n) : c[i] = IF i <= m THEN q[i] ELSE r[i - m]
    BY ConcatProperties
  <1>2. /\ m \in Nat /\ n \in Nat /\ DOMAIN q = 1..m /\ DOMAIN r = 1..n
        /\ DOMAIN c = 1..(m + n)
    BY <1>1, LenProperties
  <1> HIDE DEF m, n, c
  <1>3. \A i \in 1..m : i \in 1..(m + n) /\ c[i] = q[i]
    BY <1>1, <1>2
  <1>4. \A i \in 1..(m + n) : i \in 1..m \/ (i - m \in 1..n /\ c[i] = r[i - m])
    BY <1>1, <1>2
  <1>5. \A i \in 1..n : ~(r[i].k = "data" /\ r[i].s = s)
    BY <1>2 DEF DataAt
  <1>6. \A i \in 1..(m + n) : c[i].k = "data" /\ c[i].s = s => i \in 1..m
    BY <1>4, <1>5
  <1> QED
    BY <1>2, <1>3, <1>6 DEF DataAt, c

\* One more at the end counts if it is a chunk of the stream.
LEMMA OneMoreCounted ==
    ASSUME NEW S, NEW q \in Seq(S), NEW f \in S, NEW s
    PROVE  /\ f.k = "data" /\ f.s = s =>
                 Cardinality(DataAt(q \o <<f>>, s)) = Cardinality(DataAt(q, s)) + 1
           /\ ~(f.k = "data" /\ f.s = s) => DataAt(q \o <<f>>, s) = DataAt(q, s)
  <1> DEFINE m == Len(q)
             c == q \o <<f>>
  <1>1. <<f>> \in Seq(S) /\ Len(<<f>>) = 1 /\ <<f>>[1] = f
    OBVIOUS
  <1>2. /\ c \in Seq(S) /\ Len(c) = m + 1
        /\ \A i \in 1..(m + 1) : c[i] = IF i <= m THEN q[i] ELSE <<f>>[i - m]
    BY <1>1, ConcatProperties
  <1>3. m \in Nat /\ DOMAIN q = 1..m /\ DOMAIN c = 1..(m + 1)
    BY <1>2, LenProperties
  <1>4. c[m + 1] = f
    <2>1. m + 1 \in 1..(m + 1) /\ ~(m + 1 <= m) /\ (m + 1) - m = 1
      BY <1>3
    <2> QED
      BY <1>1, <1>2, <2>1
  <1> HIDE DEF m, c
  <1>5. \A i \in 1..m : c[i] = q[i]
    BY <1>2, <1>3
  <1>6. 1..(m + 1) = (1..m) \union {m + 1} /\ m + 1 \notin 1..m
    BY <1>3
  <1>7. CASE f.k = "data" /\ f.s = s
    <2>1. DataAt(c, s) = DataAt(q, s) \union {m + 1} /\ m + 1 \notin DataAt(q, s)
      BY <1>3, <1>4, <1>5, <1>6, <1>7 DEF DataAt
    <2>2. Cardinality(DataAt(c, s)) = Cardinality(DataAt(q, s)) + 1
      BY <2>1, DataCounted, FS_AddElement
    <2> QED
      BY <1>7, <2>2 DEF c
  <1>8. CASE ~(f.k = "data" /\ f.s = s)
    <2>1. DataAt(c, s) = DataAt(q, s)
      BY <1>3, <1>4, <1>5, <1>6, <1>8 DEF DataAt
    <2> QED
      BY <1>8, <2>1 DEF c
  <1> QED
    BY <1>7, <1>8

\* One less at the front counts if it was a chunk of the stream.
LEMMA OneLessCounted ==
    ASSUME NEW S, NEW q \in Seq(S), q # <<>>, NEW s
    PROVE  Cardinality(DataAt(q, s)) =
              Cardinality(DataAt(Tail(q), s))
                + IF Head(q).k = "data" /\ Head(q).s = s THEN 1 ELSE 0
  <1> DEFINE n == Len(q)
             r == Tail(q)
             behind == DataAt(q, s) \ {1}
             shift == [i \in DataAt(r, s) |-> i + 1]
  <1>1. /\ r \in Seq(S) /\ Head(q) = q[1] /\ n \in Nat \ {0}
        /\ DOMAIN q = 1..n /\ DOMAIN r = 1..(n - 1)
        /\ \A i \in 1..(n - 1) : r[i] = q[i + 1]
    BY TailShifts
  <1> HIDE DEF n, r
  <1>2. IsFiniteSet(DataAt(q, s)) /\ IsFiniteSet(DataAt(r, s))
    BY <1>1, DataCounted
  <1>3. \A i \in DataAt(r, s) : i \in 1..(n - 1) /\ i + 1 \in behind
    <2> SUFFICES ASSUME NEW i \in DataAt(r, s)
                 PROVE  i \in 1..(n - 1) /\ i + 1 \in behind
      OBVIOUS
    <2>1. i \in 1..(n - 1) /\ r[i].k = "data" /\ r[i].s = s
      BY <1>1 DEF DataAt
    <2>2. i + 1 \in 1..n /\ i + 1 # 1
      BY <1>1, <2>1
    <2> QED
      BY <1>1, <2>1, <2>2 DEF DataAt
  <1>4. \A j \in behind : j - 1 \in DataAt(r, s) /\ j = (j - 1) + 1
    <2> SUFFICES ASSUME NEW j \in behind
                 PROVE  j - 1 \in DataAt(r, s) /\ j = (j - 1) + 1
      OBVIOUS
    <2>1. j \in 1..n /\ j # 1 /\ q[j].k = "data" /\ q[j].s = s
      BY <1>1 DEF DataAt
    <2>2. j - 1 \in 1..(n - 1) /\ j = (j - 1) + 1
      BY <1>1, <2>1
    <2>3. r[j - 1] = q[j]
      BY <1>1, <2>2
    <2> QED
      BY <1>1, <2>1, <2>2, <2>3 DEF DataAt
  <1>5. shift \in Bijection(DataAt(r, s), behind)
    <2> HIDE DEF behind
    <2>1. shift \in [DataAt(r, s) -> behind]
      BY <1>3
    <2>2. \A i, j \in DataAt(r, s) : shift[i] = shift[j] => i = j
      BY <1>1, <1>3
    <2>3. \A j \in behind : \E i \in DataAt(r, s) : shift[i] = j
      BY <1>4
    <2> QED
      BY <2>1, <2>2, <2>3 DEF Bijection, Injection, Surjection, IsInjective
  <1>6. Cardinality(behind) = Cardinality(DataAt(r, s))
    BY <1>2, <1>5, FS_Bijection DEF ExistsBijection
  <1>7. Cardinality(behind) =
           IF 1 \in DataAt(q, s) THEN Cardinality(DataAt(q, s)) - 1
                                 ELSE Cardinality(DataAt(q, s))
    BY <1>2, FS_RemoveElement
  <1>8. 1 \in DataAt(q, s) <=> Head(q).k = "data" /\ Head(q).s = s
    BY <1>1 DEF DataAt
  <1>9. Cardinality(DataAt(q, s)) \in Nat /\ Cardinality(DataAt(r, s)) \in Nat
    BY <1>2, FS_CardinalityType
  <1> HIDE DEF behind
  <1>10. Cardinality(DataAt(q, s)) =
            Cardinality(DataAt(r, s)) + IF 1 \in DataAt(q, s) THEN 1 ELSE 0
    BY <1>6, <1>7, <1>9
  <1> QED
    BY <1>8, <1>10 DEF r

\* A head put behind heads of earlier streams leaves them in order.
LEMMA AppendOrder ==
    ASSUME NEW S, NEW q \in Seq(S), NEW f \in S, InOrder(q),
           IsHead(f) => f.s \in Streams /\ \A t \in Streams : HasHead(q, t) => t < f.s
    PROVE  InOrder(Append(q, f))
  <1> DEFINE m == Len(q)
             c == Append(q, f)
  <1>1. /\ c \in Seq(S) /\ Len(c) = m + 1 /\ c[m + 1] = f
        /\ \A i \in 1..m : c[i] = q[i]
    BY AppendProperties
  <1>2. m \in Nat /\ DOMAIN q = 1..m /\ DOMAIN c = 1..(m + 1)
    BY <1>1, LenProperties
  <1> HIDE DEF m, c
  <1>3. 1..(m + 1) = (1..m) \union {m + 1}
    BY <1>2
  <1>4. \A s : \A i \in Heads(c, s) : i \in Heads(q, s) \/ (i = m + 1 /\ IsHead(f) /\ f.s = s)
    BY <1>1, <1>2, <1>3 DEF Heads
  <1>5. \A s : \A i \in Heads(q, s) : i \in 1..m
    BY <1>2 DEF Heads
  <1> SUFFICES ASSUME NEW s \in Streams, NEW t \in Streams,
                      NEW i \in Heads(c, s), NEW j \in Heads(c, t), i < j
               PROVE  s < t
    BY DEF InOrder, c
  <1>6. CASE j = m + 1 /\ IsHead(f) /\ f.s = t
    <2>1. i # m + 1
      BY <1>2, <1>6
    <2>2. HasHead(q, s)
      BY <1>4, <2>1 DEF HasHead
    <2> QED
      BY <1>6, <2>2
  <1>7. CASE j \in Heads(q, t)
    <2>1. i # m + 1
      BY <1>2, <1>5, <1>7
    <2> QED
      BY <1>4, <1>7, <2>1 DEF InOrder
  <1> QED
    BY <1>4, <1>6, <1>7

\* What a queue says with one more at its end.
LEMMA AppendSays ==
    ASSUME NEW S, NEW q \in Seq(S), NEW f \in S
    PROVE  /\ Append(q, f) \in Seq(S)
           /\ \A s : HasHead(Append(q, f), s) <=> HasHead(q, s) \/ (IsHead(f) /\ f.s = s)
           /\ \A g : Says(Append(q, f), g) <=> Says(q, g) \/ f = g
  <1>1. Append(q, f) \in Seq(S) /\ <<f>> \in Seq(S)
    BY AppendProperties
  <1>2. Append(q, f) = q \o <<f>>
    BY AppendIsConcat
  <1>3. \A s : HasHead(q \o <<f>>, s) <=> HasHead(q, s) \/ HasHead(<<f>>, s)
    BY <1>1, ConcatHeads
  <1>4. \A g : Says(q \o <<f>>, g) <=> Says(q, g) \/ Says(<<f>>, g)
    BY <1>1, ConcatHeads
  <1>5. /\ \A s : HasHead(<<f>>, s) <=> IsHead(f) /\ f.s = s
        /\ \A g : Says(<<f>>, g) <=> f = g
    BY ShortQueues
  <1> QED
    BY <1>1, <1>2, <1>3, <1>4, <1>5, Zenon

-----------------------------------------------------------------------------
(* The inductive invariant                                                 *)

OwedType == owed \in [Streams -> Int]

\* Where the pass is, and what it holds there.
Phases ==
    /\ drv # "poll" => woken = {} /\ polled = 0
    /\ polled \in Streams => polled \in running
    /\ drv \notin {"feed", "dispatch", "dispatch2"} => events = <<>>
    /\ drv # "park" => parkAt = 1
    /\ drv = "over" <=> ended # "no"

\* Every handler is on its way to be polled or has left its waker somewhere.
Waiting ==
    /\ atBody \subseteq running /\ atLoss \subseteq running /\ atOutside \subseteq running
    /\ \A s \in running :
          \/ s \in ready \/ s \in woken \/ polled = s \/ waker[s] = "upgraded"
          \/ s \in atBody \/ s \in atLoss \/ s \in atOutside

\* A handler is told of its stream's loss and of its request's end.
Told ==
    /\ running \ registry \subseteq lost
    /\ running \intersect registry \subseteq losses
    /\ atLoss \intersect lost = {}
    /\ atBody \intersect (unwanted \union finished \union failed) = {}
    /\ drv = "over" => losses = {} /\ running = {}

\* Nor is there anything to read where a handler waits for it.
Dry == \A s \in atBody : chunks[s] = 0

\* The peer opens its streams in order and once each, and only what it opened is known.
Fresh ==
    /\ \A s \in Streams : peer[s] = "idle" => str[s] = "idle" /\ ~HasHead(wire, s)
    /\ \A s \in Streams : str[s] # "idle" => ~HasHead(wire, s)
    /\ \A s \in Streams : peer[s] # "idle" /\ str[s] = "idle" => HasHead(wire, s)
    /\ \A s, t \in Streams : peer[s] # "idle" /\ t < s => peer[t] # "idle"
    /\ InOrder(wire)
    /\ \A s \in Streams : Says(wire, ResetOf(s)) => peer[s] = "reset"

\* Between the session and the registry: a stream the session has is tracked or about to be,
\* and the entry of one that closed has its closure to come.
Pending ==
    /\ \A s \in Streams : str[s] = "idle" => s \notin registry /\ s \notin running
    /\ \A s \in Streams : str[s] = "idle" => ~HasHead(events, s) /\ ~Says(events, CloseOf(s))
    /\ \A s \in Streams : OneHead(events, s)
    /\ \A s \in Streams : HasHead(events, s) => s \notin registry /\ s \notin running
    /\ \A s \in Streams : Says(events, CloseOf(s)) => str[s] = "closed"
    /\ \A s \in Streams : str[s] \in {"open", "rst"} /\ drv # "over" =>
          s \in registry \/ HasHead(events, s)
    /\ \A s \in Streams : str[s] = "closed" /\ s \in registry => Says(events, CloseOf(s))
    /\ \A s \in Streams : str[s] = "closed" => ClosesLater(events, s)

\* What closed was answered, or either end gave it up.
Answered ==
    /\ \A s \in Streams : str[s] = "rst" => resp[s] = "reset"
    /\ \A s \in Streams : str[s] = "closed" =>
          \/ resp[s] \in {"sent", "reset"} \/ peer[s] = "reset"
          \/ said /\ s > named

\* The GOAWAY names what was taken, once the drain has been heard.
Goaway ==
    /\ \A s \in Streams : s <= seen => str[s] # "idle"
    /\ named <= seen
    /\ said => named # -1
    /\ shutdown => named = -1
    /\ drainer = "idle" => named = -1 /\ ~shutdown /\ ~draining
    /\ draining => shutdown \/ named # -1

\* No window is lost.
Window == \A s \in Streams : owed[s] = chunks[s] + credits[s] + Cardinality(DataAt(events, s))

Past(ns) == drv = "parked" \/ (drv = "park" /\ parkAt \in ns)

\* What the park predicate has looked at stays so, but for a thread that has yet to wake.
ParkQuiet ==
    ~notified =>
      /\ Past({2, 3, 4}) => \A s \in ready : waker[s] = "marked"
      /\ Past({3, 4}) => credits = None /\ \A s \in resumable : prod[s] = "wake"
      /\ Past({4}) => (shutdown => drainer = "wake")
      /\ drv = "parked" => wire = <<>> /\ ~WantWrite /\ (Done => drainer = "wake")

Capped == Cardinality(running) <= scene.cap

ServerInv ==
    /\ TaskTypes /\ PassTypes /\ SessionTypes /\ QueueTypes /\ CountTypes /\ OwedType
    /\ Phases /\ Waiting /\ Told /\ Dry /\ Fresh /\ Pending /\ Answered /\ Goaway
    /\ Window /\ ParkQuiet /\ Capped /\ DrainIsHonest

-----------------------------------------------------------------------------
(* One lemma for each step                                                 *)

\* What every DispatchOne does, whatever it takes.
Takes(e) ==
    /\ drv \in {"dispatch", "dispatch2"} /\ events # <<>> /\ e = Head(events)
    /\ events' = Tail(events)
    /\ UNCHANGED <<atOutside, waker, noteVars, sideVars, drv, passVars, rended, seen, named, said,
                   peerVars, wire>>

\* When the connection ends, and that a drain ends it only when it is done.
Ending(why) ==
    /\ drv \in {"check", "flush", "parked"}
    /\ why \in {"eof", "error", "drained", "dropped"}
    /\ why = "drained" => Done /\ ~WantWrite

\* The pass goes on to park.
CheckParks ==
    /\ drv = "check" /\ drv' = "park" /\ parkAt' = 1
    /\ UNCHANGED <<taskVars, inVars, registry, noteVars, notified, sideVars, woken, polled,
                   ended, events, sessVars, peerVars, wire>>

\* A step that does no more to the session's streams than answer or reset an open one.
Kept ==
    \A t \in Streams :
       \/ str'[t] = str[t] /\ (resp'[t] = resp[t] \/ str[t] = "open")
       \/ str[t] = "open" /\ str'[t] = "rst" /\ resp'[t] = "reset"

\* Streams are finitely many, and numbered from one.
LEMMA StreamNumbers == 0 \notin Streams /\ Streams \subseteq Nat \ {0} /\ IsFiniteSet(Streams)
  BY ServerAssumption, FS_Interval DEF Streams

\* Any two streams are ordered.
LEMMA StreamOrder ==
    \A s, t \in Streams : /\ ~(s < t) /\ s # t => t < s
                          /\ ~(s < s)
                          /\ s <= t => s = t \/ (s < t /\ s # t /\ ~(t < s))
  BY StreamNumbers

\* A stream beyond what was taken is beyond what is named.
LEMMA NamedBelow ==
    ASSUME CountTypes, named <= seen, NEW s \in Streams, ~(s <= seen)
    PROVE  named <= s
  BY ServerAssumption DEF CountTypes, Streams

\* What the GOAWAY names was taken.
LEMMA NamedStreams ==
    ASSUME CountTypes, named <= seen
    PROVE  /\ named # -1 => named >= 0
           /\ \A s \in 1..named : s \in Streams /\ s <= seen /\ ~(s > named)
  BY ServerAssumption DEF CountTypes, Streams

\* The cap is a number.
LEMMA CapNat ==
    ASSUME QueueTypes
    PROVE  scene.cap \in Nat \ {0}
  BY ServerAssumption DEF QueueTypes, Scene

\* Chunks observed are finitely many.
LEMMA ObservedNat ==
    ASSUME QueueTypes
    PROVE  \A s : Cardinality(DataAt(events, s)) \in Nat
  BY DataCounted DEF QueueTypes

\* Fewer handlers are no more than the cap.
LEMMA FewerHandlers ==
    ASSUME TaskTypes, QueueTypes, Capped, running' \subseteq running, scene' = scene
    PROVE  Capped'
  <1>1. IsFiniteSet(running)
    BY StreamNumbers, FS_Subset DEF TaskTypes
  <1>2. Cardinality(running') <= Cardinality(running)
    BY <1>1, FS_Subset
  <1>3. Cardinality(running) \in Nat /\ Cardinality(running') \in Nat
    BY <1>1, FS_CardinalityType, FS_Subset
  <1> QED
    BY <1>2, <1>3, CapNat DEF Capped

\* Such a step leaves what relates streams, answers, wire and GOAWAY.
LEMMA KeptLayers ==
    ASSUME Fresh, Answered, Goaway, Kept,
           UNCHANGED <<peer, wire, said, named, seen, shutdown, drainer, draining>>
    PROVE  Fresh' /\ Answered' /\ Goaway'
  <1>1. \A t \in Streams : /\ str'[t] = "idle" <=> str[t] = "idle"
                           /\ str'[t] = "closed" <=> str[t] = "closed"
                           /\ str'[t] = "closed" => resp'[t] = resp[t]
                           /\ str'[t] = "rst" =>
                                 (str[t] = "rst" /\ resp'[t] = resp[t]) \/ resp'[t] = "reset"
    BY DEF Kept
  <1>2. Fresh'
    BY <1>1, Zenon DEF Fresh
  <1>3. Answered'
    BY <1>1, Zenon DEF Answered
  <1>4. Goaway'
    BY <1>1, Zenon DEF Goaway
  <1> QED
    BY <1>2, <1>3, <1>4

\* The queue of events with its first taken.
LEMMA TakeQueues ==
    ASSUME ServerInv, NEW e, Takes(e)
    PROVE  /\ e \in Events /\ e.s \in Streams /\ events' \in Seq(Events)
           /\ \A s \in Streams :
                /\ HasHead(events', s) => HasHead(events, s)
                /\ HasHead(events, s) => HasHead(events', s) \/ (IsHead(e) /\ e.s = s)
                /\ OneHead(events', s)
                /\ IsHead(e) /\ e.s = s => ~HasHead(events', s) /\ HasHead(events, s)
                /\ Says(events', CloseOf(s)) => Says(events, CloseOf(s))
                /\ Says(events, CloseOf(s)) =>
                      Says(events', CloseOf(s)) \/ (e.k = "close" /\ e.s = s)
                /\ e.k = "close" /\ e.s = s => Says(events, CloseOf(s))
                /\ str[s] = "closed" => ClosesLater(events', s)
                /\ str[s] = "closed" /\ IsHead(e) /\ e.s = s => Says(events', CloseOf(s))
  <1>1. events \in Seq(Events) /\ events # <<>> /\ e = Head(events) /\ events' = Tail(events)
    BY DEF Takes, ServerInv, QueueTypes
  <1>2. e \in Events /\ events' \in Seq(Events)
    BY <1>1, TailShifts
  <1>3. e.s \in Streams
    BY <1>2 DEF Events
  <1> SUFFICES ASSUME NEW s \in Streams
               PROVE
                /\ HasHead(events', s) => HasHead(events, s)
                /\ HasHead(events, s) => HasHead(events', s) \/ (IsHead(e) /\ e.s = s)
                /\ OneHead(events', s)
                /\ IsHead(e) /\ e.s = s => ~HasHead(events', s) /\ HasHead(events, s)
                /\ Says(events', CloseOf(s)) => Says(events, CloseOf(s))
                /\ Says(events, CloseOf(s)) =>
                      Says(events', CloseOf(s)) \/ (e.k = "close" /\ e.s = s)
                /\ e.k = "close" /\ e.s = s => Says(events, CloseOf(s))
                /\ str[s] = "closed" => ClosesLater(events', s)
                /\ str[s] = "closed" /\ IsHead(e) /\ e.s = s => Says(events', CloseOf(s))
    BY <1>2, <1>3
  <1>4. OneHead(events, s) /\ (str[s] = "closed" => ClosesLater(events, s))
    BY DEF ServerInv, Pending
  <1>5. /\ HasHead(events', s) => HasHead(events, s)
        /\ HasHead(events, s) => HasHead(events', s) \/ (IsHead(e) /\ e.s = s)
        /\ OneHead(events, s) => OneHead(events', s)
        /\ OneHead(events, s) /\ IsHead(e) /\ e.s = s => ~HasHead(events', s)
        /\ ClosesLater(events, s) => ClosesLater(events', s)
        /\ ClosesLater(events, s) /\ IsHead(e) /\ e.s = s => Says(events', CloseOf(s))
    BY <1>1, TailHeads
  <1>6. /\ Says(events', CloseOf(s)) => Says(events, CloseOf(s))
        /\ Says(events, CloseOf(s)) => Says(events', CloseOf(s)) \/ CloseOf(s) = e
        /\ Says(events, e)
    BY <1>1, TailSays
  <1>7. CloseOf(s) = e <=> e.k = "close" /\ e.s = s
    <2>1. e = [k |-> e.k, s |-> e.s]
      BY <1>2 DEF Events
    <2> QED
      BY <2>1 DEF CloseOf
  <1>8. IsHead(e) /\ e.s = s => HasHead(events, s)
    BY <1>1, TailShifts DEF HasHead, Heads
  <1> QED
    BY <1>4, <1>5, <1>6, <1>7, <1>8, Zenon

\* The chunks observed, with the first event taken.
LEMMA TakeCounts ==
    ASSUME ServerInv, NEW e, Takes(e), NEW s \in Streams
    PROVE  /\ Cardinality(DataAt(events, s)) \in Nat /\ Cardinality(DataAt(events', s)) \in Nat
           /\ e.k = "data" /\ e.s = s =>
                 Cardinality(DataAt(events, s)) = Cardinality(DataAt(events', s)) + 1
           /\ ~(e.k = "data" /\ e.s = s) =>
                 Cardinality(DataAt(events, s)) = Cardinality(DataAt(events', s))
  <1>1. events \in Seq(Events) /\ events # <<>> /\ e = Head(events) /\ events' = Tail(events)
    BY DEF Takes, ServerInv, QueueTypes
  <1>2. events' \in Seq(Events)
    BY TakeQueues
  <1>3. Cardinality(DataAt(events, s)) \in Nat /\ Cardinality(DataAt(events', s)) \in Nat
    BY <1>1, <1>2, DataCounted
  <1>4. Cardinality(DataAt(events, s)) =
           Cardinality(DataAt(events', s)) + IF e.k = "data" /\ e.s = s THEN 1 ELSE 0
    BY <1>1, OneLessCounted
  <1> QED
    BY <1>3, <1>4

\* What the peer sends keeps the order of its streams.
LEMMA SendFresh ==
    ASSUME QueueTypes, Fresh, NEW f \in Frames, PeerSends(f),
           \A t \in Streams : \/ peer'[t] = peer[t]
                              \/ peer[t] \notin {"idle", "reset"} /\ peer'[t] # "idle"
                              \/ IsHead(f) /\ f.s = t,
           IsHead(f) => /\ f.s \in Streams /\ peer[f.s] = "idle" /\ peer'[f.s] # "idle"
                        /\ \A t \in Streams : t < f.s => peer[t] # "idle",
           \A t \in Streams : f = ResetOf(t) => peer'[t] = "reset"
    PROVE  Fresh' /\ QueueTypes'
  <1>1. wire' = Append(wire, f) /\ UNCHANGED <<events, str, scene>> /\ wire \in Seq(Frames)
    BY DEF PeerSends, QueueTypes, sessVars
  <1>2. /\ wire' \in Seq(Frames)
        /\ \A t \in Streams : HasHead(wire', t) <=> HasHead(wire, t) \/ (IsHead(f) /\ f.s = t)
        /\ \A t \in Streams : Says(wire', ResetOf(t)) <=> Says(wire, ResetOf(t)) \/ f = ResetOf(t)
    BY <1>1, AppendSays
  <1>3. QueueTypes'
    BY <1>1, <1>2 DEF QueueTypes
  <1>4. \A t \in Streams : peer'[t] = "idle" => str'[t] = "idle" /\ ~HasHead(wire', t)
    BY <1>1, <1>2, Zenon DEF Fresh
  <1>5. \A t \in Streams : str'[t] # "idle" => ~HasHead(wire', t)
    BY <1>1, <1>2, Zenon DEF Fresh
  <1>6. \A t \in Streams : peer'[t] # "idle" /\ str'[t] = "idle" => HasHead(wire', t)
    BY <1>1, <1>2, Zenon DEF Fresh
  <1>7. \A s, t \in Streams : peer'[s] # "idle" /\ t < s => peer'[t] # "idle"
    <2> SUFFICES ASSUME NEW s \in Streams, NEW t \in Streams, peer'[s] # "idle", t < s
                 PROVE  peer'[t] # "idle"
      OBVIOUS
    <2>1. CASE peer[s] # "idle"
      <3>1. peer[t] # "idle"
        BY <2>1, Zenon DEF Fresh
      <3> QED
        BY <3>1, Zenon
    <2>2. CASE peer[s] = "idle"
      <3>1. IsHead(f) /\ f.s = s
        BY <2>2, Zenon
      <3>2. peer[t] # "idle"
        BY <3>1, Zenon
      <3> QED
        BY <3>1, <3>2, Zenon
    <2> QED
      BY <2>1, <2>2
  <1>8. InOrder(wire')
    <2>1. ASSUME IsHead(f), NEW t \in Streams, HasHead(wire, t)
          PROVE  t < f.s
      <3>1. f.s \in Streams /\ peer[f.s] = "idle" /\ peer[t] # "idle"
        BY <2>1, Zenon DEF Fresh
      <3>2. ~(f.s < t)
        BY <3>1, Zenon DEF Fresh
      <3>3. f.s # t
        BY <3>1
      <3> QED
        BY <3>1, <3>2, <3>3, StreamOrder, Zenon
    <2>2. InOrder(wire)
      BY DEF Fresh
    <2>3. InOrder(Append(wire, f))
      BY <1>1, <2>1, <2>2, AppendOrder
    <2> QED
      BY <1>1, <2>3
  <1>9. \A t \in Streams : Says(wire', ResetOf(t)) => peer'[t] = "reset"
    <2> SUFFICES ASSUME NEW t \in Streams, Says(wire, ResetOf(t))
                 PROVE  peer'[t] = "reset"
      BY <1>2
    <2>1. peer[t] = "reset"
      BY Zenon DEF Fresh
    <2>2. ~HasHead(wire', t) \/ str[t] = "idle"
      BY <1>5, <1>1, Zenon
    <2>3. ~(IsHead(f) /\ f.s = t)
      BY <2>1, Zenon
    <2> QED
      BY <2>1, <2>3, Zenon
  <1> QED
    BY <1>3, <1>4, <1>5, <1>6, <1>7, <1>8, <1>9, Zenon DEF Fresh

\* The park predicate, conjunct by conjunct.
LEMMA ParkCases ==
    ASSUME PassTypes, Park
    PROVE  /\ drv' # "parked" => parkAt # 4 \/ drv' = "advance"
           /\ \/ drv' = "advance" /\ parkAt' = 1
              \/ parkAt = 1 /\ drv' = "park" /\ parkAt' = 2 /\ ready = {}
              \/ parkAt = 2 /\ drv' = "park" /\ parkAt' = 3 /\ resumable = {} /\ credits = None
              \/ parkAt = 3 /\ drv' = "park" /\ parkAt' = 4 /\ ~shutdown
              \/ parkAt = 4 /\ drv' = "parked" /\ parkAt' = 1 /\ wire = <<>> /\ ~WantWrite /\ ~Done
  <1>1. /\ drv' = IF ~ParkStep[parkAt] THEN "advance" ELSE IF parkAt < 4 THEN "park" ELSE "parked"
        /\ parkAt' = IF ParkStep[parkAt] /\ parkAt < 4 THEN parkAt + 1 ELSE 1
        /\ parkAt \in {1, 2, 3, 4}
    BY DEF Park, PassTypes
  <1>2. /\ 1 < 4 /\ 2 < 4 /\ 3 < 4 /\ ~(4 < 4) /\ 1 + 1 = 2 /\ 2 + 1 = 3 /\ 3 + 1 = 4
        /\ 1 # 4 /\ 2 # 4 /\ 3 # 4
    OBVIOUS
  <1>3. /\ ParkStep[1] <=> ready = {}
        /\ ParkStep[2] <=> resumable = {} /\ credits = None
        /\ ParkStep[3] <=> ~shutdown
        /\ ParkStep[4] <=> wire = <<>> /\ ~WantWrite /\ ~Done
    BY DEF ParkStep
  <1>4. CASE parkAt = 1
    BY <1>1, <1>2, <1>3, <1>4, Zenon
  <1>5. CASE parkAt = 2
    BY <1>1, <1>2, <1>3, <1>5, Zenon
  <1>6. CASE parkAt = 3
    BY <1>1, <1>2, <1>3, <1>6, Zenon
  <1>7. CASE parkAt = 4
    BY <1>1, <1>2, <1>3, <1>7, Zenon
  <1> QED
    BY <1>1, <1>4, <1>5, <1>6, <1>7, Zenon

\* What observing one frame puts into the queue of events ...
Put(q, f, told, ends, closes) ==
    q \o (IF told THEN <<f>> ELSE <<>>)
      \o (IF ends THEN <<[k |-> "end", s |-> f.s]>> ELSE <<>>)
      \o (IF closes THEN <<[k |-> "close", s |-> f.s]>> ELSE <<>>)

\* ... and what the queue says of a stream then.
Gains(q, r, f, told, closes, s) ==
    /\ HasHead(r, s) <=> HasHead(q, s) \/ (told /\ IsHead(f) /\ f.s = s)
    /\ Says(r, CloseOf(s)) <=> Says(q, CloseOf(s)) \/ (closes /\ f.s = s)
    /\ OneHead(q, s) /\ ~HasHead(q, s) => OneHead(r, s)
    /\ OneHead(q, s) /\ ~(told /\ IsHead(f) /\ f.s = s) => OneHead(r, s)
    /\ ClosesLater(q, s) /\ ~(told /\ IsHead(f) /\ f.s = s) => ClosesLater(r, s)
    /\ closes /\ f.s = s => ClosesLater(r, s)
    /\ told /\ f.k = "data" /\ f.s = s =>
          Cardinality(DataAt(r, s)) = Cardinality(DataAt(q, s)) + 1
    /\ ~(told /\ f.k = "data" /\ f.s = s) =>
          Cardinality(DataAt(r, s)) = Cardinality(DataAt(q, s))

\* The three together say just that.
LEMMA ObserveQueue ==
    ASSUME NEW q \in Seq(Events), NEW f, f.s \in Streams, f.k # "close",
           NEW told \in BOOLEAN, told => f \in Events, NEW ends \in BOOLEAN, NEW closes \in BOOLEAN
    PROVE  /\ Put(q, f, told, ends, closes) \in Seq(Events)
           /\ \A s \in Streams : Gains(q, Put(q, f, told, ends, closes), f, told, closes, s)
  <1> DEFINE eEnd == [k |-> "end", s |-> f.s]
             eClose == [k |-> "close", s |-> f.s]
             a == IF told THEN <<f>> ELSE <<>>
             b == IF ends THEN <<eEnd>> ELSE <<>>
             c == IF closes THEN <<eClose>> ELSE <<>>
             q1 == q \o a
             q2 == q1 \o b
             q3 == q2 \o c
  <1>1. eEnd \in Events /\ eClose \in Events /\ ~IsHead(eEnd) /\ ~IsHead(eClose)
    BY DEF Events, IsHead
  <1>2. /\ \A s \in Streams : eEnd # CloseOf(s) /\ f # CloseOf(s)
        /\ \A s \in Streams : eClose = CloseOf(s) <=> f.s = s
        /\ eEnd.k # "data" /\ eClose.k # "data"
    BY DEF CloseOf
  <1> HIDE DEF eEnd, eClose
  <1>3. a \in Seq(Events) /\ b \in Seq(Events) /\ c \in Seq(Events)
    BY <1>1
  <1>4. q1 \in Seq(Events)
    BY <1>3, ConcatProperties
  <1>5. q2 \in Seq(Events)
    BY <1>3, <1>4, ConcatProperties
  <1>6. Put(q, f, told, ends, closes) = q3
    BY DEF Put, eEnd, eClose
  <1>7. q3 \in Seq(Events)
    BY <1>3, <1>5, ConcatProperties
  <1>8. ASSUME NEW s \in Streams
        PROVE  /\ HasHead(a, s) <=> told /\ IsHead(f) /\ f.s = s
               /\ OneHead(a, s) /\ ~HasHead(b, s) /\ ~HasHead(c, s)
               /\ ~Says(a, CloseOf(s)) /\ ~Says(b, CloseOf(s))
               /\ Says(c, CloseOf(s)) <=> closes /\ f.s = s
               /\ DataAt(b, s) = {} /\ DataAt(c, s) = {}
    <2>1. ~HasHead(<<>>, s) /\ (\A g : ~Says(<<>>, g)) /\ DataAt(<<>>, s) = {}
      BY ShortQueues
    <2>2. OneHead(<<>>, s)
      BY <2>1 DEF OneHead, HasHead
    <2>3. /\ HasHead(<<f>>, s) <=> IsHead(f) /\ f.s = s
          /\ OneHead(<<f>>, s)
          /\ Says(<<f>>, CloseOf(s)) <=> f = CloseOf(s)
      BY ShortQueues
    <2>4. /\ ~HasHead(<<eEnd>>, s) /\ ~Says(<<eEnd>>, CloseOf(s)) /\ DataAt(<<eEnd>>, s) = {}
      BY <1>1, <1>2, ShortQueues, Zenon
    <2>5. /\ ~HasHead(<<eClose>>, s) /\ DataAt(<<eClose>>, s) = {}
          /\ Says(<<eClose>>, CloseOf(s)) <=> f.s = s
      BY <1>1, <1>2, ShortQueues, Zenon
    <2>6. /\ HasHead(a, s) <=> told /\ IsHead(f) /\ f.s = s
          /\ OneHead(a, s) /\ ~Says(a, CloseOf(s))
      BY <1>2, <2>1, <2>2, <2>3, Zenon
    <2>7. ~HasHead(b, s) /\ ~Says(b, CloseOf(s)) /\ DataAt(b, s) = {}
      BY <2>1, <2>4, Zenon
    <2>8. ~HasHead(c, s) /\ (Says(c, CloseOf(s)) <=> closes /\ f.s = s) /\ DataAt(c, s) = {}
      BY <2>1, <2>5, Zenon
    <2> QED
      BY <2>6, <2>7, <2>8
  <1>9. ASSUME NEW s \in Streams
        PROVE  /\ told /\ f.k = "data" /\ f.s = s =>
                     Cardinality(DataAt(q1, s)) = Cardinality(DataAt(q, s)) + 1
               /\ ~(told /\ f.k = "data" /\ f.s = s) => DataAt(q1, s) = DataAt(q, s)
    <2>1. CASE told
      BY <2>1, OneMoreCounted
    <2>2. CASE ~told
      <3>1. a = <<>> /\ DataAt(<<>>, s) = {}
        BY <2>2, ShortQueues
      <3>2. DataAt(q1, s) = DataAt(q, s)
        BY <1>3, <3>1, ConcatCounts
      <3> QED
        BY <2>2, <3>2
    <2> QED
      BY <2>1, <2>2
  <1> SUFFICES ASSUME NEW s \in Streams
               PROVE  Gains(q, q3, f, told, closes, s)
    BY <1>6, <1>7
  <1> HIDE DEF a, b, c
  <1>10. /\ HasHead(q1, s) <=> HasHead(q, s) \/ HasHead(a, s)
         /\ Says(q1, CloseOf(s)) <=> Says(q, CloseOf(s)) \/ Says(a, CloseOf(s))
         /\ OneHead(q, s) /\ ~HasHead(a, s) => OneHead(q1, s)
         /\ ~HasHead(q, s) /\ OneHead(a, s) => OneHead(q1, s)
         /\ ~HasHead(a, s) /\ ClosesLater(q, s) => ClosesLater(q1, s)
    BY <1>3, ConcatHeads
  <1> HIDE DEF q1
  <1>11. /\ HasHead(q2, s) <=> HasHead(q1, s) \/ HasHead(b, s)
         /\ Says(q2, CloseOf(s)) <=> Says(q1, CloseOf(s)) \/ Says(b, CloseOf(s))
         /\ OneHead(q1, s) /\ ~HasHead(b, s) => OneHead(q2, s)
         /\ ~HasHead(b, s) /\ ClosesLater(q1, s) => ClosesLater(q2, s)
    BY <1>3, <1>4, ConcatHeads
  <1>12. DataAt(q2, s) = DataAt(q1, s)
    BY <1>3, <1>4, <1>8, ConcatCounts
  <1> HIDE DEF q2
  <1>13. /\ HasHead(q3, s) <=> HasHead(q2, s) \/ HasHead(c, s)
         /\ Says(q3, CloseOf(s)) <=> Says(q2, CloseOf(s)) \/ Says(c, CloseOf(s))
         /\ OneHead(q2, s) /\ ~HasHead(c, s) => OneHead(q3, s)
         /\ ~HasHead(c, s) /\ ClosesLater(q2, s) => ClosesLater(q3, s)
         /\ ~HasHead(c, s) /\ Says(c, CloseOf(s)) => ClosesLater(q3, s)
    BY <1>3, <1>5, ConcatHeads
  <1>14. DataAt(q3, s) = DataAt(q2, s)
    BY <1>3, <1>5, <1>8, ConcatCounts
  <1> HIDE DEF q3
  <1>15. /\ told /\ f.k = "data" /\ f.s = s =>
               Cardinality(DataAt(q3, s)) = Cardinality(DataAt(q, s)) + 1
         /\ ~(told /\ f.k = "data" /\ f.s = s) =>
               Cardinality(DataAt(q3, s)) = Cardinality(DataAt(q, s))
    BY <1>9, <1>12, <1>14, Zenon
  <1> QED
    BY <1>8, <1>10, <1>11, <1>13, <1>15, Zenon DEF Gains

\* The closures of a flush, in whatever order.
LEMMA FlushQueue ==
    ASSUME NEW gone \in SUBSET Streams, NEW order \in Orders(gone), NEW c,
           c = [i \in DOMAIN order |-> [k |-> "close", s |-> order[i]]]
    PROVE  /\ c \in Seq(Events)
           /\ \A s \in Streams : /\ ~HasHead(c, s) /\ DataAt(c, s) = {}
                                 /\ Says(c, CloseOf(s)) <=> s \in gone
  <1> DEFINE n == Cardinality(gone)
  <1>1. n \in Nat
    BY StreamNumbers, FS_Subset, FS_CardinalityType
  <1>2. order \in [1..n -> gone] /\ \A s \in gone : \E i \in 1..n : order[i] = s
    BY DEF Orders
  <1> HIDE DEF n
  <1>3. DOMAIN c = 1..n /\ \A i \in 1..n : c[i] = CloseOf(order[i]) /\ order[i] \in gone
    BY <1>2 DEF CloseOf
  <1>4. \A s \in Streams : CloseOf(s) \in Events /\ CloseOf(s).k = "close" /\ CloseOf(s).s = s
    BY DEF CloseOf, Events
  <1>5. c \in [1..n -> Events]
    BY <1>2, <1>3, <1>4 DEF CloseOf
  <1>6. c \in Seq(Events)
    BY <1>1, <1>5
  <1>7. \A i \in DOMAIN c : ~IsHead(c[i]) /\ c[i].k # "data"
    BY <1>3, <1>4 DEF IsHead
  <1>8. ASSUME NEW s \in Streams
        PROVE  ~HasHead(c, s) /\ DataAt(c, s) = {}
    BY <1>7 DEF HasHead, Heads, DataAt
  <1>9. ASSUME NEW s \in Streams
        PROVE  Says(c, CloseOf(s)) <=> s \in gone
    <2>1. ASSUME s \in gone
          PROVE  Says(c, CloseOf(s))
      BY <1>2, <1>3, <2>1 DEF Says
    <2>2. ASSUME NEW i \in DOMAIN c, c[i] = CloseOf(s)
          PROVE  s \in gone
      BY <1>3, <1>4, <2>2
    <2> QED
      BY <2>1, <2>2 DEF Says
  <1> QED
    BY <1>6, <1>8, <1>9

\* The first frame of the wire, and the wire behind it.
LEMMA FeedFrame ==
    ASSUME ServerInv, FeedOne, NEW f, f = Head(wire)
    PROVE  /\ f.s \in Streams /\ f.k \notin {"close", "eof"} /\ (f.k # "rst" => f \in Events)
           /\ IsHead(f) => str[f.s] = "idle" /\ peer[f.s] # "idle"
           /\ f.k = "rst" => peer[f.s] = "reset"
           /\ wire' \in Seq(Frames) /\ InOrder(wire')
           /\ \A t \in Streams :
                /\ HasHead(wire', t) => HasHead(wire, t)
                /\ HasHead(wire, t) => HasHead(wire', t) \/ (IsHead(f) /\ f.s = t)
                /\ IsHead(f) /\ HasHead(wire', t) => f.s < t
                /\ Says(wire', ResetOf(t)) => Says(wire, ResetOf(t))
  <1>1. wire \in Seq(Frames) /\ wire # <<>> /\ wire' = Tail(wire) /\ f.k # "eof" /\ InOrder(wire)
    BY DEF FeedOne, AtEof, ServerInv, QueueTypes, Fresh
  <1>2. f \in Frames /\ wire' \in Seq(Frames) /\ f = wire[1] /\ 1 \in DOMAIN wire
    BY <1>1, TailShifts
  <1>3. f \in [k : {"head", "bad request", "data", "end", "bad trailers", "rst"}, s : Streams]
    <2>1. \/ f \in [k : {"head", "bad request", "data", "end", "bad trailers", "rst"}, s : Streams]
          \/ f = [k |-> "eof"]
      BY <1>2 DEF Frames
    <2>2. [k |-> "eof"].k = "eof"
      OBVIOUS
    <2> QED
      BY <1>1, <2>1, <2>2, Zenon
  <1>4. /\ f.s \in Streams /\ f.k \in {"head", "bad request", "data", "end", "bad trailers", "rst"}
        /\ f = [k |-> f.k, s |-> f.s]
    BY <1>3
  <1>5. f.k # "rst" => f \in Events
    BY <1>4 DEF Events
  <1>6. /\ InOrder(wire')
        /\ \A t \in Streams : IsHead(f) /\ HasHead(wire', t) => f.s < t
    BY <1>1, <1>4, TailOrder
  <1>7. \A t \in Streams :
           /\ HasHead(wire', t) => HasHead(wire, t)
           /\ HasHead(wire, t) => HasHead(wire', t) \/ (IsHead(f) /\ f.s = t)
    BY <1>1, TailHeads
  <1>8. \A t \in Streams : Says(wire', ResetOf(t)) => Says(wire, ResetOf(t))
    BY <1>1, TailSays
  <1>9. IsHead(f) => HasHead(wire, f.s)
    BY <1>2 DEF HasHead, Heads
  <1>10. IsHead(f) => str[f.s] = "idle" /\ peer[f.s] # "idle"
    BY <1>4, <1>9, Zenon DEF ServerInv, Fresh
  <1>11. f.k = "rst" => f = ResetOf(f.s)
    BY <1>4 DEF ResetOf
  <1>12. f.k = "rst" => Says(wire, ResetOf(f.s))
    BY <1>2, <1>11 DEF Says
  <1>13. f.k = "rst" => peer[f.s] = "reset"
    BY <1>4, <1>12, Zenon DEF ServerInv, Fresh
  <1>14. f.k \notin {"close", "eof"}
    BY <1>4
  <1> QED
    BY <1>2, <1>4, <1>5, <1>6, <1>7, <1>8, <1>10, <1>13, <1>14, Zenon

USE DEF ServerInv, taskVars, inVars, noteVars, sideVars, passVars, sessVars, peerVars

\* The handlers that were woken are taken out of Ready to be polled.
LEMMA AdvanceKeeps ==
    ASSUME ServerInv, Advance
    PROVE  ServerInv'
  <1>1. TaskTypes'
    BY DEF TaskTypes, Advance
  <1>2. PassTypes'
    BY DEF PassTypes, DriverPcs, Advance
  <1>3. Phases'
    BY DEF Phases, Advance
  <1>4. Waiting'
    BY DEF Waiting, Phases, Advance
  <1>5. Told'
    BY DEF Told, Advance
  <1>6. Pending'
    BY DEF Pending, Advance
  <1>7. ParkQuiet'
    BY DEF ParkQuiet, Past, WantWrite, Done, Advance
  <1>8. SessionTypes' /\ QueueTypes' /\ CountTypes' /\ OwedType' /\ Dry' /\ Fresh'
         /\ Answered' /\ Goaway' /\ Window' /\ Capped' /\ DrainIsHonest'
    BY DEF SessionTypes, QueueTypes, CountTypes, OwedType, Dry, Fresh, Answered,
       Goaway, Window, Capped, DrainIsHonest, Advance
  <1> QED
    BY <1>1, <1>2, <1>3, <1>4, <1>5, <1>6, <1>7, <1>8

\* One of them is polled, if it still lives.
LEMMA PollBeginsKeeps ==
    ASSUME ServerInv, PollBegins
    PROVE  ServerInv'
  <1>1. TaskTypes'
    BY DEF TaskTypes, PollBegins
  <1>2. PassTypes'
    BY StreamNumbers DEF PassTypes, DriverPcs, TaskTypes, PollBegins
  <1>3. Phases'
    BY DEF Phases, PollBegins
  <1>4. Waiting'
    BY StreamNumbers, Zenon DEF Waiting, TaskTypes, PollBegins
  <1>5. Told'
    BY DEF Told, PollBegins
  <1>6. Pending'
    BY DEF Pending, PollBegins
  <1>7. ParkQuiet'
    BY DEF ParkQuiet, Past, WantWrite, Done, PollBegins
  <1>8. SessionTypes' /\ QueueTypes' /\ CountTypes' /\ OwedType' /\ Dry' /\ Fresh'
         /\ Answered' /\ Goaway' /\ Window' /\ Capped' /\ DrainIsHonest'
    BY DEF SessionTypes, QueueTypes, CountTypes, OwedType, Dry, Fresh, Answered,
       Goaway, Window, Capped, DrainIsHonest, PollBegins
  <1> QED
    BY <1>1, <1>2, <1>3, <1>4, <1>5, <1>6, <1>7, <1>8

\* A chunk becomes credit.
LEMMA HandlerReadsKeeps ==
    ASSUME NEW s \in Streams, ServerInv, HandlerReads(s)
    PROVE  ServerInv'
  <1>1. PassTypes'
    BY DEF PassTypes, DriverPcs, HandlerReads, Polling
  <1>2. CountTypes'
    BY DEF CountTypes, HandlerReads, Polling
  <1>3. Dry'
    BY DEF Dry, HandlerReads, Polling
  <1>4. Window'
    <2>1. /\ chunks' = [chunks EXCEPT ![s] = @ - 1] /\ credits' = [credits EXCEPT ![s] = @ + 1]
          /\ owed' = owed /\ events' = events
      BY DEF HandlerReads
    <2> QED
      BY <2>1, ObservedNat DEF Window, CountTypes
  <1>5. ParkQuiet'
    BY DEF ParkQuiet, Past, WantWrite, Done, HandlerReads, Polling
  <1>6. TaskTypes' /\ SessionTypes' /\ QueueTypes' /\ OwedType' /\ Phases' /\
         Waiting' /\ Told' /\ Fresh' /\ Pending' /\ Answered' /\ Goaway' /\ Capped'
         /\ DrainIsHonest'
    BY DEF TaskTypes, SessionTypes, QueueTypes, OwedType, Phases, Waiting, Told,
       Fresh, Pending, Answered, Goaway, Capped, DrainIsHonest, HandlerReads
  <1> QED
    BY <1>1, <1>2, <1>3, <1>4, <1>5, <1>6

\* A handler waits for its request only while there is nothing of it to have.
LEMMA HandlerAwaitsBodyKeeps ==
    ASSUME NEW s \in Streams, ServerInv, HandlerAwaitsBody(s)
    PROVE  ServerInv'
  <1>1. TaskTypes'
    BY DEF TaskTypes, HandlerAwaitsBody, Polling, Has
  <1>2. Waiting'
    BY DEF Waiting, Phases, HandlerAwaitsBody, Polling, Has
  <1>3. Told'
    BY DEF Told, HandlerAwaitsBody, Polling, Has
  <1>4. Dry'
    BY DEF Dry, HandlerAwaitsBody, Polling, Has
  <1>5. PassTypes' /\ SessionTypes' /\ QueueTypes' /\ CountTypes' /\ OwedType' /\
         Phases' /\ Fresh' /\ Pending' /\ Answered' /\ Goaway' /\ Window' /\
         ParkQuiet' /\ Capped' /\ DrainIsHonest'
    BY DEF PassTypes, DriverPcs, SessionTypes, QueueTypes, CountTypes, OwedType,
       Phases, Fresh, Pending, Answered, Goaway, Window, ParkQuiet, Past, WantWrite,
       Done, Capped, DrainIsHonest, HandlerAwaitsBody
  <1> QED
    BY <1>1, <1>2, <1>3, <1>4, <1>5

\* A handler waits for a loss only before it has tripped.
LEMMA HandlerAwaitsLossKeeps ==
    ASSUME NEW s \in Streams, ServerInv, HandlerAwaitsLoss(s)
    PROVE  ServerInv'
  <1>1. TaskTypes'
    BY DEF TaskTypes, HandlerAwaitsLoss, Polling
  <1>2. Waiting'
    BY DEF Waiting, Phases, HandlerAwaitsLoss, Polling
  <1>3. Told'
    BY DEF Told, HandlerAwaitsLoss, Polling
  <1>4. PassTypes' /\ SessionTypes' /\ QueueTypes' /\ CountTypes' /\ OwedType' /\
         Phases' /\ Dry' /\ Fresh' /\ Pending' /\ Answered' /\ Goaway' /\ Window' /\
         ParkQuiet' /\ Capped' /\ DrainIsHonest'
    BY DEF PassTypes, DriverPcs, SessionTypes, QueueTypes, CountTypes, OwedType,
       Phases, Dry, Fresh, Pending, Answered, Goaway, Window, ParkQuiet, Past,
       WantWrite, Done, Capped, DrainIsHonest, HandlerAwaitsLoss
  <1> QED
    BY <1>1, <1>2, <1>3, <1>4

\* A handler leaves its waker outside.
LEMMA HandlerAwaitsOutsideKeeps ==
    ASSUME NEW s \in Streams, ServerInv, HandlerAwaitsOutside(s)
    PROVE  ServerInv'
  <1>1. TaskTypes'
    BY DEF TaskTypes, HandlerAwaitsOutside, Polling
  <1>2. PassTypes'
    BY DEF PassTypes, DriverPcs, HandlerAwaitsOutside, Polling
  <1>3. Phases'
    BY StreamNumbers, Zenon DEF Phases, HandlerAwaitsOutside, Polling
  <1>4. Waiting'
    BY StreamNumbers, Zenon DEF Waiting, Phases, TaskTypes, HandlerAwaitsOutside,
       Polling
  <1>5. SessionTypes' /\ QueueTypes' /\ CountTypes' /\ OwedType' /\ Told' /\ Dry' /\
         Fresh' /\ Pending' /\ Answered' /\ Goaway' /\ Window' /\ ParkQuiet' /\
         Capped' /\ DrainIsHonest'
    BY DEF SessionTypes, QueueTypes, CountTypes, OwedType, Told, Dry, Fresh, Pending,
       Answered, Goaway, Window, ParkQuiet, Past, WantWrite, Done, Capped,
       DrainIsHonest, HandlerAwaitsOutside
  <1> QED
    BY <1>1, <1>2, <1>3, <1>4, <1>5

\* What is queued of a dropped request becomes credit.
LEMMA HandlerDropsBodyKeeps ==
    ASSUME NEW s \in Streams, ServerInv, HandlerDropsBody(s)
    PROVE  ServerInv'
  <1>1. TaskTypes'
    BY DEF TaskTypes, HandlerDropsBody, Polling, Has, DropsBody
  <1>2. PassTypes'
    BY DEF PassTypes, DriverPcs, HandlerDropsBody, Polling, Has, DropsBody
  <1>3. CountTypes'
    BY DEF CountTypes, HandlerDropsBody, Polling, Has, DropsBody
  <1>4. Waiting'
    BY DEF Waiting, HandlerDropsBody, Polling, Has, DropsBody
  <1>5. Told'
    BY DEF Told, HandlerDropsBody, Polling, Has, DropsBody
  <1>6. Dry'
    BY DEF Dry, HandlerDropsBody, Polling, Has, DropsBody
  <1>7. Window'
    <2>1. /\ chunks' = [chunks EXCEPT ![s] = 0] /\ credits' = [credits EXCEPT ![s] = @ + chunks[s]]
          /\ owed' = owed /\ events' = events
      BY DEF HandlerDropsBody, DropsBody
    <2> QED
      BY <2>1, ObservedNat DEF Window, CountTypes
  <1>8. ParkQuiet'
    BY DEF ParkQuiet, Past, WantWrite, Done, HandlerDropsBody, Polling, Has, DropsBody
  <1>9. SessionTypes' /\ QueueTypes' /\ OwedType' /\ Phases' /\ Fresh' /\ Pending'
         /\ Answered' /\ Goaway' /\ Capped' /\ DrainIsHonest'
    BY DEF SessionTypes, QueueTypes, OwedType, Phases, Fresh, Pending, Answered,
       Goaway, Capped, DrainIsHonest, HandlerDropsBody
  <1> QED
    BY <1>1, <1>2, <1>3, <1>4, <1>5, <1>6, <1>7, <1>8, <1>9

\* A handler that pends has left its waker somewhere.
LEMMA HandlerPendsKeeps ==
    ASSUME NEW s \in Streams, ServerInv, HandlerPends(s)
    PROVE  ServerInv'
  <1>1. PassTypes'
    BY DEF PassTypes, DriverPcs, HandlerPends, Polling
  <1>2. Phases'
    BY StreamNumbers, Zenon DEF Phases, HandlerPends, Polling
  <1>3. Waiting'
    BY DEF Waiting, HandlerPends, Polling
  <1>4. TaskTypes' /\ SessionTypes' /\ QueueTypes' /\ CountTypes' /\ OwedType' /\
         Told' /\ Dry'
    BY DEF TaskTypes, SessionTypes, QueueTypes, CountTypes, OwedType, Told, Dry,
       HandlerPends
  <1>5. Fresh' /\ Pending' /\ Answered' /\ Goaway' /\ Window' /\ ParkQuiet' /\
         Capped' /\ DrainIsHonest'
    BY DEF Fresh, Pending, Answered, Goaway, Window, ParkQuiet, Past, WantWrite, Done,
       Capped, DrainIsHonest, HandlerPends
  <1> QED
    BY <1>1, <1>2, <1>3, <1>4, <1>5

\* A handler that returns answers its stream or resets it, if it is still open.
LEMMA HandlerReturnsKeeps ==
    ASSUME NEW s \in Streams, ServerInv, HandlerReturns(s)
    PROVE  ServerInv'
  <1>1. Kept
    BY DEF HandlerReturns, Resets, SessionTypes, Kept
  <1>2. Fresh' /\ Answered' /\ Goaway'
    BY <1>1, KeptLayers DEF HandlerReturns
  <1>3. TaskTypes'
    BY DEF TaskTypes, HandlerReturns, Polling, DropsBody, Fails, Resets
  <1>4. PassTypes'
    BY DEF PassTypes, DriverPcs, HandlerReturns, Polling, DropsBody, Fails, Resets
  <1>5. SessionTypes'
    BY DEF SessionTypes, HandlerReturns, Polling, DropsBody, Fails, Resets
  <1>6. CountTypes'
    <2>1. /\ chunks' = [chunks EXCEPT ![s] = 0] /\ credits' = [credits EXCEPT ![s] = @ + chunks[s]]
          /\ UNCHANGED <<sent, seen, named>>
      BY DEF HandlerReturns, DropsBody
    <2> QED
      BY <2>1 DEF CountTypes
  <1>7. Phases'
    BY StreamNumbers, Zenon DEF Phases, HandlerReturns, Polling, DropsBody, Fails,
       Resets
  <1>8. Waiting'
    BY DEF Waiting, HandlerReturns, Polling, DropsBody, Fails, Resets
  <1>9. Told'
    BY DEF Told, HandlerReturns, Polling, DropsBody, Fails, Resets
  <1>10. Dry'
    <2>1. /\ chunks' = [chunks EXCEPT ![s] = 0] /\ atBody' = atBody \ {s}
      BY DEF HandlerReturns, DropsBody
    <2> QED
      BY <2>1 DEF Dry, CountTypes, TaskTypes
  <1>11. Fresh'
    BY <1>2
  <1>12. Pending'
    BY <1>1 DEF Pending, Kept, HandlerReturns
  <1>13. Answered'
    BY <1>2
  <1>14. Goaway'
    BY <1>2
  <1>15. Window'
    <2>1. /\ chunks' = [chunks EXCEPT ![s] = 0] /\ credits' = [credits EXCEPT ![s] = @ + chunks[s]]
          /\ owed' = owed /\ events' = events
      BY DEF HandlerReturns, DropsBody
    <2> QED
      BY <2>1, ObservedNat DEF Window, CountTypes
  <1>16. ParkQuiet'
    BY DEF ParkQuiet, Past, WantWrite, Done, HandlerReturns, Polling, DropsBody,
       Fails, Resets
  <1>17. Capped'
    <2>1. running' \subseteq running /\ scene' = scene
      BY DEF HandlerReturns
    <2> QED
      BY <2>1, FewerHandlers
  <1>18. DrainIsHonest'
    BY DEF DrainIsHonest, HandlerReturns, Polling, DropsBody, Fails, Resets
  <1>19. QueueTypes' /\ OwedType'
    BY DEF QueueTypes, OwedType, HandlerReturns
  <1> QED
    BY <1>3, <1>4, <1>5, <1>6, <1>7, <1>8, <1>9, <1>10, <1>11, <1>12, <1>13, <1>14,
       <1>15, <1>16, <1>17, <1>18, <1>19

\* Credit is reported, and no longer owed.
LEMMA TakeCreditsKeeps ==
    ASSUME ServerInv, TakeCredits
    PROVE  ServerInv'
  <1>1. PassTypes'
    BY DEF PassTypes, DriverPcs, TakeCredits, None
  <1>2. CountTypes'
    BY DEF CountTypes, TakeCredits, None
  <1>3. OwedType'
    <2>1. owed' = [s \in Streams |-> owed[s] - credits[s]]
      BY DEF TakeCredits
    <2> QED
      BY <2>1 DEF OwedType, CountTypes
  <1>4. Phases'
    BY DEF Phases, TakeCredits, None
  <1>5. Told'
    BY DEF Told, TakeCredits, None
  <1>6. Pending'
    BY DEF Pending, TakeCredits, None
  <1>7. Window'
    <2>1. /\ owed' = [s \in Streams |-> owed[s] - credits[s]] /\ credits' = None
          /\ chunks' = chunks /\ events' = events
      BY DEF TakeCredits
    <2> QED
      BY <2>1, ObservedNat DEF Window, CountTypes, OwedType, None
  <1>8. ParkQuiet'
    BY DEF ParkQuiet, Past, WantWrite, Done, TakeCredits, None
  <1>9. TaskTypes' /\ SessionTypes' /\ QueueTypes' /\ Waiting' /\ Dry' /\ Fresh' /\
         Answered' /\ Goaway' /\ Capped' /\ DrainIsHonest'
    BY DEF TaskTypes, SessionTypes, QueueTypes, Waiting, Dry, Fresh, Answered, Goaway,
       Capped, DrainIsHonest, TakeCredits
  <1> QED
    BY <1>1, <1>2, <1>3, <1>4, <1>5, <1>6, <1>7, <1>8, <1>9

\* The drain names what has been taken so far.
LEMMA TakeShutdownKeeps ==
    ASSUME ServerInv, TakeShutdown
    PROVE  ServerInv'
  <1>1. PassTypes'
    BY DEF PassTypes, DriverPcs, TakeShutdown
  <1>2. CountTypes'
    BY DEF CountTypes, TakeShutdown
  <1>3. Phases'
    BY DEF Phases, TakeShutdown
  <1>4. Told'
    BY DEF Told, TakeShutdown
  <1>5. Pending'
    BY DEF Pending, TakeShutdown
  <1>6. Answered'
    <2>1. said => ~shutdown
      BY Zenon DEF Goaway
    <2>2. said => named' = named
      BY <2>1, Zenon DEF TakeShutdown
    <2> QED
      BY <2>2, Zenon DEF Answered, TakeShutdown
  <1>7. Goaway'
    <2>1. seen \in Nat /\ named \in Int
      BY ServerAssumption DEF CountTypes
    <2>2. named' = (IF shutdown THEN seen ELSE named) /\ shutdown' = FALSE
          /\ UNCHANGED <<str, seen, said, drainer, draining>>
      BY DEF TakeShutdown
    <2>3. named' <= seen /\ (shutdown => named' # -1)
      BY <2>1, <2>2 DEF Goaway
    <2> QED
      BY <2>2, <2>3, Zenon DEF Goaway
  <1>8. ParkQuiet'
    BY DEF ParkQuiet, Past, WantWrite, Done, TakeShutdown
  <1>9. DrainIsHonest'
    <2>1. ended' # "drained"
      BY DEF TakeShutdown, Phases
    <2> QED
      BY <2>1 DEF DrainIsHonest
  <1>10. TaskTypes' /\ SessionTypes' /\ QueueTypes' /\ OwedType' /\ Waiting' /\ Dry'
         /\ Fresh' /\ Window' /\ Capped'
    BY DEF TaskTypes, SessionTypes, QueueTypes, OwedType, Waiting, Dry, Fresh, Window,
       Capped, TakeShutdown
  <1> QED
    BY <1>1, <1>2, <1>3, <1>4, <1>5, <1>6, <1>7, <1>8, <1>9, <1>10

\* Bodies that can go on do.
LEMMA TakeReadyKeeps ==
    ASSUME ServerInv, TakeReady
    PROVE  ServerInv'
  <1>1. TaskTypes'
    BY DEF TaskTypes, TakeReady
  <1>2. PassTypes'
    BY DEF PassTypes, DriverPcs, TakeReady
  <1>3. SessionTypes'
    BY DEF SessionTypes, TakeReady
  <1>4. Phases'
    BY DEF Phases, TakeReady
  <1>5. Told'
    BY DEF Told, TakeReady
  <1>6. Pending'
    BY DEF Pending, TakeReady
  <1>7. Answered'
    BY DEF Answered, TakeReady
  <1>8. ParkQuiet'
    BY DEF ParkQuiet, Past, WantWrite, Done, TakeReady
  <1>9. DrainIsHonest'
    <2>1. ended' # "drained"
      BY DEF TakeReady, Phases
    <2> QED
      BY <2>1 DEF DrainIsHonest
  <1>10. QueueTypes' /\ CountTypes' /\ OwedType' /\ Waiting' /\ Dry' /\ Fresh' /\
         Goaway' /\ Window' /\ Capped'
    BY DEF QueueTypes, CountTypes, OwedType, Waiting, Dry, Fresh, Goaway, Window,
       Capped, TakeReady
  <1> QED
    BY <1>1, <1>2, <1>3, <1>4, <1>5, <1>6, <1>7, <1>8, <1>9, <1>10

\* One frame is observed: where it opens, ends, resets or closes a stream, the queue of
\* events says so.
LEMMA FeedOneKeeps ==
    ASSUME ServerInv, FeedOne
    PROVE  ServerInv'
  <1> DEFINE f == Head(wire)
             taken == f.k \in {"head", "bad request"} /\ ~said /\ Cardinality(Counted) < scene.cap
             told == taken \/ (f.k \in {"data", "end", "bad trailers"} /\ str[f.s] = "open")
             last == told /\ f.k \in {"end", "bad trailers"}
             closes == \/ f.k = "rst" /\ str[f.s] \in {"open", "rst"}
                       \/ last /\ resp[f.s] = "sent"
             refused == f.k \in {"head", "bad request"} /\ ~taken
  <1>1. /\ str' = [str EXCEPT ![f.s] = IF taken THEN "open"
                                       ELSE IF closes \/ refused THEN "closed" ELSE @]
        /\ resp' = IF refused THEN [resp EXCEPT ![f.s] = "reset"] ELSE resp
        /\ seen' = IF taken THEN f.s ELSE seen
        /\ rended' = IF last THEN rended \union {f.s} ELSE rended
        /\ owed' = IF f.k = "data" /\ told THEN [owed EXCEPT ![f.s] = @ + 1] ELSE owed
        /\ events' = events \o (IF told THEN <<f>> ELSE <<>>)
                            \o (IF last /\ f.k # "end" THEN <<[k |-> "end", s |-> f.s]>> ELSE <<>>)
                            \o (IF closes THEN <<[k |-> "close", s |-> f.s]>> ELSE <<>>)
    BY Zenon DEF FeedOne, Observe
  <1>2. /\ taken \in BOOLEAN /\ told \in BOOLEAN /\ closes \in BOOLEAN /\ refused \in BOOLEAN
        /\ (last /\ f.k # "end") \in BOOLEAN
        /\ IsHead(f) <=> taken \/ refused
        /\ ~(taken /\ refused) /\ (told /\ IsHead(f) <=> taken)
        /\ told => f.k # "rst"
        /\ closes => f.k = "rst" \/ resp[f.s] = "sent"
        /\ closes => str[f.s] \in {"open", "rst"} /\ ~IsHead(f)
    BY Zenon DEF IsHead
  <1> DEFINE ends == last /\ f.k # "end"
             data == f.k = "data" /\ told
  <1>3. /\ taken \in BOOLEAN /\ told \in BOOLEAN /\ closes \in BOOLEAN /\ refused \in BOOLEAN
        /\ ends \in BOOLEAN /\ (data <=> told /\ f.k = "data")
    BY <1>2, Zenon
  <1>4. /\ rended' = rended \union {f.s} \/ rended' = rended
        /\ owed' = IF data THEN [owed EXCEPT ![f.s] = @ + 1] ELSE owed
        /\ events' = events \o (IF told THEN <<f>> ELSE <<>>)
                            \o (IF ends THEN <<[k |-> "end", s |-> f.s]>> ELSE <<>>)
                            \o (IF closes THEN <<[k |-> "close", s |-> f.s]>> ELSE <<>>)
    BY <1>1, Zenon
  <1> HIDE DEF taken, told, last, closes, refused, ends, data, f
  <1>5. /\ f.s \in Streams /\ f.k \notin {"close", "eof"} /\ (f.k # "rst" => f \in Events)
        /\ IsHead(f) => str[f.s] = "idle" /\ peer[f.s] # "idle"
        /\ f.k = "rst" => peer[f.s] = "reset"
        /\ wire' \in Seq(Frames) /\ InOrder(wire')
        /\ \A t \in Streams :
              /\ HasHead(wire', t) => HasHead(wire, t)
              /\ HasHead(wire, t) => HasHead(wire', t) \/ (IsHead(f) /\ f.s = t)
              /\ IsHead(f) /\ HasHead(wire', t) => f.s < t
              /\ Says(wire', ResetOf(t)) => Says(wire, ResetOf(t))
    BY FeedFrame DEF f
  <1>6. f.s \in Streams /\ events \in Seq(Events) /\ f.k # "close" /\ (told => f \in Events)
    BY <1>2, <1>5 DEF QueueTypes
  <1>7. /\ events' \in Seq(Events)
        /\ \A t \in Streams : Gains(events, events', f, told, closes, t)
    <2>1. events' = Put(events, f, told, ends, closes)
      BY <1>4 DEF Put
    <2> QED
      BY <1>6, <1>3, <2>1, ObserveQueue, Zenon
  <1>8. f.s \in Streams
    BY <1>6
  <1>9. /\ \A t \in Streams : t # f.s => str'[t] = str[t] /\ resp'[t] = resp[t]
        /\ taken => str'[f.s] = "open" /\ resp'[f.s] = resp[f.s]
        /\ refused => str'[f.s] = "closed" /\ resp'[f.s] = "reset"
        /\ closes => str'[f.s] = "closed" /\ resp'[f.s] = resp[f.s]
        /\ ~taken /\ ~refused /\ ~closes => str'[f.s] = str[f.s] /\ resp'[f.s] = resp[f.s]
    BY <1>1, <1>2, <1>6 DEF SessionTypes
  <1>10. \A t \in Streams : str'[t] = "idle" <=> str[t] = "idle" /\ ~(IsHead(f) /\ f.s = t)
    BY <1>2, <1>5, <1>9, Zenon
  <1>11. TaskTypes'
    <2>1. UNCHANGED taskVars /\ UNCHANGED inVars /\ UNCHANGED <<registry, resumable, woken>>
      BY DEF FeedOne
    <2> QED
      BY <1>6, <1>4, <2>1 DEF TaskTypes
  <1>12. SessionTypes'
    <2>1. UNCHANGED <<peer, prod>>
      BY DEF FeedOne
    <2>2. str' \in [Streams -> {"idle", "open", "rst", "closed"}]
      BY <1>1, <1>6 DEF SessionTypes
    <2>3. resp' \in [Streams -> {"none", "whole", "held", "deferred", "resumed", "sent", "reset"}]
      BY <1>1, <1>6 DEF SessionTypes
    <2> QED
      BY <2>1, <2>2, <2>3 DEF SessionTypes
  <1>13. QueueTypes'
    <2>1. scene' = scene
      BY DEF FeedOne
    <2> QED
      BY <1>5, <1>7, <2>1, Zenon DEF QueueTypes
  <1>14. CountTypes'
    <2>1. UNCHANGED <<chunks, credits, sent, named>>
      BY DEF FeedOne
    <2>2. seen' = f.s \/ seen' = seen
      BY <1>1, Zenon
    <2>3. f.s \in 0..MaxStreams
      BY <1>6, ServerAssumption DEF Streams
    <2> QED
      BY <2>1, <2>2, <2>3 DEF CountTypes
  <1>15. OwedType'
    <2>1. owed' = [owed EXCEPT ![f.s] = @ + 1] \/ owed' = owed
      BY <1>4, Zenon
    <2>2. f.s \in Streams
      BY <1>6
    <2> QED
      BY <2>1, <2>2 DEF OwedType
  <1>16. Phases'
    BY DEF Phases, FeedOne
  <1>17. Fresh'
    <2>1. UNCHANGED peer
      BY DEF FeedOne
    <2>2. ~(f.s < f.s)
      BY <1>8, StreamOrder, Zenon
    <2>3. \A t \in Streams : peer'[t] = "idle" => str'[t] = "idle" /\ ~HasHead(wire', t)
      BY <1>5, <1>10, <2>1, Zenon DEF Fresh
    <2>4. \A t \in Streams : str'[t] # "idle" => ~HasHead(wire', t)
      BY <1>5, <1>10, <2>1, <2>2, Zenon DEF Fresh
    <2>5. \A t \in Streams : peer'[t] # "idle" /\ str'[t] = "idle" => HasHead(wire', t)
      BY <1>5, <1>10, <2>1, Zenon DEF Fresh
    <2>6. \A s, t \in Streams : peer'[s] # "idle" /\ t < s => peer'[t] # "idle"
      BY <2>1, Zenon DEF Fresh
    <2>7. \A t \in Streams : Says(wire', ResetOf(t)) => peer'[t] = "reset"
      BY <1>5, <2>1, Zenon DEF Fresh
    <2> QED
      BY <1>5, <2>3, <2>4, <2>5, <2>6, <2>7, Zenon DEF Fresh
  <1>18. Pending'
    <2>1. UNCHANGED <<registry, running>> /\ drv # "over" /\ drv' # "over"
      BY DEF FeedOne
    <2>2. \A t \in Streams : str'[t] = "idle" => t \notin registry' /\ t \notin running'
      BY <1>10, <2>1, Zenon DEF Pending
    <2>3. \A t \in Streams : str'[t] = "idle" => ~HasHead(events', t) /\ ~Says(events', CloseOf(t))
      BY <1>2, <1>7, <1>10, Zenon DEF Gains, Pending
    <2>4. \A t \in Streams : OneHead(events', t)
      BY <1>2, <1>5, <1>7, Zenon DEF Gains, Pending
    <2>5. \A t \in Streams : HasHead(events', t) => t \notin registry' /\ t \notin running'
      BY <1>2, <1>5, <1>7, <2>1, Zenon DEF Gains, Pending
    <2>6. \A t \in Streams : str[t] = "closed" => str'[t] = "closed"
      BY <1>2, <1>5, <1>9, Zenon
    <2>7. \A t \in Streams : Says(events', CloseOf(t)) => str'[t] = "closed"
      BY <1>7, <1>9, <2>6, Zenon DEF Gains, Pending
    <2>8. \A t \in Streams : str'[t] \in {"open", "rst"} =>
             str[t] \in {"open", "rst"} \/ (taken /\ f.s = t)
      BY <1>9, Zenon
    <2>9. \A t \in Streams : str'[t] \in {"open", "rst"} => t \in registry' \/ HasHead(events', t)
      BY <1>2, <1>7, <2>1, <2>8, Zenon DEF Gains, Pending
    <2>10. \A t \in Streams : str'[t] = "closed" =>
              \/ str[t] = "closed" /\ ~(IsHead(f) /\ f.s = t)
              \/ f.s = t /\ closes
              \/ f.s = t /\ refused
      BY <1>2, <1>5, <1>9, Zenon
    <2>11. \A t \in Streams : str'[t] = "closed" /\ t \in registry' => Says(events', CloseOf(t))
      BY <1>2, <1>5, <1>7, <2>1, <2>10, Zenon DEF Gains, Pending
    <2>12. \A t \in Streams : ~HasHead(events', t) => ClosesLater(events', t)
      BY DEF HasHead, ClosesLater
    <2>13. refused => ~HasHead(events', f.s)
      BY <1>2, <1>5, <1>7, Zenon DEF Gains, Pending
    <2>14. \A t \in Streams : str'[t] = "closed" => ClosesLater(events', t)
      BY <1>7, <2>10, <2>12, <2>13, Zenon DEF Gains, Pending
    <2> QED
      BY <2>1, <2>2, <2>3, <2>4, <2>5, <2>7, <2>9, <2>11, <2>14, Zenon DEF Pending
  <1>19. Answered'
    <2>1. UNCHANGED <<peer, said, named>>
      BY DEF FeedOne
    <2>2. \A t \in Streams : str'[t] = "rst" => str[t] = "rst" /\ resp'[t] = resp[t]
      BY <1>2, <1>9, Zenon
    <2>3. \A t \in Streams : str'[t] = "closed" =>
            \/ str[t] = "closed" /\ resp'[t] = resp[t]
            \/ resp'[t] \in {"sent", "reset"} \/ peer[t] = "reset"
      BY <1>2, <1>5, <1>9, Zenon
    <2> QED
      BY <2>1, <2>2, <2>3, Zenon DEF Answered
  <1>20. Goaway'
    <2>1. UNCHANGED <<named, said, shutdown, drainer, draining>>
      BY DEF FeedOne
    <2>2. CASE ~taken
      <3>1. seen' = seen
        BY <1>1, <2>2, Zenon
      <3> QED
        BY <1>10, <2>1, <3>1, Zenon DEF Goaway
    <2>3. CASE taken
      <3>1. seen' = f.s /\ IsHead(f)
        BY <1>1, <1>2, <2>3, Zenon
      <3>2. ~(f.s <= seen)
        BY <1>5, <3>1, Zenon DEF Goaway
      <3>3. named <= f.s
        BY <1>8, <3>2, NamedBelow DEF Goaway
      <3>4. named' <= seen'
        BY <2>1, <3>1, <3>3
      <3>5. ASSUME NEW t \in Streams, t <= f.s
            PROVE  str'[t] # "idle"
        <4>1. t = f.s \/ (t < f.s /\ t # f.s /\ ~(f.s < t))
          BY <1>8, <3>5, StreamOrder, Zenon
        <4>2. CASE t = f.s
          BY <1>10, <3>1, <4>2, Zenon
        <4>3. CASE t < f.s /\ t # f.s /\ ~(f.s < t)
          <5>1. peer[t] # "idle"
            BY <1>5, <3>1, <4>3, Zenon DEF Fresh
          <5>2. str[t] # "idle"
            BY <1>5, <3>1, <4>3, <5>1, Zenon DEF Fresh
          <5> QED
            BY <1>10, <5>2, Zenon
        <4> QED
          BY <4>1, <4>2, <4>3
      <3> QED
        BY <2>1, <3>1, <3>4, <3>5, Zenon DEF Goaway
    <2> QED
      BY <2>2, <2>3
  <1>21. Window'
    <2>1. UNCHANGED <<chunks, credits>>
      BY DEF FeedOne
    <2>2. \A t \in Streams :
            /\ data /\ f.s = t =>
                  Cardinality(DataAt(events', t)) = Cardinality(DataAt(events, t)) + 1
            /\ ~(data /\ f.s = t) =>
                  Cardinality(DataAt(events', t)) = Cardinality(DataAt(events, t))
      BY <1>7, <1>3, Zenon DEF Gains
    <2>3. owed' = IF data THEN [owed EXCEPT ![f.s] = @ + 1] ELSE owed
      BY <1>4
    <2>4. f.s \in Streams
      BY <1>6
    <2> QED
      BY <2>1, <2>2, <2>3, <2>4, ObservedNat DEF Window, CountTypes, OwedType
  <1>22. ParkQuiet'
    BY DEF ParkQuiet, Past, FeedOne
  <1>23. DrainIsHonest'
    <2>1. ended' # "drained"
      BY DEF FeedOne, Phases
    <2> QED
      BY <2>1 DEF DrainIsHonest
  <1>24. PassTypes' /\ Waiting' /\ Told' /\ Dry' /\ Capped'
    BY DEF PassTypes, DriverPcs, Waiting, Told, Dry, Capped, FeedOne
  <1> QED
    BY <1>11, <1>12, <1>13, <1>14, <1>15, <1>16, <1>17, <1>18, <1>19, <1>20, <1>21, <1>22,
       <1>23, <1>24

\* Nothing is left to observe.
LEMMA FeedDoneKeeps ==
    ASSUME ServerInv, FeedDone
    PROVE  ServerInv'
  <1>1. PassTypes'
    BY DEF PassTypes, DriverPcs, FeedDone
  <1>2. Phases'
    BY DEF Phases, FeedDone
  <1>3. Told'
    BY DEF Told, FeedDone
  <1>4. Pending'
    BY DEF Pending, FeedDone
  <1>5. ParkQuiet'
    BY DEF ParkQuiet, Past, WantWrite, Done, FeedDone
  <1>6. TaskTypes' /\ SessionTypes' /\ QueueTypes' /\ CountTypes' /\ OwedType' /\
         Waiting' /\ Dry' /\ Fresh' /\ Answered' /\ Goaway' /\ Window' /\ Capped' /\
         DrainIsHonest'
    BY DEF TaskTypes, SessionTypes, QueueTypes, CountTypes, OwedType, Waiting, Dry,
       Fresh, Answered, Goaway, Window, Capped, DrainIsHonest, FeedDone
  <1> QED
    BY <1>1, <1>2, <1>3, <1>4, <1>5, <1>6

\* A head is tracked: refused, rejected, or handed to a handler within the cap.
LEMMA DispatchHeadKeeps ==
    ASSUME NEW e, ServerInv, Takes(e), DispatchHead(e)
    PROVE  ServerInv'
  <1>1. e \in Events /\ e.s \in Streams /\ events' \in Seq(Events)
    BY TakeQueues
  <1>2. Kept
    BY <1>1 DEF DispatchHead, Resets, SessionTypes, Kept
  <1>3. Fresh' /\ Answered' /\ Goaway'
    BY <1>2, KeptLayers DEF Takes
  <1>4. TaskTypes'
    BY <1>1 DEF TaskTypes, DispatchHead, Takes, Resets
  <1>5. SessionTypes'
    <2>1. Resets(e.s) \/ UNCHANGED <<str, resp>>
      BY DEF DispatchHead
    <2> QED
      BY <1>1, <2>1 DEF SessionTypes, Resets, Takes
  <1>6. QueueTypes'
    BY <1>1 DEF QueueTypes, Takes
  <1>7. Phases'
    BY DEF Phases, DispatchHead, Takes, Resets
  <1>8. Waiting'
    BY DEF Waiting, DispatchHead, Takes, Resets
  <1>9. Told'
    <2>1. e.s \notin running
      BY <1>1, TakeQueues DEF DispatchHead, IsHead, Pending
    <2> QED
      BY <2>1 DEF Told, DispatchHead, Takes, Waiting
  <1>10. Fresh'
    BY <1>3
  <1>11. Pending'
    <2>1. \A t \in Streams :
            /\ str'[t] = "idle" <=> str[t] = "idle"
            /\ str'[t] = "closed" <=> str[t] = "closed"
            /\ str'[t] \in {"open", "rst"} => str[t] \in {"open", "rst"}
      BY <1>2 DEF Kept
    <2>2. /\ IsHead(e) /\ registry' = registry \union {e.s} /\ e.k # "close"
          /\ running' \subseteq running \union {e.s}
      BY DEF DispatchHead, Takes, IsHead
    <2>3. drv' = drv
      BY DEF Takes
    <2> QED
      BY <1>1, <2>1, <2>2, <2>3, TakeQueues, ZenonT(60) DEF Pending
  <1>12. Answered'
    BY <1>3
  <1>13. Goaway'
    BY <1>3
  <1>14. Window'
    <2>1. UNCHANGED <<owed, chunks, credits>> /\ e.k # "data"
      BY DEF DispatchHead, Takes
    <2>2. \A t \in Streams : Cardinality(DataAt(events, t)) = Cardinality(DataAt(events', t))
      BY <2>1, TakeCounts, Zenon
    <2> QED
      BY <2>1, <2>2, Zenon DEF Window
  <1>15. ParkQuiet'
    BY DEF ParkQuiet, Past, WantWrite, Done, DispatchHead, Takes, Resets
  <1>16. Capped'
    <2>1. CASE running' = running
      BY <2>1 DEF Capped, Takes
    <2>2. CASE running' = running \union {e.s} /\ ~AtCap
      <3>1. IsFiniteSet(running)
        BY StreamNumbers, FS_Subset DEF TaskTypes
      <3>2. Cardinality(running) \in Nat
        BY <3>1, FS_CardinalityType
      <3>3. \/ Cardinality(running') = Cardinality(running)
            \/ Cardinality(running') = Cardinality(running) + 1
        BY <2>2, <3>1, FS_AddElement
      <3>4. scene.cap \in Nat /\ scene' = scene /\ ~(Cardinality(running) >= scene.cap)
        BY <2>2, CapNat DEF AtCap, Takes
      <3> QED
        BY <3>2, <3>4, <3>3 DEF Capped
    <2> QED
      BY <2>1, <2>2 DEF DispatchHead
  <1>17. DrainIsHonest'
    <2>1. ended' # "drained"
      BY DEF DispatchHead, Phases, Takes
    <2> QED
      BY <2>1 DEF DrainIsHonest
  <1>18. PassTypes' /\ CountTypes'
    BY DEF PassTypes, DriverPcs, CountTypes, Takes, DispatchHead
  <1>19. OwedType' /\ Dry'
    BY DEF OwedType, Dry, Takes, DispatchHead
  <1> QED
    BY <1>4, <1>5, <1>6, <1>7, <1>8, <1>9, <1>10, <1>11, <1>12, <1>13, <1>14, <1>15,
       <1>16, <1>17, <1>18, <1>19

\* A chunk is queued for a reader or consumed.
LEMMA DispatchDataKeeps ==
    ASSUME NEW e, ServerInv, Takes(e), DispatchData(e)
    PROVE  ServerInv'
  <1>1. e \in Events /\ e.s \in Streams /\ events' \in Seq(Events)
    BY TakeQueues
  <1>2. TaskTypes'
    BY <1>1 DEF TaskTypes, DispatchData, Takes, Has, Wakes
  <1>3. PassTypes'
    BY DEF PassTypes, DriverPcs, DispatchData, Takes, Has, Wakes
  <1>4. QueueTypes'
    BY <1>1 DEF QueueTypes, Takes
  <1>5. CountTypes'
    <2>1. /\ chunks' = [chunks EXCEPT ![e.s] = @ + 1] \/ chunks' = chunks
          /\ UNCHANGED <<credits, sent, seen, named>>
      BY DEF DispatchData, Takes
    <2>2. e.s \in Streams
      BY <1>1
    <2>3. chunks' \in [Streams -> Nat]
      BY <2>1, <2>2 DEF CountTypes
    <2> QED
      BY <2>1, <2>3 DEF CountTypes
  <1>6. OwedType'
    BY <1>1 DEF OwedType, DispatchData, Takes, Has, Wakes
  <1>7. Phases'
    BY DEF Phases, DispatchData, Takes, Has, Wakes
  <1>8. Waiting'
    BY DEF Waiting, DispatchData, Takes, Has, Wakes
  <1>9. Told'
    BY DEF Told, DispatchData, Takes, Has, Wakes
  <1>10. Dry'
    <2>1. \/ chunks' = [chunks EXCEPT ![e.s] = @ + 1] /\ atBody' = atBody \ {e.s}
          \/ chunks' = chunks /\ atBody' = atBody
      BY DEF DispatchData
    <2>2. \A t \in atBody' : t \in atBody /\ chunks'[t] = chunks[t]
      BY <2>1 DEF TaskTypes, CountTypes
    <2> QED
      BY <2>2 DEF Dry
  <1>11. Pending'
    <2>1. \A t \in Streams :
            /\ str'[t] = "idle" <=> str[t] = "idle"
            /\ str'[t] = "closed" <=> str[t] = "closed"
            /\ str'[t] \in {"open", "rst"} => str[t] \in {"open", "rst"}
      BY DEF DispatchData, SessionTypes
    <2>2. ~IsHead(e) /\ e.k # "close" /\ UNCHANGED <<registry, running>>
      BY DEF DispatchData, Takes, IsHead
    <2>3. drv' = drv
      BY DEF Takes
    <2> QED
      BY <1>1, <2>1, <2>2, <2>3, TakeQueues, ZenonT(60) DEF Pending
  <1>12. Window'
    <2>1. /\ Cardinality(DataAt(events, e.s)) = Cardinality(DataAt(events', e.s)) + 1
          /\ \A t \in Streams : t # e.s =>
                Cardinality(DataAt(events, t)) = Cardinality(DataAt(events', t))
          /\ \A t \in Streams : Cardinality(DataAt(events', t)) \in Nat
      BY <1>1, TakeCounts, Zenon DEF DispatchData
    <2>2. /\ credits' = credits
          /\ \/ chunks' = [chunks EXCEPT ![e.s] = @ + 1] /\ owed' = owed
             \/ owed' = [owed EXCEPT ![e.s] = @ - 1] /\ chunks' = chunks
      BY DEF DispatchData, Takes
    <2>3. e.s \in Streams
      BY <1>1
    <2> QED
      BY <2>1, <2>2, <2>3 DEF Window, CountTypes, OwedType
  <1>13. ParkQuiet'
    BY DEF ParkQuiet, Past, WantWrite, Done, DispatchData, Takes, Has, Wakes
  <1>14. SessionTypes' /\ Fresh' /\ Answered' /\ Goaway' /\ Capped' /\
         DrainIsHonest'
    BY DEF SessionTypes, Fresh, Answered, Goaway, Capped, DrainIsHonest, Takes,
       DispatchData
  <1> QED
    BY <1>2, <1>3, <1>4, <1>5, <1>6, <1>7, <1>8, <1>9, <1>10, <1>11, <1>12, <1>13,
       <1>14

\* A request that has ended is told to who reads it.
LEMMA DispatchEndKeeps ==
    ASSUME NEW e, ServerInv, Takes(e), DispatchEnd(e)
    PROVE  ServerInv'
  <1>1. e \in Events /\ e.s \in Streams /\ events' \in Seq(Events)
    BY TakeQueues
  <1>2. TaskTypes'
    BY <1>1 DEF TaskTypes, DispatchEnd, Takes, Wakes
  <1>3. PassTypes'
    BY DEF PassTypes, DriverPcs, DispatchEnd, Takes, Wakes
  <1>4. QueueTypes'
    BY <1>1 DEF QueueTypes, Takes
  <1>5. Phases'
    BY DEF Phases, DispatchEnd, Takes, Wakes
  <1>6. Waiting'
    BY DEF Waiting, DispatchEnd, Takes, Wakes
  <1>7. Told'
    BY DEF Told, DispatchEnd, Takes, Wakes
  <1>8. Dry'
    BY DEF Dry, DispatchEnd, Takes, Wakes
  <1>9. Pending'
    <2>1. \A t \in Streams :
            /\ str'[t] = "idle" <=> str[t] = "idle"
            /\ str'[t] = "closed" <=> str[t] = "closed"
            /\ str'[t] \in {"open", "rst"} => str[t] \in {"open", "rst"}
      BY DEF DispatchEnd, SessionTypes
    <2>2. ~IsHead(e) /\ e.k # "close" /\ UNCHANGED <<registry, running>>
      BY DEF DispatchEnd, Takes, IsHead
    <2>3. drv' = drv
      BY DEF Takes
    <2> QED
      BY <1>1, <2>1, <2>2, <2>3, TakeQueues, ZenonT(60) DEF Pending
  <1>10. Window'
    <2>1. UNCHANGED <<owed, chunks, credits>> /\ e.k # "data"
      BY DEF DispatchEnd, Takes
    <2>2. \A t \in Streams : Cardinality(DataAt(events, t)) = Cardinality(DataAt(events', t))
      BY <2>1, TakeCounts, Zenon
    <2> QED
      BY <2>1, <2>2, Zenon DEF Window
  <1>11. ParkQuiet'
    BY DEF ParkQuiet, Past, WantWrite, Done, DispatchEnd, Takes, Wakes
  <1>12. SessionTypes' /\ CountTypes' /\ OwedType' /\ Fresh' /\ Answered' /\ Goaway'
         /\ Capped' /\ DrainIsHonest'
    BY DEF SessionTypes, CountTypes, OwedType, Fresh, Answered, Goaway, Capped,
       DrainIsHonest, Takes, DispatchEnd
  <1> QED
    BY <1>2, <1>3, <1>4, <1>5, <1>6, <1>7, <1>8, <1>9, <1>10, <1>11, <1>12

\* Trailers nobody can read fail the request and reset the stream.
LEMMA DispatchBadTrailersKeeps ==
    ASSUME NEW e, ServerInv, Takes(e), DispatchBadTrailers(e)
    PROVE  ServerInv'
  <1>1. e \in Events /\ e.s \in Streams /\ events' \in Seq(Events)
    BY TakeQueues
  <1>2. Kept
    BY <1>1 DEF DispatchBadTrailers, Resets, SessionTypes, Kept
  <1>3. Fresh' /\ Answered' /\ Goaway'
    BY <1>2, KeptLayers DEF Takes
  <1>4. TaskTypes'
    BY <1>1 DEF TaskTypes, DispatchBadTrailers, Takes, Fails, Resets, Wakes
  <1>5. PassTypes'
    BY DEF PassTypes, DriverPcs, DispatchBadTrailers, Takes, Fails, Resets, Wakes
  <1>6. SessionTypes'
    BY <1>1 DEF SessionTypes, DispatchBadTrailers, Takes, Fails, Resets, Wakes
  <1>7. QueueTypes'
    BY <1>1 DEF QueueTypes, Takes
  <1>8. Phases'
    BY DEF Phases, DispatchBadTrailers, Takes, Fails, Resets, Wakes
  <1>9. Waiting'
    BY DEF Waiting, Told, DispatchBadTrailers, Takes, Fails, Resets, Wakes
  <1>10. Told'
    BY DEF Told, DispatchBadTrailers, Takes, Fails, Resets, Wakes
  <1>11. Dry'
    BY DEF Dry, DispatchBadTrailers, Takes, Fails, Resets, Wakes
  <1>12. Fresh'
    BY <1>3
  <1>13. Pending'
    <2>1. \A t \in Streams :
            /\ str'[t] = "idle" <=> str[t] = "idle"
            /\ str'[t] = "closed" <=> str[t] = "closed"
            /\ str'[t] \in {"open", "rst"} => str[t] \in {"open", "rst"}
      BY <1>2 DEF Kept
    <2>2. ~IsHead(e) /\ e.k # "close" /\ UNCHANGED <<registry, running>>
      BY DEF DispatchBadTrailers, Takes, IsHead
    <2>3. drv' = drv
      BY DEF Takes
    <2> QED
      BY <1>1, <2>1, <2>2, <2>3, TakeQueues, ZenonT(60) DEF Pending
  <1>14. Answered'
    BY <1>3
  <1>15. Goaway'
    BY <1>3
  <1>16. Window'
    <2>1. UNCHANGED <<owed, chunks, credits>> /\ e.k # "data"
      BY DEF DispatchBadTrailers, Takes
    <2>2. \A t \in Streams : Cardinality(DataAt(events, t)) = Cardinality(DataAt(events', t))
      BY <2>1, TakeCounts, Zenon
    <2> QED
      BY <2>1, <2>2, Zenon DEF Window
  <1>17. ParkQuiet'
    BY DEF ParkQuiet, Past, WantWrite, Done, DispatchBadTrailers, Takes, Fails,
       Resets, Wakes
  <1>18. DrainIsHonest'
    <2>1. ended' # "drained"
      BY DEF DispatchBadTrailers, Phases, Takes
    <2> QED
      BY <2>1 DEF DrainIsHonest
  <1>19. CountTypes' /\ OwedType' /\ Capped'
    BY DEF CountTypes, OwedType, Capped, Takes, DispatchBadTrailers
  <1> QED
    BY <1>4, <1>5, <1>6, <1>7, <1>8, <1>9, <1>10, <1>11, <1>12, <1>13, <1>14, <1>15,
       <1>16, <1>17, <1>18, <1>19

\* A closed stream is no longer tracked, and its handler has been told.
LEMMA DispatchCloseKeeps ==
    ASSUME NEW e, ServerInv, Takes(e), DispatchClose(e)
    PROVE  ServerInv'
  <1>1. e \in Events /\ e.s \in Streams /\ events' \in Seq(Events)
    BY TakeQueues
  <1>2. TaskTypes'
    BY <1>1 DEF TaskTypes, DispatchClose, Takes, Fails, Wakes, Trips
  <1>3. PassTypes'
    BY DEF PassTypes, DriverPcs, DispatchClose, Takes, Fails, Wakes, Trips
  <1>4. QueueTypes'
    BY <1>1 DEF QueueTypes, Takes
  <1>5. Phases'
    BY DEF Phases, DispatchClose, Takes, Fails, Wakes, Trips
  <1>6. Waiting'
    BY DEF Waiting, DispatchClose, Takes, Fails, Wakes, Trips
  <1>7. Told'
    BY DEF Told, DispatchClose, Takes, Fails, Wakes, Trips
  <1>8. Dry'
    BY DEF Dry, DispatchClose, Takes, Fails, Wakes, Trips
  <1>9. Pending'
    <2>1. \A t \in Streams :
            /\ str'[t] = "idle" <=> str[t] = "idle"
            /\ str'[t] = "closed" <=> str[t] = "closed"
            /\ str'[t] \in {"open", "rst"} => str[t] \in {"open", "rst"}
      BY DEF DispatchClose, SessionTypes
    <2>2. ~IsHead(e) /\ e.k = "close" /\ registry' = registry \ {e.s} /\ running' = running
      BY DEF DispatchClose, Takes, IsHead
    <2>3. drv' = drv
      BY DEF Takes
    <2> QED
      BY <1>1, <2>1, <2>2, <2>3, TakeQueues, ZenonT(60) DEF Pending
  <1>10. Window'
    <2>1. UNCHANGED <<owed, chunks, credits>> /\ e.k # "data"
      BY DEF DispatchClose, Takes
    <2>2. \A t \in Streams : Cardinality(DataAt(events, t)) = Cardinality(DataAt(events', t))
      BY <2>1, TakeCounts, Zenon
    <2> QED
      BY <2>1, <2>2, Zenon DEF Window
  <1>11. ParkQuiet'
    BY DEF ParkQuiet, Past, WantWrite, Done, DispatchClose, Takes, Fails, Wakes, Trips
  <1>12. SessionTypes' /\ CountTypes' /\ OwedType' /\ Fresh' /\ Answered' /\ Goaway'
         /\ Capped' /\ DrainIsHonest'
    BY DEF SessionTypes, CountTypes, OwedType, Fresh, Answered, Goaway, Capped,
       DrainIsHonest, Takes, DispatchClose
  <1> QED
    BY <1>2, <1>3, <1>4, <1>5, <1>6, <1>7, <1>8, <1>9, <1>10, <1>11, <1>12

\* Nothing is left to dispatch.
LEMMA DispatchDoneKeeps ==
    ASSUME ServerInv, DispatchDone
    PROVE  ServerInv'
  <1>1. PassTypes'
    BY DEF PassTypes, DriverPcs, DispatchDone
  <1>2. Phases'
    BY DEF Phases, DispatchDone
  <1>3. Told'
    BY DEF Told, DispatchDone
  <1>4. Pending'
    BY DEF Pending, DispatchDone
  <1>5. ParkQuiet'
    BY DEF ParkQuiet, Past, WantWrite, Done, DispatchDone
  <1>6. TaskTypes' /\ SessionTypes' /\ QueueTypes' /\ CountTypes' /\ OwedType' /\
         Waiting' /\ Dry' /\ Fresh' /\ Answered' /\ Goaway' /\ Window' /\ Capped' /\
         DrainIsHonest'
    BY DEF TaskTypes, SessionTypes, QueueTypes, CountTypes, OwedType, Waiting, Dry,
       Fresh, Answered, Goaway, Window, Capped, DrainIsHonest, DispatchDone
  <1> QED
    BY <1>1, <1>2, <1>3, <1>4, <1>5, <1>6

\* What goes out closes what it completes, resets or leaves behind the GOAWAY; each of
\* those closures is queued.
LEMMA FlushKeeps ==
    ASSUME ServerInv, Flush
    PROVE  ServerInv'
  <1> DEFINE goes == named >= 0 /\ ~said
             ends == {s \in Streams : str[s] = "open" /\ resp[s] \in {"whole", "resumed"}}
             gone == {s \in Streams : \/ str[s] = "rst"
                                      \/ s \in ends /\ s \in rended
                                      \/ goes /\ str[s] = "open" /\ s > named}
  <1>1. /\ said' = (said \/ goes)
        /\ resp' = [s \in Streams |-> IF s \in ends THEN "sent"
                                       ELSE IF str[s] = "open" /\ resp[s] = "held" THEN "deferred"
                                       ELSE resp[s]]
        /\ str' = [s \in Streams |-> IF s \in gone THEN "closed" ELSE str[s]]
        /\ \E order \in Orders(gone) :
              events' = events \o [i \in DOMAIN order |-> [k |-> "close", s |-> order[i]]]
    BY Zenon DEF Flush
  <1>2. /\ \A s \in gone : str[s] \in {"open", "rst"}
        /\ \A s \in Streams : str[s] = "rst" => s \in gone
        /\ \A s \in gone : str[s] = "rst" \/ s \in ends \/ (goes /\ s > named)
        /\ \A s \in ends : str[s] = "open"
        /\ gone \in SUBSET Streams
        /\ goes => named >= 0
    BY Zenon
  <1> HIDE DEF goes, ends, gone
  <1>3. events = <<>>
    BY DEF Flush, Phases
  <1>4. /\ events' \in Seq(Events)
        /\ \A s \in Streams : /\ ~HasHead(events', s) /\ DataAt(events', s) = {}
                              /\ Says(events', CloseOf(s)) <=> s \in gone
    <2>1. PICK order \in Orders(gone) :
            events' = events \o [i \in DOMAIN order |-> [k |-> "close", s |-> order[i]]]
      BY <1>1
    <2> DEFINE c == [i \in DOMAIN order |-> [k |-> "close", s |-> order[i]]]
    <2>2. /\ c \in Seq(Events)
          /\ \A s \in Streams : /\ ~HasHead(c, s) /\ DataAt(c, s) = {}
                                /\ Says(c, CloseOf(s)) <=> s \in gone
      BY <1>2, FlushQueue
    <2> HIDE DEF c
    <2>3. events' = <<>> \o c
      BY <1>3, <2>1 DEF c
    <2>4. <<>> \o c = c
      BY <2>2, ConcatEmptySeq
    <2> QED
      BY <2>2, <2>3, <2>4
  <1>5. \A s \in Streams : /\ s \in gone => str'[s] = "closed"
                           /\ s \notin gone => str'[s] = str[s]
                           /\ s \in ends => resp'[s] = "sent"
                           /\ str[s] # "open" => resp'[s] = resp[s]
    BY <1>1, <1>2, Zenon
  <1>6. /\ \A s \in Streams : str'[s] = "idle" <=> str[s] = "idle"
        /\ \A s \in Streams : str'[s] # "rst"
    BY <1>2, <1>5
  <1>7. PassTypes'
    <2>1. said' \in BOOLEAN
      BY <1>1, Zenon DEF PassTypes
    <2> QED
      BY <2>1 DEF PassTypes, DriverPcs, Flush
  <1>8. SessionTypes'
    <2>1. UNCHANGED <<peer, prod>>
      BY DEF Flush
    <2> QED
      BY <1>1, <2>1 DEF SessionTypes
  <1>9. QueueTypes'
    <2>1. UNCHANGED <<wire, scene>>
      BY DEF Flush
    <2> QED
      BY <1>4, <2>1 DEF QueueTypes
  <1>10. Phases'
    BY DEF Phases, Flush
  <1>11. Told'
    BY DEF Told, Flush
  <1>12. Fresh'
    <2>1. UNCHANGED <<peer, wire>>
      BY DEF Flush
    <2> QED
      BY <1>6, <2>1, Zenon DEF Fresh
  <1>13. Pending'
    <2>1. UNCHANGED <<registry, running>> /\ drv # "over"
      BY DEF Flush
    <2>2. \A s \in Streams : ~HasHead(events, s) /\ ~Says(events, CloseOf(s))
      BY <1>3, ShortQueues
    <2>3. \A s \in Streams : ~HasHead(events', s) => OneHead(events', s) /\ ClosesLater(events', s)
      BY DEF HasHead, OneHead, ClosesLater
    <2>4. \A s \in Streams : str[s] \in {"open", "rst"} => s \in registry
      BY <2>1, <2>2, Zenon DEF Pending
    <2>5. \A s \in Streams : str[s] = "closed" => s \notin registry
      BY <2>2, Zenon DEF Pending
    <2>6. \A s \in Streams : str'[s] \in {"open", "rst"} => s \in registry'
      BY <1>5, <2>1, <2>4
    <2>7. \A s \in Streams : str'[s] = "closed" /\ s \in registry' => Says(events', CloseOf(s))
      BY <1>4, <1>5, <2>1, <2>5, Zenon
    <2>8. \A s \in Streams : str'[s] = "idle" => s \notin registry' /\ s \notin running'
      BY <1>6, <2>1, Zenon DEF Pending
    <2>9. \A s \in Streams : str'[s] = "idle" => ~Says(events', CloseOf(s))
      BY <1>4, <1>5, Zenon
    <2>10. \A s \in Streams : Says(events', CloseOf(s)) => str'[s] = "closed"
      BY <1>4, <1>5, Zenon
    <2> QED
      BY <1>4, <2>3, <2>6, <2>7, <2>8, <2>9, <2>10, Zenon DEF Pending
  <1>14. Answered'
    <2>1. UNCHANGED <<peer, named>>
      BY DEF Flush
    <2>2. said => said'
      BY <1>1, Zenon
    <2>3. goes => said'
      BY <1>1, Zenon
    <2>4. ASSUME NEW s \in Streams, str'[s] = "closed"
          PROVE  resp'[s] \in {"sent", "reset"} \/ peer[s] = "reset" \/ (said' /\ s > named)
      <3>1. CASE s \notin gone
        BY <1>5, <2>2, <2>4, <3>1, Zenon DEF Answered
      <3>2. CASE s \in gone
        BY <1>2, <1>5, <2>3, <3>2, Zenon DEF Answered
      <3> QED
        BY <3>1, <3>2
    <2> QED
      BY <1>6, <2>1, <2>4, Zenon DEF Answered
  <1>15. Goaway'
    <2>1. UNCHANGED <<seen, named, shutdown, drainer, draining>>
      BY DEF Flush
    <2>2. named >= 0 => named # -1
      BY DEF CountTypes
    <2>3. said' => named # -1
      BY <1>1, <1>2, <2>2, Zenon DEF Goaway
    <2> QED
      BY <1>6, <2>1, <2>3, Zenon DEF Goaway
  <1>16. Window'
    <2>1. UNCHANGED <<owed, chunks, credits>>
      BY DEF Flush
    <2>2. \A s \in Streams : DataAt(events, s) = {} /\ DataAt(events', s) = {}
      BY <1>3, <1>4, ShortQueues
    <2> QED
      BY <2>1, <2>2, Zenon DEF Window
  <1>17. ParkQuiet'
    BY DEF ParkQuiet, Past, Flush
  <1>18. DrainIsHonest'
    <2>1. ended' # "drained"
      BY DEF Flush, Phases
    <2> QED
      BY <2>1 DEF DrainIsHonest
  <1>19. TaskTypes' /\ CountTypes' /\ OwedType' /\ Waiting' /\ Dry' /\ Capped'
    BY DEF TaskTypes, CountTypes, OwedType, Waiting, Dry, Capped, Flush
  <1> QED
    BY <1>7, <1>8, <1>9, <1>10, <1>11, <1>12, <1>13, <1>14, <1>15, <1>16, <1>17, <1>18,
       <1>19

\* The guard fails, trips and drops everything; after a drain nothing was left of it.
LEMMA EndsKeeps ==
    ASSUME NEW why, ServerInv, Ending(why), Ends(why)
    PROVE  ServerInv'
  <1>1. events = <<>> /\ drv # "over"
    BY DEF Ending, Phases
  <1>2. TaskTypes'
    BY DEF TaskTypes, Ends, Fails
  <1>3. PassTypes'
    BY DEF PassTypes, DriverPcs, Ending, Ends, Fails
  <1>4. CountTypes'
    BY DEF CountTypes, Ends, Fails
  <1>5. Phases'
    BY <1>1 DEF Phases, Ending, Ends, Fails
  <1>6. Waiting'
    BY DEF Waiting, Ends, Fails
  <1>7. Told'
    BY DEF Told, Ends, Fails
  <1>8. Dry'
    BY DEF Dry, Ends, Fails
  <1>9. Pending'
    BY DEF Pending, Ends, Fails
  <1>10. Window'
    <2>1. /\ chunks' = [s \in Streams |-> IF s \in running THEN 0 ELSE chunks[s]]
          /\ credits' = [s \in Streams |-> IF s \in running THEN credits[s] + chunks[s]
                                                           ELSE credits[s]]
          /\ owed' = owed /\ events' = events
      BY DEF Ends
    <2> QED
      BY <2>1, ObservedNat DEF Window, CountTypes
  <1>11. ParkQuiet'
    BY DEF ParkQuiet, Past, WantWrite, Done, Ends, Fails
  <1>12. Capped'
    <2>1. running' \subseteq running /\ scene' = scene
      BY DEF Ends
    <2> QED
      BY <2>1, FewerHandlers
  <1>13. DrainIsHonest'
    <2>1. ended' = why /\ UNCHANGED <<str, named, resp, peer, said, shutdown>>
      BY DEF Ends
    <2>2. CASE why # "drained"
      BY <2>1, <2>2, Zenon DEF DrainIsHonest
    <2>3. CASE why = "drained"
      <3>1. draining /\ registry = {} /\ ~WantWrite
        BY <2>3 DEF Ending, Done
      <3>2. \A s \in Streams : ~HasHead(events, s)
        BY <1>1, ShortQueues
      <3>3. \A s \in Streams : str[s] \in {"idle", "closed"}
        BY <1>1, <3>1, <3>2 DEF Pending, SessionTypes
      <3>4. /\ named # -1 => named >= 0
            /\ \A s \in 1..named : s \in Streams /\ s <= seen /\ ~(s > named)
        BY NamedStreams DEF Goaway
      <3>5. said \/ shutdown
        BY <3>1, <3>4, Zenon DEF WantWrite, Goaway
      <3>6. \A s \in 1..named : resp[s] \in {"sent", "reset"} \/ peer[s] = "reset"
        BY <3>3, <3>4, Zenon DEF Goaway, Answered
      <3> QED
        BY <2>1, <3>3, <3>5, <3>6, Zenon DEF DrainIsHonest
    <2> QED
      BY <2>2, <2>3
  <1>14. SessionTypes' /\ QueueTypes' /\ OwedType' /\ Fresh' /\ Answered' /\ Goaway'
    BY DEF SessionTypes, QueueTypes, OwedType, Fresh, Answered, Goaway, Ends
  <1> QED
    BY <1>2, <1>3, <1>4, <1>5, <1>6, <1>7, <1>8, <1>9, <1>10, <1>11, <1>12, <1>13,
       <1>14

\* The pass goes on to park.
LEMMA CheckParksKeeps ==
    ASSUME ServerInv, CheckParks
    PROVE  ServerInv'
  <1>1. PassTypes'
    BY DEF PassTypes, DriverPcs, CheckParks
  <1>2. Phases'
    BY DEF Phases, CheckParks
  <1>3. Told'
    BY DEF Told, CheckParks
  <1>4. Pending'
    BY DEF Pending, CheckParks
  <1>5. ParkQuiet'
    BY DEF ParkQuiet, Past, WantWrite, Done, CheckParks
  <1>6. TaskTypes' /\ SessionTypes' /\ QueueTypes' /\ CountTypes' /\ OwedType' /\
         Waiting' /\ Dry' /\ Fresh' /\ Answered' /\ Goaway' /\ Window' /\ Capped' /\
         DrainIsHonest'
    BY DEF TaskTypes, SessionTypes, QueueTypes, CountTypes, OwedType, Waiting, Dry,
       Fresh, Answered, Goaway, Window, Capped, DrainIsHonest, CheckParks
  <1> QED
    BY <1>1, <1>2, <1>3, <1>4, <1>5, <1>6

\* One conjunct of the park predicate more, or another pass.
LEMMA ParkKeeps ==
    ASSUME ServerInv, Park
    PROVE  ServerInv'
  <1>1. PassTypes'
    BY DEF PassTypes, DriverPcs, Park, ParkStep
  <1>2. Phases'
    BY DEF Phases, Park, ParkStep
  <1>3. Told'
    BY DEF Told, Park, ParkStep
  <1>4. Pending'
    BY DEF Pending, Park, ParkStep
  <1>5. ParkQuiet'
    <2>1. WantWrite' <=> WantWrite
      BY Zenon DEF WantWrite, Park
    <2>2. UNCHANGED <<notified, ready, waker, credits, resumable, prod, shutdown, drainer, wire,
                      registry, draining>> /\ drv = "park"
      BY DEF Park
    <2>3. 1 \notin {2, 3, 4} /\ 2 \notin {3, 4} /\ 3 # 4 /\ 1 # 4 /\ 2 # 4
      OBVIOUS
    <2> QED
      BY <2>1, <2>2, <2>3, ParkCases DEF ParkQuiet, Past, Done
  <1>6. TaskTypes' /\ SessionTypes' /\ QueueTypes' /\ CountTypes' /\ OwedType' /\
         Waiting' /\ Dry' /\ Fresh' /\ Answered' /\ Goaway' /\ Window' /\ Capped' /\
         DrainIsHonest'
    BY DEF TaskTypes, SessionTypes, QueueTypes, CountTypes, OwedType, Waiting, Dry,
       Fresh, Answered, Goaway, Window, Capped, DrainIsHonest, Park
  <1> QED
    BY <1>1, <1>2, <1>3, <1>4, <1>5, <1>6

\* A wake starts the park predicate over.
LEMMA PollKeeps ==
    ASSUME ServerInv, Poll
    PROVE  ServerInv'
  <1>1. PassTypes'
    BY DEF PassTypes, DriverPcs, Poll
  <1>2. Phases'
    BY DEF Phases, Poll
  <1>3. Told'
    BY DEF Told, Poll
  <1>4. Pending'
    BY DEF Pending, Poll
  <1>5. ParkQuiet'
    BY DEF ParkQuiet, Past, Poll, Phases
  <1>6. TaskTypes' /\ SessionTypes' /\ QueueTypes' /\ CountTypes' /\ OwedType' /\
         Waiting' /\ Dry' /\ Fresh' /\ Answered' /\ Goaway' /\ Window' /\ Capped' /\
         DrainIsHonest'
    BY DEF TaskTypes, SessionTypes, QueueTypes, CountTypes, OwedType, Waiting, Dry,
       Fresh, Answered, Goaway, Window, Capped, DrainIsHonest, Poll
  <1> QED
    BY <1>1, <1>2, <1>3, <1>4, <1>5, <1>6

\* What is outside takes the waker it was left.
LEMMA OutsideUpgradesKeeps ==
    ASSUME NEW s \in Streams, ServerInv, OutsideUpgrades(s)
    PROVE  ServerInv'
  <1>1. TaskTypes'
    BY DEF TaskTypes, OutsideUpgrades
  <1>2. Waiting'
    BY Zenon DEF Waiting, SessionTypes, TaskTypes, OutsideUpgrades
  <1>3. ParkQuiet'
    BY DEF ParkQuiet, Past, WantWrite, Done, OutsideUpgrades
  <1>4. PassTypes' /\ SessionTypes' /\ QueueTypes' /\ CountTypes' /\ OwedType' /\
         Phases' /\ Told' /\ Dry' /\ Fresh' /\ Pending' /\ Answered' /\ Goaway' /\
         Window' /\ Capped' /\ DrainIsHonest'
    BY DEF PassTypes, DriverPcs, SessionTypes, QueueTypes, CountTypes, OwedType,
       Phases, Told, Dry, Fresh, Pending, Answered, Goaway, Window, Capped,
       DrainIsHonest, OutsideUpgrades
  <1> QED
    BY <1>1, <1>2, <1>3, <1>4

\* A mark belongs to a thread that has yet to wake the driver.
LEMMA OutsideMarksKeeps ==
    ASSUME NEW s \in Streams, ServerInv, OutsideMarks(s)
    PROVE  ServerInv'
  <1>1. TaskTypes'
    BY DEF TaskTypes, OutsideMarks
  <1>2. Waiting'
    BY DEF Waiting, OutsideMarks
  <1>3. ParkQuiet'
    <2>1. WantWrite' <=> WantWrite
      BY Zenon DEF WantWrite, OutsideMarks
    <2> QED
      BY <2>1 DEF ParkQuiet, Past, Done, OutsideMarks, TaskTypes
  <1>4. PassTypes' /\ SessionTypes' /\ QueueTypes' /\ CountTypes' /\ OwedType' /\
         Phases' /\ Told' /\ Dry' /\ Fresh' /\ Pending' /\ Answered' /\ Goaway' /\
         Window' /\ Capped' /\ DrainIsHonest'
    BY DEF PassTypes, DriverPcs, SessionTypes, QueueTypes, CountTypes, OwedType,
       Phases, Told, Dry, Fresh, Pending, Answered, Goaway, Window, Capped,
       DrainIsHonest, OutsideMarks
  <1> QED
    BY <1>1, <1>2, <1>3, <1>4

\* It wakes the driver.
LEMMA OutsideWakesKeeps ==
    ASSUME NEW s \in Streams, ServerInv, OutsideWakes(s)
    PROVE  ServerInv'
  <1>1. TaskTypes'
    BY DEF TaskTypes, OutsideWakes
  <1>2. PassTypes'
    BY DEF PassTypes, DriverPcs, OutsideWakes
  <1>3. Waiting'
    BY DEF Waiting, OutsideWakes
  <1>4. ParkQuiet'
    BY DEF ParkQuiet, Past, WantWrite, Done, OutsideWakes
  <1>5. SessionTypes' /\ QueueTypes' /\ CountTypes' /\ OwedType' /\ Phases' /\ Told'
         /\ Dry' /\ Fresh' /\ Pending' /\ Answered' /\ Goaway' /\ Window' /\ Capped'
         /\ DrainIsHonest'
    BY DEF SessionTypes, QueueTypes, CountTypes, OwedType, Phases, Told, Dry, Fresh,
       Pending, Answered, Goaway, Window, Capped, DrainIsHonest, OutsideWakes
  <1> QED
    BY <1>1, <1>2, <1>3, <1>4, <1>5

\* A body that can go on belongs to a thread that has yet to wake the driver.
LEMMA ProduceKeeps ==
    ASSUME NEW s \in Streams, ServerInv, Produce(s)
    PROVE  ServerInv'
  <1>1. TaskTypes'
    BY DEF TaskTypes, Produce
  <1>2. SessionTypes'
    BY DEF SessionTypes, Produce
  <1>3. ParkQuiet'
    <2>1. WantWrite' <=> WantWrite
      BY Zenon DEF WantWrite, Produce
    <2>2. (\A t \in resumable : prod[t] = "wake") => (\A t \in resumable' : prod'[t] = "wake")
      BY DEF Produce, SessionTypes, TaskTypes
    <2> QED
      BY <2>1, <2>2, Zenon DEF ParkQuiet, Past, Done, Produce
  <1>4. PassTypes' /\ QueueTypes' /\ CountTypes' /\ OwedType' /\ Phases' /\ Waiting'
         /\ Told' /\ Dry' /\ Fresh' /\ Pending' /\ Answered' /\ Goaway' /\ Window'
         /\ Capped' /\ DrainIsHonest'
    BY DEF PassTypes, DriverPcs, QueueTypes, CountTypes, OwedType, Phases, Waiting,
       Told, Dry, Fresh, Pending, Answered, Goaway, Window, Capped, DrainIsHonest,
       Produce
  <1> QED
    BY <1>1, <1>2, <1>3, <1>4

\* It wakes the driver.
LEMMA ProduceWakeKeeps ==
    ASSUME NEW s \in Streams, ServerInv, ProduceWake(s)
    PROVE  ServerInv'
  <1>1. PassTypes'
    BY DEF PassTypes, DriverPcs, ProduceWake
  <1>2. SessionTypes'
    BY DEF SessionTypes, ProduceWake
  <1>3. ParkQuiet'
    BY DEF ParkQuiet, Past, WantWrite, Done, ProduceWake
  <1>4. TaskTypes' /\ QueueTypes' /\ CountTypes' /\ OwedType' /\ Phases' /\ Waiting'
         /\ Told' /\ Dry' /\ Fresh' /\ Pending' /\ Answered' /\ Goaway' /\ Window'
         /\ Capped' /\ DrainIsHonest'
    BY DEF TaskTypes, QueueTypes, CountTypes, OwedType, Phases, Waiting, Told, Dry,
       Fresh, Pending, Answered, Goaway, Window, Capped, DrainIsHonest, ProduceWake
  <1> QED
    BY <1>1, <1>2, <1>3, <1>4

\* A drain belongs to a caller that has yet to wake the driver.
LEMMA DrainKeeps ==
    ASSUME ServerInv, Drain
    PROVE  ServerInv'
  <1>1. PassTypes'
    BY DEF PassTypes, DriverPcs, Drain
  <1>2. Goaway'
    BY DEF Goaway, Drain
  <1>3. ParkQuiet'
    BY DEF ParkQuiet, Past, WantWrite, Done, Drain
  <1>4. DrainIsHonest'
    BY DEF DrainIsHonest, Drain
  <1>5. TaskTypes' /\ SessionTypes' /\ QueueTypes' /\ CountTypes' /\ OwedType' /\
         Phases' /\ Waiting' /\ Told' /\ Dry' /\ Fresh' /\ Pending' /\ Answered' /\
         Window' /\ Capped'
    BY DEF TaskTypes, SessionTypes, QueueTypes, CountTypes, OwedType, Phases, Waiting,
       Told, Dry, Fresh, Pending, Answered, Window, Capped, Drain
  <1> QED
    BY <1>1, <1>2, <1>3, <1>4, <1>5

\* It wakes the driver.
LEMMA DrainWakeKeeps ==
    ASSUME ServerInv, DrainWake
    PROVE  ServerInv'
  <1>1. PassTypes'
    BY DEF PassTypes, DriverPcs, DrainWake
  <1>2. Goaway'
    BY DEF Goaway, DrainWake
  <1>3. ParkQuiet'
    BY DEF ParkQuiet, Past, WantWrite, Done, DrainWake
  <1>4. TaskTypes' /\ SessionTypes' /\ QueueTypes' /\ CountTypes' /\ OwedType' /\
         Phases' /\ Waiting'
    BY DEF TaskTypes, SessionTypes, QueueTypes, CountTypes, OwedType, Phases, Waiting,
       DrainWake
  <1>5. Told' /\ Dry' /\ Fresh' /\ Pending' /\ Answered' /\ Window' /\ Capped' /\
         DrainIsHonest'
    BY DEF Told, Dry, Fresh, Pending, Answered, Window, Capped, DrainIsHonest,
       DrainWake
  <1> QED
    BY <1>1, <1>2, <1>3, <1>4, <1>5

\* The peer opens the next stream.
LEMMA PeerOpensKeeps ==
    ASSUME NEW s \in Streams, ServerInv, PeerOpens(s)
    PROVE  ServerInv'
  <1>1. UNCHANGED <<taskVars, inVars, registry, noteVars, sideVars, drv, passVars, events,
                    sessVars, sent, scene>>
    BY DEF PeerOpens, PeerSends
  <1>2. notified'
    BY DEF PeerOpens, PeerSends
  <1>3. Fresh' /\ QueueTypes'
    <2>1. \A t \in Streams : t < s => t \in 1..(s - 1)
      BY StreamNumbers
    <2>2. PICK k \in {"head", "bad request"} : PeerSends([k |-> k, s |-> s])
      BY DEF PeerOpens
    <2> DEFINE f == [k |-> k, s |-> s]
    <2>3. f \in Frames /\ IsHead(f) /\ f.s = s /\ \A t \in Streams : f # ResetOf(t)
      BY DEF Frames, IsHead, ResetOf
    <2>4. peer[s] = "idle" /\ peer' = [peer EXCEPT ![s] = "open"]
      BY DEF PeerOpens
    <2>5. peer'[s] # "idle" /\ \A t \in Streams : t # s => peer'[t] = peer[t]
      BY <2>4 DEF SessionTypes
    <2>6. \A t \in Streams : t < s => peer[t] # "idle"
      BY <2>1, Zenon DEF PeerOpens
    <2> HIDE DEF f
    <2> QED
      BY <2>2, <2>3, <2>4, <2>5, <2>6, SendFresh, Zenon DEF f
  <1>4. PassTypes'
    BY DEF PassTypes, DriverPcs, PeerOpens, PeerSends
  <1>5. SessionTypes'
    BY DEF SessionTypes, PeerOpens, PeerSends
  <1>6. QueueTypes'
    BY <1>3
  <1>7. Fresh'
    BY <1>3
  <1>8. Answered'
    <2>1. \A t \in Streams : peer[t] = "reset" => peer'[t] = "reset"
      BY DEF PeerOpens, SessionTypes
    <2> QED
      BY <1>1, <2>1, Zenon DEF Answered
  <1>9. ParkQuiet'
    BY <1>2 DEF ParkQuiet
  <1>10. DrainIsHonest'
    <2>1. ended' # "drained"
      BY <1>1 DEF PeerOpens, PeerSends, Phases
    <2> QED
      BY <2>1 DEF DrainIsHonest
  <1>11. TaskTypes' /\ CountTypes' /\ OwedType' /\ Phases' /\ Waiting'
    BY <1>1 DEF TaskTypes, CountTypes, OwedType, Phases, Waiting
  <1>12. Told' /\ Dry' /\ Pending' /\ Goaway' /\ Window' /\ Capped'
    BY <1>1 DEF Told, Dry, Pending, Goaway, Window, Capped
  <1> QED
    BY <1>4, <1>5, <1>6, <1>7, <1>8, <1>9, <1>10, <1>11, <1>12

\* The peer sends a chunk.
LEMMA PeerDataKeeps ==
    ASSUME NEW s \in Streams, ServerInv, PeerData(s)
    PROVE  ServerInv'
  <1>1. UNCHANGED <<taskVars, inVars, registry, noteVars, sideVars, drv, passVars, events,
                    sessVars, peer, scene>>
    BY DEF PeerData, PeerSends
  <1>2. notified'
    BY DEF PeerData, PeerSends
  <1>3. Fresh' /\ QueueTypes'
    <2> DEFINE f == [k |-> "data", s |-> s]
    <2>1. PeerSends(f) /\ peer' = peer
      BY DEF PeerData
    <2>2. f \in Frames /\ ~IsHead(f) /\ \A t \in Streams : f # ResetOf(t)
      BY DEF Frames, IsHead, ResetOf
    <2> HIDE DEF f
    <2> QED
      BY <2>1, <2>2, SendFresh, Zenon
  <1>4. PassTypes'
    BY DEF PassTypes, DriverPcs, PeerData, PeerSends
  <1>5. QueueTypes'
    BY <1>3
  <1>6. CountTypes'
    BY DEF CountTypes, PeerData, PeerSends
  <1>7. Fresh'
    BY <1>3
  <1>8. ParkQuiet'
    BY <1>2 DEF ParkQuiet
  <1>9. TaskTypes' /\ SessionTypes' /\ OwedType' /\ Phases' /\ Waiting' /\ Told' /\
         Dry' /\ Pending' /\ Answered' /\ Goaway' /\ Window' /\ Capped' /\
         DrainIsHonest'
    BY <1>1 DEF TaskTypes, SessionTypes, OwedType, Phases, Waiting, Told, Dry,
       Pending, Answered, Goaway, Window, Capped, DrainIsHonest
  <1> QED
    BY <1>4, <1>5, <1>6, <1>7, <1>8, <1>9

\* The peer ends its request, well or badly, or resets it.
LEMMA PeerEndsKeeps ==
    ASSUME NEW s \in Streams, ServerInv, PeerEnds(s)
    PROVE  ServerInv'
  <1>1. UNCHANGED <<taskVars, inVars, registry, noteVars, sideVars, drv, passVars, events,
                    sessVars, sent, scene>>
    BY DEF PeerEnds, PeerSends
  <1>2. notified'
    BY DEF PeerEnds, PeerSends
  <1>3. Fresh' /\ QueueTypes'
    <2>1. PICK k \in {"end", "bad trailers", "reset"} :
            /\ peer' = [peer EXCEPT ![s] = IF k = "reset" THEN "reset" ELSE "ended"]
            /\ PeerSends([k |-> IF k = "reset" THEN "rst" ELSE k, s |-> s])
      BY DEF PeerEnds
    <2> DEFINE f == [k |-> IF k = "reset" THEN "rst" ELSE k, s |-> s]
    <2>2. f \in Frames /\ ~IsHead(f)
      BY <2>1 DEF Frames, IsHead
    <2>3. \A t \in Streams : f = ResetOf(t) => t = s /\ k = "reset"
      BY <2>1 DEF ResetOf
    <2>4. /\ peer[s] = "open" /\ peer'[s] # "idle" /\ (k = "reset" => peer'[s] = "reset")
          /\ \A t \in Streams : t # s => peer'[t] = peer[t]
      BY <2>1 DEF SessionTypes, PeerEnds
    <2> HIDE DEF f
    <2>5. PeerSends(f)
      BY <2>1 DEF f
    <2> QED
      BY <2>2, <2>3, <2>4, <2>5, SendFresh, Zenon
  <1>4. PassTypes'
    BY DEF PassTypes, DriverPcs, PeerEnds, PeerSends
  <1>5. SessionTypes'
    BY DEF SessionTypes, PeerEnds, PeerSends
  <1>6. QueueTypes'
    BY <1>3
  <1>7. Fresh'
    BY <1>3
  <1>8. Answered'
    <2>1. \A t \in Streams : peer[t] = "reset" => peer'[t] = "reset"
      BY DEF PeerEnds, SessionTypes
    <2> QED
      BY <1>1, <2>1, Zenon DEF Answered
  <1>9. ParkQuiet'
    BY <1>2 DEF ParkQuiet
  <1>10. DrainIsHonest'
    <2>1. ended' # "drained"
      BY <1>1 DEF PeerEnds, PeerSends, Phases
    <2> QED
      BY <2>1 DEF DrainIsHonest
  <1>11. TaskTypes' /\ CountTypes' /\ OwedType' /\ Phases' /\ Waiting'
    BY <1>1 DEF TaskTypes, CountTypes, OwedType, Phases, Waiting
  <1>12. Told' /\ Dry' /\ Pending' /\ Goaway' /\ Window' /\ Capped'
    BY <1>1 DEF Told, Dry, Pending, Goaway, Window, Capped
  <1> QED
    BY <1>4, <1>5, <1>6, <1>7, <1>8, <1>9, <1>10, <1>11, <1>12

\* The peer resets what it had ended.
LEMMA PeerResetsKeeps ==
    ASSUME NEW s \in Streams, ServerInv, PeerResets(s)
    PROVE  ServerInv'
  <1>1. UNCHANGED <<taskVars, inVars, registry, noteVars, sideVars, drv, passVars, events,
                    sessVars, sent, scene>>
    BY DEF PeerResets, PeerSends
  <1>2. notified'
    BY DEF PeerResets, PeerSends
  <1>3. Fresh' /\ QueueTypes'
    <2> DEFINE f == [k |-> "rst", s |-> s]
    <2>1. PeerSends(f) /\ peer[s] = "ended" /\ peer' = [peer EXCEPT ![s] = "reset"]
      BY DEF PeerResets
    <2>2. f \in Frames /\ ~IsHead(f) /\ \A t \in Streams : f = ResetOf(t) => t = s
      BY DEF Frames, IsHead, ResetOf
    <2>3. peer'[s] = "reset" /\ \A t \in Streams : t # s => peer'[t] = peer[t]
      BY <2>1 DEF SessionTypes
    <2> HIDE DEF f
    <2> QED
      BY <2>1, <2>2, <2>3, SendFresh, Zenon
  <1>4. PassTypes'
    BY DEF PassTypes, DriverPcs, PeerResets, PeerSends
  <1>5. SessionTypes'
    BY DEF SessionTypes, PeerResets, PeerSends
  <1>6. QueueTypes'
    BY <1>3
  <1>7. Fresh'
    BY <1>3
  <1>8. Answered'
    <2>1. \A t \in Streams : peer[t] = "reset" => peer'[t] = "reset"
      BY DEF PeerResets, SessionTypes
    <2> QED
      BY <1>1, <2>1, Zenon DEF Answered
  <1>9. ParkQuiet'
    BY <1>2 DEF ParkQuiet
  <1>10. DrainIsHonest'
    <2>1. ended' # "drained"
      BY <1>1 DEF PeerResets, PeerSends, Phases
    <2> QED
      BY <2>1 DEF DrainIsHonest
  <1>11. TaskTypes' /\ CountTypes' /\ OwedType' /\ Phases' /\ Waiting' /\ Told' /\
         Dry' /\ Pending' /\ Goaway' /\ Window' /\ Capped'
    BY <1>1 DEF TaskTypes, CountTypes, OwedType, Phases, Waiting, Told, Dry, Pending,
       Goaway, Window, Capped
  <1> QED
    BY <1>4, <1>5, <1>6, <1>7, <1>8, <1>9, <1>10, <1>11

\* The peer stops.
LEMMA PeerStopsKeeps ==
    ASSUME ServerInv, PeerStops
    PROVE  ServerInv'
  <1>1. UNCHANGED <<taskVars, inVars, registry, noteVars, sideVars, drv, passVars, events,
                    sessVars, peer, sent, scene>>
    BY DEF PeerStops, PeerSends
  <1>2. notified'
    BY DEF PeerStops, PeerSends
  <1>3. Fresh' /\ QueueTypes'
    <2> DEFINE f == [k |-> "eof"]
    <2>1. PeerSends(f) /\ peer' = peer
      BY DEF PeerStops
    <2>2. f \in Frames /\ ~IsHead(f)
      BY DEF Frames, IsHead
    <2>3. \A t \in Streams : f # ResetOf(t)
      BY DEF ResetOf
    <2> HIDE DEF f
    <2> QED
      BY <2>1, <2>2, <2>3, SendFresh, Zenon
  <1>4. PassTypes'
    BY DEF PassTypes, DriverPcs, PeerStops, PeerSends
  <1>5. QueueTypes'
    BY <1>3
  <1>6. Fresh'
    BY <1>3
  <1>7. ParkQuiet'
    BY <1>2 DEF ParkQuiet
  <1>8. TaskTypes' /\ SessionTypes' /\ CountTypes' /\ OwedType' /\ Phases' /\
         Waiting' /\ Told' /\ Dry' /\ Pending' /\ Answered' /\ Goaway' /\ Window' /\
         Capped' /\ DrainIsHonest'
    BY <1>1 DEF TaskTypes, SessionTypes, CountTypes, OwedType, Phases, Waiting, Told,
       Dry, Pending, Answered, Goaway, Window, Capped, DrainIsHonest
  <1> QED
    BY <1>4, <1>5, <1>6, <1>7, <1>8

-----------------------------------------------------------------------------
(* The theorems                                                            *)

\* A fresh connection.
LEMMA InitServer ==
    ASSUME Init
    PROVE  ServerInv
  <1>1. \A s \in Streams : ~HasHead(<<>>, s) /\ (\A g : ~Says(<<>>, g)) /\ DataAt(<<>>, s) = {}
    BY ShortQueues
  <1>2. \A s \in Streams : OneHead(<<>>, s) /\ ClosesLater(<<>>, s)
    BY <1>1 DEF HasHead, OneHead, ClosesLater
  <1>3. TaskTypes /\ PassTypes /\ SessionTypes
    BY DEF Init, TaskTypes, PassTypes, SessionTypes, All, DriverPcs
  <1>4. QueueTypes
    BY DEF Init, QueueTypes
  <1>5. CountTypes /\ OwedType
    <2>1. /\ chunks = None /\ credits = None /\ sent = None /\ owed = None
          /\ seen = 0 /\ named = -1
      BY DEF Init
    <2> QED
      BY <2>1, ServerAssumption DEF CountTypes, OwedType, None
  <1>6. Phases /\ Waiting /\ Told /\ Dry
    BY StreamNumbers, Zenon DEF Init, Phases, Waiting, Told, Dry
  <1>7. Fresh
    <2>1. InOrder(wire)
      BY <1>1 DEF Init, InOrder, HasHead
    <2>2. \A s \in Streams : peer[s] = "idle" /\ str[s] = "idle"
      BY DEF Init, All
    <2>3. wire = <<>>
      BY DEF Init
    <2> QED
      BY <1>1, <2>1, <2>2, <2>3, Zenon DEF Fresh
  <1>8. Pending
    <2>1. \A s \in Streams : str[s] = "idle" /\ str[s] # "closed" /\ str[s] \notin {"open", "rst"}
      BY DEF Init, All
    <2>2. events = <<>> /\ registry = {} /\ running = {}
      BY DEF Init
    <2> QED
      BY <1>1, <1>2, <2>1, <2>2, Zenon DEF Pending
  <1>9. Answered
    <2>1. \A s \in Streams : str[s] # "closed" /\ str[s] # "rst"
      BY DEF Init, All
    <2> QED
      BY <2>1, Zenon DEF Answered
  <1>10. Goaway
    <2>1. seen = 0 /\ named = -1
      BY DEF Init
    <2>2. named <= seen /\ \A s \in Streams : ~(s <= seen)
      BY <2>1, StreamNumbers
    <2> QED
      BY <2>1, <2>2, Zenon DEF Goaway, Init
  <1>11. Window
    <2>1. owed = None /\ chunks = None /\ credits = None /\ events = <<>>
      BY DEF Init
    <2> QED
      BY <1>1, <2>1, FS_EmptySet DEF Window, None
  <1>12. ParkQuiet /\ DrainIsHonest
    BY DEF Init, ParkQuiet, Past, DrainIsHonest
  <1>13. Capped
    <2>1. running = {}
      BY DEF Init
    <2> QED
      BY <1>4, <2>1, CapNat, FS_EmptySet DEF Capped
  <1> QED
    BY <1>3, <1>4, <1>5, <1>6, <1>7, <1>8, <1>9, <1>10, <1>11, <1>12, <1>13

\* Whatever a handler does when polled.
LEMMA HandlerKeeps ==
    ASSUME NEW s \in Streams, ServerInv, HandlerStep(s)
    PROVE  ServerInv'
  BY HandlerReadsKeeps, HandlerAwaitsBodyKeeps, HandlerAwaitsLossKeeps, HandlerAwaitsOutsideKeeps,
     HandlerDropsBodyKeeps, HandlerPendsKeeps, HandlerReturnsKeeps, Zenon DEF HandlerStep

\* Whatever the first event is.
LEMMA DispatchOneKeeps ==
    ASSUME ServerInv, DispatchOne
    PROVE  ServerInv'
  <1> DEFINE e == Head(events)
  <1>1. Takes(e)
    BY Zenon DEF DispatchOne, Takes
  <1>2. DispatchHead(e) \/ DispatchData(e) \/ DispatchEnd(e) \/ DispatchBadTrailers(e)
          \/ DispatchClose(e)
    BY Zenon DEF DispatchOne
  <1> HIDE DEF e
  <1> QED
    BY <1>1, <1>2, DispatchHeadKeeps, DispatchDataKeeps, DispatchEndKeeps,
       DispatchBadTrailersKeeps, DispatchCloseKeeps, Zenon

\* The three ways out of a check, and the two that end a connection from elsewhere.
LEMMA CheckKeeps ==
    ASSUME ServerInv, Check
    PROVE  ServerInv'
  <1>1. \/ Ending("eof") /\ Ends("eof")
        \/ Ending("drained") /\ Ends("drained")
        \/ CheckParks
    BY Zenon DEF Check, Ending, CheckParks
  <1> QED
    BY <1>1, EndsKeeps, CheckParksKeeps, Zenon

\* A failed write, and a driver that is dropped.
LEMMA EndingKeeps ==
    ASSUME ServerInv, FlushFails \/ DropDriver
    PROVE  ServerInv'
  <1>1. (Ending("error") /\ Ends("error")) \/ (Ending("dropped") /\ Ends("dropped"))
    BY Zenon DEF FlushFails, DropDriver, Ending
  <1> QED
    BY <1>1, EndsKeeps, Zenon

\* A step of somebody else.
LEMMA StutterServer ==
    ASSUME ServerInv, UNCHANGED vars
    PROVE  ServerInv'
  <1> USE DEF vars
  <1>1. /\ TaskTypes' /\ PassTypes' /\ SessionTypes' /\ QueueTypes' /\ CountTypes' /\ OwedType'
    BY DEF TaskTypes, PassTypes, SessionTypes, QueueTypes, CountTypes, OwedType
  <1>2. Phases' /\ Waiting' /\ Told' /\ Dry' /\ Fresh' /\ Pending'
    BY DEF Phases, Waiting, Told, Dry, Fresh, Pending
  <1>3. Answered' /\ Goaway' /\ Window' /\ Capped' /\ DrainIsHonest'
    BY DEF Answered, Goaway, Window, Capped, DrainIsHonest
  <1>4. ParkQuiet'
    BY DEF ParkQuiet, Past, WantWrite, Done
  <1> QED
    BY <1>1, <1>2, <1>3, <1>4

\* Every step of the connection.
LEMMA NextServer ==
    ASSUME ServerInv, [Next]_vars
    PROVE  ServerInv'
  <1>1. CASE DriverStep
    BY <1>1, AdvanceKeeps, PollBeginsKeeps, HandlerKeeps, TakeCreditsKeeps, TakeShutdownKeeps,
       TakeReadyKeeps, FeedOneKeeps, FeedDoneKeeps, DispatchOneKeeps, DispatchDoneKeeps, FlushKeeps,
       CheckKeeps, ParkKeeps, PollKeeps, Zenon DEF DriverStep
  <1>2. CASE ThreadStep
    BY <1>2, OutsideMarksKeeps, OutsideWakesKeeps, ProduceWakeKeeps, DrainWakeKeeps, Zenon
       DEF ThreadStep
  <1>3. CASE Choice
    BY <1>3, OutsideUpgradesKeeps, ProduceKeeps, PeerOpensKeeps, PeerDataKeeps, PeerEndsKeeps,
       PeerResetsKeeps, DrainKeeps, PeerStopsKeeps, EndingKeeps, Zenon DEF Choice
  <1> QED
    BY <1>1, <1>2, <1>3, StutterServer DEF Next

\* The inductive invariant holds of every behaviour of the connection (run, ServerRole,
\* Tasks, DriverGuard).
THEOREM ServerInvariant == Spec => []ServerInv
  <1>1. Init => ServerInv
    BY InitServer
  <1>2. ServerInv /\ [Next]_vars => ServerInv'
    BY NextServer
  <1> QED
    BY <1>1, <1>2, PTL DEF Spec

\* The variables have their types, and no more window is given back than was taken.
THEOREM ServerTypeCorrect == Spec => []TypeOK
  <1>1. ServerInv => TypeOK
    <2> SUFFICES ASSUME ServerInv
                 PROVE  TypeOK
      OBVIOUS
    <2>1. owed \in [Streams -> Nat]
      BY ObservedNat DEF OwedType, Window, CountTypes
    <2> QED
      BY <2>1 DEF TypeOK
  <1> QED
    BY <1>1, ServerInvariant, PTL

\* Whatever the number of streams: a driver that sleeps unwoken has nothing to do, and no
\* handler waits for what has already happened (the park predicate, HandlerWaker,
\* ServerRole::closed, CancelState, Incoming).
THEOREM ServerNobodyWaits == Spec => []NobodyWaitsInVain
  <1>1. ServerInv => NobodyWaitsInVain
    <2> SUFFICES ASSUME ServerInv
                 PROVE  NobodyWaitsInVain
      OBVIOUS
    <2>1. LossIsTold
      BY Zenon DEF LossIsTold, Told, Dry, Alive, Has
    <2>2. ASSUME AtRest
          PROVE  \A s \in running : \/ s \in ready \union atBody \union atLoss \union atOutside
                                    \/ waker[s] # "idle"
      <3>1. woken = {} /\ polled = 0
        BY <2>2 DEF AtRest, Phases
      <3>2. \A s \in running : polled # s
        BY <3>1, StreamNumbers DEF TaskTypes
      <3> QED
        BY <3>1, <3>2, Zenon DEF Waiting
    <2>3. RestIsQuiet
      BY <2>2, Zenon DEF RestIsQuiet, AtRest, ParkQuiet, Past, Phases
    <2> QED
      BY <2>1, <2>3 DEF NobodyWaitsInVain
  <1> QED
    BY <1>1, ServerInvariant, PTL

\* Whatever the cap and the number of streams: handlers never exceed it, every entry's
\* closure is on its way, and every chunk of window is accounted for (ServerRole::head,
\* dispatch).
THEOREM ServerHandlersBounded == Spec => []HandlersAreBounded
  <1>1. ServerInv => HandlersAreBounded
    <2> SUFFICES ASSUME ServerInv
                 PROVE  HandlersAreBounded
      OBVIOUS
    <2>1. \A s \in Streams : Observed(s) = Cardinality(DataAt(events, s))
      BY DEF Observed, DataAt
    <2>2. \A s \in Streams : s \in registry /\ str[s] = "closed" =>
             \E i \in DOMAIN events : events[i] = [k |-> "close", s |-> s]
      BY Zenon DEF Pending, Says, CloseOf
    <2> QED
      BY <2>1, <2>2, Zenon DEF HandlersAreBounded, Capped, Window
  <1> QED
    BY <1>1, ServerInvariant, PTL

\* A connection that ends for a drain owes nobody an answer (Drain::drain, run).
THEOREM ServerDrainIsHonest == Spec => []DrainIsHonest
  <1>1. ServerInv => DrainIsHonest
    OBVIOUS
  <1> QED
    BY <1>1, ServerInvariant, PTL
=============================================================================
