-------------------------- MODULE PodMetricsLemmas --------------------------
(***************************************************************************)
(* What the operators of PodMetrics compute, for sequences of any length.  *)
(*                                                                         *)
(* SumOf and Filled are recursive functions over the length of a sequence. *)
(* The facts about them are shown by induction over sets of naturals: a    *)
(* set with 0 and with the successor of each of its members is Nat (Ind).  *)
(***************************************************************************)
EXTENDS PodMetrics, TLAPS, SequenceTheorems, FiniteSetTheorems, WellFoundedInduction

-----------------------------------------------------------------------------
(* Induction                                                               *)

Less == {ss \in Nat \X Nat : ss[1] < ss[2]}

\* A set of naturals that has a member has a least one.
LEMMA Least == \A T \in SUBSET Nat : T # {} => \E x \in T : \A y \in T : x <= y
<1> SUFFICES ASSUME NEW T \in SUBSET Nat, T # {}
             PROVE  \E x \in T : \A y \in T : x <= y
  OBVIOUS
<1>1. OpToRel(<, Nat) = Less
  BY DEF OpToRel, Less
<1>2. IsWellFoundedOn(Less, Nat)
  BY <1>1, NatLessThanWellFounded
<1>3. PICK x \in T : \A y \in T : ~ (<<y, x>> \in Less)
  BY <1>2, WFMin
<1>4. \A y \in T : ~(y < x)
  BY <1>3 DEF Less
<1> QED BY <1>4

\* Induction, over a set instead of a formula.
LEMMA Ind ==
  \A T \in SUBSET Nat : 0 \in T /\ (\A n \in T : n + 1 \in T) => T = Nat
<1> SUFFICES ASSUME NEW T \in SUBSET Nat, 0 \in T, \A n \in T : n + 1 \in T,
                    Nat \ T # {}
             PROVE  FALSE
  OBVIOUS
<1>1. PICK x \in Nat \ T : \A y \in Nat \ T : x <= y
  BY Least
<1>2. x - 1 \in T
  BY <1>1
<1> QED BY <1>1, <1>2

-----------------------------------------------------------------------------
(* Pieces of a sequence of points                                          *)

LEMMA PointType == \A x \in Points : x.time \in Nat
BY DEF Points

LEMMA SeqType ==
  ASSUME NEW xs \in Seq(Points)
  PROVE  /\ Len(xs) \in Nat /\ DOMAIN xs = 1..Len(xs)
         /\ \A i \in 1..Len(xs) : xs[i] \in Points /\ xs[i].time \in Nat
         /\ xs # <<>> => Len(xs) >= 1
         /\ xs = <<>> => Len(xs) = 0
         /\ ToSet(xs) = {xs[i] : i \in 1..Len(xs)}
<1>1. Len(xs) \in Nat /\ DOMAIN xs = 1..Len(xs)
  BY LenProperties
<1>2. \A i \in 1..Len(xs) : xs[i] \in Points /\ xs[i].time \in Nat
  BY ElementOfSeq, PointType
<1>3. xs # <<>> => Len(xs) >= 1
  BY EmptySeq
<1>4. xs = <<>> => Len(xs) = 0
  BY EmptySeq
<1> QED BY <1>1, <1>2, <1>3, <1>4 DEF ToSet

\* The piece of xs from position m to position n.
LEMMA Piece ==
  ASSUME NEW xs \in Seq(Points), NEW m \in 1..(Len(xs) + 1), NEW n \in (m - 1)..Len(xs)
  PROVE  /\ SubSeq(xs, m, n) \in Seq(Points)
         /\ Len(SubSeq(xs, m, n)) = n - m + 1
         /\ \A i \in 1..(n - m + 1) : SubSeq(xs, m, n)[i] = xs[m + i - 1]
<1>1. Len(xs) \in Nat /\ m \in Int /\ n \in Int
  BY SeqType
<1>2. \A i \in m..n : xs[i] \in Points
  BY SeqType, <1>1
<1> QED BY <1>1, <1>2, SubSeqProperties

\* A piece that is one longer is the piece and a point.
LEMMA PieceAppend ==
  ASSUME NEW xs \in Seq(Points), NEW m \in 1..Len(xs), NEW n \in (m - 1)..(Len(xs) - 1)
  PROVE  SubSeq(xs, m, n + 1) = Append(SubSeq(xs, m, n), xs[n + 1])
<1>0. Len(xs) \in Nat /\ xs[n + 1] \in Points
  BY SeqType
<1> DEFINE a == SubSeq(xs, m, n)
           b == SubSeq(xs, m, n + 1)
           c == Append(a, xs[n + 1])
<1>1. a \in Seq(Points) /\ Len(a) = n - m + 1
      /\ \A i \in 1..(n - m + 1) : a[i] = xs[m + i - 1]
  BY Piece, <1>0
<1>2. b \in Seq(Points) /\ Len(b) = n - m + 2
      /\ \A i \in 1..(n - m + 2) : b[i] = xs[m + i - 1]
  <2>1. n + 1 \in (m - 1)..Len(xs) /\ (n + 1) - m + 1 = n - m + 2
    BY <1>0
  <2> HIDE DEF a, b, c
  <2> QED BY <2>1, Piece, <1>0 DEF b
<1> HIDE DEF a, b
<1>3. c \in Seq(Points) /\ Len(c) = Len(a) + 1
      /\ (\A i \in 1..Len(a) : c[i] = a[i]) /\ c[Len(a) + 1] = xs[n + 1]
  <2> DEFINE e == xs[n + 1]
  <2>1. a \in Seq(Points) /\ e \in Points
    BY <1>0, <1>1
  <2> HIDE DEF e
  <2>2. Append(a, e) \in Seq(Points) /\ Len(Append(a, e)) = Len(a) + 1
        /\ (\A i \in 1..Len(a) : Append(a, e)[i] = a[i]) /\ Append(a, e)[Len(a) + 1] = e
    BY <2>1, AppendProperties
  <2> QED BY <2>2 DEF e
<1> HIDE DEF c
<1>4. \A i \in 1..Len(b) : b[i] = c[i]
  <2> SUFFICES ASSUME NEW i \in 1..Len(b) PROVE b[i] = c[i]
    OBVIOUS
  <2>1. CASE i \in 1..(n - m + 1)
    BY <2>1, <1>0, <1>1, <1>2, <1>3
  <2>2. CASE i = n - m + 2
    <3>1. b[i] = xs[n + 1]
      BY <2>2, <1>0, <1>2
    <3>2. c[i] = xs[n + 1]
      BY <2>2, <1>0, <1>1, <1>3
    <3> QED BY <3>1, <3>2
  <2> QED BY <2>1, <2>2, <1>0, <1>2
<1>5. b = c
  BY <1>0, <1>1, <1>2, <1>3, <1>4, SeqEqual
<1> QED BY <1>5 DEF a, b, c

-----------------------------------------------------------------------------
(* Sums                                                                    *)

\* f is the sum of the readings of the first points of xs, up to n of them.
IsSum(f, xs, n) ==
  f = [i \in 0..n |-> IF i = 0 THEN 0 ELSE f[i - 1] + Reading(xs[i].time)]

LEMMA SumExists == \A xs : \A n \in Nat : \E f : IsSum(f, xs, n)
<1> SUFFICES ASSUME NEW xs PROVE \A n \in Nat : \E f : IsSum(f, xs, n)
  OBVIOUS
<1> DEFINE T == {n \in Nat : \E f : IsSum(f, xs, n)}
<1>1. 0 \in T
  <2>1. IsSum([i \in 0..0 |-> 0], xs, 0)
    BY DEF IsSum
  <2> QED BY <2>1
<1>2. ASSUME NEW n \in T PROVE n + 1 \in T
  <2>1. PICK f : IsSum(f, xs, n)
    OBVIOUS
  <2> DEFINE g == [i \in 0..(n + 1) |->
                     IF i = n + 1 THEN f[n] + Reading(xs[n + 1].time) ELSE f[i]]
  <2>2. \A i \in 0..n : g[i] = f[i]
    OBVIOUS
  <2>3. \A i \in 0..n : f[i] = IF i = 0 THEN 0 ELSE f[i - 1] + Reading(xs[i].time)
    BY <2>1 DEF IsSum
  <2>4. \A i \in 0..(n + 1) : g[i] = IF i = 0 THEN 0 ELSE g[i - 1] + Reading(xs[i].time)
    BY <2>2, <2>3
  <2>5. g = [i \in 0..(n + 1) |-> g[i]]
    OBVIOUS
  <2> HIDE DEF g
  <2>6. IsSum(g, xs, n + 1)
    BY <2>4, <2>5 DEF IsSum
  <2> QED BY <2>6
<1>3. T = Nat
  BY <1>1, <1>2, Ind
<1> QED BY <1>3

\* The sum of a sequence is the last value of that function.
LEMMA SumOfIs ==
  ASSUME NEW xs \in Seq(Points)
  PROVE  \E f : /\ SumOf(xs) = f[Len(xs)] /\ f[0] = 0
                /\ \A i \in 1..Len(xs) : f[i] = f[i - 1] + xs[i].time
<1> DEFINE f == CHOOSE g : IsSum(g, xs, Len(xs))
<1>1. SumOf(xs) = f[Len(xs)]
  BY DEF SumOf, IsSum
<1>2. Len(xs) \in Nat
  BY SeqType
<1>3. IsSum(f, xs, Len(xs))
  BY <1>2, SumExists
<1> HIDE DEF f
<1>4. \A i \in 0..Len(xs) : f[i] = IF i = 0 THEN 0 ELSE f[i - 1] + xs[i].time
  BY <1>3 DEF IsSum, Reading
<1>5. f[0] = 0 /\ \A i \in 1..Len(xs) : f[i] = f[i - 1] + xs[i].time
  BY <1>2, <1>4
<1> QED BY <1>1, <1>5

LEMMA SumEmpty == SumOf(<<>>) = 0
<1>1. <<>> \in Seq(Points) /\ Len(<<>>) = 0
  BY EmptySeq
<1> QED BY <1>1, SumOfIs

LEMMA SumAppend ==
  ASSUME NEW xs \in Seq(Points), NEW x \in Points
  PROVE  SumOf(Append(xs, x)) = SumOf(xs) + x.time
<1> DEFINE ys == Append(xs, x)
<1>1. ys \in Seq(Points) /\ Len(ys) = Len(xs) + 1 /\ ys[Len(xs) + 1] = x
      /\ \A i \in 1..Len(xs) : ys[i] = xs[i]
  BY AppendProperties
<1>2. Len(xs) \in Nat
  BY SeqType
<1> HIDE DEF ys
<1>3. PICK f : /\ SumOf(xs) = f[Len(xs)] /\ f[0] = 0
               /\ \A i \in 1..Len(xs) : f[i] = f[i - 1] + xs[i].time
  BY SumOfIs
<1>4. PICK g : /\ SumOf(ys) = g[Len(ys)] /\ g[0] = 0
               /\ \A i \in 1..Len(ys) : g[i] = g[i - 1] + ys[i].time
  BY <1>1, SumOfIs
<1> DEFINE T == {i \in Nat : i <= Len(xs) => g[i] = f[i]}
<1>5. 0 \in T
  BY <1>3, <1>4
<1>6. ASSUME NEW i \in T PROVE i + 1 \in T
  <2> SUFFICES ASSUME i + 1 <= Len(xs) PROVE g[i + 1] = f[i + 1]
    OBVIOUS
  <2>1. i + 1 \in 1..Len(xs) /\ i + 1 \in 1..Len(ys) /\ (i + 1) - 1 = i
    BY <1>1, <1>2
  <2>2. f[i + 1] = f[i] + xs[i + 1].time
    BY <1>3, <2>1
  <2>3. g[i + 1] = g[i] + xs[i + 1].time
    BY <1>1, <1>4, <2>1
  <2>4. g[i] = f[i]
    BY <1>2
  <2> QED BY <2>2, <2>3, <2>4
<1>7. T = Nat
  BY <1>5, <1>6, Ind
<1>8. g[Len(xs)] = f[Len(xs)]
  BY <1>2, <1>7
<1>9. Len(ys) \in 1..Len(ys) /\ Len(ys) - 1 = Len(xs)
  BY <1>1, <1>2
<1>10. g[Len(ys)] = g[Len(xs)] + x.time
  BY <1>1, <1>4, <1>9
<1> QED BY <1>3, <1>4, <1>8, <1>10 DEF ys

LEMMA SumType == ASSUME NEW xs \in Seq(Points) PROVE SumOf(xs) \in Nat
<1>0. Len(xs) \in Nat
  BY SeqType
<1>1. PICK f : /\ SumOf(xs) = f[Len(xs)] /\ f[0] = 0
               /\ \A i \in 1..Len(xs) : f[i] = f[i - 1] + xs[i].time
  BY SumOfIs
<1> DEFINE T == {i \in Nat : i <= Len(xs) => f[i] \in Nat}
<1>2. 0 \in T
  BY <1>1
<1>3. ASSUME NEW i \in T PROVE i + 1 \in T
  <2> SUFFICES ASSUME i + 1 <= Len(xs) PROVE f[i + 1] \in Nat
    OBVIOUS
  <2>1. i + 1 \in 1..Len(xs) /\ (i + 1) - 1 = i
    BY <1>0
  <2>2. f[i + 1] = f[i] + xs[i + 1].time
    BY <1>1, <2>1
  <2>3. xs[i + 1].time \in Nat
    BY <2>1, SeqType
  <2>4. f[i] \in Nat
    BY <1>0
  <2> QED BY <2>2, <2>3, <2>4
<1>4. T = Nat
  BY <1>2, <1>3, Ind
<1> QED BY <1>0, <1>1, <1>4

\* The sum of a sequence is that of its first k points and that of the others.
LEMMA SumSplit ==
  ASSUME NEW xs \in Seq(Points), NEW k \in 0..Len(xs)
  PROVE  SumOf(xs) = SumOf(SubSeq(xs, 1, k)) + SumOf(SubSeq(xs, k + 1, Len(xs)))
<1>0. Len(xs) \in Nat /\ k \in Nat /\ k <= Len(xs)
  BY SeqType
<1> DEFINE pre(n) == SubSeq(xs, 1, n)
           post(n) == SubSeq(xs, k + 1, n)
           T == {i \in Nat : k + i <= Len(xs) =>
                   SumOf(pre(k + i)) = SumOf(pre(k)) + SumOf(post(k + i))}
<1>1. \A n \in 0..Len(xs) : pre(n) \in Seq(Points) /\ SumOf(pre(n)) \in Nat
  <2> SUFFICES ASSUME NEW n \in 0..Len(xs)
               PROVE  pre(n) \in Seq(Points) /\ SumOf(pre(n)) \in Nat
    OBVIOUS
  <2>1. 1 \in 1..(Len(xs) + 1) /\ n \in (1 - 1)..Len(xs)
    BY <1>0
  <2>2. pre(n) \in Seq(Points)
    BY <2>1, Piece
  <2> HIDE DEF pre
  <2> QED BY <2>2, SumType
<1>2. \A n \in k..Len(xs) : post(n) \in Seq(Points) /\ SumOf(post(n)) \in Nat
  <2> SUFFICES ASSUME NEW n \in k..Len(xs)
               PROVE  post(n) \in Seq(Points) /\ SumOf(post(n)) \in Nat
    OBVIOUS
  <2>1. k + 1 \in 1..(Len(xs) + 1) /\ n \in ((k + 1) - 1)..Len(xs)
    BY <1>0
  <2>2. post(n) \in Seq(Points)
    BY <2>1, Piece
  <2> HIDE DEF post
  <2> QED BY <2>2, SumType
<1>3. 0 \in T
  <2>1. k + 1 \in Int /\ k < k + 1 /\ k \in Int
    BY <1>0
  <2>2. post(k) = <<>>
    BY <2>1, SubSeqEmpty
  <2>3. SumOf(pre(k)) \in Nat
    BY <1>0, <1>1
  <2>4. k + 0 = k
    BY <1>0
  <2>5. SumOf(pre(k + 0)) = SumOf(pre(k)) + SumOf(post(k + 0))
    <3> HIDE DEF pre, post
    <3> QED BY <2>2, <2>3, <2>4, SumEmpty
  <2> QED BY <2>5
<1>4. ASSUME NEW i \in T PROVE i + 1 \in T
  <2> SUFFICES ASSUME k + (i + 1) <= Len(xs)
               PROVE  SumOf(pre(k + (i + 1))) = SumOf(pre(k)) + SumOf(post(k + (i + 1)))
    OBVIOUS
  <2> DEFINE n == k + i
  <2>1. n \in Nat /\ n + 1 <= Len(xs) /\ n >= k /\ k + (i + 1) = n + 1
    BY <1>0
  <2>2. SumOf(pre(n)) = SumOf(pre(k)) + SumOf(post(n))
    BY <2>1, <1>0
  <2> HIDE DEF n, T
  <2>3. xs[n + 1] \in Points /\ xs[n + 1].time \in Nat
    BY <2>1, <1>0, SeqType
  <2>4. pre(n + 1) = Append(pre(n), xs[n + 1])
    <3>1. 1 \in 1..Len(xs) /\ n \in (1 - 1)..(Len(xs) - 1)
      BY <2>1, <1>0
    <3> QED BY <3>1, PieceAppend
  <2>5. post(n + 1) = Append(post(n), xs[n + 1])
    <3>1. k + 1 \in 1..Len(xs) /\ n \in ((k + 1) - 1)..(Len(xs) - 1)
      BY <2>1, <1>0
    <3> QED BY <3>1, PieceAppend
  <2>6. n \in 0..Len(xs) /\ n \in k..Len(xs) /\ k \in 0..Len(xs)
    BY <2>1, <1>0
  <2> HIDE DEF pre, post
  <2>7. SumOf(pre(n + 1)) = SumOf(pre(n)) + xs[n + 1].time
    BY <2>3, <2>4, <2>6, <1>1, SumAppend
  <2>8. SumOf(post(n + 1)) = SumOf(post(n)) + xs[n + 1].time
    BY <2>3, <2>5, <2>6, <1>2, SumAppend
  <2>9. SumOf(pre(n)) \in Nat /\ SumOf(pre(k)) \in Nat /\ SumOf(post(n)) \in Nat
    BY <2>6, <1>1, <1>2
  <2>10. SumOf(pre(n + 1)) = SumOf(pre(k)) + SumOf(post(n + 1))
    BY <2>2, <2>3, <2>7, <2>8, <2>9
  <2> QED BY <2>1, <2>10
<1>5. T = Nat
  BY <1>3, <1>4, Ind
<1>6. Len(xs) - k \in T /\ k + (Len(xs) - k) = Len(xs)
  <2> HIDE DEF T
  <2> QED BY <1>0, <1>5
<1>7. SumOf(pre(Len(xs))) = SumOf(pre(k)) + SumOf(post(Len(xs)))
  BY <1>0, <1>6
<1> QED BY <1>7, SubSeqFull

-----------------------------------------------------------------------------
(* Order, and what is cut off                                              *)

\* The points of xs are in the order of time.
Ordered(xs) == \A i, j \in 1..Len(xs) : i < j => xs[i].time < xs[j].time

LEMMA PieceOrdered ==
  ASSUME NEW xs \in Seq(Points), Ordered(xs),
         NEW m \in 1..(Len(xs) + 1), NEW n \in (m - 1)..Len(xs)
  PROVE  /\ Ordered(SubSeq(xs, m, n))
         /\ ToSet(SubSeq(xs, m, n)) \subseteq ToSet(xs)
<1> DEFINE ys == SubSeq(xs, m, n)
<1>0. Len(xs) \in Nat
  BY SeqType
<1>1. ys \in Seq(Points) /\ Len(ys) = n - m + 1
      /\ \A i \in 1..(n - m + 1) : ys[i] = xs[m + i - 1]
  BY Piece
<1>2. \A i \in 1..(n - m + 1) : m + i - 1 \in 1..Len(xs)
  BY <1>0
<1> HIDE DEF ys
<1>3. Ordered(ys)
  <2> SUFFICES ASSUME NEW i \in 1..(n - m + 1), NEW j \in 1..(n - m + 1), i < j
               PROVE  ys[i].time < ys[j].time
    BY <1>1 DEF Ordered
  <2>1. m + i - 1 < m + j - 1
    BY <1>0
  <2>2. xs[m + i - 1].time < xs[m + j - 1].time
    BY <1>2, <2>1 DEF Ordered
  <2> QED BY <1>1, <2>2
<1>4. ToSet(ys) \subseteq ToSet(xs)
  BY <1>1, <1>2, SeqType
<1> QED BY <1>3, <1>4 DEF ys

LEMMA AppendOrdered ==
  ASSUME NEW xs \in Seq(Points), Ordered(xs), NEW x \in Points,
         xs # <<>> => Last(xs).time < x.time
  PROVE  /\ Ordered(Append(xs, x)) /\ Last(Append(xs, x)) = x
         /\ ToSet(Append(xs, x)) = ToSet(xs) \cup {x}
<1> DEFINE ys == Append(xs, x)
<1>0. Len(xs) \in Nat /\ \A i \in 1..Len(xs) : xs[i].time \in Nat
  BY SeqType
<1>1. ys \in Seq(Points) /\ Len(ys) = Len(xs) + 1 /\ ys[Len(xs) + 1] = x
      /\ \A i \in 1..Len(xs) : ys[i] = xs[i]
  BY AppendProperties
<1> HIDE DEF ys
<1>2. \A i \in 1..Len(xs) : xs[i].time < x.time
  <2> SUFFICES ASSUME NEW i \in 1..Len(xs) PROVE xs[i].time < x.time
    OBVIOUS
  <2>1. xs # <<>> /\ Len(xs) \in 1..Len(xs)
    BY <1>0, SeqType
  <2>2. xs[Len(xs)].time < x.time
    BY <2>1 DEF Last
  <2>3. CASE i = Len(xs)
    BY <2>2, <2>3
  <2>4. CASE i < Len(xs)
    <3>1. xs[i].time < xs[Len(xs)].time
      BY <2>1, <2>4 DEF Ordered
    <3>2. xs[i].time \in Nat /\ xs[Len(xs)].time \in Nat /\ x.time \in Nat
      BY <1>0, <2>1, PointType
    <3> QED BY <2>2, <3>1, <3>2
  <2> QED BY <1>0, <2>3, <2>4
<1>3. Ordered(ys)
  <2> SUFFICES ASSUME NEW i \in 1..(Len(xs) + 1), NEW j \in 1..(Len(xs) + 1), i < j
               PROVE  ys[i].time < ys[j].time
    BY <1>1 DEF Ordered
  <2>0. i \in 1..Len(xs)
    BY <1>0
  <2>1. CASE j \in 1..Len(xs)
    BY <1>1, <2>0, <2>1 DEF Ordered
  <2>2. CASE j = Len(xs) + 1
    <3>1. ys[j] = x /\ ys[i] = xs[i]
      BY <1>1, <2>0, <2>2
    <3>2. xs[i].time < x.time
      BY <1>2, <2>0
    <3> QED BY <3>1, <3>2
  <2>3. j \in 1..Len(xs) \/ j = Len(xs) + 1
    BY <1>0
  <2> QED BY <2>1, <2>2, <2>3
<1>4. Last(ys) = x
  BY <1>1 DEF Last
<1>5. ToSet(ys) = ToSet(xs) \cup {x}
  <2>1. 1..Len(ys) = (1..Len(xs)) \cup {Len(xs) + 1}
    BY <1>0, <1>1
  <2>2. ToSet(ys) = {ys[i] : i \in 1..Len(ys)} /\ ToSet(xs) = {xs[i] : i \in 1..Len(xs)}
    BY <1>1, SeqType
  <2>3. ToSet(ys) \subseteq ToSet(xs) \cup {x}
    BY <1>1, <2>1, <2>2
  <2>4. ToSet(xs) \subseteq ToSet(ys)
    BY <1>1, <2>1, <2>2
  <2>5. x \in ToSet(ys)
    BY <1>1, <2>1, <2>2
  <2> QED BY <2>3, <2>4, <2>5
<1> QED BY <1>3, <1>4, <1>5 DEF ys

\* The points from a time on are a piece at the end.
LEMMA FromIs ==
  ASSUME NEW xs \in Seq(Points), Ordered(xs), NEW t \in Int
  PROVE  \E k \in 0..Len(xs) :
           /\ From(xs, t) = SubSeq(xs, k + 1, Len(xs))
           /\ \A i \in 1..Len(xs) : xs[i].time < t <=> i <= k
<1>0. Len(xs) \in Nat /\ \A i \in 1..Len(xs) : xs[i].time \in Nat
  BY SeqType
<1> DEFINE T == {k \in Nat : k < Len(xs) => ~(xs[k + 1].time < t)}
<1>1. Len(xs) \in T
  BY <1>0
<1>2. PICK k \in T : \A j \in T : k <= j
  BY <1>1, Least
<1>3. k \in 0..Len(xs)
  BY <1>0, <1>1, <1>2
<1>4. \A i \in 1..Len(xs) : xs[i].time < t <=> i <= k
  <2> SUFFICES ASSUME NEW i \in 1..Len(xs) PROVE xs[i].time < t <=> i <= k
    OBVIOUS
  <2>1. CASE i <= k
    <3>1. i - 1 \in Nat /\ i - 1 \notin T
      BY <1>2, <1>3, <2>1
    <3>2. (i - 1) + 1 = i
      OBVIOUS
    <3> QED BY <2>1, <3>1, <3>2
  <2>2. CASE i > k
    <3>1. k + 1 \in 1..Len(xs)
      BY <1>0, <1>3, <2>2
    <3>2. ~(xs[k + 1].time < t)
      BY <1>0, <1>2, <3>1
    <3>3. CASE i = k + 1
      BY <3>2, <3>3, <1>3
    <3>4. CASE i > k + 1
      <4>1. xs[k + 1].time < xs[i].time
        BY <3>1, <3>4 DEF Ordered
      <4>2. xs[i].time \in Nat /\ xs[k + 1].time \in Nat
        BY <1>0, <3>1
      <4> QED BY <4>1, <4>2, <3>2, <2>2, <1>3
    <3> QED BY <3>3, <3>4, <2>2, <1>3
  <2> QED BY <2>1, <2>2, <1>3
<1> DEFINE o == CHOOSE h \in 0..Len(xs) :
                  \A i \in 1..Len(xs) : xs[i].time < t <=> i <= h
<1>5. o \in 0..Len(xs) /\ \A i \in 1..Len(xs) : xs[i].time < t <=> i <= o
  BY <1>3, <1>4
<1>6. From(xs, t) = SubSeq(xs, o + 1, Len(xs))
  BY DEF From
<1> QED
  <2> HIDE DEF o
  <2> QED BY <1>5, <1>6

LEMMA FromType ==
  ASSUME NEW xs \in Seq(Points), Ordered(xs), NEW t \in Int
  PROVE  /\ From(xs, t) \in Seq(Points) /\ Ordered(From(xs, t))
         /\ ToSet(From(xs, t)) \subseteq {x \in ToSet(xs) : x.time >= t}
<1>0. Len(xs) \in Nat
  BY SeqType
<1>1. PICK k \in 0..Len(xs) : /\ From(xs, t) = SubSeq(xs, k + 1, Len(xs))
                              /\ \A i \in 1..Len(xs) : xs[i].time < t <=> i <= k
  BY FromIs
<1> DEFINE ys == SubSeq(xs, k + 1, Len(xs))
<1>2. k + 1 \in 1..(Len(xs) + 1) /\ Len(xs) \in ((k + 1) - 1)..Len(xs)
  BY <1>0
<1>3. /\ ys \in Seq(Points) /\ Len(ys) = Len(xs) - (k + 1) + 1
      /\ \A i \in 1..(Len(xs) - (k + 1) + 1) : ys[i] = xs[(k + 1) + i - 1]
  BY <1>2, Piece
<1>4. Ordered(ys)
  BY <1>2, PieceOrdered
<1> HIDE DEF ys
<1>5. \A i \in 1..Len(ys) : ys[i] \in {x \in ToSet(xs) : x.time >= t}
  <2> SUFFICES ASSUME NEW i \in 1..Len(ys)
               PROVE  ys[i] \in ToSet(xs) /\ ys[i].time >= t
    OBVIOUS
  <2>1. /\ i \in 1..(Len(xs) - (k + 1) + 1) /\ (k + 1) + i - 1 \in 1..Len(xs)
        /\ ~((k + 1) + i - 1 <= k)
    BY <1>0, <1>3
  <2>2. ys[i] = xs[(k + 1) + i - 1]
    BY <1>3, <2>1
  <2>3. ~(ys[i].time < t) /\ ys[i].time \in Nat /\ ys[i] \in ToSet(xs)
    BY <1>1, <2>1, <2>2, SeqType
  <2> QED BY <2>3
<1>6. ToSet(ys) \subseteq {x \in ToSet(xs) : x.time >= t}
  BY <1>3, <1>5, SeqType
<1> QED BY <1>1, <1>3, <1>4, <1>6 DEF ys

\* The points after the first k fit in the capacity and in the interval.
Fits(pts, cap, sec, k) ==
  /\ Len(pts) - k <= cap
  /\ k < Len(pts) => pts[k + 1].time > Last(pts).time - sec

\* The smallest such number is the one that append evicts.
LEMMA EvictedIs ==
  ASSUME NEW pts \in Seq(Points), NEW cap \in Nat, NEW sec
  PROVE  \E e \in 0..Len(pts) :
           /\ e = Evicted(pts, cap, sec)
           /\ Fits(pts, cap, sec, e) /\ \A j \in 0..(e - 1) : ~Fits(pts, cap, sec, j)
           /\ \A k \in 0..Len(pts) :
                Fits(pts, cap, sec, k) /\ (\A j \in 0..(k - 1) : ~Fits(pts, cap, sec, j))
                  => k = e
<1>0. Len(pts) \in Nat
  BY SeqType
<1> DEFINE fits(k) == Fits(pts, cap, sec, k)
           T == {k \in Nat : k <= Len(pts) /\ fits(k)}
           first(k) == fits(k) /\ \A j \in 0..(k - 1) : ~fits(j)
           e == CHOOSE k \in 0..Len(pts) : first(k)
<1>1. Len(pts) \in T
  BY <1>0 DEF Fits
<1> HIDE DEF fits
<1>2. PICK k \in T : \A j \in T : k <= j
  BY <1>1, Least
<1>3. k \in 0..Len(pts) /\ first(k)
  BY <1>0, <1>2
<1>4. e \in 0..Len(pts) /\ first(e)
  BY <1>3
<1>5. Evicted(pts, cap, sec) = e
  BY DEF Evicted, Fits, fits
<1> HIDE DEF e
<1>6. ASSUME NEW h \in 0..Len(pts), first(h) PROVE h = e
  BY <1>0, <1>4, <1>6
<1> QED BY <1>4, <1>5, <1>6 DEF fits

-----------------------------------------------------------------------------
(* Insertion                                                               *)

LEMMA CapType == \A sec \in Intervals : CapOf(sec) \in Nat \ {0}
<1> SUFFICES ASSUME NEW sec \in Intervals PROVE CapOf(sec) \in Nat \ {0}
  OBVIOUS
<1>1. sec \div Resolution \in Int
  BY TimeAssumption
<1> QED BY <1>1 DEF CapOf

\* The points that are left of pts in a series of the given interval.
Left(pts, sec) == SubSeq(pts, Evicted(pts, CapOf(sec), sec) + 1, Len(pts))

LEMMA LeftType ==
  ASSUME NEW pts \in Seq(Points), NEW sec \in Intervals
  PROVE  LET k == Evicted(pts, CapOf(sec), sec)
         IN  /\ k \in 0..Len(pts)
             /\ Left(pts, sec) \in Seq(Points)
             /\ Len(Left(pts, sec)) = Len(pts) - k
             /\ \A i \in 1..(Len(pts) - k) : Left(pts, sec)[i] = pts[k + i]
<1> DEFINE k == Evicted(pts, CapOf(sec), sec)
<1>0. Len(pts) \in Nat
  BY SeqType
<1>1. k \in 0..Len(pts)
  BY CapType, EvictedIs
<1> HIDE DEF k
<1>2. k + 1 \in 1..(Len(pts) + 1) /\ Len(pts) \in ((k + 1) - 1)..Len(pts)
  BY <1>0, <1>1
<1> DEFINE ys == SubSeq(pts, k + 1, Len(pts))
<1>3. /\ ys \in Seq(Points) /\ Len(ys) = Len(pts) - (k + 1) + 1
      /\ \A i \in 1..(Len(pts) - (k + 1) + 1) : ys[i] = pts[(k + 1) + i - 1]
  BY <1>2, Piece
<1> HIDE DEF ys
<1>4. /\ Len(pts) - (k + 1) + 1 = Len(pts) - k
      /\ \A i \in 1..(Len(pts) - k) : (k + 1) + i - 1 = k + i
  BY <1>0, <1>1
<1>5. ys = Left(pts, sec)
  BY DEF ys, k, Left
<1>6. /\ Left(pts, sec) \in Seq(Points) /\ Len(Left(pts, sec)) = Len(pts) - k
      /\ \A i \in 1..(Len(pts) - k) : Left(pts, sec)[i] = pts[k + i]
  BY <1>3, <1>4, <1>5
<1> QED BY <1>1, <1>6 DEF k

\* What an insertion finds: the statistics are those of the points.
Sound(s) ==
  /\ s \in TimeSeries /\ s.cap = CapOf(s.intervalSec)
  /\ s.cnt = Len(s.pts) /\ s.sum = SumOf(s.pts)
  /\ Ordered(s.pts)
  /\ s.pts # <<>> => Last(s.pts).time = s.maxTime

\* The series that commonInsertWithUserCfg appends to.
Opened(s, sec) ==
  IF s = NoSeries THEN New(sec)
  ELSE IF s.intervalSec # sec THEN ReloadCfg(s, sec) ELSE s

LEMMA OpenedSound ==
  ASSUME NEW s, s = NoSeries \/ Sound(s), NEW sec \in Intervals
  PROVE  LET t == Opened(s, sec)
         IN  /\ Sound(t) /\ t.intervalSec = sec
             /\ s = NoSeries => t.pts = <<>> /\ t.maxTime = 0
             /\ s # NoSeries => t.pts = s.pts /\ t.maxTime = s.maxTime
<1>1. CapOf(sec) \in Nat \ {0}
  BY CapType
<1>2. <<>> \in Seq(Points) /\ Len(<<>>) = 0
  BY EmptySeq
<1>3. CASE s = NoSeries
  <2> DEFINE t == New(sec)
  <2>1. t \in TimeSeries /\ t.pts = <<>> /\ t.maxTime = 0 /\ t.intervalSec = sec
        /\ t.cap = CapOf(sec) /\ t.cnt = 0 /\ t.sum = 0
    BY <1>1, <1>2 DEF New, TimeSeries
  <2>2. Ordered(<<>>)
    BY <1>2 DEF Ordered
  <2> HIDE DEF t
  <2>3. Sound(t)
    BY <2>1, <2>2, <1>2, SumEmpty DEF Sound
  <2> QED BY <1>3, <2>1, <2>3 DEF Opened, t
<1>4. CASE s # NoSeries /\ s.intervalSec # sec
  <2> DEFINE t == ReloadCfg(s, sec)
  <2>1. s \in TimeSeries
    BY <1>4 DEF Sound
  <2>2. t \in TimeSeries /\ t.pts = s.pts /\ t.maxTime = s.maxTime /\ t.intervalSec = sec
        /\ t.cap = CapOf(sec) /\ t.cnt = s.cnt /\ t.sum = s.sum
    BY <2>1, <1>1 DEF ReloadCfg, TimeSeries
  <2> HIDE DEF t
  <2>3. Sound(t)
    BY <2>2, <1>4 DEF Sound
  <2> QED BY <1>4, <2>2, <2>3 DEF Opened, t
<1>5. CASE s # NoSeries /\ s.intervalSec = sec
  BY <1>5 DEF Opened
<1> QED BY <1>3, <1>4, <1>5

\* A newer point is appended and the statistics stay those of the points.
LEMMA AppendSound ==
  ASSUME NEW t, Sound(t), NEW x \in Points, x.time > t.maxTime
  PROVE  LET n == AppendPoint(t, x)
         IN  /\ Sound(n) /\ n.intervalSec = t.intervalSec /\ n.maxTime = x.time
             /\ n.pts = Left(Append(t.pts, x), t.intervalSec)
             /\ ToSet(n.pts) \subseteq ToSet(t.pts) \cup {x}
<1> DEFINE sec == t.intervalSec
           pts == Append(t.pts, x)
           k == Evicted(pts, CapOf(sec), sec)
           left == Left(pts, sec)
           n == AppendPoint(t, x)
<1>0. t \in TimeSeries /\ t.cap = CapOf(sec) /\ sec \in Intervals /\ t.pts \in Seq(Points)
      /\ t.maxTime \in Nat /\ x.time \in Nat
  BY PointType DEF Sound, TimeSeries
<1>1. /\ pts \in Seq(Points) /\ Len(pts) = Len(t.pts) + 1 /\ Len(t.pts) \in Nat
      /\ Ordered(pts) /\ Last(pts) = x /\ ToSet(pts) = ToSet(t.pts) \cup {x}
  <2>1. pts \in Seq(Points) /\ Len(pts) = Len(t.pts) + 1 /\ Len(t.pts) \in Nat
    BY <1>0, AppendProperties, SeqType
  <2>2. t.pts # <<>> => Last(t.pts).time < x.time
    BY <1>0 DEF Sound
  <2>3. Ordered(pts) /\ Last(pts) = x /\ ToSet(pts) = ToSet(t.pts) \cup {x}
    BY <1>0, <2>2, AppendOrdered DEF Sound
  <2> QED BY <2>1, <2>3
<1>2. SumOf(pts) = t.sum + x.time
  BY <1>0, SumAppend DEF Sound
<1> HIDE DEF pts
<1>3. /\ k \in 0..Len(pts) /\ left \in Seq(Points) /\ Len(left) = Len(pts) - k
      /\ \A i \in 1..(Len(pts) - k) : left[i] = pts[k + i]
  BY <1>0, <1>1, LeftType
<1>4. SumOf(pts) = SubtractedSum(pts, k) + SumOf(left)
  BY <1>1, <1>3, SumSplit DEF SubtractedSum, Left
<1>5. Ordered(left) /\ ToSet(left) \subseteq ToSet(pts)
  <2>1. k + 1 \in 1..(Len(pts) + 1) /\ Len(pts) \in ((k + 1) - 1)..Len(pts)
    BY <1>1, <1>3
  <2> QED BY <1>1, <2>1, PieceOrdered DEF Left
<1>6. left # <<>> => Last(left) = x
  <2> SUFFICES ASSUME left # <<>> PROVE Last(left) = x
    OBVIOUS
  <2>1. Len(left) >= 1
    BY <1>3, SeqType
  <2>2. Len(left) \in 1..(Len(pts) - k) /\ k + Len(left) = Len(pts)
    BY <2>1, <1>1, <1>3
  <2> QED BY <1>1, <1>3, <2>2 DEF Last
<1>7. SumOf(left) \in Nat /\ SubtractedSum(pts, k) \in Nat
  <2>1. SubSeq(pts, 1, k) \in Seq(Points)
    <3>1. 1 \in 1..(Len(pts) + 1) /\ k \in (1 - 1)..Len(pts)
      BY <1>1, <1>3
    <3> QED BY <1>1, <3>1, Piece
  <2> QED BY <1>3, <2>1, SumType DEF SubtractedSum
<1>8. n = [t EXCEPT !.pts = left,
                    !.maxTime = IF t.maxTime > x.time THEN t.maxTime ELSE x.time,
                    !.cnt = t.cnt + 1 - k,
                    !.sum = t.sum + Reading(x.time) - SubtractedSum(pts, k)]
  BY <1>0 DEF AppendPoint, Left, pts
<1> HIDE DEF k, left, n
<1>9. t.cnt + 1 - k = Len(left) /\ t.cnt + 1 - k \in Nat
  BY <1>1, <1>3 DEF Sound
<1>10. t.sum + Reading(x.time) - SubtractedSum(pts, k) = SumOf(left)
  <2>1. t.sum \in Nat
    BY <1>0 DEF TimeSeries
  <2> QED BY <1>0, <1>2, <1>4, <1>7, <2>1 DEF Reading
<1>11. (IF t.maxTime > x.time THEN t.maxTime ELSE x.time) = x.time
  BY <1>0
<1>12. n = [t EXCEPT !.pts = left, !.maxTime = x.time, !.cnt = Len(left), !.sum = SumOf(left)]
  BY <1>8, <1>9, <1>10, <1>11
<1>13. /\ n \in TimeSeries /\ n.pts = left /\ n.maxTime = x.time /\ n.cnt = Len(left)
       /\ n.sum = SumOf(left) /\ n.intervalSec = sec /\ n.cap = t.cap
  BY <1>0, <1>3, <1>7, <1>9, <1>12 DEF TimeSeries
<1>14. Sound(n)
  BY <1>0, <1>5, <1>6, <1>13 DEF Sound
<1> QED BY <1>1, <1>5, <1>13, <1>14 DEF n, left, pts

\* The points after the insertion of a newer one.
Grown(s, x, sec) == Left(Append(Opened(s, sec).pts, x), sec)

\* What an insertion of x makes of s.
Inserts(s, x, sec) ==
  /\ Sound(Insert(s, x, sec)) /\ Insert(s, x, sec).intervalSec = sec
  /\ ToSet(Insert(s, x, sec).pts) \subseteq ToSet(Opened(s, sec).pts) \cup {x}
  /\ x.time > Opened(s, sec).maxTime =>
       /\ Insert(s, x, sec).pts = Grown(s, x, sec)
       /\ Insert(s, x, sec).maxTime = x.time
  /\ ~(x.time > Opened(s, sec).maxTime) => Insert(s, x, sec) = Opened(s, sec)

\* An insertion keeps the statistics right and grows the series by newer points.
LEMMA InsertSound ==
  ASSUME NEW s, s = NoSeries \/ Sound(s), NEW x \in Points, NEW sec \in Intervals
  PROVE  Inserts(s, x, sec)
<1> DEFINE t == Opened(s, sec)
<1>1. Sound(t) /\ t.intervalSec = sec
  BY OpenedSound
<1>2. Insert(s, x, sec) = IF x.time > t.maxTime THEN AppendPoint(t, x) ELSE t
  BY DEF Insert, Opened
<1> HIDE DEF t
<1>3. CASE x.time > t.maxTime
  <2>1. Grown(s, x, sec) = Left(Append(t.pts, x), t.intervalSec)
    BY <1>1 DEF Grown, t
  <2> QED BY <1>1, <1>2, <1>3, <2>1, AppendSound DEF t, Inserts
<1>4. CASE ~(x.time > t.maxTime)
  BY <1>1, <1>2, <1>4 DEF t, Inserts
<1> QED BY <1>3, <1>4

\* Points that an earlier insertion has evicted would be evicted now: what is
\* left does not depend on when the points were inserted.
LEMMA LeftAppend ==
  ASSUME NEW ys \in Seq(Points), NEW x \in Points, NEW sec \in Intervals,
         ys # <<>> => Last(ys).time < x.time
  PROVE  Left(Append(Left(ys, sec), x), sec) = Left(Append(ys, x), sec)
<1> DEFINE c == CapOf(sec)
           k == Evicted(ys, c, sec)
           ls == Left(ys, sec)
           zs == Append(ys, x)
           ms == Append(ls, x)
           h == Evicted(ms, c, sec)
<1>0. c \in Nat /\ Len(ys) \in Nat /\ sec \in Nat /\ x.time \in Nat
  BY CapType, SeqType, TimeAssumption, PointType
<1>1. /\ k \in 0..Len(ys) /\ ls \in Seq(Points) /\ Len(ls) = Len(ys) - k
      /\ \A i \in 1..(Len(ys) - k) : ls[i] = ys[k + i]
  BY LeftType
<1>2. \A j \in 0..(k - 1) : ~Fits(ys, c, sec, j)
  <2> HIDE DEF c
  <2> QED BY <1>0, EvictedIs
<1> HIDE DEF k, ls
<1>3. /\ zs \in Seq(Points) /\ Len(zs) = Len(ys) + 1 /\ zs[Len(ys) + 1] = x
      /\ \A i \in 1..Len(ys) : zs[i] = ys[i]
  BY AppendProperties
<1>4. /\ ms \in Seq(Points) /\ Len(ms) = Len(ls) + 1 /\ ms[Len(ls) + 1] = x
      /\ \A i \in 1..Len(ls) : ms[i] = ls[i]
  BY <1>1, AppendProperties
<1>5. h \in 0..Len(ms) /\ Fits(ms, c, sec, h) /\ \A j \in 0..(h - 1) : ~Fits(ms, c, sec, j)
  <2> HIDE DEF c, ms
  <2> QED BY <1>0, <1>4, EvictedIs
<1>6. /\ Left(ms, sec) \in Seq(Points) /\ Len(Left(ms, sec)) = Len(ms) - h
      /\ \A i \in 1..(Len(ms) - h) : Left(ms, sec)[i] = ms[h + i]
  BY <1>4, LeftType
<1> HIDE DEF c, zs, ms, h
<1>7. Last(zs) = x /\ Last(ms) = x
  BY <1>3, <1>4 DEF Last
<1>8. Len(ms) = Len(zs) - k /\ \A i \in 1..Len(ms) : ms[i] = zs[k + i]
  <2>1. Len(ms) = Len(zs) - k
    BY <1>0, <1>1, <1>3, <1>4
  <2> SUFFICES ASSUME NEW i \in 1..Len(ms) PROVE ms[i] = zs[k + i]
    BY <2>1
  <2>2. CASE i \in 1..Len(ls)
    <3>1. i \in 1..(Len(ys) - k) /\ k + i \in 1..Len(ys)
      BY <2>2, <1>0, <1>1
    <3> QED BY <2>2, <3>1, <1>1, <1>3, <1>4
  <2>3. CASE i = Len(ls) + 1
    <3>1. k + i = Len(ys) + 1
      BY <2>3, <1>0, <1>1
    <3> QED BY <2>3, <3>1, <1>3, <1>4
  <2> QED BY <2>2, <2>3, <1>0, <1>1, <1>4
<1>9. \A j \in 0..Len(ms) : Fits(ms, c, sec, j) <=> Fits(zs, c, sec, k + j)
  <2> SUFFICES ASSUME NEW j \in 0..Len(ms)
               PROVE  Fits(ms, c, sec, j) <=> Fits(zs, c, sec, k + j)
    OBVIOUS
  <2>0. Len(zs) \in Nat /\ k \in Nat /\ Len(ms) \in Nat
    BY <1>0, <1>1, <1>3, <1>8
  <2>1. Len(ms) - j = Len(zs) - (k + j) /\ (j < Len(ms) <=> k + j < Len(zs))
    BY <2>0, <1>8
  <2>2. j < Len(ms) => j + 1 \in 1..Len(ms) /\ k + (j + 1) = (k + j) + 1
    BY <2>0
  <2>3. j < Len(ms) => ms[j + 1] = zs[(k + j) + 1]
    BY <2>2, <1>8
  <2> QED BY <2>1, <2>3, <1>7 DEF Fits
<1>10. \A j \in 0..(k - 1) : ~Fits(zs, c, sec, j)
  <2> SUFFICES ASSUME NEW j \in 0..(k - 1), Fits(zs, c, sec, j) PROVE FALSE
    OBVIOUS
  <2>1. j \in Nat /\ j < Len(ys) /\ j + 1 \in 1..Len(ys) /\ j < Len(zs)
    BY <1>0, <1>1, <1>3
  <2>2. Len(ys) - j <= c
    BY <2>1, <1>0, <1>3 DEF Fits
  <2>3. ys[j + 1].time > x.time - sec
    BY <2>1, <1>3, <1>7 DEF Fits
  <2>4. Last(ys).time < x.time /\ Last(ys).time \in Nat
    <3>1. ys # <<>> /\ Len(ys) \in 1..Len(ys)
      BY <2>1, <1>0, SeqType
    <3> QED BY <3>1, SeqType DEF Last
  <2>5. ys[j + 1].time > Last(ys).time - sec
    <3>1. ys[j + 1].time \in Nat
      BY <2>1, SeqType
    <3> QED BY <3>1, <2>3, <2>4, <1>0
  <2>6. Fits(ys, c, sec, j)
    BY <2>2, <2>5 DEF Fits
  <2> QED BY <2>6, <1>2
<1>11. k + h = Evicted(zs, c, sec)
  <2>1. k + h \in 0..Len(zs)
    BY <1>0, <1>1, <1>3, <1>5, <1>8
  <2>2. Fits(zs, c, sec, k + h)
    BY <1>5, <1>9
  <2>3. ASSUME NEW j \in 0..((k + h) - 1) PROVE ~Fits(zs, c, sec, j)
    <3>1. CASE j < k
      BY <3>1, <1>1, <1>10
    <3>2. CASE j >= k
      <4>1. j - k \in 0..(h - 1) /\ j - k \in 0..Len(ms) /\ k + (j - k) = j
        BY <3>2, <1>0, <1>1, <1>3, <1>5, <1>8
      <4> QED BY <4>1, <1>5, <1>9
    <3> QED BY <3>1, <3>2, <1>1
  <2> DEFINE first(i) == Fits(zs, c, sec, i) /\ \A j \in 0..(i - 1) : ~Fits(zs, c, sec, j)
  <2>4. first(k + h)
    BY <2>2, <2>3
  <2>5. PICK e \in 0..Len(zs) :
          e = Evicted(zs, c, sec) /\ \A i \in 0..Len(zs) : first(i) => i = e
    BY <1>0, <1>3, EvictedIs
  <2> HIDE DEF first
  <2> QED BY <2>1, <2>4, <2>5
<1>12. /\ Left(zs, sec) \in Seq(Points) /\ Len(Left(zs, sec)) = Len(zs) - (k + h)
       /\ \A i \in 1..(Len(zs) - (k + h)) : Left(zs, sec)[i] = zs[(k + h) + i]
  <2> HIDE DEF zs
  <2> DEFINE e == Evicted(zs, CapOf(sec), sec)
  <2>1. /\ Left(zs, sec) \in Seq(Points) /\ Len(Left(zs, sec)) = Len(zs) - e
        /\ \A i \in 1..(Len(zs) - e) : Left(zs, sec)[i] = zs[e + i]
    BY <1>3, LeftType
  <2>2. e = k + h
    BY <1>11 DEF c
  <2> HIDE DEF e
  <2> QED BY <2>1, <2>2
<1>13. Len(Left(ms, sec)) = Len(Left(zs, sec))
  BY <1>0, <1>1, <1>3, <1>5, <1>6, <1>8, <1>12
<1>14. ASSUME NEW i \in 1..Len(Left(ms, sec)) PROVE Left(ms, sec)[i] = Left(zs, sec)[i]
  <2>1. /\ i \in 1..(Len(ms) - h) /\ i \in 1..(Len(zs) - (k + h)) /\ h + i \in 1..Len(ms)
        /\ k + (h + i) = (k + h) + i
    BY <1>0, <1>1, <1>3, <1>5, <1>6, <1>8
  <2> QED BY <2>1, <1>6, <1>8, <1>12
<1>15. Left(ms, sec) = Left(zs, sec)
  BY <1>6, <1>12, <1>13, <1>14, SeqEqual
<1> QED BY <1>15 DEF ms, ls, zs

\* What is left is the window: the most recent points, as many as the interval
\* asks for, that are inside the interval.
LEMMA LeftIsWindow ==
  ASSUME NEW pts \in Seq(Points), pts # <<>>, Ordered(pts), NEW sec \in Intervals
  PROVE  Left(pts, sec) = Window(pts, sec)
<1> DEFINE c == CapOf(sec)
           n == Len(pts)
           m == IF n > c THEN n - c ELSE 0
           t == Last(pts).time - sec + 1
           ss == Suffix(pts, c)
<1>0. n \in Nat /\ c \in Nat /\ sec \in Nat
  BY SeqType, CapType, TimeAssumption
<1>1. Last(pts).time \in Nat
  <2>1. n \in 1..n
    BY <1>0, SeqType
  <2> QED BY <2>1, SeqType DEF Last
<1>2. m \in 0..n /\ t \in Int /\ n - m <= c /\ (m = 0 \/ n - m = c)
  BY <1>0, <1>1
<1>3. ss = SubSeq(pts, m + 1, n)
  <2>1. (IF n > c THEN n - c + 1 ELSE 1) = m + 1
    BY <1>0
  <2>2. ss = SubSeq(pts, IF n > c THEN n - c + 1 ELSE 1, n)
    BY DEF Suffix
  <2> HIDE DEF ss, m, c, n
  <2> QED BY <2>1, <2>2
<1> HIDE DEF c, m, t, ss
<1>4. m + 1 \in 1..(Len(pts) + 1) /\ Len(pts) \in ((m + 1) - 1)..Len(pts)
      /\ Len(pts) - (m + 1) + 1 = n - m /\ \A i \in 1..(n - m) : (m + 1) + i - 1 = m + i
  BY <1>0, <1>2
<1>5. ss \in Seq(Points) /\ Len(ss) = n - m /\ \A i \in 1..(n - m) : ss[i] = pts[m + i]
  BY <1>3, <1>4, Piece
<1>6. Ordered(ss)
  BY <1>3, <1>4, PieceOrdered
<1>7. PICK k \in 0..Len(ss) : /\ From(ss, t) = SubSeq(ss, k + 1, Len(ss))
                              /\ \A i \in 1..Len(ss) : ss[i].time < t <=> i <= k
  BY <1>2, <1>5, <1>6, FromIs
<1>8. Window(pts, sec) = From(ss, t)
  BY DEF Window, ss, c, t
<1>9. m + k = Evicted(pts, c, sec)
  <2> DEFINE first(i) == Fits(pts, c, sec, i) /\ \A j \in 0..(i - 1) : ~Fits(pts, c, sec, j)
  <2>1. \A j \in m..(n - 1) : pts[j + 1].time > Last(pts).time - sec <=> j + 1 - m > k
    <3> SUFFICES ASSUME NEW j \in m..(n - 1)
                 PROVE  pts[j + 1].time > Last(pts).time - sec <=> j + 1 - m > k
      OBVIOUS
    <3>1. j + 1 - m \in 1..(n - m) /\ m + (j + 1 - m) = j + 1 /\ j + 1 \in 1..n
      BY <1>0, <1>2
    <3>2. ss[j + 1 - m].time < t <=> j + 1 - m <= k
      BY <1>5, <1>7, <3>1
    <3>3. ss[j + 1 - m] = pts[j + 1] /\ pts[j + 1].time \in Nat
      BY <1>5, <3>1, SeqType
    <3>4. pts[j + 1].time < t <=> ~(pts[j + 1].time > Last(pts).time - sec)
      BY <1>0, <1>1, <3>3 DEF t
    <3>5. j + 1 - m \in Int /\ k \in Int
      BY <1>2, <1>5, <1>7, <1>0
    <3> QED BY <3>2, <3>3, <3>4, <3>5
  <2>2. Fits(pts, c, sec, m + k)
    <3>1. n - (m + k) <= c
      BY <1>0, <1>2, <1>5, <1>7
    <3>2. m + k < n => m + k \in m..(n - 1) /\ (m + k) + 1 - m > k
      BY <1>0, <1>2, <1>5, <1>7
    <3> QED BY <3>1, <3>2, <2>1 DEF Fits
  <2>3. ASSUME NEW j \in 0..((m + k) - 1) PROVE ~Fits(pts, c, sec, j)
    <3>1. CASE j < m
      <4>1. ~(n - j <= c)
        BY <3>1, <1>0, <1>2
      <4> QED BY <4>1 DEF Fits
    <3>2. CASE j >= m
      <4>1. j \in m..(n - 1) /\ ~(j + 1 - m > k) /\ j < n
        BY <3>2, <1>0, <1>2, <1>5, <1>7
      <4> QED BY <4>1, <2>1 DEF Fits
    <3> QED BY <3>1, <3>2, <1>2, <1>5, <1>7
  <2>4. first(m + k) /\ m + k \in 0..n
    BY <2>2, <2>3, <1>0, <1>2, <1>5, <1>7
  <2>5. PICK e \in 0..n : e = Evicted(pts, c, sec) /\ \A i \in 0..n : first(i) => i = e
    BY <1>0, EvictedIs
  <2> HIDE DEF first
  <2> QED BY <2>4, <2>5
<1>10. /\ Left(pts, sec) \in Seq(Points) /\ Len(Left(pts, sec)) = n - (m + k)
       /\ \A i \in 1..(n - (m + k)) : Left(pts, sec)[i] = pts[(m + k) + i]
  <2> DEFINE e == Evicted(pts, CapOf(sec), sec)
  <2>1. /\ Left(pts, sec) \in Seq(Points) /\ Len(Left(pts, sec)) = n - e
        /\ \A i \in 1..(n - e) : Left(pts, sec)[i] = pts[e + i]
    BY LeftType
  <2>2. e = m + k
    BY <1>9 DEF c
  <2> HIDE DEF e
  <2> QED BY <2>1, <2>2
<1> DEFINE w == From(ss, t)
<1>11. /\ w \in Seq(Points) /\ Len(w) = n - (m + k)
       /\ \A i \in 1..(n - (m + k)) : w[i] = pts[(m + k) + i]
  <2>1. k + 1 \in 1..(Len(ss) + 1) /\ Len(ss) \in ((k + 1) - 1)..Len(ss)
    BY <1>0, <1>2, <1>5, <1>7
  <2>2. /\ w \in Seq(Points) /\ Len(w) = Len(ss) - (k + 1) + 1
        /\ \A i \in 1..(Len(ss) - (k + 1) + 1) : w[i] = ss[(k + 1) + i - 1]
    BY <1>5, <1>7, <2>1, Piece
  <2> HIDE DEF w
  <2>3. Len(ss) - (k + 1) + 1 = n - (m + k)
    BY <1>0, <1>2, <1>5, <1>7
  <2>4. ASSUME NEW i \in 1..(n - (m + k)) PROVE w[i] = pts[(m + k) + i]
    <3>1. (k + 1) + i - 1 \in 1..(n - m) /\ m + ((k + 1) + i - 1) = (m + k) + i
      BY <1>0, <1>2, <1>5, <1>7
    <3> QED BY <3>1, <2>2, <2>3, <1>5
  <2> QED BY <2>2, <2>3, <2>4
<1> HIDE DEF w, n
<1>12. Left(pts, sec) = w
  BY <1>10, <1>11, SeqEqual
<1> QED BY <1>8, <1>12 DEF w

-----------------------------------------------------------------------------
(* Insertion of many points                                                *)

\* f is the series after the insertion of the first points of xs, up to n.
IsFill(f, xs, sec, n) ==
  f = [i \in 0..n |-> IF i = 0 THEN NoSeries ELSE Insert(f[i - 1], xs[i], sec)]

LEMMA FillExists == \A xs, sec : \A n \in Nat : \E f : IsFill(f, xs, sec, n)
<1> SUFFICES ASSUME NEW xs, NEW sec PROVE \A n \in Nat : \E f : IsFill(f, xs, sec, n)
  OBVIOUS
<1> DEFINE T == {n \in Nat : \E f : IsFill(f, xs, sec, n)}
<1>1. 0 \in T
  <2>1. IsFill([i \in 0..0 |-> NoSeries], xs, sec, 0)
    BY DEF IsFill
  <2> QED BY <2>1
<1>2. ASSUME NEW n \in T PROVE n + 1 \in T
  <2>1. PICK f : IsFill(f, xs, sec, n)
    OBVIOUS
  <2> DEFINE g == [i \in 0..(n + 1) |->
                     IF i = n + 1 THEN Insert(f[n], xs[n + 1], sec) ELSE f[i]]
  <2>2. \A i \in 0..n : g[i] = f[i]
    OBVIOUS
  <2>3. \A i \in 0..n : f[i] = IF i = 0 THEN NoSeries ELSE Insert(f[i - 1], xs[i], sec)
    BY <2>1 DEF IsFill
  <2>4. \A i \in 0..(n + 1) : g[i] = IF i = 0 THEN NoSeries ELSE Insert(g[i - 1], xs[i], sec)
    BY <2>2, <2>3
  <2>5. g = [i \in 0..(n + 1) |-> g[i]]
    OBVIOUS
  <2> HIDE DEF g
  <2>6. IsFill(g, xs, sec, n + 1)
    BY <2>4, <2>5 DEF IsFill
  <2> QED BY <2>6
<1>3. T = Nat
  BY <1>1, <1>2, Ind
<1> QED BY <1>3

LEMMA FilledIs ==
  ASSUME NEW xs \in Seq(Points), NEW sec
  PROVE  \E f : /\ Filled(xs, sec) = f[Len(xs)] /\ f[0] = NoSeries
                /\ \A i \in 1..Len(xs) : f[i] = Insert(f[i - 1], xs[i], sec)
<1> DEFINE f == CHOOSE g : IsFill(g, xs, sec, Len(xs))
<1>1. Filled(xs, sec) = f[Len(xs)]
  BY DEF Filled, IsFill
<1>2. Len(xs) \in Nat
  BY SeqType
<1>3. IsFill(f, xs, sec, Len(xs))
  BY <1>2, FillExists
<1> HIDE DEF f
<1>4. \A i \in 0..Len(xs) : f[i] = IF i = 0 THEN NoSeries ELSE Insert(f[i - 1], xs[i], sec)
  BY <1>3 DEF IsFill
<1>5. f[0] = NoSeries /\ \A i \in 1..Len(xs) : f[i] = Insert(f[i - 1], xs[i], sec)
  BY <1>2, <1>4
<1> QED BY <1>1, <1>5

\* A series filled with points in the order of time has their window.
LEMMA FilledSound ==
  ASSUME NEW xs \in Seq(Points), Ordered(xs), \A x \in ToSet(xs) : x.time > 0,
         NEW sec \in Intervals
  PROVE  LET s == Filled(xs, sec)
         IN  /\ xs = <<>> => s = NoSeries
             /\ xs # <<>> => /\ Sound(s) /\ s.intervalSec = sec
                             /\ s.pts = Window(xs, sec)
                             /\ ToSet(s.pts) \subseteq ToSet(xs)
<1>0. Len(xs) \in Nat /\ \A i \in 1..Len(xs) : xs[i] \in Points /\ xs[i] \in ToSet(xs)
      /\ xs[i].time \in Nat
  BY SeqType
<1>1. PICK f : /\ Filled(xs, sec) = f[Len(xs)] /\ f[0] = NoSeries
               /\ \A i \in 1..Len(xs) : f[i] = Insert(f[i - 1], xs[i], sec)
  BY FilledIs
<1> DEFINE pre(i) == SubSeq(xs, 1, i)
           good(i) == /\ Sound(f[i]) /\ f[i].intervalSec = sec
                      /\ f[i].maxTime = xs[i].time
                      /\ f[i].pts = Left(pre(i), sec)
                      /\ ToSet(f[i].pts) \subseteq ToSet(xs)
           T == {i \in Nat : i \in 1..Len(xs) => good(i)}
<1>2. 0 \in T
  OBVIOUS
<1>3. ASSUME NEW i \in T PROVE i + 1 \in T
  <2> SUFFICES ASSUME i + 1 <= Len(xs) PROVE good(i + 1)
    OBVIOUS
  <2> DEFINE x == xs[i + 1]
             s == f[i]
             t == Opened(s, sec)
             n == f[i + 1]
  <2>1. i + 1 \in 1..Len(xs) /\ (i + 1) - 1 = i /\ i \in Nat
    BY <1>0
  <2>2. n = Insert(s, x, sec) /\ x \in Points /\ x.time \in Nat /\ x.time > 0
        /\ x \in ToSet(xs)
    BY <1>0, <1>1, <2>1
  <2>3. i # 0 => good(i) /\ i \in 1..Len(xs)
    BY <1>0, <2>1
  <2>4. s = NoSeries \/ Sound(s)
    BY <1>1, <2>3
  <2>5. /\ pre(i) \in Seq(Points) /\ Len(pre(i)) = i
        /\ \A j \in 1..i : pre(i)[j] = xs[j]
    <3>1. 1 \in 1..(Len(xs) + 1) /\ i \in (1 - 1)..Len(xs) /\ i - 1 + 1 = i
          /\ \A j \in 1..i : 1 + j - 1 = j
      BY <1>0, <2>1
    <3>2. /\ pre(i) \in Seq(Points) /\ Len(pre(i)) = i - 1 + 1
          /\ \A j \in 1..(i - 1 + 1) : pre(i)[j] = xs[1 + j - 1]
      BY <3>1, Piece
    <3> HIDE DEF pre
    <3> QED BY <3>1, <3>2
  <2>6. pre(i + 1) = Append(pre(i), x)
    <3>1. 1 \in 1..Len(xs) /\ i \in (1 - 1)..(Len(xs) - 1)
      BY <1>0, <2>1
    <3> QED BY <3>1, PieceAppend
  <2>7. s # NoSeries => i # 0
    BY <1>1
  <2> HIDE DEF s, n, x, good, pre
  <2>8. /\ Sound(n) /\ n.intervalSec = sec
        /\ ToSet(n.pts) \subseteq ToSet(t.pts) \cup {x}
        /\ x.time > t.maxTime => n.pts = Left(Append(t.pts, x), sec) /\ n.maxTime = x.time
    <3>0. x \in Points
      BY <2>2
    <3> HIDE DEF T
    <3>1. /\ Sound(Insert(s, x, sec)) /\ Insert(s, x, sec).intervalSec = sec
          /\ ToSet(Insert(s, x, sec).pts) \subseteq ToSet(Opened(s, sec).pts) \cup {x}
          /\ x.time > Opened(s, sec).maxTime =>
               /\ Insert(s, x, sec).pts = Grown(s, x, sec)
               /\ Insert(s, x, sec).maxTime = x.time
      <4>1. Inserts(s, x, sec)
        BY <3>0, <2>4, InsertSound
      <4> QED BY <4>1 DEF Inserts
    <3>2. Grown(s, x, sec) = Left(Append(t.pts, x), sec)
      BY DEF Grown, t
    <3> HIDE DEF t
    <3>3. t = Opened(s, sec)
      BY DEF t
    <3> QED BY <3>1, <3>2, <3>3, <2>2
  <2>9. /\ s = NoSeries => t.pts = <<>> /\ t.maxTime = 0
        /\ s # NoSeries => t.pts = s.pts /\ t.maxTime = s.maxTime
    BY <2>4, OpenedSound
  <2> HIDE DEF t
  <2>10. CASE i = 0
    <3>1. s = NoSeries
      BY <1>1, <2>10 DEF s
    <3>2. t.pts = <<>> /\ t.maxTime = 0
      BY <3>1, <2>9
    <3>3. pre(i) = <<>>
      BY <2>5, <2>10, EmptySeq
    <3>4. ToSet(<<>>) = {}
      <4>1. <<>> \in Seq(Points) /\ 1..Len(<<>>) = {}
        BY EmptySeq
      <4> QED BY <4>1, SeqType
    <3>5. n.pts = Left(pre(i + 1), sec) /\ n.maxTime = x.time
      BY <2>2, <2>6, <2>8, <3>2, <3>3
    <3>6. ToSet(n.pts) \subseteq ToSet(xs)
      BY <2>2, <2>8, <3>2, <3>4
    <3> QED BY <2>8, <3>5, <3>6 DEF good, n, x
  <2>11. CASE i # 0
    <3>1. good(i) /\ i \in 1..Len(xs)
      BY <2>3, <2>11
    <3>2. s # NoSeries
      BY <3>1, SeriesAssumption DEF good, Sound, s
    <3>3. t.pts = Left(pre(i), sec) /\ t.maxTime = xs[i].time
          /\ ToSet(t.pts) \subseteq ToSet(xs)
      BY <2>9, <3>1, <3>2 DEF good, s
    <3>4. xs[i].time < x.time
      BY <2>1, <3>1 DEF Ordered, x
    <3>5. pre(i) # <<>> => Last(pre(i)).time < x.time
      <4>1. Len(pre(i)) \in 1..i
        BY <2>5, <3>1
      <4> QED BY <4>1, <2>5, <3>4 DEF Last
    <3>6. x.time > t.maxTime
      BY <1>0, <2>2, <3>1, <3>3, <3>4
    <3>7. n.pts = Left(Append(Left(pre(i), sec), x), sec) /\ n.maxTime = x.time
      BY <2>8, <3>3, <3>6
    <3>8. n.pts = Left(pre(i + 1), sec)
      BY <2>2, <2>5, <2>6, <3>5, <3>7, LeftAppend
    <3>9. ToSet(n.pts) \subseteq ToSet(xs)
      BY <2>2, <2>8, <3>3
    <3> QED BY <2>8, <3>7, <3>8, <3>9 DEF good, n, x
  <2> QED BY <2>10, <2>11
<1>4. T = Nat
  <2> HIDE DEF good
  <2> QED BY <1>2, <1>3, Ind
<1>5. CASE xs = <<>>
  BY <1>1, <1>5, EmptySeq
<1>6. CASE xs # <<>>
  <2>1. Len(xs) \in 1..Len(xs)
    BY <1>0, <1>6, SeqType
  <2>2. good(Len(xs))
    <3> HIDE DEF good
    <3> QED BY <1>0, <1>4, <2>1
  <2>3. pre(Len(xs)) = xs
    BY SubSeqFull
  <2>4. Left(xs, sec) = Window(xs, sec)
    BY <1>6, LeftIsWindow
  <2> QED BY <1>1, <1>6, <2>2, <2>3, <2>4
<1> QED BY <1>5, <1>6

-----------------------------------------------------------------------------
(* The last point                                                          *)

LEMMA LastIsLatest ==
  ASSUME NEW xs \in Seq(Points), xs # <<>>
  PROVE  /\ Last(xs) \in ToSet(xs) /\ Last(xs) \in Points
         /\ Ordered(xs) => \A x \in ToSet(xs) : x.time <= Last(xs).time
<1>1. Len(xs) \in 1..Len(xs) /\ Len(xs) \in Nat
  BY SeqType
<1>2. Last(xs) \in ToSet(xs) /\ Last(xs) \in Points
  BY <1>1, SeqType DEF Last
<1>3. ASSUME Ordered(xs), NEW i \in 1..Len(xs) PROVE xs[i].time <= Last(xs).time
  <2>1. xs[i].time \in Nat /\ xs[Len(xs)].time \in Nat
    BY <1>1, SeqType
  <2>2. i < Len(xs) => xs[i].time < xs[Len(xs)].time
    BY <1>1, <1>3 DEF Ordered
  <2>3. i = Len(xs) \/ i < Len(xs)
    BY <1>1
  <2> QED BY <2>1, <2>2, <2>3 DEF Last
<1>4. ToSet(xs) = {xs[i] : i \in 1..Len(xs)}
  BY SeqType
<1> QED BY <1>2, <1>3, <1>4

LEMMA NoneOfEmpty == <<>> \in Seq(Points) /\ Ordered(<<>>) /\ ToSet(<<>>) = {}
<1>1. <<>> \in Seq(Points) /\ 1..Len(<<>>) = {}
  BY EmptySeq
<1> QED BY <1>1, SeqType DEF Ordered

LEMMA PointsOf ==
  ASSUME NEW xs \in Seq(Points)
  PROVE  \A x \in ToSet(xs) : x \in Points /\ x.time \in Nat
<1>1. ToSet(xs) = {xs[i] : i \in 1..Len(xs)}
      /\ \A i \in 1..Len(xs) : xs[i] \in Points /\ xs[i].time \in Nat
  BY SeqType
<1> QED BY <1>1

\* The first point is one of the sequence.
LEMMA FirstIsOne ==
  ASSUME NEW xs \in Seq(Points), xs # <<>>
  PROVE  xs[1] \in Points /\ xs[1] \in ToSet(xs)
<1>1. 1 \in 1..Len(xs)
  BY SeqType
<1> QED BY <1>1, SeqType

=============================================================================
