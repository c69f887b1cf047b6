---------------------------- MODULE FunctionsProofs ----------------------------
(***************************************************************************)
(* Proofs about Algorithms and Parsers, for any digits and lists of any    *)
(* length: what each function returns is what its property says.  A loop   *)
(* is a function of the elements it has been through; that there is one is *)
(* LoopExists, and what holds of it after each element follows with Climb. *)
(***************************************************************************)
EXTENDS Parsers, FiniteSetTheorems, FunctionTheorems, SequenceTheorems,
        NaturalsInduction, WellFoundedInduction, TLAPS

-----------------------------------------------------------------------------
(* Loops.                                                                   *)

Less == {p \in Nat \X Nat : p[1] < p[2]}

LEMMA LessWF == IsWellFoundedOn(Less, Nat)
<1>1. OpToRel(<, Nat) = Less
  BY DEF OpToRel, Less
<1>2. QED
  BY <1>1, NatLessThanWellFounded

(* A set of natural numbers has a least one.                                *)
LEMMA NatMin ==
  ASSUME NEW T, T \subseteq Nat, T # {}
  PROVE \E x \in T : \A y \in T : x <= y
<1>1. \E x \in T : \A y \in T : ~(<<y, x>> \in Less)
  BY WFMin, LessWF
<1>2. \A x, y \in Nat : <<y, x>> \in Less <=> y < x
  BY DEF Less
<1>3. QED
  <2>1. PICK x \in T : \A y \in T : ~(<<y, x>> \in Less)
    BY <1>1
  <2>2. ASSUME NEW y \in T PROVE x <= y
    <3>1. x \in Nat /\ y \in Nat
      OBVIOUS
    <3>2. ~(<<y, x>> \in Less)
      BY <2>1
    <3>3. ~(y < x)
      BY <3>1, <3>2, <1>2
    <3>4. QED
      BY <3>1, <3>3
  <2>3. QED
    BY <2>2

(* What holds at a, and at each k if it does at k - 1, holds up to n:       *)
(* otherwise there is a least k at which it does not. It stands for         *)
(* induction over the elements a loop has been through.                     *)
LEMMA Climb ==
  ASSUME NEW a \in Nat, NEW n \in Nat, NEW T, a \in T,
         \A k \in a..n : k > a /\ k - 1 \in T => k \in T
  PROVE  \A k \in a..n : k \in T
<1> DEFINE bad == {k \in a..n : k \notin T}
<1> SUFFICES ASSUME bad # {} PROVE FALSE
  OBVIOUS
<1>1. PICK k \in bad : \A x \in bad : k <= x
  <2>1. bad \subseteq Nat
    OBVIOUS
  <2> HIDE DEF bad
  <2>2. QED
    BY <2>1, NatMin
<1>2. k \in a..n /\ k \notin T /\ k # a /\ k > a /\ k - 1 \in a..n
  BY <1>1
<1>3. k - 1 \in T
  BY <1>1, <1>2
<1>4. QED
  BY <1>2, <1>3

(* There is such a function as a loop defines: it begins with first, and    *)
(* the step to the k-th makes f of what it has.                             *)
Loop(g, a, n, first, f) ==
  \A k \in a..n : g[k] = IF k = a THEN first ELSE f[<<g[k - 1], k>>]

LEMMA LoopExists ==
  ASSUME NEW a \in Nat, NEW n \in Nat, NEW S, NEW first \in S,
         NEW f \in [S \X (a..n) -> S]
  PROVE  \E g \in [a..n -> S] : Loop(g, a, n, first, f)
<1> DEFINE Says(g, m) == Loop(g, a, m, first, f)
           T == {m \in Nat : \E g \in [a..m -> S] : Says(g, m)}
<1>1. a \in T
  <2> DEFINE g == [k \in a..a |-> first]
  <2>1. g \in [a..a -> S] /\ Says(g, a)
    BY DEF Loop
  <2> HIDE DEF g, Says
  <2>2. QED
    BY <2>1
<1>2. ASSUME NEW m \in a..n, m > a, m - 1 \in T
      PROVE  m \in T
  <2>1. PICK h \in [a..(m - 1) -> S] : Says(h, m - 1)
    BY <1>2
  <2>2. m - 1 \in a..(m - 1) /\ h[m - 1] \in S /\ f[<<h[m - 1], m>>] \in S
    BY <1>2
  <2> DEFINE last == f[<<h[m - 1], m>>]
             g == [k \in a..m |-> IF k = m THEN last ELSE h[k]]
  <2> HIDE DEF last
  <2>3. g \in [a..m -> S]
    BY <1>2, <2>2 DEF last
  <2>4. ASSUME NEW k \in a..m
        PROVE  g[k] = IF k = a THEN first ELSE f[<<g[k - 1], k>>]
    <3>1. CASE k = m
      <4>1. g[k] = last /\ g[k - 1] = h[m - 1] /\ k # a
        BY <1>2, <3>1
      <4>2. QED
        BY <3>1, <4>1 DEF last
    <3>2. CASE k # m
      <4>1. k \in a..(m - 1) /\ g[k] = h[k]
        BY <1>2, <3>2
      <4>2. h[k] = IF k = a THEN first ELSE f[<<h[k - 1], k>>]
        BY <2>1, <4>1 DEF Loop
      <4>3. CASE k = a
        BY <4>1, <4>2, <4>3
      <4>4. CASE k # a
        <5>1. k - 1 \in a..m /\ k - 1 # m
          BY <4>1, <4>4
        <5>2. g[k - 1] = h[k - 1]
          BY <5>1
        <5>3. QED
          BY <4>1, <4>2, <4>4, <5>2
      <4>5. QED
        BY <4>3, <4>4
    <3>3. QED
      BY <3>1, <3>2
  <2>5. m \in Nat
    BY <1>2
  <2> HIDE DEF g
  <2>6. Says(g, m)
    BY <2>4 DEF Loop
  <2> HIDE DEF Says
  <2>7. QED
    BY <2>3, <2>5, <2>6
<1>3. CASE n >= a
  <2> HIDE DEF T
  <2>1. \A k \in a..n : k \in T
    BY <1>1, <1>2, Climb
  <2>2. n \in T
    BY <1>3, <2>1
  <2>3. QED
    BY <2>2 DEF T
<1>4. CASE n < a
  <2> DEFINE g == [k \in a..n |-> first]
  <2>1. g \in [a..n -> S] /\ a..n = {}
    BY <1>4
  <2> HIDE DEF g
  <2>2. QED
    BY <2>1 DEF Loop
<1>5. QED
  BY <1>3, <1>4

(* The greatest and the least of a set.                                     *)
LEMMA MaxSays ==
  ASSUME NEW n \in Nat, NEW T, T \subseteq 0..n, T # {}
  PROVE  Max(T) \in T /\ \A y \in T : y <= Max(T)
<1> DEFINE below == {n - x : x \in T}
<1>1. PICK m \in below : \A y \in below : m <= y
  <2>1. below \subseteq Nat
    OBVIOUS
  <2>2. PICK x \in T : TRUE
    OBVIOUS
  <2>3. n - x \in below
    OBVIOUS
  <2> HIDE DEF below
  <2>4. QED
    BY <2>1, <2>3, NatMin
<1>2. PICK x \in T : m = n - x
  BY <1>1
<1>3. \A y \in T : y <= x
  <2> TAKE y \in T
  <2>1. n - y \in below /\ x \in Int /\ y \in Int
    OBVIOUS
  <2>2. n - x <= n - y
    BY <1>1, <1>2, <2>1
  <2>3. QED
    BY <2>1, <2>2
<1>4. \E z \in T : \A y \in T : z >= y
  BY <1>3
<1>5. Max(T) \in T /\ \A y \in T : Max(T) >= y
  BY <1>4 DEF Max
<1>6. QED
  BY <1>5

LEMMA MinSays ==
  ASSUME NEW T, T \subseteq Nat, T # {}
  PROVE  Min(T) \in T /\ \A y \in T : Min(T) <= y
<1>1. \E x \in T : \A y \in T : x <= y
  BY NatMin
<1>2. QED
  BY <1>1 DEF Min

(* Where an element is put between others.                                  *)
LEMMA InsertAtSays ==
  ASSUME NEW E, NEW s \in Seq(E), NEW x \in E, NEW stop \in 0..Len(s)
  PROVE  /\ InsertAt(s, stop + 1, x) \in Seq(E)
         /\ Len(InsertAt(s, stop + 1, x)) = Len(s) + 1
         /\ \A k \in 1..(Len(s) + 1) :
              InsertAt(s, stop + 1, x)[k] =
                IF k <= stop THEN s[k] ELSE IF k = stop + 1 THEN x ELSE s[k - 1]
<1> DEFINE u == SubSeq(s, 1, stop)
           v == SubSeq(s, stop + 1, Len(s))
           one == <<x>>
<1>1. Len(s) \in Nat /\ stop \in Nat /\ stop <= Len(s)
  OBVIOUS
<1>2. u \in Seq(E) /\ Len(u) = stop /\ \A k \in 1..stop : u[k] = s[k]
  <2>1. \A i \in 1..stop : s[i] \in E
    BY <1>1, ElementOfSeq
  <2>2. QED
    BY <1>1, <2>1, SubSeqProperties
<1>3. v \in Seq(E) /\ Len(v) = Len(s) - stop /\ \A k \in 1..(Len(s) - stop) : v[k] = s[stop + k]
  <2>1. \A i \in (stop + 1)..Len(s) : s[i] \in E
    BY <1>1, ElementOfSeq
  <2>2. /\ Len(v) = IF stop + 1 <= Len(s) THEN Len(s) - (stop + 1) + 1 ELSE 0
        /\ \A k \in 1..(Len(s) - (stop + 1) + 1) : v[k] = s[stop + 1 + k - 1]
        /\ v \in Seq(E)
    BY <1>1, <2>1, SubSeqProperties
  <2>3. QED
    BY <1>1, <2>2
<1>4. one \in Seq(E) /\ Len(one) = 1 /\ one[1] = x
  OBVIOUS
<1> HIDE DEF u, v, one
<1>5. /\ u \o one \in Seq(E) /\ Len(u \o one) = stop + 1
      /\ \A k \in 1..(stop + 1) : (u \o one)[k] = IF k <= stop THEN s[k] ELSE x
  <2>1. u \o one \in Seq(E) /\ Len(u \o one) = Len(u) + Len(one)
    BY <1>2, <1>4, ConcatProperties
  <2>2. \A k \in 1..(Len(u) + Len(one)) :
          (u \o one)[k] = IF k <= Len(u) THEN u[k] ELSE one[k - Len(u)]
    BY <1>2, <1>4, ConcatProperties
  <2>3. ASSUME NEW k \in 1..(stop + 1)
        PROVE  (u \o one)[k] = IF k <= stop THEN s[k] ELSE x
    <3>1. k \in 1..(Len(u) + Len(one)) /\ (k <= stop => k \in 1..stop) /\ (~(k <= stop) => k - Len(u) = 1)
      BY <1>1, <1>2, <1>4
    <3>2. QED
      BY <1>2, <1>4, <2>2, <3>1
  <2>4. QED
    BY <1>1, <1>2, <1>4, <2>1, <2>3
<1> DEFINE w == u \o one
<1> HIDE DEF w
<1>6. w \in Seq(E) /\ Len(w) = stop + 1 /\ \A k \in 1..(stop + 1) : w[k] = IF k <= stop THEN s[k] ELSE x
  BY <1>5 DEF w
<1>7. w \o v \in Seq(E) /\ Len(w \o v) = Len(w) + Len(v)
  BY <1>3, <1>6, ConcatProperties
<1>8. \A k \in 1..(Len(w) + Len(v)) : (w \o v)[k] = IF k <= Len(w) THEN w[k] ELSE v[k - Len(w)]
  BY <1>3, <1>6, ConcatProperties
<1>9. ASSUME NEW k \in 1..(Len(s) + 1)
      PROVE  (w \o v)[k] = IF k <= stop THEN s[k] ELSE IF k = stop + 1 THEN x ELSE s[k - 1]
  <2>1. k \in 1..(Len(w) + Len(v)) /\ k \in Nat
    BY <1>1, <1>3, <1>6
  <2>2. CASE k <= stop + 1
    <3>1. k \in 1..(stop + 1) /\ (w \o v)[k] = w[k]
      BY <1>1, <1>6, <1>8, <2>1, <2>2
    <3>2. QED
      BY <1>1, <1>6, <2>1, <2>2, <3>1
  <2>3. CASE ~(k <= stop + 1)
    <3>1. k - (stop + 1) \in 1..(Len(s) - stop) /\ stop + (k - (stop + 1)) = k - 1
      BY <1>1, <2>1, <2>3
    <3>2. (w \o v)[k] = v[k - (stop + 1)]
      BY <1>6, <1>8, <2>1, <2>3
    <3>3. v[k - (stop + 1)] = s[stop + (k - (stop + 1))]
      BY <1>3, <3>1
    <3>4. QED
      BY <1>1, <2>1, <2>3, <3>1, <3>2, <3>3
  <2>4. QED
    BY <2>2, <2>3
<1>10. InsertAt(s, stop + 1, x) = w \o v
  <2>1. (stop + 1) - 1 = stop
    BY <1>1
  <2>2. InsertAt(s, stop + 1, x) = SubSeq(s, 1, (stop + 1) - 1) \o <<x>> \o SubSeq(s, stop + 1, Len(s))
    BY DEF InsertAt
  <2>3. InsertAt(s, stop + 1, x) = SubSeq(s, 1, stop) \o <<x>> \o SubSeq(s, stop + 1, Len(s))
    BY <2>1, <2>2, Zenon
  <2>4. QED
    BY <2>3 DEF w, u, v, one
<1>11. Len(w) + Len(v) = Len(s) + 1
  BY <1>1, <1>3, <1>6
<1>12. QED
  BY <1>7, <1>9, <1>10, <1>11

(* Insert puts x behind the last it is not less than: t is s with x there.  *)
PutBehind(t, s, x, less, stop) ==
  /\ stop # 0 => <<x, s[stop]>> \notin less
  /\ \A k \in (stop + 1)..Len(s) : <<x, s[k]>> \in less
  /\ \A k \in 1..(Len(s) + 1) :
       t[k] = IF k <= stop THEN s[k] ELSE IF k = stop + 1 THEN x ELSE s[k - 1]

LEMMA InsertSays ==
  ASSUME NEW E, NEW s \in Seq(E), NEW x \in E, NEW less
  PROVE  /\ Insert(s, x, less) \in Seq(E)
         /\ Len(Insert(s, x, less)) = Len(s) + 1
         /\ \E stop \in 0..Len(s) : PutBehind(Insert(s, x, less), s, x, less, stop)
<1> DEFINE T == {0} \cup {k \in DOMAIN s : <<x, s[k]>> \notin less}
           stop == Max(T)
<1>1. Len(s) \in Nat /\ DOMAIN s = 1..Len(s)
  OBVIOUS
<1>2. stop \in T /\ \A y \in T : y <= stop
  <2>1. T \subseteq 0..Len(s) /\ T # {}
    BY <1>1
  <2> HIDE DEF T
  <2>2. QED
    BY <1>1, <2>1, MaxSays
<1> HIDE DEF stop
<1>3. stop \in 0..Len(s) /\ (stop # 0 => <<x, s[stop]>> \notin less)
  BY <1>1, <1>2
<1>4. \A k \in (stop + 1)..Len(s) : <<x, s[k]>> \in less
  <2> SUFFICES ASSUME NEW k \in (stop + 1)..Len(s), <<x, s[k]>> \notin less PROVE FALSE
    OBVIOUS
  <2>1. k \in 1..Len(s) /\ stop < k
    BY <1>1, <1>3
  <2>2. k \in T
    BY <1>1, <2>1
  <2>3. QED
    BY <1>2, <1>3, <2>1, <2>2
<1>5. Insert(s, x, less) = InsertAt(s, stop + 1, x)
  BY DEF Insert, stop
<1>6. /\ Insert(s, x, less) \in Seq(E)
      /\ Len(Insert(s, x, less)) = Len(s) + 1
      /\ \A k \in 1..(Len(s) + 1) :
           Insert(s, x, less)[k] =
             IF k <= stop THEN s[k] ELSE IF k = stop + 1 THEN x ELSE s[k - 1]
  <2> HIDE DEF T
  <2>1. /\ InsertAt(s, stop + 1, x) \in Seq(E)
        /\ Len(InsertAt(s, stop + 1, x)) = Len(s) + 1
        /\ \A k \in 1..(Len(s) + 1) :
             InsertAt(s, stop + 1, x)[k] =
               IF k <= stop THEN s[k] ELSE IF k = stop + 1 THEN x ELSE s[k - 1]
    BY <1>3, InsertAtSays
  <2>2. QED
    BY <1>5, <2>1
<1>7. PutBehind(Insert(s, x, less), s, x, less, stop)
  BY <1>3, <1>4, <1>6 DEF PutBehind
<1>8. QED
  BY <1>3, <1>6, <1>7

-----------------------------------------------------------------------------
(* Sorting.                                                                 *)

(* SortBy inserts one by one.                                               *)
LEMMA SortBySays ==
  ASSUME NEW E, NEW s \in Seq(E), NEW less
  PROVE  \E g : /\ SortBy(s, less) = g[Len(s)]
                /\ \A k \in 0..Len(s) : g[k] = IF k = 0 THEN <<>> ELSE Insert(g[k - 1], s[k], less)
<1> DEFINE S == Seq(E)
           n == Len(s)
           first == <<>>
           f == [p \in S \X (0..n) |-> IF p[2] = 0 THEN first ELSE Insert(p[1], s[p[2]], less)]
<1>1. n \in Nat /\ 0 \in Nat /\ first \in S
  OBVIOUS
<1>2. ASSUME NEW r \in S, NEW k \in 0..n, k # 0
      PROVE  Insert(r, s[k], less) \in S
  <2>1. s[k] \in E
    BY <1>1, <1>2
  <2>2. QED
    BY <1>2, <2>1, InsertSays
<1>3. f \in [S \X (0..n) -> S]
  BY <1>1, <1>2
<1>4. \A r \in S, k \in 0..n : k # 0 => f[<<r, k>>] = Insert(r, s[k], less)
  OBVIOUS
<1> HIDE DEF f, S, n, first
<1>5. PICK g \in [0..n -> S] : Loop(g, 0, n, first, f)
  BY <1>1, <1>3, LoopExists
<1> DEFINE h == [k \in 0..n |-> IF k = 0 THEN first ELSE Insert(g[k - 1], s[k], less)]
<1>6. ASSUME NEW k \in 0..n
      PROVE  g[k] = h[k]
  <2>1. CASE k = 0
    BY <1>5, <2>1 DEF Loop
  <2>2. CASE k # 0
    <3>1. k - 1 \in 0..n /\ g[k - 1] \in S
      BY <1>1, <2>2
    <3>2. f[<<g[k - 1], k>>] = Insert(g[k - 1], s[k], less)
      BY <1>4, <2>2, <3>1
    <3>3. QED
      BY <1>5, <2>2, <3>2 DEF Loop
  <2>3. QED
    BY <2>1, <2>2
<1>7. g = h
  <2>1. g = [k \in 0..n |-> g[k]]
    OBVIOUS
  <2>2. QED
    BY <1>6, <2>1
<1>8. \E q : q = [k \in 0..Len(s) |-> IF k = 0 THEN <<>> ELSE Insert(q[k - 1], s[k], less)]
  BY <1>7 DEF n, first
<1>9. QED
  BY <1>8 DEF SortBy

(* Insert keeps what there is and adds x.                                   *)
LEMMA InsertKeeps ==
  ASSUME NEW E, NEW s \in Seq(E), NEW x \in E, NEW less
  PROVE  ToSet(Insert(s, x, less)) = ToSet(s) \cup {x}
<1> DEFINE t == Insert(s, x, less)
           n == Len(s)
<1>1. n \in Nat /\ DOMAIN s = 1..n
  OBVIOUS
<1> HIDE DEF t
<1>2. PICK stop \in 0..n : PutBehind(t, s, x, less, stop)
  BY InsertSays DEF t
<1>3. t \in Seq(E) /\ Len(t) = n + 1
  BY InsertSays DEF t
<1>4. DOMAIN t = 1..(n + 1)
  BY <1>3
<1>5. \A k \in 1..(n + 1) : t[k] = IF k <= stop THEN s[k] ELSE IF k = stop + 1 THEN x ELSE s[k - 1]
  BY <1>2 DEF PutBehind
<1> HIDE DEF n
<1>6. ASSUME NEW k \in 1..(n + 1)
      PROVE  t[k] \in ToSet(s) \cup {x}
  <2>1. (k <= stop => k \in 1..n) /\ (~(k <= stop) /\ k # stop + 1 => k - 1 \in 1..n)
    BY <1>1
  <2>2. QED
    BY <1>1, <1>5, <2>1 DEF ToSet
<1>7. x \in ToSet(t)
  <2>1. stop + 1 \in 1..(n + 1) /\ ~(stop + 1 <= stop)
    BY <1>1
  <2>2. t[stop + 1] = x
    BY <1>5, <2>1
  <2>3. QED
    BY <1>4, <2>1, <2>2 DEF ToSet
<1>8. ASSUME NEW k \in 1..n
      PROVE  s[k] \in ToSet(t)
  <2>1. CASE k <= stop
    <3>1. k \in 1..(n + 1) /\ t[k] = s[k]
      BY <1>1, <1>5, <2>1
    <3>2. QED
      BY <1>4, <3>1 DEF ToSet
  <2>2. CASE ~(k <= stop)
    <3>1. k + 1 \in 1..(n + 1) /\ ~(k + 1 <= stop) /\ k + 1 # stop + 1 /\ (k + 1) - 1 = k
      BY <1>1, <2>2
    <3>2. t[k + 1] = s[k]
      BY <1>5, <3>1
    <3>3. QED
      BY <1>4, <3>1, <3>2 DEF ToSet
  <2>3. QED
    BY <2>1, <2>2
<1>9. ToSet(t) \subseteq ToSet(s) \cup {x}
  BY <1>4, <1>6 DEF ToSet
<1>10. ToSet(s) \subseteq ToSet(t)
  BY <1>1, <1>8 DEF ToSet
<1>11. QED
  BY <1>7, <1>9, <1>10 DEF t

(* What is sorted is what was given.                                        *)
LEMMA SortByKeeps ==
  ASSUME NEW E, NEW s \in Seq(E), NEW less
  PROVE  /\ SortBy(s, less) \in Seq(E)
         /\ Len(SortBy(s, less)) = Len(s)
         /\ ToSet(SortBy(s, less)) = ToSet(s)
<1> DEFINE n == Len(s)
           Upto(k) == {s[i] : i \in 1..k}
<1>1. n \in Nat /\ 0 \in Nat /\ DOMAIN s = 1..n
  OBVIOUS
<1>2. PICK g : /\ SortBy(s, less) = g[n]
               /\ \A k \in 0..n : g[k] = IF k = 0 THEN <<>> ELSE Insert(g[k - 1], s[k], less)
  BY SortBySays
<1> DEFINE T == {k \in 0..n : g[k] \in Seq(E) /\ Len(g[k]) = k /\ ToSet(g[k]) = Upto(k)}
<1>3. 0 \in T
  <2>1. 0 \in 0..n /\ g[0] = <<>>
    BY <1>1, <1>2
  <2>2. g[0] \in Seq(E) /\ Len(g[0]) = 0 /\ ToSet(g[0]) = {}
    BY <2>1 DEF ToSet
  <2>3. Upto(0) = {}
    OBVIOUS
  <2>4. QED
    BY <2>1, <2>2, <2>3
<1>4. ASSUME NEW k \in 0..n, k > 0, k - 1 \in T
      PROVE  k \in T
  <2>1. s[k] \in E /\ k - 1 \in 0..n /\ k # 0
    BY <1>1, <1>4
  <2>2. g[k - 1] \in Seq(E) /\ Len(g[k - 1]) = k - 1 /\ ToSet(g[k - 1]) = Upto(k - 1)
    BY <1>4
  <2>3. g[k] = Insert(g[k - 1], s[k], less)
    BY <1>2, <2>1
  <2>4. g[k] \in Seq(E) /\ Len(g[k]) = (k - 1) + 1
    BY <2>1, <2>2, <2>3, InsertSays
  <2>5. ToSet(g[k]) = Upto(k - 1) \cup {s[k]}
    BY <2>1, <2>2, <2>3, InsertKeeps
  <2>6. Upto(k - 1) \cup {s[k]} = Upto(k)
    <3>1. \A i \in Int : i \in 1..k <=> i \in 1..(k - 1) \/ i = k
      BY <1>4, <2>1
    <3>2. QED
      BY <3>1
  <2>7. QED
    BY <1>4, <2>4, <2>5, <2>6
<1> HIDE DEF T
<1>5. \A k \in 0..n : k \in T
  BY <1>1, <1>3, <1>4, Climb
<1>6. n \in T
  BY <1>1, <1>5
<1>7. g[n] \in Seq(E) /\ Len(g[n]) = n /\ ToSet(g[n]) = Upto(n)
  BY <1>6 DEF T
<1>8. Upto(n) = ToSet(s)
  BY <1>1 DEF ToSet
<1>9. QED
  BY <1>2, <1>7, <1>8

(* The order of the first component, and its negation.                      *)
Orders(less, E) == \A p, q \in E : <<p, q>> \in less <=> p[1] < q[1]

Negates(more, E) == \A p, q \in E : <<p, q>> \in more <=> ~(p[1] < q[1])

Ascends(t) == \A i, j \in 1..Len(t) : i < j => t[i][1] <= t[j][1]

(* Insert into what ascends, with less or with its negation, ascends.       *)
LEMMA InsertAscends ==
  ASSUME NEW E, \A p \in E : p[1] \in Int,
         NEW s \in Seq(E), NEW x \in E, Ascends(s),
         NEW less, Orders(less, E)
  PROVE  Ascends(Insert(s, x, less))
<1> DEFINE t == Insert(s, x, less)
           n == Len(s)
<1>1. n \in Nat /\ \A k \in 1..n : s[k] \in E /\ s[k][1] \in Int
  BY ElementOfSeq
<1> HIDE DEF t
<1>2. PICK stop \in 0..n : PutBehind(t, s, x, less, stop)
  BY InsertSays DEF t
<1>3. Len(t) = n + 1
  BY InsertSays DEF t
<1>4. /\ stop # 0 => <<x, s[stop]>> \notin less
      /\ \A k \in (stop + 1)..n : <<x, s[k]>> \in less
      /\ \A k \in 1..(n + 1) : t[k] = IF k <= stop THEN s[k] ELSE IF k = stop + 1 THEN x ELSE s[k - 1]
  BY <1>2 DEF PutBehind
<1> HIDE DEF n
<1>5. ASSUME NEW k \in 1..stop PROVE s[k][1] <= x[1]
  <2>1. stop \in 1..n /\ k \in 1..n /\ stop # 0
    BY <1>1
  <2>2. s[stop][1] <= x[1]
    BY <1>1, <1>4, <2>1 DEF Orders
  <2>3. k = stop \/ s[k][1] <= s[stop][1]
    BY <1>1, <2>1 DEF Ascends, n
  <2>4. QED
    BY <1>1, <2>1, <2>2, <2>3
<1>6. ASSUME NEW k \in (stop + 1)..n PROVE x[1] < s[k][1]
  <2>1. k \in 1..n
    BY <1>1
  <2>2. QED
    BY <1>1, <1>4, <2>1 DEF Orders
<1>7. ASSUME NEW i \in 1..(n + 1), NEW j \in 1..(n + 1), i < j
      PROVE  t[i][1] <= t[j][1]
  <2>1. i \in Nat /\ j \in Nat /\ stop \in Nat
    BY <1>1
  <2>2. CASE j <= stop
    <3>1. t[i] = s[i] /\ t[j] = s[j] /\ i \in 1..n /\ j \in 1..n
      BY <1>1, <1>4, <1>7, <2>1, <2>2
    <3>2. QED
      BY <1>7, <3>1 DEF Ascends, n
  <2>3. CASE j = stop + 1
    <3>1. t[i] = s[i] /\ t[j] = x /\ i \in 1..stop
      BY <1>1, <1>4, <1>7, <2>1, <2>3
    <3>2. QED
      BY <1>5, <3>1
  <2>4. CASE j > stop + 1
    <3>1. t[j] = s[j - 1] /\ j - 1 \in 1..n /\ j - 1 \in (stop + 1)..n
      BY <1>1, <1>4, <2>1, <2>4
    <3>2. CASE i <= stop
      <4>1. t[i] = s[i] /\ i \in 1..n /\ i < j - 1
        BY <1>1, <1>4, <2>1, <2>4, <3>2
      <4>2. QED
        BY <3>1, <4>1 DEF Ascends, n
    <3>3. CASE i = stop + 1
      <4>1. t[i] = x
        BY <1>1, <1>4, <2>1, <3>3
      <4>2. x[1] < s[j - 1][1] /\ x[1] \in Int /\ s[j - 1][1] \in Int
        BY <1>1, <1>6, <3>1
      <4>3. QED
        BY <3>1, <4>1, <4>2
    <3>4. CASE i > stop + 1
      <4>1. t[i] = s[i - 1] /\ i - 1 \in 1..n /\ i - 1 < j - 1
        BY <1>1, <1>4, <1>7, <2>1, <3>4
      <4>2. QED
        BY <3>1, <4>1 DEF Ascends, n
    <3>5. QED
      BY <2>1, <3>2, <3>3, <3>4
  <2>5. QED
    BY <2>1, <2>2, <2>3, <2>4
<1>8. QED
  BY <1>3, <1>7 DEF Ascends, t

(* What is sorted by the first component ascends.                           *)
LEMMA SortByAscends ==
  ASSUME NEW E, \A p \in E : p[1] \in Int, NEW s \in Seq(E),
         NEW less, Orders(less, E)
  PROVE  Ascends(SortBy(s, less))
<1> DEFINE n == Len(s)
<1>1. n \in Nat /\ 0 \in Nat
  OBVIOUS
<1>2. PICK g : /\ SortBy(s, less) = g[n]
               /\ \A k \in 0..n : g[k] = IF k = 0 THEN <<>> ELSE Insert(g[k - 1], s[k], less)
  BY SortBySays
<1> DEFINE T == {k \in 0..n : g[k] \in Seq(E) /\ Ascends(g[k])}
<1>3. 0 \in T
  <2>1. 0 \in 0..n /\ g[0] = <<>>
    BY <1>1, <1>2
  <2>2. g[0] \in Seq(E) /\ Len(g[0]) = 0
    BY <2>1
  <2>3. Ascends(g[0])
    BY <2>2 DEF Ascends
  <2>4. QED
    BY <2>1, <2>2, <2>3
<1>4. ASSUME NEW k \in 0..n, k > 0, k - 1 \in T
      PROVE  k \in T
  <2>1. s[k] \in E /\ k - 1 \in 0..n /\ k # 0
    BY <1>1, <1>4
  <2>2. g[k - 1] \in Seq(E) /\ Ascends(g[k - 1])
    BY <1>4
  <2>3. g[k] = Insert(g[k - 1], s[k], less)
    BY <1>2, <2>1
  <2>4. g[k] \in Seq(E)
    BY <2>1, <2>2, <2>3, InsertSays
  <2>5. Ascends(g[k])
    <3> DEFINE u == g[k - 1]
               x == s[k]
    <3>1. u \in Seq(E) /\ Ascends(u) /\ x \in E /\ g[k] = Insert(u, x, less)
      BY <2>1, <2>2, <2>3
    <3> HIDE DEF u, x
    <3>2. Ascends(Insert(u, x, less))
      BY <3>1, InsertAscends
    <3>3. QED
      BY <3>1, <3>2
  <2>6. QED
    BY <1>4, <2>4, <2>5
<1> HIDE DEF T
<1>5. \A k \in 0..n : k \in T
  BY <1>1, <1>3, <1>4, Climb
<1>6. n \in T
  BY <1>1, <1>5
<1>7. QED
  BY <1>2, <1>6 DEF T

(* In order of the first component, and of the second where it is the same. *)
Lex(p, q) == p[1] < q[1] \/ (p[1] = q[1] /\ p[2] < q[2])

LexOrdered(t) == \A i, j \in 1..Len(t) : i < j => Lex(t[i], t[j])

(* What has come last goes behind its equals.                               *)
LEMMA InsertOrdered ==
  ASSUME NEW E, E \subseteq Int \X Int,
         NEW s \in Seq(E), NEW x \in E, LexOrdered(s),
         \A k \in 1..Len(s) : s[k][2] < x[2],
         NEW less, Orders(less, E)
  PROVE  LexOrdered(Insert(s, x, less))
<1> DEFINE t == Insert(s, x, less)
           n == Len(s)
<1>1. /\ n \in Nat
      /\ \A k \in 1..n : s[k] \in E /\ s[k][1] \in Int /\ s[k][2] \in Int
      /\ x[1] \in Int /\ x[2] \in Int
  <2>1. \A p \in E : p[1] \in Int /\ p[2] \in Int
    OBVIOUS
  <2>2. n \in Nat /\ \A k \in 1..n : s[k] \in E
    BY ElementOfSeq
  <2>3. QED
    BY <2>1, <2>2
<1> HIDE DEF t
<1>2. PICK stop \in 0..n : PutBehind(t, s, x, less, stop)
  BY InsertSays DEF t
<1>3. Len(t) = n + 1
  BY InsertSays DEF t
<1>4. /\ stop # 0 => <<x, s[stop]>> \notin less
      /\ \A k \in (stop + 1)..n : <<x, s[k]>> \in less
      /\ \A k \in 1..(n + 1) : t[k] = IF k <= stop THEN s[k] ELSE IF k = stop + 1 THEN x ELSE s[k - 1]
  BY <1>2 DEF PutBehind
<1>5. \A i, j \in 1..n : i < j => Lex(s[i], s[j])
  BY DEF LexOrdered
<1>6. \A k \in 1..n : s[k][2] < x[2]
  OBVIOUS
<1> HIDE DEF n
<1>7. ASSUME NEW k \in 1..stop PROVE Lex(s[k], x)
  <2>1. stop \in 1..n /\ k \in 1..n /\ stop # 0
    BY <1>1
  <2>2. s[stop][1] <= x[1]
    BY <1>1, <1>4, <2>1 DEF Orders
  <2>3. k = stop \/ s[k][1] <= s[stop][1]
    <3>1. k = stop \/ Lex(s[k], s[stop])
      BY <1>1, <1>5, <2>1
    <3>2. QED
      BY <1>1, <2>1, <3>1 DEF Lex
  <2>4. s[k][1] <= x[1] /\ s[k][2] < x[2]
    BY <1>1, <1>6, <2>1, <2>2, <2>3
  <2>5. QED
    BY <1>1, <2>1, <2>4 DEF Lex
<1>8. ASSUME NEW k \in (stop + 1)..n PROVE Lex(x, s[k])
  <2>1. k \in 1..n
    BY <1>1
  <2>2. x[1] < s[k][1]
    BY <1>1, <1>4, <2>1 DEF Orders
  <2>3. QED
    BY <1>1, <2>1, <2>2 DEF Lex
<1>9. ASSUME NEW i \in 1..(n + 1), NEW j \in 1..(n + 1), i < j
      PROVE  Lex(t[i], t[j])
  <2>1. i \in Nat /\ j \in Nat /\ stop \in Nat
    BY <1>1
  <2>2. CASE j <= stop
    <3>1. t[i] = s[i] /\ t[j] = s[j] /\ i \in 1..n /\ j \in 1..n
      BY <1>1, <1>4, <1>9, <2>1, <2>2
    <3>2. QED
      BY <1>5, <1>9, <3>1
  <2>3. CASE j = stop + 1
    <3>1. t[i] = s[i] /\ t[j] = x /\ i \in 1..stop
      BY <1>1, <1>4, <1>9, <2>1, <2>3
    <3>2. QED
      BY <1>7, <3>1
  <2>4. CASE j > stop + 1
    <3>1. t[j] = s[j - 1] /\ j - 1 \in 1..n /\ j - 1 \in (stop + 1)..n
      BY <1>1, <1>4, <2>1, <2>4
    <3>2. CASE i <= stop
      <4>1. t[i] = s[i] /\ i \in 1..n /\ i < j - 1
        BY <1>1, <1>4, <2>1, <2>4, <3>2
      <4>2. QED
        BY <1>5, <3>1, <4>1
    <3>3. CASE i = stop + 1
      <4>1. t[i] = x
        BY <1>1, <1>4, <2>1, <3>3
      <4>2. QED
        BY <1>8, <3>1, <4>1
    <3>4. CASE i > stop + 1
      <4>1. t[i] = s[i - 1] /\ i - 1 \in 1..n /\ i - 1 < j - 1
        BY <1>1, <1>4, <1>9, <2>1, <3>4
      <4>2. QED
        BY <1>5, <3>1, <4>1
    <3>5. QED
      BY <2>1, <3>2, <3>3, <3>4
  <2>5. QED
    BY <2>1, <2>2, <2>3, <2>4
<1>10. QED
  BY <1>3, <1>9 DEF LexOrdered, t

(* What Reverse makes of a sequence.                                        *)
LEMMA ReverseSays ==
  ASSUME NEW E, NEW s \in Seq(E)
  PROVE  /\ Reverse(s) \in Seq(E) /\ Len(Reverse(s)) = Len(s)
         /\ \A k \in 1..Len(s) : Reverse(s)[k] = s[(Len(s) - k) + 1]
<1>1. Len(s) \in Nat /\ \A k \in 1..Len(s) : s[(Len(s) - k) + 1] \in E
  <2>1. \A k \in 1..Len(s) : (Len(s) - k) + 1 \in 1..Len(s)
    OBVIOUS
  <2>2. QED
    BY <2>1, ElementOfSeq
<1>2. Reverse(s) \in [1..Len(s) -> E]
  BY <1>1 DEF Reverse
<1>3. QED
  BY <1>1, <1>2, IsASeq DEF Reverse

(* The negation of less puts x before its equals: the sequence that mirrors *)
(* s then mirrors what less makes of s.                                     *)
Mirrors(s, x, less, more) == Insert(Reverse(s), x, more) = Reverse(Insert(s, x, less))

(* Insert with the negation of less mirrors Insert with less.               *)
LEMMA InsertMirrors ==
  ASSUME NEW E, E \subseteq Int \X Int,
         NEW s \in Seq(E), NEW x \in E, LexOrdered(s),
         NEW less, Orders(less, E),
         NEW more, Negates(more, E)
  PROVE  Mirrors(s, x, less, more)
<1> DEFINE r == Reverse(s)
           t == Insert(s, x, less)
           v == Insert(r, x, more)
           w == Reverse(t)
           n == Len(s)
<1>1. /\ n \in Nat
      /\ \A k \in 1..n : s[k] \in E /\ s[k][1] \in Int
      /\ x[1] \in Int
  <2>1. \A p \in E : p[1] \in Int
    OBVIOUS
  <2>2. n \in Nat /\ \A k \in 1..n : s[k] \in E
    BY ElementOfSeq
  <2>3. QED
    BY <2>1, <2>2
<1> HIDE DEF r, t, v, w
<1>2. r \in Seq(E) /\ Len(r) = n /\ \A k \in 1..n : r[k] = s[(n - k) + 1]
  BY ReverseSays DEF r
<1>3. t \in Seq(E) /\ Len(t) = n + 1
  BY InsertSays DEF t
<1>4. v \in Seq(E) /\ Len(v) = n + 1
  BY <1>2, InsertSays DEF v
<1>5. w \in Seq(E) /\ Len(w) = n + 1 /\ \A k \in 1..(n + 1) : w[k] = t[((n + 1) - k) + 1]
  <2>1. w \in Seq(E) /\ Len(w) = Len(t) /\ \A k \in 1..Len(t) : w[k] = t[(Len(t) - k) + 1]
    BY <1>3, ReverseSays DEF w
  <2>2. QED
    BY <1>3, <2>1
<1>6. PICK p \in 0..n : PutBehind(t, s, x, less, p)
  BY InsertSays DEF t
<1>7. PICK q \in 0..n : PutBehind(v, r, x, more, q)
  <2>1. \E q \in 0..Len(r) : PutBehind(v, r, x, more, q)
    BY <1>2, InsertSays DEF v
  <2>2. QED
    BY <1>2, <2>1
<1>8. /\ p # 0 => <<x, s[p]>> \notin less
      /\ \A k \in (p + 1)..n : <<x, s[k]>> \in less
      /\ \A k \in 1..(n + 1) : t[k] = IF k <= p THEN s[k] ELSE IF k = p + 1 THEN x ELSE s[k - 1]
  BY <1>6 DEF PutBehind
<1>9. /\ q # 0 => <<x, r[q]>> \notin more
      /\ \A k \in (q + 1)..n : <<x, r[k]>> \in more
      /\ \A k \in 1..(n + 1) : v[k] = IF k <= q THEN r[k] ELSE IF k = q + 1 THEN x ELSE r[k - 1]
  BY <1>2, <1>7 DEF PutBehind
<1>10. \A i, j \in 1..n : i < j => Lex(s[i], s[j])
  BY DEF LexOrdered
<1> HIDE DEF n
<1>11. ASSUME NEW k \in 1..p PROVE ~(x[1] < s[k][1])
  <2>1. p \in 1..n /\ k \in 1..n /\ p # 0
    BY <1>1
  <2>2. s[p][1] <= x[1]
    BY <1>1, <1>8, <2>1 DEF Orders
  <2>3. k = p \/ s[k][1] <= s[p][1]
    <3>1. k = p \/ k < p
      BY <1>1
    <3>2. k = p \/ Lex(s[k], s[p])
      BY <1>10, <2>1, <3>1
    <3>3. QED
      BY <1>1, <2>1, <3>2 DEF Lex
  <2>4. QED
    BY <1>1, <2>1, <2>2, <2>3
<1>12. ~(q < n - p)
  <2> SUFFICES ASSUME q < n - p PROVE FALSE
    OBVIOUS
  <2>1. n - p \in (q + 1)..n /\ n - p \in 1..n /\ (n - (n - p)) + 1 = p + 1 /\ p + 1 \in (p + 1)..n
    BY <1>1
  <2>2. r[n - p] = s[p + 1]
    BY <1>2, <2>1
  <2>3. p + 1 \in 1..n /\ <<x, r[n - p]>> \in more /\ <<x, s[p + 1]>> \in less
    BY <1>1, <1>8, <1>9, <2>1
  <2>4. QED
    BY <1>1, <2>2, <2>3 DEF Orders, Negates
<1>13. ~(q > n - p)
  <2> SUFFICES ASSUME q > n - p PROVE FALSE
    OBVIOUS
  <2>1. q # 0 /\ q \in 1..n /\ (n - q) + 1 \in 1..p /\ (n - q) + 1 \in 1..n
    BY <1>1
  <2>2. r[q] = s[(n - q) + 1] /\ <<x, r[q]>> \notin more
    BY <1>2, <1>9, <2>1
  <2>3. x[1] < s[(n - q) + 1][1]
    BY <1>1, <2>1, <2>2 DEF Negates
  <2>4. QED
    BY <1>11, <2>1, <2>3
<1>14. q = n - p
  BY <1>1, <1>12, <1>13
<1>15. ASSUME NEW k \in 1..(n + 1)
       PROVE  v[k] = w[k]
  <2>1. ((n + 1) - k) + 1 \in 1..(n + 1) /\ w[k] = t[((n + 1) - k) + 1] /\ k \in Nat
    <3>1. ((n + 1) - k) + 1 \in 1..(n + 1) /\ k \in Nat
      BY <1>1
    <3>2. QED
      BY <1>5, <3>1
  <2>2. CASE k <= q
    <3>1. v[k] = s[(n - k) + 1]
      BY <1>1, <1>2, <1>9, <2>1, <2>2
    <3>2. ~(((n + 1) - k) + 1 <= p) /\ ((n + 1) - k) + 1 # p + 1 /\ (((n + 1) - k) + 1) - 1 = (n - k) + 1
      BY <1>1, <1>14, <2>1, <2>2
    <3>3. t[((n + 1) - k) + 1] = s[(n - k) + 1]
      BY <1>8, <2>1, <3>2
    <3>4. QED
      BY <2>1, <3>1, <3>3
  <2>3. CASE k = q + 1
    <3>1. ~(k <= q) /\ ((n + 1) - k) + 1 = p + 1 /\ ~(p + 1 <= p)
      BY <1>1, <1>14, <2>1, <2>3
    <3>2. v[k] = x
      BY <1>9, <2>3, <3>1
    <3>3. t[((n + 1) - k) + 1] = x
      BY <1>8, <2>1, <3>1
    <3>4. QED
      BY <2>1, <3>2, <3>3
  <2>4. CASE k > q + 1
    <3>1. v[k] = r[k - 1] /\ k - 1 \in 1..n
      BY <1>1, <1>9, <2>1, <2>4
    <3>2. ((n + 1) - k) + 1 = (n - (k - 1)) + 1 /\ ((n + 1) - k) + 1 <= p
      BY <1>1, <1>14, <2>1, <2>4
    <3>3. r[k - 1] = s[(n - (k - 1)) + 1]
      BY <1>2, <3>1
    <3>4. t[((n + 1) - k) + 1] = s[((n + 1) - k) + 1]
      BY <1>8, <2>1, <3>2
    <3>5. QED
      BY <2>1, <3>1, <3>2, <3>3, <3>4
  <2>5. QED
    BY <1>1, <2>1, <2>2, <2>3, <2>4
<1>16. v = w
  BY <1>4, <1>5, <1>15, SeqEqual
<1>17. QED
  BY <1>16 DEF Mirrors, v, w, r, t

(* Records of which the second components ascend are sorted by both, and    *)
(* the negation of less gives the mirror of that.                           *)
LEMMA RecordsSorted ==
  ASSUME NEW E, E \subseteq Int \X Int,
         NEW s \in Seq(E), \A k \in 1..Len(s) : s[k][2] = k,
         NEW less, Orders(less, E),
         NEW more, Negates(more, E)
  PROVE  /\ LexOrdered(SortBy(s, less))
         /\ SortBy(s, more) = Reverse(SortBy(s, less))
<1> DEFINE n == Len(s)
<1>1. n \in Nat /\ 0 \in Nat /\ \A k \in 1..n : s[k] \in E /\ s[k][2] = k
  BY ElementOfSeq
<1>2. PICK g : /\ SortBy(s, less) = g[n]
               /\ \A k \in 0..n : g[k] = IF k = 0 THEN <<>> ELSE Insert(g[k - 1], s[k], less)
  BY SortBySays
<1>3. PICK h : /\ SortBy(s, more) = h[n]
               /\ \A k \in 0..n : h[k] = IF k = 0 THEN <<>> ELSE Insert(h[k - 1], s[k], more)
  BY SortBySays
<1> DEFINE T == {k \in 0..n : /\ g[k] \in Seq(E) /\ LexOrdered(g[k])
                              /\ \A e \in ToSet(g[k]) : e[2] <= k
                              /\ h[k] = Reverse(g[k])}
<1>4. 0 \in T
  <2>1. 0 \in 0..n /\ g[0] = <<>> /\ h[0] = <<>>
    BY <1>1, <1>2, <1>3
  <2>2. g[0] \in Seq(E) /\ Len(g[0]) = 0 /\ ToSet(g[0]) = {}
    BY <2>1 DEF ToSet
  <2>3. LexOrdered(g[0])
    BY <2>2 DEF LexOrdered
  <2>4. h[0] = Reverse(g[0])
    <3>1. h[0] \in Seq(E) /\ Len(h[0]) = 0
      BY <2>1
    <3>2. Reverse(g[0]) \in Seq(E) /\ Len(Reverse(g[0])) = 0
      BY <2>2, ReverseSays
    <3>3. QED
      BY <3>1, <3>2, SeqEqual
  <2>5. QED
    BY <2>1, <2>2, <2>3, <2>4
<1>5. ASSUME NEW k \in 0..n, k > 0, k - 1 \in T
      PROVE  k \in T
  <2> DEFINE u == g[k - 1]
             x == s[k]
  <2>1. x \in E /\ x[2] = k /\ k \in Nat /\ k # 0 /\ k \in 0..n
    BY <1>1, <1>5
  <2>2. u \in Seq(E) /\ LexOrdered(u) /\ h[k - 1] = Reverse(u) /\ \A e \in ToSet(u) : e[2] <= k - 1
    BY <1>5
  <2>3. g[k] = Insert(u, x, less) /\ h[k] = Insert(Reverse(u), x, more)
    BY <1>2, <1>3, <2>1, <2>2
  <2> HIDE DEF u, x
  <2>4. g[k] \in Seq(E)
    BY <2>1, <2>2, <2>3, InsertSays
  <2>5. \A i \in 1..Len(u) : u[i][2] < x[2]
    <3> SUFFICES ASSUME NEW i \in 1..Len(u) PROVE u[i][2] < x[2]
      OBVIOUS
    <3>1. u[i] \in E /\ u[i] \in ToSet(u)
      BY <2>2 DEF ToSet
    <3>2. u[i][2] \in Int
      BY <3>1
    <3>3. u[i][2] <= k - 1
      BY <2>2, <3>1
    <3>4. QED
      BY <2>1, <3>2, <3>3
  <2>6. LexOrdered(g[k])
    BY <2>1, <2>2, <2>3, <2>5, InsertOrdered
  <2>7. \A e \in ToSet(g[k]) : e[2] <= k
    <3> SUFFICES ASSUME NEW e \in ToSet(g[k]) PROVE e[2] <= k
      OBVIOUS
    <3>1. ToSet(g[k]) = ToSet(u) \cup {x}
      BY <2>1, <2>2, <2>3, InsertKeeps
    <3>2. CASE e = x
      BY <2>1, <3>2
    <3>3. CASE e # x
      <4>1. e \in ToSet(u) /\ e[2] <= k - 1
        BY <2>2, <3>1, <3>3
      <4>2. e \in E
        BY <2>2, <4>1 DEF ToSet
      <4>3. e[2] \in Int
        BY <4>2
      <4>4. QED
        BY <2>1, <4>1, <4>3
    <3>4. QED
      BY <3>2, <3>3
  <2>8. h[k] = Reverse(g[k])
    <3>1. Mirrors(u, x, less, more)
      BY <2>1, <2>2, InsertMirrors, Zenon
    <3>2. QED
      BY <2>3, <3>1 DEF Mirrors
  <2>9. QED
    BY <2>1, <2>4, <2>6, <2>7, <2>8
<1> HIDE DEF T
<1>6. \A k \in 0..n : k \in T
  BY <1>1, <1>4, <1>5, Climb
<1>7. n \in T
  BY <1>1, <1>6
<1>8. QED
  BY <1>2, <1>3, <1>7 DEF T

(* SortByField keeps the records, in order, and descends in the mirror of   *)
(* how it ascends.                                                          *)
LEMMA SortsRightAlways ==
  ASSUME list \in Seq(Digits \X Digits)
  PROVE  SortsRight
<1> DEFINE records == [k \in DOMAIN list |-> <<list[k][1], k>>]
           E == ToSet(records)
           less == {r \in E \X E : FieldLess(r[1], r[2], TRUE)}
           more == {r \in E \X E : FieldLess(r[1], r[2], FALSE)}
           up == SortByField(records, "int", TRUE)
           down == SortByField(records, "int", FALSE)
           n == Len(list)
<1>1. n \in Nat /\ DOMAIN list = 1..n /\ \A k \in 1..n : list[k][1] \in Int
  <2>1. \A k \in 1..n : list[k] \in Digits \X Digits
    BY ElementOfSeq
  <2>2. \A k \in 1..n : list[k][1] \in Digits
    BY <2>1
  <2>3. n \in Nat /\ DOMAIN list = 1..n
    OBVIOUS
  <2>4. QED
    BY <2>2, <2>3, DigitsAssumption
<1>2. records \in Seq(E) /\ Len(records) = n /\ \A k \in 1..n : records[k][2] = k
  <2>1. records \in [1..n -> E]
    BY <1>1 DEF ToSet
  <2>2. records \in Seq(E) /\ Len(records) = n
    BY <1>1, <2>1, IsASeq
  <2>3. QED
    BY <1>1, <2>2
<1>3. E \subseteq Int \X Int
  <2>1. \A k \in 1..n : records[k] \in Int \X Int
    BY <1>1
  <2>2. QED
    BY <1>1, <2>1 DEF ToSet
<1>4. Orders(less, E)
  BY DEF FieldLess, Orders, Negates
<1>5. Negates(more, E)
  BY DEF FieldLess, Orders, Negates
<1> HIDE DEF less, more, E, records
<1>6. CASE records = <<>>
  <2>1. up = <<>> /\ down = <<>>
    BY <1>6 DEF SortByField
  <2>2. Len(up) = 0 /\ Len(up) = Len(records) /\ ToSet(up) = ToSet(records)
    BY <1>6, <2>1
  <2>3. down = Reverse(up)
    <3> HIDE DEF up, down
    <3>1. up \in Seq(E) /\ down \in Seq(E) /\ Len(up) = 0 /\ Len(down) = 0
      BY <2>1
    <3>2. Reverse(up) \in Seq(E) /\ Len(Reverse(up)) = 0
      BY <3>1, ReverseSays
    <3>3. QED
      BY <3>1, <3>2, SeqEqual
  <2> HIDE DEF up, down
  <2>4. \A k \in 2..Len(up) : \/ up[k - 1][1] < up[k][1]
                              \/ up[k - 1][1] = up[k][1] /\ up[k - 1][2] < up[k][2]
    BY <2>2
  <2>5. QED
    BY <2>2, <2>3, <2>4 DEF SortsRight, up, down, records
<1>7. CASE records # <<>>
  <2>1. up = SortBy(records, less) /\ down = SortBy(records, more)
    BY <1>7 DEF SortByField, less, more, E
  <2> HIDE DEF up, down
  <2>2. up \in Seq(E) /\ Len(up) = Len(records) /\ ToSet(up) = ToSet(records)
    BY <1>2, <2>1, SortByKeeps
  <2>3. LexOrdered(up) /\ down = Reverse(up)
    BY <1>2, <1>3, <1>4, <1>5, <2>1, RecordsSorted, Zenon
  <2>4. \A k \in 2..Len(up) : \/ up[k - 1][1] < up[k][1]
                              \/ up[k - 1][1] = up[k][1] /\ up[k - 1][2] < up[k][2]
    <3> SUFFICES ASSUME NEW k \in 2..Len(up)
                 PROVE  Lex(up[k - 1], up[k])
      BY DEF Lex
    <3>1. Len(up) \in Nat /\ k - 1 \in 1..Len(up) /\ k \in 1..Len(up) /\ k - 1 < k
      BY <2>2
    <3>2. QED
      BY <2>3, <3>1 DEF LexOrdered
  <2>5. QED
    BY <2>2, <2>3, <2>4 DEF SortsRight, up, down, records
<1>8. QED
  BY <1>6, <1>7

-----------------------------------------------------------------------------
(* MergeIntervals.                                                          *)

(* Intervals in order, each ending before the next begins.                  *)
Apart(r) ==
  /\ Len(r) > 0
  /\ \A k \in 1..Len(r) : r[k][1] <= r[k][2]
  /\ \A k \in 2..Len(r) : r[k - 1][2] < r[k][1]

Span(p) == (2 * p[1])..(2 * p[2])

Pairs == Int \X Int

(* A pair is its two components.                                            *)
LEMMA PairSays ==
  ASSUME NEW p \in Pairs, NEW m \in Int
  PROVE  /\ [p EXCEPT ![2] = m] \in Pairs
         /\ [p EXCEPT ![2] = m][1] = p[1]
         /\ [p EXCEPT ![2] = m][2] = m
BY DEF Pairs

(* The greater of two.                                                      *)
LEMMA MaxOfTwo ==
  ASSUME NEW x \in Int, NEW y \in Int
  PROVE  Max({x, y}) = IF x >= y THEN x ELSE y
<1>1. \E z \in {x, y} : \A w \in {x, y} : z >= w
  OBVIOUS
<1>2. Max({x, y}) \in {x, y} /\ \A w \in {x, y} : Max({x, y}) >= w
  BY <1>1 DEF Max
<1>3. QED
  BY <1>2

(* A point is in the span of an interval of the list.                       *)
LEMMA PointsSay ==
  ASSUME NEW s \in Seq(Pairs), NEW x
  PROVE  x \in Points(s) <=> \E k \in 1..Len(s) : x \in Span(s[k])
<1>1. DOMAIN s = 1..Len(s)
  OBVIOUS
<1>2. QED
  BY <1>1 DEF Points, Span

(* An interval that begins no sooner than the last is taken in, or is put   *)
(* behind it.                                                               *)
AbsorbedWell(t, r, curr) ==
  /\ t \in Seq(Pairs) /\ Apart(t) /\ t[Len(t)][1] <= curr[1]
  /\ \A x : x \in Points(t) <=> x \in Points(r) \/ x \in Span(curr)

(* Absorb keeps the intervals apart and covers what both cover.             *)
LEMMA AbsorbSays ==
  ASSUME NEW r \in Seq(Pairs), Apart(r), NEW curr \in Pairs,
         curr[1] <= curr[2], r[Len(r)][1] <= curr[1]
  PROVE  AbsorbedWell(Absorb(r, curr), r, curr)
<1> DEFINE n == Len(r)
           t == Absorb(r, curr)
           last == r[n]
<1>1. /\ n \in Nat /\ n > 0
      /\ \A k \in 1..n : r[k] \in Pairs /\ r[k][1] \in Int /\ r[k][2] \in Int /\ r[k][1] <= r[k][2]
      /\ \A k \in 2..n : r[k - 1][2] < r[k][1]
      /\ curr[1] \in Int /\ curr[2] \in Int
  <2>1. n \in Nat /\ \A k \in 1..n : r[k] \in Pairs
    BY ElementOfSeq
  <2>2. \A p \in Pairs : p[1] \in Int /\ p[2] \in Int
    BY DEF Pairs
  <2>3. QED
    BY <2>1, <2>2 DEF Apart
<1>2. last \in Pairs /\ last[1] \in Int /\ last[2] \in Int /\ last[1] <= last[2] /\ last[1] <= curr[1]
  BY <1>1
<1>3. Last(r) = last
  BY DEF Last
<1>4. CASE curr[1] <= last[2]
  <2> DEFINE m == Max({last[2], curr[2]})
             new == [last EXCEPT ![2] = m]
  <2>1. m \in Int /\ m = IF last[2] >= curr[2] THEN last[2] ELSE curr[2]
    BY <1>1, <1>2, MaxOfTwo
  <2>2. t = [r EXCEPT ![n] = new]
    BY <1>3, <1>4 DEF Absorb
  <2> HIDE DEF m
  <2>3. new \in Pairs /\ new[1] = last[1] /\ new[2] = m
    BY <1>2, <2>1, PairSays
  <2> HIDE DEF new, t
  <2>4. t \in Seq(Pairs) /\ Len(t) = n /\ \A k \in 1..n : t[k] = IF k = n THEN new ELSE r[k]
    <3>1. n \in 1..Len(r)
      BY <1>1
    <3>2. t \in Seq(Pairs) /\ Len(t) = n
      BY <2>2, <2>3, <3>1, ExceptSeq
    <3>3. \A k \in 1..n : t[k] = IF k = n THEN new ELSE r[k]
      BY <1>1, <2>2
    <3>4. QED
      BY <3>2, <3>3
  <2> HIDE DEF n, last
  <2>5. Apart(t)
    <3>1. \A k \in 1..n : t[k][1] <= t[k][2]
      BY <1>1, <1>2, <2>1, <2>3, <2>4
    <3>2. ASSUME NEW k \in 2..n PROVE t[k - 1][2] < t[k][1]
      <4>1. k \in 1..n /\ k - 1 \in 1..n /\ k - 1 # n
        BY <1>1
      <4>2. t[k - 1] = r[k - 1] /\ t[k][1] = r[k][1]
        BY <2>3, <2>4, <4>1 DEF last
      <4>3. QED
        BY <1>1, <4>2
    <3>3. QED
      BY <1>1, <2>4, <3>1, <3>2 DEF Apart
  <2>6. t[Len(t)] = new /\ t[Len(t)][1] <= curr[1]
    BY <1>1, <1>2, <2>3, <2>4
  <2>7. ASSUME NEW x
        PROVE  x \in Span(new) <=> x \in Span(last) \/ x \in Span(curr)
    BY <1>1, <1>2, <1>4, <2>1, <2>3 DEF Span
  <2>8. ASSUME NEW x, x \in Points(t)
        PROVE  x \in Points(r) \/ x \in Span(curr)
    <3>1. PICK k \in 1..n : x \in Span(t[k])
      BY <2>4, <2>8, PointsSay
    <3>2. CASE k = n
      <4>1. x \in Span(last) \/ x \in Span(curr)
        BY <2>4, <2>7, <3>1, <3>2
      <4>2. n \in 1..Len(r)
        BY <1>1 DEF n
      <4>3. QED
        BY <4>1, <4>2, PointsSay DEF last
    <3>3. CASE k # n
      <4>1. x \in Span(r[k])
        BY <2>4, <3>1, <3>3
      <4>2. QED
        BY <4>1, PointsSay DEF n
    <3>4. QED
      BY <3>2, <3>3
  <2>9. ASSUME NEW x, x \in Points(r) \/ x \in Span(curr)
        PROVE  x \in Points(t)
    <3>1. n \in 1..n /\ t[n] = new
      BY <1>1, <2>4
    <3>2. CASE x \in Span(curr)
      <4>1. x \in Span(t[n])
        BY <2>7, <3>1, <3>2
      <4>2. QED
        BY <2>4, <3>1, <4>1, PointsSay
    <3>3. CASE x \in Points(r)
      <4>1. PICK k \in 1..n : x \in Span(r[k])
        BY <3>3, PointsSay DEF n
      <4>2. x \in Span(t[k])
        BY <2>4, <2>7, <4>1 DEF last
      <4>3. QED
        BY <2>4, <4>2, PointsSay
    <3>4. QED
      BY <2>9, <3>2, <3>3
  <2>10. QED
    BY <2>4, <2>5, <2>6, <2>8, <2>9 DEF AbsorbedWell, t
<1>5. CASE ~(curr[1] <= last[2])
  <2>1. t = Append(r, curr)
    BY <1>3, <1>5 DEF Absorb
  <2> HIDE DEF t
  <2>2. t \in Seq(Pairs) /\ Len(t) = n + 1
    BY <2>1, AppendProperties
  <2>3. t[n + 1] = curr
    BY <2>1, AppendProperties
  <2>4. \A k \in 1..n : t[k] = r[k]
    BY <2>1, AppendProperties
  <2> HIDE DEF n
  <2>5. Apart(t)
    <3>1. ASSUME NEW k \in 1..(n + 1) PROVE t[k][1] <= t[k][2]
      <4>1. k = n + 1 \/ k \in 1..n
        BY <1>1
      <4>2. QED
        BY <1>1, <2>3, <2>4, <4>1
    <3>2. ASSUME NEW k \in 2..(n + 1) PROVE t[k - 1][2] < t[k][1]
      <4>1. CASE k = n + 1
        <5>1. t[k - 1] = last /\ t[k] = curr
          BY <1>1, <2>3, <2>4, <4>1 DEF n
        <5>2. QED
          BY <1>1, <1>2, <1>5, <5>1
      <4>2. CASE k # n + 1
        <5>1. k \in 2..n /\ k \in 1..n /\ k - 1 \in 1..n
          BY <1>1, <4>2
        <5>2. QED
          BY <1>1, <2>4, <5>1
      <4>3. QED
        BY <4>1, <4>2
    <3>3. QED
      BY <1>1, <2>2, <3>1, <3>2 DEF Apart
  <2>6. t[Len(t)][1] <= curr[1]
    BY <1>1, <2>2, <2>3
  <2>7. ASSUME NEW x, x \in Points(t)
        PROVE  x \in Points(r) \/ x \in Span(curr)
    <3>1. PICK k \in 1..(n + 1) : x \in Span(t[k])
      BY <2>2, <2>7, PointsSay
    <3>2. CASE k = n + 1
      BY <2>3, <3>1, <3>2
    <3>3. CASE k # n + 1
      <4>1. k \in 1..n /\ x \in Span(r[k])
        BY <1>1, <2>4, <3>1, <3>3
      <4>2. QED
        BY <4>1, PointsSay DEF n
    <3>4. QED
      BY <3>2, <3>3
  <2>8. ASSUME NEW x, x \in Points(r) \/ x \in Span(curr)
        PROVE  x \in Points(t)
    <3>1. n + 1 \in 1..(n + 1) /\ \A k \in 1..n : k \in 1..(n + 1)
      BY <1>1
    <3>2. CASE x \in Span(curr)
      BY <2>2, <2>3, <3>1, <3>2, PointsSay
    <3>3. CASE x \in Points(r)
      <4>1. PICK k \in 1..n : x \in Span(r[k])
        BY <3>3, PointsSay DEF n
      <4>2. k \in 1..(n + 1) /\ x \in Span(t[k])
        BY <2>4, <3>1, <4>1
      <4>3. QED
        BY <2>2, <4>2, PointsSay
    <3>4. QED
      BY <2>8, <3>2, <3>3
  <2>9. QED
    BY <2>2, <2>5, <2>6, <2>7, <2>8 DEF AbsorbedWell, t
<1>6. QED
  BY <1>4, <1>5

(* Absorb makes a list of intervals of one.                                 *)
LEMMA AbsorbType ==
  ASSUME NEW r \in Seq(Pairs), Len(r) > 0, NEW curr \in Pairs
  PROVE  Absorb(r, curr) \in Seq(Pairs) /\ Len(Absorb(r, curr)) > 0
<1> DEFINE n == Len(r)
           m == Max({r[n][2], curr[2]})
           new == [r[n] EXCEPT ![2] = m]
<1>1. n \in Nat /\ n \in 1..Len(r) /\ r[n] \in Pairs
  BY ElementOfSeq
<1>2. r[n][2] \in Int /\ curr[2] \in Int
  BY <1>1 DEF Pairs
<1>3. m \in Int
  BY <1>2, MaxOfTwo
<1> HIDE DEF m
<1>4. new \in Pairs
  BY <1>1, <1>3, PairSays
<1> HIDE DEF new
<1>5. [r EXCEPT ![n] = new] \in Seq(Pairs) /\ Len([r EXCEPT ![n] = new]) = n
  BY <1>1, <1>4, ExceptSeq
<1>6. Append(r, curr) \in Seq(Pairs) /\ Len(Append(r, curr)) = n + 1
  BY AppendProperties
<1>7. Absorb(r, curr) = [r EXCEPT ![n] = new] \/ Absorb(r, curr) = Append(r, curr)
  BY DEF Absorb, Last, new, m
<1>8. QED
  BY <1>1, <1>5, <1>6, <1>7

(* The intervals by their beginnings.                                       *)
Sorted(s) == SortBy(s, {r \in ToSet(s) \X ToSet(s) : r[1][1] < r[2][1]})

(* Sorted has the same intervals, in order.                                 *)
LEMMA SortedSays ==
  ASSUME NEW s \in Seq(Pairs)
  PROVE  /\ Sorted(s) \in Seq(Pairs) /\ Len(Sorted(s)) = Len(s)
         /\ ToSet(Sorted(s)) = ToSet(s) /\ Ascends(Sorted(s))
<1> DEFINE E == ToSet(s)
           less == {r \in E \X E : r[1][1] < r[2][1]}
<1>1. E \subseteq Pairs
  BY DEF ToSet
<1>2. s \in Seq(E)
  <2>1. Len(s) \in Nat /\ s \in [1..Len(s) -> E]
    BY DEF ToSet
  <2>2. QED
    BY <2>1, IsASeq
<1>3. \A p \in E : p[1] \in Int
  BY <1>1 DEF Pairs
<1>4. Orders(less, E)
  BY DEF Orders
<1> HIDE DEF E, less
<1>5. Sorted(s) = SortBy(s, less)
  BY DEF Sorted, E, less
<1>6. SortBy(s, less) \in Seq(Pairs) /\ Len(SortBy(s, less)) = Len(s) /\ ToSet(SortBy(s, less)) = ToSet(s)
  BY SortByKeeps
<1>7. Ascends(SortBy(s, less))
  BY <1>2, <1>3, <1>4, SortByAscends
<1>8. QED
  BY <1>5, <1>6, <1>7

(* MergeIntervals takes them in one by one.                                 *)
LEMMA MergedSays ==
  ASSUME NEW s \in Seq(Pairs), Len(s) > 1
  PROVE  \E g : /\ MergeIntervals(s) = g[Len(s)]
                /\ \A k \in 1..Len(s) : g[k] = IF k = 1 THEN <<Sorted(s)[1]>> ELSE Absorb(g[k - 1], Sorted(s)[k])
<1> DEFINE S == {r \in Seq(Pairs) : Len(r) > 0}
           n == Len(s)
           first == <<Sorted(s)[1]>>
           f == [p \in S \X (1..n) |-> IF p[2] = 1 THEN first ELSE Absorb(p[1], Sorted(s)[p[2]])]
<1>1. n \in Nat /\ 1 \in Nat /\ first \in S
  BY SortedSays, ElementOfSeq
<1>2. ASSUME NEW r \in S, NEW k \in 1..n, k # 1
      PROVE  Absorb(r, Sorted(s)[k]) \in S
  <2>1. Sorted(s)[k] \in Pairs
    BY <1>1, <1>2, SortedSays, ElementOfSeq
  <2>2. QED
    BY <1>2, <2>1, AbsorbType
<1>3. f \in [S \X (1..n) -> S]
  BY <1>1, <1>2
<1>4. \A r \in S, k \in 1..n : k # 1 => f[<<r, k>>] = Absorb(r, Sorted(s)[k])
  OBVIOUS
<1> HIDE DEF f, S, n, first
<1>5. PICK g \in [1..n -> S] : Loop(g, 1, n, first, f)
  BY <1>1, <1>3, LoopExists
<1> DEFINE h == [k \in 1..n |-> IF k = 1 THEN first ELSE Absorb(g[k - 1], Sorted(s)[k])]
<1>6. ASSUME NEW k \in 1..n
      PROVE  g[k] = h[k]
  <2>1. CASE k = 1
    BY <1>5, <2>1 DEF Loop
  <2>2. CASE k # 1
    <3>1. k - 1 \in 1..n /\ g[k - 1] \in S
      BY <1>1, <2>2
    <3>2. f[<<g[k - 1], k>>] = Absorb(g[k - 1], Sorted(s)[k])
      BY <1>4, <2>2, <3>1
    <3>3. QED
      BY <1>5, <2>2, <3>2 DEF Loop
  <2>3. QED
    BY <2>1, <2>2
<1>7. g = h
  <2>1. g = [k \in 1..n |-> g[k]]
    OBVIOUS
  <2>2. QED
    BY <1>6, <2>1
<1>8. \E q : q = [k \in 1..Len(s) |-> IF k = 1 THEN <<Sorted(s)[1]>> ELSE Absorb(q[k - 1], Sorted(s)[k])]
  BY <1>7 DEF n, first
<1>9. MergeIntervals(s) = (CHOOSE q : q = [k \in 1..Len(s) |-> IF k = 1 THEN <<Sorted(s)[1]>> ELSE Absorb(q[k - 1], Sorted(s)[k])])[Len(s)]
  BY DEF MergeIntervals, Sorted
<1>10. QED
  BY <1>8, <1>9

(* The merged intervals cover what the given ones do, and no more, and are  *)
(* apart.                                                                   *)
LEMMA MergesRightAlways ==
  ASSUME list \in Seq(Digits \X Digits)
  PROVE  MergesRight
<1> DEFINE n == Len(list)
           m == MergeIntervals(list)
<1> SUFFICES ASSUME \A k \in DOMAIN list : list[k][1] <= list[k][2]
             PROVE  /\ Points(m) = Points(list)
                    /\ \A k \in 2..Len(m) : m[k - 1][2] < m[k][1]
  BY DEF MergesRight
<1>1. n \in Nat /\ list \in Seq(Pairs) /\ \A k \in 1..n : list[k][1] <= list[k][2]
  <2>1. Digits \X Digits \subseteq Pairs
    BY DigitsAssumption DEF Pairs
  <2>2. list \in Seq(Pairs)
    BY <2>1, SeqMonotonic
  <2>3. QED
    BY <2>2
<1>2. CASE n <= 1
  <2>1. m = list
    BY <1>2 DEF MergeIntervals
  <2>2. \A k \in 2..Len(m) : FALSE
    BY <1>1, <1>2, <2>1
  <2>3. QED
    BY <2>1, <2>2
<1>3. CASE n > 1
  <2> DEFINE sorted == Sorted(list)
             Upto(k, x) == \E i \in 1..k : x \in Span(sorted[i])
  <2>1. PICK g : /\ m = g[n]
                 /\ \A k \in 1..n : g[k] = IF k = 1 THEN <<sorted[1]>> ELSE Absorb(g[k - 1], sorted[k])
    BY <1>1, <1>3, MergedSays
  <2> HIDE DEF sorted, m
  <2>2. /\ sorted \in Seq(Pairs) /\ Len(sorted) = n
        /\ ToSet(sorted) = ToSet(list) /\ Ascends(sorted)
    BY <1>1, SortedSays DEF sorted
  <2>3. \A k \in 1..n : sorted[k] \in Pairs /\ sorted[k][1] <= sorted[k][2]
    <3> SUFFICES ASSUME NEW k \in 1..n PROVE sorted[k] \in Pairs /\ sorted[k][1] <= sorted[k][2]
      OBVIOUS
    <3>1. sorted[k] \in ToSet(list)
      <4>1. sorted[k] \in ToSet(sorted)
        BY <2>2 DEF ToSet
      <4>2. QED
        BY <2>2, <4>1
    <3>2. PICK i \in 1..n : sorted[k] = list[i]
      BY <1>1, <3>1 DEF ToSet
    <3>3. QED
      BY <1>1, <2>2, <3>2
  <2> DEFINE T == {k \in 1..n : /\ g[k] \in Seq(Pairs) /\ Apart(g[k])
                                /\ g[k][Len(g[k])][1] <= sorted[k][1]
                                /\ \A x : x \in Points(g[k]) <=> Upto(k, x)}
  <2>4. 1 \in T
    <3> DEFINE r == g[1]
    <3>1. r = <<sorted[1]>> /\ sorted[1] \in Pairs /\ sorted[1][1] \in Int /\ sorted[1][1] <= sorted[1][2]
      <4>1. 1 \in 1..n
        BY <1>1, <1>3
      <4>2. QED
        BY <2>1, <2>3, <4>1 DEF Pairs
    <3> HIDE DEF r
    <3>2. r \in Seq(Pairs) /\ Len(r) = 1 /\ r[1] = sorted[1]
      BY <3>1
    <3>3. Apart(r)
      BY <3>1, <3>2 DEF Apart
    <3>4. ASSUME NEW x PROVE x \in Points(r) <=> Upto(1, x)
      BY <3>2, PointsSay
    <3>5. r[Len(r)][1] <= sorted[1][1] /\ 1 \in 1..n
      BY <1>1, <1>3, <3>1, <3>2
    <3> HIDE DEF Upto
    <3>6. QED
      BY <3>2, <3>3, <3>4, <3>5 DEF r
  <2>5. ASSUME NEW k \in 1..n, k > 1, k - 1 \in T
        PROVE  k \in T
    <3> DEFINE r == g[k - 1]
               t == g[k]
               curr == sorted[k]
    <3>1. /\ r \in Seq(Pairs) /\ Apart(r) /\ r[Len(r)][1] <= sorted[k - 1][1]
          /\ \A x : x \in Points(r) <=> Upto(k - 1, x)
      BY <2>5
    <3>2. k - 1 \in 1..n /\ k # 1 /\ k - 1 < k /\ k \in Int
      BY <1>1, <2>5
    <3>3. curr \in Pairs /\ curr[1] <= curr[2] /\ t = Absorb(r, curr)
      BY <2>1, <2>3, <3>2
    <3> HIDE DEF r, t
    <3>4. r[Len(r)][1] <= curr[1]
      <4>1. sorted[k - 1][1] <= sorted[k][1]
        BY <2>2, <3>2 DEF Ascends
      <4>2. Len(r) \in 1..Len(r)
        BY <3>1 DEF Apart
      <4>3. r[Len(r)] \in Pairs /\ sorted[k - 1] \in Pairs
        BY <2>3, <3>1, <3>2, <4>2
      <4>4. r[Len(r)][1] \in Int /\ sorted[k - 1][1] \in Int /\ curr[1] \in Int
        BY <3>3, <4>3 DEF Pairs
      <4>5. QED
        BY <3>1, <4>1, <4>4
    <3>5. AbsorbedWell(t, r, curr)
      <4> HIDE DEF curr
      <4>1. QED
        BY <3>1, <3>3, <3>4, AbsorbSays
    <3>6. ASSUME NEW x PROVE x \in Points(t) <=> Upto(k, x)
      <4>1. x \in Points(t) <=> Upto(k - 1, x) \/ x \in Span(curr)
        BY <3>1, <3>5 DEF AbsorbedWell
      <4>2. \A i \in Int : i \in 1..k <=> i \in 1..(k - 1) \/ i = k
        BY <3>2, <2>5
      <4>3. Upto(k, x) <=> Upto(k - 1, x) \/ x \in Span(curr)
        BY <4>2
      <4>4. QED
        BY <4>1, <4>3
    <3>7. QED
      BY <3>2, <3>5, <3>6 DEF AbsorbedWell, t
  <2> HIDE DEF T
  <2>6. \A k \in 1..n : k \in T
    BY <1>1, <2>4, <2>5, Climb
  <2>7. n \in T
    BY <1>1, <1>3, <2>6
  <2>8. m \in Seq(Pairs) /\ Apart(m) /\ \A x : x \in Points(m) <=> Upto(n, x)
    BY <2>1, <2>7 DEF T
  <2>9. \A x : x \in Points(m) <=> x \in Points(list)
    <3> SUFFICES ASSUME NEW x PROVE Upto(n, x) <=> x \in Points(list)
      BY <2>8
    <3>1. x \in Points(sorted) <=> Upto(n, x)
      BY <2>2, PointsSay
    <3>2. x \in Points(list) <=> \E p \in ToSet(list) : x \in Span(p)
      BY DEF Points, Span, ToSet
    <3>3. x \in Points(sorted) <=> \E p \in ToSet(sorted) : x \in Span(p)
      BY DEF Points, Span, ToSet
    <3>4. QED
      BY <2>2, <3>1, <3>2, <3>3
  <2>10. QED
    BY <2>8, <2>9 DEF Apart
<1>4. QED
  BY <1>1, <1>2, <1>3

-----------------------------------------------------------------------------
(* The digits of the list, and the first place of a value.                  *)

(* The digits of the list are a sequence of digits, two of each pair.       *)
LEMMA FlatSays ==
  ASSUME list \in Seq(Digits \X Digits)
  PROVE  /\ Flat \in Seq(Digits) /\ Flat \in Seq(Int)
         /\ Len(Flat) = 2 * Len(list) /\ DOMAIN Flat = 1..(2 * Len(list))
<1> DEFINE n == Len(list)
<1>1. n \in Nat /\ \A k \in 1..n : list[k] \in Digits \X Digits
  BY ElementOfSeq
<1>2. ASSUME NEW k \in 1..(2 * n)
      PROVE  list[(k + 1) \div 2][2 - (k % 2)] \in Digits
  <2>1. (k + 1) \div 2 \in 1..n
    BY <1>1
  <2>2. 2 - (k % 2) \in {1, 2}
    BY <1>1
  <2>3. list[(k + 1) \div 2] \in Digits \X Digits
    BY <1>1, <2>1
  <2>4. \A p \in Digits \X Digits, i \in {1, 2} : p[i] \in Digits
    OBVIOUS
  <2>5. QED
    BY <2>2, <2>3, <2>4
<1>3. Flat \in [1..(2 * n) -> Digits]
  BY <1>2 DEF Flat
<1>4. Flat \in Seq(Digits) /\ Len(Flat) = 2 * n
  BY <1>1, <1>3, IsASeq
<1>5. Flat \in Seq(Int)
  BY <1>4, DigitsAssumption, SeqMonotonic
<1>6. QED
  BY <1>3, <1>4, <1>5

(* Index is the first place of a value, or 0.                               *)
LEMMA IndexSays ==
  ASSUME NEW E, NEW s \in Seq(E), NEW v
  PROVE  /\ Index(s, v) \in 0..Len(s)
         /\ (\E k \in 1..Len(s) : s[k] = v) <=> Index(s, v) # 0
         /\ Index(s, v) # 0 => s[Index(s, v)] = v
         /\ \A k \in 1..Len(s) : s[k] = v => Index(s, v) <= k
<1> DEFINE I == {k \in 1..Len(s) : s[k] = v}
<1>1. Index(s, v) = IF I # {} THEN Min(I) ELSE 0
  BY DEF Index, SelectInSeq
<1>2. Len(s) \in Nat /\ I \subseteq Nat
  OBVIOUS
<1>3. CASE I = {}
  BY <1>1, <1>2, <1>3
<1>4. CASE I # {}
  <2>1. Min(I) \in I /\ \A k \in I : Min(I) <= k
    <3> HIDE DEF I
    <3>1. QED
      BY <1>2, <1>4, MinSays
  <2>2. Index(s, v) = Min(I)
    BY <1>1, <1>4
  <2> DEFINE i == Index(s, v)
  <2> HIDE DEF i
  <2>3. i \in 1..Len(s) /\ s[i] = v /\ \A k \in I : i <= k
    BY <2>1, <2>2 DEF i
  <2>4. QED
    BY <1>2, <2>3 DEF i
<1>5. QED
  BY <1>3, <1>4

-----------------------------------------------------------------------------
(* TwoSum.                                                                  *)

(* The map after one more number, and what is found with the maps.          *)
Note(before, nums, k) ==
  [v \in DOMAIN before \cup {nums[k]} |-> IF v = nums[k] THEN k - 1 ELSE before[v]]

Found(seen, nums, target) ==
  LET hits == {i \in DOMAIN nums : target - nums[i] \in DOMAIN seen[i - 1]}
  IN IF hits = {} THEN <<-1, -1>>
     ELSE <<seen[Min(hits) - 1][target - nums[Min(hits)]], Min(hits) - 1>>

Maps == UNION {[D -> Nat] : D \in SUBSET Int}

(* TwoSum notes the numbers one by one.                                     *)
LEMMA TwoSumSays ==
  ASSUME NEW nums \in Seq(Int), NEW target
  PROVE  \E g : /\ TwoSum(nums, target) = Found(g, nums, target)
                /\ \A k \in 0..Len(nums) : g[k] = IF k = 0 THEN <<>> ELSE Note(g[k - 1], nums, k)
<1> DEFINE S == Maps
           n == Len(nums)
           first == <<>>
           f == [p \in S \X (0..n) |-> IF p[2] = 0 THEN first ELSE Note(p[1], nums, p[2])]
<1>1. n \in Nat /\ 0 \in Nat /\ first \in S
  <2>1. <<>> \in [{} -> Nat] /\ {} \in SUBSET Int
    OBVIOUS
  <2>2. <<>> \in Maps
    BY <2>1 DEF Maps
  <2>3. QED
    BY <2>2
<1>2. ASSUME NEW r \in S, NEW k \in 0..n, k # 0
      PROVE  Note(r, nums, k) \in S
  <2>1. PICK D \in SUBSET Int : r \in [D -> Nat]
    BY <1>2 DEF Maps
  <2>2. nums[k] \in Int /\ k - 1 \in Nat
    BY <1>1, <1>2
  <2>3. Note(r, nums, k) \in [D \cup {nums[k]} -> Nat] /\ D \cup {nums[k]} \in SUBSET Int
    BY <2>1, <2>2 DEF Note
  <2>4. QED
    BY <2>3 DEF Maps
<1>3. f \in [S \X (0..n) -> S]
  BY <1>1, <1>2
<1>4. \A r \in S, k \in 0..n : k # 0 => f[<<r, k>>] = Note(r, nums, k)
  OBVIOUS
<1> HIDE DEF f, S, n, first
<1>5. PICK g \in [0..n -> S] : Loop(g, 0, n, first, f)
  BY <1>1, <1>3, LoopExists
<1> DEFINE h == [k \in 0..n |-> IF k = 0 THEN first ELSE Note(g[k - 1], nums, k)]
<1>6. ASSUME NEW k \in 0..n
      PROVE  g[k] = h[k]
  <2>1. CASE k = 0
    BY <1>5, <2>1 DEF Loop
  <2>2. CASE k # 0
    <3>1. k - 1 \in 0..n /\ g[k - 1] \in S
      BY <1>1, <2>2
    <3>2. f[<<g[k - 1], k>>] = Note(g[k - 1], nums, k)
      BY <1>4, <2>2, <3>1
    <3>3. QED
      BY <1>5, <2>2, <3>2 DEF Loop
  <2>3. QED
    BY <2>1, <2>2
<1>7. g = h
  <2>1. g = [k \in 0..n |-> g[k]]
    OBVIOUS
  <2>2. QED
    BY <1>6, <2>1
<1>8. \E q : q = [k \in 0..Len(nums) |-> IF k = 0 THEN <<>> ELSE Note(q[k - 1], nums, k)]
  BY <1>7 DEF n, first
<1>9. QED
  BY <1>8 DEF TwoSum, Note, Found

(* Each number the loop has been through is in the map, with a place of its *)
(* own.                                                                     *)
LEMMA SeenSays ==
  ASSUME NEW nums \in Seq(Int), NEW g,
         \A k \in 0..Len(nums) : g[k] = IF k = 0 THEN <<>> ELSE Note(g[k - 1], nums, k)
  PROVE  \A k \in 0..Len(nums) :
           /\ DOMAIN g[k] = {nums[i] : i \in 1..k}
           /\ \A v \in DOMAIN g[k] : g[k][v] \in 0..(k - 1) /\ nums[g[k][v] + 1] = v
<1> DEFINE n == Len(nums)
           Upto(k) == {nums[i] : i \in 1..k}
           T == {k \in 0..n : /\ DOMAIN g[k] = Upto(k)
                              /\ \A v \in Upto(k) : g[k][v] \in 0..(k - 1) /\ nums[g[k][v] + 1] = v}
<1>1. n \in Nat /\ 0 \in Nat
  OBVIOUS
<1>2. 0 \in T
  <2>1. 0 \in 0..n /\ g[0] = <<>>
    BY <1>1
  <2>2. DOMAIN g[0] = {} /\ Upto(0) = {}
    BY <2>1
  <2>3. QED
    BY <2>1, <2>2
<1>3. ASSUME NEW k \in 0..n, k > 0, k - 1 \in T
      PROVE  k \in T
  <2> DEFINE b == g[k - 1]
             x == nums[k]
             t == g[k]
  <2>1. k - 1 \in 0..n /\ k # 0 /\ k \in Nat /\ k \in 1..n
    BY <1>1, <1>3
  <2>2. /\ DOMAIN b = Upto(k - 1)
        /\ \A v \in Upto(k - 1) : b[v] \in 0..((k - 1) - 1) /\ nums[b[v] + 1] = v
    BY <1>3
  <2>3. t = Note(b, nums, k)
    BY <2>1
  <2>4. t = [v \in DOMAIN b \cup {x} |-> IF v = x THEN k - 1 ELSE b[v]]
    BY <2>3 DEF Note
  <2>5. Upto(k) = Upto(k - 1) \cup {x}
    <3>1. \A i \in Int : i \in 1..k <=> i \in 1..(k - 1) \/ i = k
      BY <2>1
    <3>2. QED
      BY <3>1
  <2> HIDE DEF t, b, Upto
  <2>6. DOMAIN t = Upto(k)
    BY <2>2, <2>4, <2>5
  <2>7. ASSUME NEW v \in Upto(k)
        PROVE  t[v] \in 0..(k - 1) /\ nums[t[v] + 1] = v
    <3>1. CASE v = x
      <4>1. t[v] = k - 1 /\ (k - 1) + 1 = k
        BY <2>1, <2>4, <2>5, <3>1
      <4>2. QED
        BY <2>1, <3>1, <4>1
    <3>2. CASE v # x
      <4>1. v \in Upto(k - 1) /\ t[v] = b[v]
        BY <2>2, <2>4, <2>5, <3>2
      <4>2. QED
        BY <2>1, <2>2, <4>1
    <3>3. QED
      BY <3>1, <3>2
  <2>8. QED
    BY <2>1, <2>6, <2>7 DEF t
<1> HIDE DEF T
<1>4. \A k \in 0..n : k \in T
  BY <1>1, <1>2, <1>3, Climb
<1>5. QED
  BY <1>4 DEF T

(* TwoSum finds the first pair there is, whatever the target.               *)
LEMMA TwoSumRightAlways ==
  ASSUME Flat \in Seq(Int), NEW target \in Int
  PROVE  TwoSumRight(target)
<1> DEFINE nums == Flat
           n == Len(Flat)
           r == TwoSum(Flat, target)
           pairs == {p \in (DOMAIN Flat) \X (DOMAIN Flat) :
                       p[1] < p[2] /\ Flat[p[1]] + Flat[p[2]] = target}
<1>1. n \in Nat /\ DOMAIN Flat = 1..n /\ \A i \in 1..n : Flat[i] \in Int
  BY ElementOfSeq
<1>2. PICK g : /\ r = Found(g, Flat, target)
               /\ \A k \in 0..n : g[k] = IF k = 0 THEN <<>> ELSE Note(g[k - 1], Flat, k)
  BY TwoSumSays
<1>3. \A k \in 0..n : /\ DOMAIN g[k] = {Flat[i] : i \in 1..k}
                      /\ \A v \in DOMAIN g[k] : g[k][v] \in 0..(k - 1) /\ Flat[g[k][v] + 1] = v
  BY <1>2, SeenSays
<1> DEFINE hits == {i \in DOMAIN Flat : target - Flat[i] \in DOMAIN g[i - 1]}
<1> HIDE DEF r
<1>4. r = IF hits = {} THEN <<-1, -1>> ELSE <<g[Min(hits) - 1][target - Flat[Min(hits)]], Min(hits) - 1>>
  BY <1>2 DEF Found
<1>5. ASSUME NEW p \in pairs
      PROVE  p[2] \in hits /\ p[2] \in 1..n
  <2>1. p[1] \in 1..n /\ p[2] \in 1..n /\ p[1] < p[2] /\ Flat[p[1]] + Flat[p[2]] = target
    BY <1>1
  <2>2. p[2] - 1 \in 0..n /\ p[1] \in 1..(p[2] - 1)
    BY <1>1, <2>1
  <2>3. target - Flat[p[2]] = Flat[p[1]]
    BY <1>1, <2>1
  <2>4. target - Flat[p[2]] \in DOMAIN g[p[2] - 1]
    BY <1>3, <2>2, <2>3
  <2>5. QED
    BY <1>1, <2>1, <2>4
<1>6. ASSUME NEW i \in hits
      PROVE  LET j == g[i - 1][target - Flat[i]] + 1
             IN  j - 1 = g[i - 1][target - Flat[i]] /\ <<j, i>> \in pairs
  <2> DEFINE c == target - Flat[i]
             place == g[i - 1][c]
             j == place + 1
  <2>1. i \in 1..n /\ c \in DOMAIN g[i - 1] /\ i - 1 \in 0..n
    BY <1>1
  <2>2. place \in 0..((i - 1) - 1) /\ Flat[j] = c
    BY <1>3, <2>1
  <2> HIDE DEF place
  <2>3. j \in 1..n /\ j < i /\ j - 1 = place
    BY <1>1, <2>1, <2>2
  <2>4. Flat[j] + Flat[i] = target
    BY <1>1, <2>1, <2>2, <2>3
  <2> HIDE DEF j
  <2>5. <<j, i>> \in pairs
    BY <1>1, <2>1, <2>3, <2>4
  <2>6. QED
    BY <2>3, <2>5 DEF j, place
<1>7. CASE hits = {}
  <2>1. pairs = {}
    BY <1>5, <1>7
  <2>2. r = <<-1, -1>>
    BY <1>4, <1>7
  <2>3. QED
    BY <2>1, <2>2 DEF TwoSumRight, r
<1>8. CASE hits # {}
  <2> DEFINE i == Min(hits)
             j == g[i - 1][target - Flat[i]] + 1
  <2>1. i \in hits /\ \A k \in hits : i <= k
    <3>1. hits \subseteq Nat
      BY <1>1
    <3> HIDE DEF hits
    <3>2. QED
      BY <1>8, <3>1, MinSays
  <2> HIDE DEF i
  <2>2. j - 1 = g[i - 1][target - Flat[i]] /\ <<j, i>> \in pairs
    BY <1>6, <2>1
  <2>3. r = <<j - 1, i - 1>>
    BY <1>4, <1>8, <2>2 DEF i
  <2> HIDE DEF j
  <2>4. i \in 1..n /\ j \in 1..n
    BY <1>1, <2>2
  <2>5. <<r[1] + 1, r[2] + 1>> = <<j, i>> /\ r[2] = i - 1
    BY <1>1, <2>3, <2>4
  <2>6. \A p \in pairs : r[2] < p[2]
    <3> SUFFICES ASSUME NEW p \in pairs PROVE r[2] < p[2]
      OBVIOUS
    <3> HIDE DEF pairs, hits
    <3>1. p[2] \in hits /\ p[2] \in 1..n
      BY <1>5
    <3>2. i <= p[2]
      BY <2>1, <3>1
    <3>3. QED
      BY <1>1, <2>4, <2>5, <3>1, <3>2
  <2>7. pairs # {} /\ <<r[1] + 1, r[2] + 1>> \in pairs
    <3> HIDE DEF pairs
    <3>1. QED
      BY <2>2, <2>5
  <2>8. QED
    BY <2>6, <2>7 DEF TwoSumRight, r
<1>9. QED
  BY <1>7, <1>8

-----------------------------------------------------------------------------
(* Unique.                                                                  *)

(* What Unique has after one more element.                                  *)
Take(before, x) == IF Contains(before, x) THEN before ELSE Append(before, x)

(* Unique takes the elements one by one.                                    *)
LEMMA UniqueSays ==
  ASSUME NEW E, NEW s \in Seq(E)
  PROVE  \E g : /\ Unique(s) = g[Len(s)]
                /\ \A k \in 0..Len(s) : g[k] = IF k = 0 THEN <<>> ELSE Take(g[k - 1], s[k])
<1> DEFINE S == Seq(E)
           n == Len(s)
           first == <<>>
           f == [p \in S \X (0..n) |-> IF p[2] = 0 THEN first ELSE Take(p[1], s[p[2]])]
<1>1. n \in Nat /\ 0 \in Nat /\ first \in S
  OBVIOUS
<1>2. ASSUME NEW r \in S, NEW k \in 0..n, k # 0
      PROVE  Take(r, s[k]) \in S
  <2>1. s[k] \in E
    BY <1>1, <1>2
  <2>2. QED
    BY <1>2, <2>1, AppendProperties DEF Take
<1>3. f \in [S \X (0..n) -> S]
  BY <1>1, <1>2
<1>4. \A r \in S, k \in 0..n : k # 0 => f[<<r, k>>] = Take(r, s[k])
  OBVIOUS
<1> HIDE DEF f, S, n, first
<1>5. PICK g \in [0..n -> S] : Loop(g, 0, n, first, f)
  BY <1>1, <1>3, LoopExists
<1> DEFINE h == [k \in 0..n |-> IF k = 0 THEN first ELSE Take(g[k - 1], s[k])]
<1>6. ASSUME NEW k \in 0..n
      PROVE  g[k] = h[k]
  <2>1. CASE k = 0
    BY <1>5, <2>1 DEF Loop
  <2>2. CASE k # 0
    <3>1. k - 1 \in 0..n /\ g[k - 1] \in S
      BY <1>1, <2>2
    <3>2. f[<<g[k - 1], k>>] = Take(g[k - 1], s[k])
      BY <1>4, <2>2, <3>1
    <3>3. QED
      BY <1>5, <2>2, <3>2 DEF Loop
  <2>3. QED
    BY <2>1, <2>2
<1>7. g = h
  <2>1. g = [k \in 0..n |-> g[k]]
    OBVIOUS
  <2>2. QED
    BY <1>6, <2>1
<1>8. \E q : q = [k \in 0..Len(s) |-> IF k = 0 THEN <<>> ELSE Take(q[k - 1], s[k])]
  BY <1>7 DEF n, first
<1>9. QED
  BY <1>8 DEF Unique, Take

(* What Unique has of the first k elements.                                 *)
OnceEach(r, s, k) ==
  /\ \A x : Contains(r, x) <=> \E i \in 1..k : s[i] = x
  /\ \A a, b \in 1..Len(r) : r[a] = r[b] => a = b
  /\ \A a, b \in 1..Len(r) : a < b => Index(s, r[a]) < Index(s, r[b])

(* One more element keeps what OnceEach says.                               *)
LEMMA TakeSays ==
  ASSUME NEW E, NEW s \in Seq(E), NEW k \in 1..Len(s),
         NEW r \in Seq(E), OnceEach(r, s, k - 1)
  PROVE  OnceEach(Take(r, s[k]), s, k)
<1> DEFINE x == s[k]
           m == Len(r)
           t == Take(r, x)
           Upto(i, y) == \E j \in 1..i : s[j] = y
<1>1. k \in Nat /\ k # 0 /\ m \in Nat /\ x \in E /\ Len(s) \in Nat /\ k <= Len(s)
  BY ElementOfSeq
<1>2. /\ \A y : Contains(r, y) <=> Upto(k - 1, y)
      /\ \A a, b \in 1..m : r[a] = r[b] => a = b
      /\ \A a, b \in 1..m : a < b => Index(s, r[a]) < Index(s, r[b])
  BY DEF OnceEach
<1>3. \A y : Upto(k, y) <=> Upto(k - 1, y) \/ y = x
  <2>1. \A i \in Int : i \in 1..k <=> i \in 1..(k - 1) \/ i = k
    BY <1>1
  <2>2. QED
    BY <2>1
<1> HIDE DEF Upto, t, m, x
<1>4. CASE Contains(r, x)
  <2>1. t = r
    BY <1>4 DEF Take, t
  <2>2. \A y : Contains(r, y) <=> Upto(k, y)
    BY <1>2, <1>3, <1>4
  <2>3. QED
    BY <1>2, <2>1, <2>2 DEF OnceEach, t, m, x, Upto
<1>5. CASE ~Contains(r, x)
  <2>1. t = Append(r, x)
    BY <1>5 DEF Take, t
  <2>2. Len(t) = m + 1
    BY <1>1, <2>1, AppendProperties DEF m
  <2>3. t[m + 1] = x
    BY <1>1, <2>1, AppendProperties DEF m
  <2>4. \A a \in 1..m : t[a] = r[a]
    BY <1>1, <2>1, AppendProperties DEF m
  <2>5. \A a \in 1..m : r[a] # x
    BY <1>5 DEF Contains, m
  <2>6. \A a \in 1..(m + 1) : a \in 1..m \/ a = m + 1
    BY <1>1
  <2>7. ASSUME NEW y PROVE Contains(t, y) <=> Upto(k, y)
    <3>1. Contains(t, y) <=> \E a \in 1..(m + 1) : t[a] = y
      BY <2>2 DEF Contains
    <3>2. Contains(r, y) <=> \E a \in 1..m : r[a] = y
      BY DEF Contains, m
    <3>3. m + 1 \in 1..(m + 1) /\ \A a \in 1..m : a \in 1..(m + 1)
      BY <1>1
    <3>4. Contains(t, y) <=> Contains(r, y) \/ y = x
      BY <2>3, <2>4, <2>6, <3>1, <3>2, <3>3
    <3>5. QED
      BY <1>2, <1>3, <3>4
  <2>8. \A a, b \in 1..(m + 1) : t[a] = t[b] => a = b
    BY <1>2, <2>3, <2>4, <2>5, <2>6
  <2>9. Index(s, x) = k
    <3>1. k \in 1..Len(s) /\ s[k] = x
      BY <1>1 DEF x
    <3>2. /\ Index(s, x) \in 0..Len(s) /\ Index(s, x) # 0
          /\ s[Index(s, x)] = x /\ Index(s, x) <= k
      BY <3>1, IndexSays
    <3> DEFINE i == Index(s, x)
    <3> HIDE DEF i
    <3>3. i \in 0..Len(s) /\ i # 0 /\ s[i] = x /\ i <= k
      BY <3>2 DEF i
    <3>4. ~(i \in 1..(k - 1))
      BY <1>2, <1>5, <3>3 DEF Upto
    <3>5. QED
      BY <1>1, <3>3, <3>4 DEF i
  <2>10. ASSUME NEW a \in 1..m PROVE Index(s, r[a]) < k
    <3>1. Contains(r, r[a])
      BY DEF Contains, m
    <3>2. PICK j \in 1..(k - 1) : s[j] = r[a]
      BY <1>2, <3>1 DEF Upto
    <3>3. j \in 1..Len(s)
      BY <1>1
    <3>4. Index(s, r[a]) \in 0..Len(s) /\ Index(s, r[a]) <= j
      BY <3>2, <3>3, IndexSays
    <3>5. QED
      BY <1>1, <3>4
  <2>11. ASSUME NEW a \in 1..(m + 1), NEW b \in 1..(m + 1), a < b
         PROVE  Index(s, t[a]) < Index(s, t[b])
    <3>1. a \in 1..m
      BY <1>1, <2>11
    <3>2. CASE b \in 1..m
      BY <1>2, <2>4, <2>11, <3>1, <3>2
    <3>3. CASE b = m + 1
      <4>1. t[a] = r[a] /\ t[b] = x
        BY <2>3, <2>4, <3>1, <3>3
      <4>2. QED
        BY <2>9, <2>10, <3>1, <4>1
    <3>4. QED
      BY <2>6, <3>2, <3>3
  <2>12. QED
    BY <2>2, <2>7, <2>8, <2>11 DEF OnceEach, t, x, Upto
<1>6. QED
  BY <1>4, <1>5

(* Unique has each value once, in order of the first places.                *)
LEMMA UniqueRightAlways ==
  ASSUME NEW E, Flat \in Seq(E)
  PROVE  UniqueRight
<1> DEFINE s == Flat
           n == Len(Flat)
           u == Unique(Flat)
<1>1. n \in Nat /\ 0 \in Nat /\ DOMAIN Flat = 1..n
  OBVIOUS
<1>2. PICK g : /\ u = g[n]
               /\ \A k \in 0..n : g[k] = IF k = 0 THEN <<>> ELSE Take(g[k - 1], Flat[k])
  BY UniqueSays
<1> HIDE DEF u
<1> DEFINE T == {k \in 0..n : g[k] \in Seq(E) /\ OnceEach(g[k], Flat, k)}
<1>3. 0 \in T
  <2>1. 0 \in 0..n /\ g[0] = <<>>
    BY <1>1, <1>2
  <2>2. g[0] \in Seq(E) /\ Len(g[0]) = 0
    BY <2>1
  <2>3. OnceEach(g[0], Flat, 0)
    BY <2>2 DEF OnceEach, Contains
  <2>4. QED
    BY <2>1, <2>2, <2>3
<1>4. ASSUME NEW k \in 0..n, k > 0, k - 1 \in T
      PROVE  k \in T
  <2>1. k \in 1..n /\ k # 0 /\ Flat[k] \in E
    BY <1>1, <1>4, ElementOfSeq
  <2>2. g[k - 1] \in Seq(E) /\ OnceEach(g[k - 1], Flat, k - 1)
    BY <1>4
  <2>3. g[k] = Take(g[k - 1], Flat[k])
    BY <1>2, <2>1
  <2>4. OnceEach(g[k], Flat, k)
    BY <2>1, <2>2, <2>3, TakeSays
  <2>5. g[k] \in Seq(E)
    BY <2>1, <2>2, <2>3, AppendProperties DEF Take
  <2>6. QED
    BY <1>4, <2>4, <2>5
<1> HIDE DEF T
<1>5. \A k \in 0..n : k \in T
  BY <1>1, <1>3, <1>4, Climb
<1>6. u \in Seq(E) /\ OnceEach(u, Flat, n)
  BY <1>1, <1>2, <1>5 DEF T
<1>7. DOMAIN u = 1..Len(u) /\ Len(u) \in Nat
  BY <1>6
<1>8. ToSet(u) = ToSet(Flat)
  <2>1. \A x : x \in ToSet(u) <=> Contains(u, x)
    BY <1>7 DEF ToSet, Contains
  <2>2. \A x : x \in ToSet(Flat) <=> \E i \in 1..n : Flat[i] = x
    BY <1>1 DEF ToSet
  <2>3. \A x : Contains(u, x) <=> \E i \in 1..n : Flat[i] = x
    BY <1>6 DEF OnceEach
  <2>4. QED
    BY <2>1, <2>2, <2>3
<1>9. IsInjective(u)
  BY <1>6, <1>7 DEF IsInjective, OnceEach
<1>10. \A k \in 2..Len(u) : Index(Flat, u[k - 1]) < Index(Flat, u[k])
  <2> SUFFICES ASSUME NEW k \in 2..Len(u) PROVE Index(Flat, u[k - 1]) < Index(Flat, u[k])
    OBVIOUS
  <2>1. k - 1 \in 1..Len(u) /\ k \in 1..Len(u) /\ k - 1 < k
    BY <1>7
  <2>2. QED
    BY <1>6, <2>1 DEF OnceEach
<1>11. QED
  BY <1>8, <1>9, <1>10 DEF UniqueRight, u

-----------------------------------------------------------------------------
(* MinSlice and ReverseSlice.                                               *)

(* The lesser of what it has and one more.                                  *)
Less2(m, x) == IF x < m THEN x ELSE m

(* MinSlice compares them one by one.                                       *)
LEMMA MinSliceSays ==
  ASSUME NEW s \in Seq(Int), s # <<>>
  PROVE  \E g : /\ MinSlice(s) = g[Len(s)]
                /\ \A k \in 1..Len(s) : g[k] = IF k = 1 THEN s[1] ELSE Less2(g[k - 1], s[k])
<1> DEFINE S == Int
           n == Len(s)
           first == s[1]
           f == [p \in S \X (1..n) |-> IF p[2] = 1 THEN first ELSE Less2(p[1], s[p[2]])]
<1>1. n \in Nat /\ 1 \in Nat /\ first \in S
  BY ElementOfSeq
<1>2. ASSUME NEW r \in S, NEW k \in 1..n, k # 1
      PROVE  Less2(r, s[k]) \in S
  <2>1. s[k] \in Int
    BY <1>1, <1>2, ElementOfSeq
  <2>2. QED
    BY <1>2, <2>1 DEF Less2
<1>3. f \in [S \X (1..n) -> S]
  BY <1>1, <1>2
<1>4. \A r \in S, k \in 1..n : k # 1 => f[<<r, k>>] = Less2(r, s[k])
  OBVIOUS
<1> HIDE DEF f, S, n, first
<1>5. PICK g \in [1..n -> S] : Loop(g, 1, n, first, f)
  BY <1>1, <1>3, LoopExists
<1> DEFINE h == [k \in 1..n |-> IF k = 1 THEN first ELSE Less2(g[k - 1], s[k])]
<1>6. ASSUME NEW k \in 1..n
      PROVE  g[k] = h[k]
  <2>1. CASE k = 1
    BY <1>5, <2>1 DEF Loop
  <2>2. CASE k # 1
    <3>1. k - 1 \in 1..n /\ g[k - 1] \in S
      BY <1>1, <2>2
    <3>2. f[<<g[k - 1], k>>] = Less2(g[k - 1], s[k])
      BY <1>4, <2>2, <3>1
    <3>3. QED
      BY <1>5, <2>2, <3>2 DEF Loop
  <2>3. QED
    BY <2>1, <2>2
<1>7. g = h
  <2>1. g = [k \in 1..n |-> g[k]]
    OBVIOUS
  <2>2. QED
    BY <1>6, <2>1
<1>8. \E q : q = [k \in 1..Len(s) |-> IF k = 1 THEN s[1] ELSE Less2(q[k - 1], s[k])]
  BY <1>7 DEF n, first
<1>9. MinSlice(s) = (CHOOSE q : q = [k \in 1..Len(s) |-> IF k = 1 THEN s[1] ELSE Less2(q[k - 1], s[k])])[Len(s)]
  BY DEF MinSlice, Less2
<1>10. QED
  BY <1>8, <1>9

(* MinSlice is the least of a slice that is not empty.                      *)
LEMMA MinSliceRight ==
  ASSUME NEW s \in Seq(Int)
  PROVE  MinSlice(s) = IF s = <<>> THEN "error" ELSE Min(ToSet(s))
<1> DEFINE n == Len(s)
<1>1. CASE s = <<>>
  BY <1>1 DEF MinSlice
<1>2. CASE s # <<>>
  <2>1. n \in Nat /\ n > 0 /\ 1 \in 1..n /\ 1 \in Nat /\ DOMAIN s = 1..n /\ \A k \in 1..n : s[k] \in Int
    BY <1>2, ElementOfSeq
  <2>2. PICK g : /\ MinSlice(s) = g[n]
                 /\ \A k \in 1..n : g[k] = IF k = 1 THEN s[1] ELSE Less2(g[k - 1], s[k])
    BY <1>2, MinSliceSays
  <2> DEFINE T == {k \in 1..n : /\ \E i \in 1..k : g[k] = s[i]
                                /\ \A i \in 1..k : g[k] <= s[i]}
  <2>3. 1 \in T
    BY <2>1, <2>2
  <2>4. ASSUME NEW k \in 1..n, k > 1, k - 1 \in T
        PROVE  k \in T
    <3>1. k - 1 \in 1..n /\ k # 1 /\ \A i \in 1..k : i \in 1..n /\ (i \in 1..(k - 1) \/ i = k)
      BY <2>1, <2>4
    <3>2. PICK i \in 1..(k - 1) : g[k - 1] = s[i]
      BY <2>4
    <3>3. i \in 1..k /\ k \in 1..k /\ g[k - 1] \in Int /\ s[k] \in Int
      BY <2>1, <3>1, <3>2
    <3>4. \A j \in 1..(k - 1) : g[k - 1] <= s[j]
      BY <2>4
    <3>5. g[k] = Less2(g[k - 1], s[k])
      BY <2>2, <3>1
    <3>6. \E j \in 1..k : g[k] = s[j]
      BY <3>2, <3>3, <3>5 DEF Less2
    <3>7. \A j \in 1..k : g[k] <= s[j]
      <4> SUFFICES ASSUME NEW j \in 1..k PROVE g[k] <= s[j]
        OBVIOUS
      <4>1. s[j] \in Int /\ (j \in 1..(k - 1) \/ j = k)
        BY <2>1, <3>1
      <4>2. CASE j = k
        BY <3>3, <3>5, <4>2 DEF Less2
      <4>3. CASE j \in 1..(k - 1)
        BY <3>3, <3>4, <3>5, <4>1, <4>3 DEF Less2
      <4>4. QED
        BY <4>1, <4>2, <4>3
    <3>8. QED
      BY <3>6, <3>7
  <2> HIDE DEF T
  <2>5. \A k \in 1..n : k \in T
    BY <2>1, <2>3, <2>4, Climb
  <2>6. n \in T
    BY <2>1, <2>5
  <2> DEFINE m == MinSlice(s)
             V == ToSet(s)
  <2> HIDE DEF m
  <2>7. m \in V /\ \A v \in V : m <= v
    <3>1. /\ \E i \in 1..n : m = s[i]
          /\ \A i \in 1..n : m <= s[i]
      BY <2>2, <2>6 DEF T, m
    <3>2. QED
      BY <2>1, <3>1 DEF ToSet
  <2>8. V \subseteq Int
    BY <2>1 DEF ToSet
  <2> HIDE DEF V
  <2>9. Min(V) \in V /\ \A v \in V : Min(V) <= v
    BY <2>7 DEF Min
  <2>10. m = Min(V)
    <3> DEFINE z == Min(V)
    <3> HIDE DEF z
    <3>1. z \in V /\ m \in V /\ z <= m /\ m <= z
      BY <2>7, <2>9 DEF z
    <3>2. z \in Int /\ m \in Int
      BY <2>8, <3>1
    <3>3. m = z
      BY <3>1, <3>2
    <3>4. QED
      BY <3>3 DEF z
  <2>11. QED
    BY <1>2, <2>10 DEF m, V
<1>3. QED
  BY <1>1, <1>2

(* What is reversed twice is what it was.                                   *)
LEMMA ReversedTwice ==
  ASSUME NEW E, NEW s \in Seq(E)
  PROVE  ReverseSlice(ReverseSlice(s)) = s
<1> DEFINE n == Len(s)
           r == ReverseSlice(s)
<1>1. n \in Nat /\ DOMAIN s = 1..n /\ \A k \in 1..n : (n + 1) - k \in 1..n /\ s[k] \in E
  BY ElementOfSeq
<1>2. r = [k \in 1..n |-> s[(n + 1) - k]]
  BY <1>1 DEF ReverseSlice
<1> HIDE DEF r, n
<1>3. r \in [1..n -> E]
  BY <1>1, <1>2
<1>4. r \in Seq(E) /\ Len(r) = n
  BY <1>1, <1>3, IsASeq
<1>5. ReverseSlice(r) = [k \in 1..n |-> r[(n + 1) - k]]
  BY <1>1, <1>3, <1>4 DEF ReverseSlice
<1>6. ASSUME NEW k \in 1..n PROVE r[(n + 1) - k] = s[k]
  <2>1. (n + 1) - k \in 1..n /\ (n + 1) - ((n + 1) - k) = k
    BY <1>1
  <2>2. QED
    BY <1>2, <2>1
<1>7. s = [k \in 1..n |-> s[k]]
  BY DEF n
<1>8. QED
  BY <1>5, <1>6, <1>7 DEF r

-----------------------------------------------------------------------------
(* IsPalindrome.                                                            *)

(* What the letters heard so far are after one more rune.                   *)
Hear(before, x) == IF x = 3 THEN before ELSE Append(before, Lower(x))

(* They are the same from both ends, as far as the code compares them.      *)
Mirror(r) == \A i \in 1..(Len(r) \div 2) : r[i] = r[Len(r) + 1 - i]

(* IsPalindrome cleans the text rune by rune.                               *)
LEMMA CleanedSays ==
  ASSUME NEW s \in Seq(Int)
  PROVE  \E g : /\ IsPalindrome(s) <=> Mirror(g[Len(s)])
                /\ \A k \in 0..Len(s) : g[k] = IF k = 0 THEN <<>> ELSE Hear(g[k - 1], s[k])
<1> DEFINE S == Seq(Int)
           n == Len(s)
           first == <<>>
           f == [p \in S \X (0..n) |-> IF p[2] = 0 THEN first ELSE Hear(p[1], s[p[2]])]
<1>1. n \in Nat /\ 0 \in Nat /\ first \in S
  OBVIOUS
<1>2. ASSUME NEW r \in S, NEW k \in 0..n, k # 0
      PROVE  Hear(r, s[k]) \in S
  <2>1. s[k] \in Int
    BY <1>1, <1>2, ElementOfSeq
  <2>2. Lower(s[k]) \in Int
    BY <2>1 DEF Lower
  <2>3. QED
    BY <1>2, <2>2, AppendProperties DEF Hear
<1>3. f \in [S \X (0..n) -> S]
  BY <1>1, <1>2
<1>4. \A r \in S, k \in 0..n : k # 0 => f[<<r, k>>] = Hear(r, s[k])
  OBVIOUS
<1> HIDE DEF f, S, n, first
<1>5. PICK g \in [0..n -> S] : Loop(g, 0, n, first, f)
  BY <1>1, <1>3, LoopExists
<1> DEFINE h == [k \in 0..n |-> IF k = 0 THEN first ELSE Hear(g[k - 1], s[k])]
<1>6. ASSUME NEW k \in 0..n
      PROVE  g[k] = h[k]
  <2>1. CASE k = 0
    BY <1>5, <2>1 DEF Loop
  <2>2. CASE k # 0
    <3>1. k - 1 \in 0..n /\ g[k - 1] \in S
      BY <1>1, <2>2
    <3>2. f[<<g[k - 1], k>>] = Hear(g[k - 1], s[k])
      BY <1>4, <2>2, <3>1
    <3>3. QED
      BY <1>5, <2>2, <3>2 DEF Loop
  <2>3. QED
    BY <2>1, <2>2
<1>7. g = h
  <2>1. g = [k \in 0..n |-> g[k]]
    OBVIOUS
  <2>2. QED
    BY <1>6, <2>1
<1>8. \E q : q = [k \in 0..Len(s) |-> IF k = 0 THEN <<>> ELSE Hear(q[k - 1], s[k])]
  BY <1>7 DEF n, first
<1>9. QED
  BY <1>8 DEF IsPalindrome, Mirror, Hear

(* The letters of s before p, and how many they are.                        *)
Ahead(s, p) == {j \in 1..Len(s) : s[j] # 3 /\ j < p}

Rank(s, p) == Cardinality(Ahead(s, p))

(* There is one letter more ahead of the next rune if this is a letter.     *)
LEMMA RankGrows ==
  ASSUME NEW s \in Seq(Int)
  PROVE  /\ \A p \in 1..(Len(s) + 1) : IsFiniteSet(Ahead(s, p)) /\ Rank(s, p) \in Nat
         /\ Rank(s, 1) = 0
         /\ \A p \in 1..Len(s) :
              Rank(s, p + 1) = IF s[p] = 3 THEN Rank(s, p) ELSE Rank(s, p) + 1
<1> DEFINE n == Len(s)
<1>1. n \in Nat
  OBVIOUS
<1>2. IsFiniteSet(1..n)
  BY <1>1, FS_Interval
<1>3. ASSUME NEW p \in 1..(n + 1)
      PROVE  IsFiniteSet(Ahead(s, p)) /\ Rank(s, p) \in Nat
  <2>1. Ahead(s, p) \subseteq 1..n
    BY DEF Ahead
  <2>2. IsFiniteSet(Ahead(s, p))
    BY <1>2, <2>1, FS_Subset
  <2>3. QED
    BY <2>2, FS_CardinalityType DEF Rank
<1>4. Rank(s, 1) = 0
  <2>1. Ahead(s, 1) = {}
    BY DEF Ahead
  <2>2. QED
    BY <2>1, FS_EmptySet DEF Rank
<1>5. ASSUME NEW p \in 1..n
      PROVE  Rank(s, p + 1) = IF s[p] = 3 THEN Rank(s, p) ELSE Rank(s, p) + 1
  <2>1. p \in 1..(n + 1) /\ \A j \in 1..n : j < p + 1 <=> (j < p \/ j = p)
    BY <1>1
  <2>2. CASE s[p] = 3
    <3>1. Ahead(s, p + 1) = Ahead(s, p)
      BY <2>1, <2>2 DEF Ahead
    <3>2. QED
      BY <2>2, <3>1 DEF Rank
  <2>3. CASE s[p] # 3
    <3>1. Ahead(s, p + 1) = Ahead(s, p) \cup {p} /\ p \notin Ahead(s, p)
      BY <2>1, <2>3 DEF Ahead
    <3>2. Cardinality(Ahead(s, p) \cup {p}) = Cardinality(Ahead(s, p)) + 1
      BY <1>3, <2>1, <3>1, FS_AddElement
    <3>3. QED
      BY <2>3, <3>1, <3>2 DEF Rank
  <2>4. QED
    BY <2>2, <2>3
<1>6. QED
  BY <1>3, <1>4, <1>5

(* What the code has of the first k runes: every letter at its rank.        *)
Cleaned(r, s, k) ==
  /\ r \in Seq(Int) /\ Len(r) = Rank(s, k + 1)
  /\ \A p \in 1..k : s[p] # 3 => Rank(s, p) + 1 \in 1..Len(r) /\ r[Rank(s, p) + 1] = Lower(s[p])
  /\ \A i \in 1..Len(r) : \E p \in 1..k : s[p] # 3 /\ i = Rank(s, p) + 1

(* One more rune keeps what Cleaned says.                                   *)
LEMMA HearSays ==
  ASSUME NEW s \in Seq(Int), NEW k \in 1..Len(s), NEW r, Cleaned(r, s, k - 1)
  PROVE  Cleaned(Hear(r, s[k]), s, k)
<1> DEFINE n == Len(s)
           new == Hear(r, s[k])
           x == Lower(s[k])
           m == Rank(s, k)
<1>1. /\ n \in Nat /\ k \in 1..n /\ k \in 1..k /\ (k - 1) + 1 = k
      /\ \A p \in 1..k : p \in 1..n /\ p \in 1..(n + 1) /\ (p \in 1..(k - 1) \/ p = k)
      /\ \A p \in 1..(k - 1) : p \in 1..k
  OBVIOUS
<1>2. r \in Seq(Int) /\ Len(r) = m /\ m \in Nat
  BY <1>1, RankGrows DEF Cleaned
<1>3. /\ \A p \in 1..(k - 1) : s[p] # 3 => Rank(s, p) + 1 \in 1..m /\ r[Rank(s, p) + 1] = Lower(s[p])
      /\ \A i \in 1..m : \E p \in 1..(k - 1) : s[p] # 3 /\ i = Rank(s, p) + 1
  BY <1>2 DEF Cleaned
<1>4. \A p \in 1..k : Rank(s, p) \in Nat
  BY <1>1, RankGrows
<1>5. CASE s[k] = 3
  <2>1. new = r /\ Rank(s, k + 1) = m
    BY <1>1, <1>5, RankGrows DEF Hear
  <2>2. \A p \in 1..k : s[p] # 3 => p \in 1..(k - 1)
    BY <1>1, <1>5
  <2> HIDE DEF new, m
  <2>3. QED
    BY <1>1, <1>2, <1>3, <2>1, <2>2 DEF Cleaned, new
<1>6. CASE s[k] # 3
  <2>1. s[k] \in Int
    BY <1>1, ElementOfSeq
  <2>2. x \in Int
    BY <2>1 DEF Lower
  <2>3. new = Append(r, x) /\ Rank(s, k + 1) = m + 1
    BY <1>1, <1>6, RankGrows DEF Hear
  <2> HIDE DEF new, x, m
  <2>4. new \in Seq(Int) /\ Len(new) = m + 1
    BY <1>2, <2>2, <2>3, AppendProperties
  <2>5. new[m + 1] = x
    BY <1>2, <2>2, <2>3, AppendProperties
  <2>6. \A i \in 1..m : new[i] = r[i]
    BY <1>2, <2>2, <2>3, AppendProperties
  <2>7. ASSUME NEW p \in 1..k, s[p] # 3
        PROVE  Rank(s, p) + 1 \in 1..(m + 1) /\ new[Rank(s, p) + 1] = Lower(s[p])
    <3>1. CASE p = k
      BY <1>2, <2>5, <3>1 DEF m, x
    <3>2. CASE p \in 1..(k - 1)
      <4>1. Rank(s, p) + 1 \in 1..m /\ r[Rank(s, p) + 1] = Lower(s[p])
        BY <1>3, <2>7, <3>2
      <4>2. Rank(s, p) + 1 \in 1..(m + 1)
        BY <1>2, <4>1
      <4>3. QED
        BY <2>6, <4>1, <4>2
    <3>3. QED
      BY <1>1, <3>1, <3>2
  <2>8. ASSUME NEW i \in 1..(m + 1)
        PROVE  \E p \in 1..k : s[p] # 3 /\ i = Rank(s, p) + 1
    <3>1. CASE i = m + 1
      BY <1>1, <1>6, <3>1 DEF m
    <3>2. CASE i # m + 1
      <4>1. i \in 1..m
        BY <1>2, <3>2
      <4>2. QED
        BY <1>1, <1>3, <4>1
    <3>3. QED
      BY <3>1, <3>2
  <2>9. QED
    BY <2>3, <2>4, <2>7, <2>8 DEF Cleaned, new
<1>7. QED
  BY <1>5, <1>6

(* What stands behind a letter is the rest.                                 *)
LEMMA RankBehind ==
  ASSUME NEW s \in Seq(Int), NEW q \in 1..Len(s), s[q] # 3
  PROVE  Cardinality({k \in {k \in 1..Len(s) : s[k] # 3} : k > q})
           = Rank(s, Len(s) + 1) - (Rank(s, q) + 1)
<1> DEFINE n == Len(s)
           behind == {k \in {k \in 1..n : s[k] # 3} : k > q}
           ahead == Ahead(s, q + 1)
           all == Ahead(s, n + 1)
<1>1. n \in Nat /\ q + 1 \in 1..(n + 1) /\ n + 1 \in 1..(n + 1)
  OBVIOUS
<1>2. IsFiniteSet(all) /\ IsFiniteSet(ahead) /\ Cardinality(all) = Rank(s, n + 1)
  BY <1>1, RankGrows DEF Rank
<1>3. all = ahead \cup behind /\ ahead \cap behind = {} /\ behind \subseteq all
  BY <1>1 DEF Ahead
<1> HIDE DEF all, ahead, behind, n
<1>4. IsFiniteSet(behind)
  BY <1>2, <1>3, FS_Subset
<1>5. Cardinality(all) = Cardinality(ahead) + Cardinality(behind) - Cardinality({})
  BY <1>2, <1>3, <1>4, FS_Union
<1>6. Cardinality({}) = 0
  BY FS_EmptySet
<1>7. Cardinality(ahead) = Rank(s, q) + 1 /\ Rank(s, q) \in Nat
  BY RankGrows DEF ahead, Rank
<1>8. Cardinality(behind) \in Nat /\ Cardinality(all) \in Nat
  BY <1>2, <1>4, FS_CardinalityType
<1>9. Cardinality(behind) = Rank(s, n + 1) - (Rank(s, q) + 1)
  BY <1>2, <1>5, <1>6, <1>7, <1>8
<1>10. QED
  BY <1>9 DEF behind, n

(* IsPalindrome compares each letter with the one as far from the other end.*)
LEMMA PalindromeSays ==
  ASSUME NEW s \in Seq(Int)
  PROVE  \E r : /\ Cleaned(r, s, Len(s))
                /\ IsPalindrome(s) <=> \A i \in 1..Len(r) : r[i] = r[(Len(r) + 1) - i]
<1> DEFINE n == Len(s)
<1>1. PICK g : /\ IsPalindrome(s) <=> Mirror(g[n])
               /\ \A k \in 0..n : g[k] = IF k = 0 THEN <<>> ELSE Hear(g[k - 1], s[k])
  BY CleanedSays
<1>2. n \in Nat /\ 0 \in Nat /\ 0 \in 0..n /\ n \in 0..n
  OBVIOUS
<1> DEFINE T == {k \in 0..n : Cleaned(g[k], s, k)}
<1>3. 0 \in T
  <2>1. g[0] = <<>>
    BY <1>1, <1>2
  <2>2. <<>> \in Seq(Int) /\ Len(<<>>) = 0 /\ Rank(s, 1) = 0
    BY RankGrows
  <2>3. Cleaned(<<>>, s, 0)
    BY <2>2 DEF Cleaned
  <2>4. QED
    BY <1>2, <2>1, <2>3
<1>4. ASSUME NEW k \in 0..n, k > 0 /\ k - 1 \in T
      PROVE  k \in T
  <2>1. k \in 1..n /\ k # 0 /\ Cleaned(g[k - 1], s, k - 1)
    BY <1>4
  <2>2. g[k] = Hear(g[k - 1], s[k])
    BY <1>1, <2>1
  <2>3. Cleaned(Hear(g[k - 1], s[k]), s, k)
    BY <2>1, HearSays
  <2>4. QED
    BY <2>2, <2>3
<1> HIDE DEF T
<1>5. \A k \in 0..n : k \in T
  BY <1>2, <1>3, <1>4, Climb
<1> DEFINE r == g[n]
<1>6. Cleaned(r, s, n)
  BY <1>2, <1>5 DEF T
<1>7. Len(r) \in Nat
  BY <1>6 DEF Cleaned
<1> HIDE DEF r
<1> DEFINE L == Len(r)
<1> HIDE DEF L
<1>8. Mirror(r) <=> \A i \in 1..(L \div 2) : r[i] = r[(L + 1) - i]
  BY DEF Mirror, L
<1>9. \A i \in 1..(L \div 2) : i \in 1..L
  BY <1>7 DEF L
<1>10. ASSUME \A i \in 1..(L \div 2) : r[i] = r[(L + 1) - i], NEW i \in 1..L
       PROVE  r[i] = r[(L + 1) - i]
  <2>1. i \in 1..(L \div 2) \/ (L + 1) - i = i \/ (L + 1) - i \in 1..(L \div 2)
    BY <1>7 DEF L
  <2>2. (L + 1) - ((L + 1) - i) = i
    BY <1>7 DEF L
  <2>3. QED
    BY <1>10, <2>1, <2>2
<1>11. IsPalindrome(s) <=> \A i \in 1..L : r[i] = r[(L + 1) - i]
  <2>1. IsPalindrome(s) <=> Mirror(r)
    BY <1>1 DEF r
  <2>2. QED
    BY <1>8, <1>9, <1>10, <2>1
<1>12. QED
  BY <1>6, <1>11 DEF L

(* IsPalindrome says whether each two letters as far from the two ends are  *)
(* the same.                                                                *)
LEMMA PalindromeRightAlways ==
  ASSUME Flat \in Seq(Int)
  PROVE  PalindromeRight
<1> DEFINE s == Flat
           n == Len(s)
           letters == {k \in 1..n : s[k] # 3}
           Before(p) == Cardinality({k \in letters : k < p})
           After(q) == Cardinality({k \in letters : k > q})
           Same == \A p, q \in letters : Before(p) = After(q) => Lower(s[p]) = Lower(s[q])
<1>1. DOMAIN s = 1..n /\ n \in Nat
  OBVIOUS
<1>2. PICK r : /\ Cleaned(r, s, n)
               /\ IsPalindrome(s) <=> \A i \in 1..Len(r) : r[i] = r[(Len(r) + 1) - i]
  BY PalindromeSays
<1> DEFINE L == Len(r)
<1>3. L \in Nat /\ L = Rank(s, n + 1)
  BY <1>2 DEF Cleaned
<1> HIDE DEF L
<1>4. /\ \A p \in 1..n : s[p] # 3 => Rank(s, p) + 1 \in 1..L /\ r[Rank(s, p) + 1] = Lower(s[p])
      /\ \A i \in 1..L : \E p \in 1..n : s[p] # 3 /\ i = Rank(s, p) + 1
  BY <1>2 DEF Cleaned, L
<1>5. \A p \in letters : Before(p) = Rank(s, p) /\ Rank(s, p) \in Nat
  <2> SUFFICES ASSUME NEW p \in letters PROVE Before(p) = Rank(s, p) /\ Rank(s, p) \in Nat
    OBVIOUS
  <2>1. {k \in letters : k < p} = Ahead(s, p)
    BY DEF Ahead
  <2>2. p \in 1..(n + 1)
    BY <1>1
  <2>3. QED
    BY <2>1, <2>2, RankGrows DEF Rank
<1>6. \A q \in letters : After(q) = L - (Rank(s, q) + 1)
  BY <1>3, RankBehind
<1> HIDE DEF Before, After
<1>7. Same <=> \A p, q \in letters : Rank(s, p) + 1 = (L + 1) - (Rank(s, q) + 1)
                                        => Lower(s[p]) = Lower(s[q])
  <2>1. ASSUME NEW p \in letters, NEW q \in letters
        PROVE  Before(p) = After(q) <=> Rank(s, p) + 1 = (L + 1) - (Rank(s, q) + 1)
    <3> DEFINE a == Rank(s, p)
               b == Rank(s, q)
    <3>1. Before(p) = a /\ After(q) = L - (b + 1)
      BY <1>5, <1>6
    <3>2. a \in Nat /\ b \in Nat /\ L \in Nat
      BY <1>3, <1>5
    <3> HIDE DEF a, b
    <3>3. a = L - (b + 1) <=> a + 1 = (L + 1) - (b + 1)
      BY <3>2
    <3>4. Before(p) = After(q) <=> a + 1 = (L + 1) - (b + 1)
      BY <3>1, <3>3
    <3>5. QED
      BY <3>4 DEF a, b
  <2>2. QED
    BY <2>1
<1>8. ASSUME \A i \in 1..L : r[i] = r[(L + 1) - i],
             NEW p \in letters, NEW q \in letters, Rank(s, p) + 1 = (L + 1) - (Rank(s, q) + 1)
      PROVE  Lower(s[p]) = Lower(s[q])
  <2>1. Rank(s, p) + 1 \in 1..L /\ r[Rank(s, p) + 1] = Lower(s[p])
    BY <1>4
  <2>2. Rank(s, q) + 1 \in 1..L /\ r[Rank(s, q) + 1] = Lower(s[q])
    BY <1>4
  <2>3. r[Rank(s, q) + 1] = r[(L + 1) - (Rank(s, q) + 1)]
    BY <1>8, <2>2
  <2>4. QED
    BY <1>8, <2>1, <2>2, <2>3
<1>9. ASSUME \A p, q \in letters : Rank(s, p) + 1 = (L + 1) - (Rank(s, q) + 1)
                                     => Lower(s[p]) = Lower(s[q]),
             NEW i \in 1..L
      PROVE  r[i] = r[(L + 1) - i]
  <2>1. PICK p \in letters : i = Rank(s, p) + 1
    BY <1>4
  <2>2. (L + 1) - i \in 1..L /\ (L + 1) - ((L + 1) - i) = i
    BY <1>3
  <2>3. PICK q \in letters : (L + 1) - i = Rank(s, q) + 1
    BY <1>4, <2>2
  <2>4. Lower(s[p]) = Lower(s[q])
    BY <1>9, <2>1, <2>2, <2>3
  <2>5. r[i] = Lower(s[p]) /\ r[(L + 1) - i] = Lower(s[q])
    BY <1>4, <2>1, <2>3
  <2>6. QED
    BY <2>4, <2>5
<1>10. IsPalindrome(s) <=> Same
  <2>1. IsPalindrome(s) <=> \A i \in 1..L : r[i] = r[(L + 1) - i]
    BY <1>2 DEF L
  <2> HIDE DEF Same, letters
  <2>2. QED
    BY <1>7, <1>8, <1>9, <2>1
<1>11. QED
  BY <1>1, <1>10 DEF PalindromeRight, Before, After

-----------------------------------------------------------------------------
(* ParseCommit.                                                             *)

(* One element before or behind others.                                     *)
LEMMA OneBefore ==
  ASSUME NEW E, NEW x \in E, NEW s \in Seq(E)
  PROVE  /\ <<x>> \o s \in Seq(E) /\ Len(<<x>> \o s) = Len(s) + 1
         /\ (<<x>> \o s)[1] = x
         /\ \A k \in 1..Len(s) : (<<x>> \o s)[k + 1] = s[k]
<1> DEFINE one == <<x>>
           t == one \o s
<1>1. one \in Seq(E) /\ Len(one) = 1 /\ one[1] = x /\ Len(s) \in Nat
  OBVIOUS
<1> HIDE DEF one
<1>2. /\ t \in Seq(E) /\ Len(t) = Len(one) + Len(s)
      /\ \A k \in 1..(Len(one) + Len(s)) : t[k] = IF k <= Len(one) THEN one[k] ELSE s[k - Len(one)]
  BY <1>1, ConcatProperties
<1> HIDE DEF t
<1>3. Len(t) = Len(s) + 1 /\ t[1] = x
  BY <1>1, <1>2
<1>4. ASSUME NEW k \in 1..Len(s)
      PROVE  t[k + 1] = s[k]
  <2>1. k + 1 \in 1..(Len(one) + Len(s)) /\ ~(k + 1 <= Len(one)) /\ (k + 1) - Len(one) = k
    BY <1>1
  <2>2. QED
    BY <1>2, <2>1
<1>5. t \in Seq(E) /\ Len(t) = Len(s) + 1 /\ t[1] = x /\ \A k \in 1..Len(s) : t[k + 1] = s[k]
  BY <1>2, <1>3, <1>4
<1>6. QED
  BY <1>5 DEF t, one

LEMMA OneBehind ==
  ASSUME NEW E, NEW x \in E, NEW s \in Seq(E)
  PROVE  /\ s \o <<x>> \in Seq(E) /\ Len(s \o <<x>>) = Len(s) + 1
         /\ (s \o <<x>>)[Len(s) + 1] = x
         /\ \A k \in 1..Len(s) : (s \o <<x>>)[k] = s[k]
<1> DEFINE one == <<x>>
           t == s \o one
<1>1. one \in Seq(E) /\ Len(one) = 1 /\ one[1] = x /\ Len(s) \in Nat
  OBVIOUS
<1> HIDE DEF one
<1>2. /\ t \in Seq(E) /\ Len(t) = Len(s) + Len(one)
      /\ \A k \in 1..(Len(s) + Len(one)) : t[k] = IF k <= Len(s) THEN s[k] ELSE one[k - Len(s)]
  BY <1>1, ConcatProperties
<1> HIDE DEF t
<1>3. Len(t) = Len(s) + 1
  BY <1>1, <1>2
<1>4. t[Len(s) + 1] = x
  <2>1. /\ Len(s) + 1 \in 1..(Len(s) + Len(one)) /\ ~(Len(s) + 1 <= Len(s))
        /\ (Len(s) + 1) - Len(s) = 1
    BY <1>1
  <2>2. QED
    BY <1>1, <1>2, <2>1
<1>5. ASSUME NEW k \in 1..Len(s)
      PROVE  t[k] = s[k]
  <2>1. k \in 1..(Len(s) + Len(one)) /\ k <= Len(s)
    BY <1>1
  <2>2. QED
    BY <1>2, <2>1
<1>6. t \in Seq(E) /\ Len(t) = Len(s) + 1 /\ t[Len(s) + 1] = x /\ \A k \in 1..Len(s) : t[k] = s[k]
  BY <1>2, <1>3, <1>4, <1>5
<1>7. QED
  BY <1>6 DEF t, one

(* A message without its "!".                                               *)
Body(scope) == IF scope = <<>> THEN <<0>> ELSE <<0>> \o (<<1>> \o scope \o <<2>>)

(* The places of the word, the brackets and the scope in the body.          *)
LEMMA BodySays ==
  ASSUME NEW s \in Seq(Int), s # <<>>
  PROVE  /\ Body(s) \in Seq(Int) /\ Len(Body(s)) = Len(s) + 3
         /\ Body(s)[1] = 0 /\ Body(s)[2] = 1 /\ Body(s)[Len(s) + 3] = 2
         /\ \A k \in 1..Len(s) : Body(s)[k + 2] = s[k]
<1> DEFINE n == Len(s)
           u == <<1>> \o s
           v == u \o <<2>>
           b == <<0>> \o v
<1>1. n \in Nat /\ 0 \in Int /\ 1 \in Int /\ 2 \in Int
  OBVIOUS
<1>2. u \in Seq(Int) /\ Len(u) = n + 1 /\ u[1] = 1 /\ \A k \in 1..n : u[k + 1] = s[k]
  BY <1>1, OneBefore
<1> HIDE DEF u
<1>3. /\ v \in Seq(Int) /\ Len(v) = (n + 1) + 1 /\ v[(n + 1) + 1] = 2
      /\ \A k \in 1..(n + 1) : v[k] = u[k]
  <2>1. /\ v \in Seq(Int) /\ Len(v) = Len(u) + 1 /\ v[Len(u) + 1] = 2
        /\ \A k \in 1..Len(u) : v[k] = u[k]
    BY <1>1, <1>2, OneBehind
  <2>2. QED
    BY <1>2, <2>1
<1> HIDE DEF v
<1>4. /\ b \in Seq(Int) /\ Len(b) = Len(v) + 1 /\ b[1] = 0
      /\ \A k \in 1..Len(v) : b[k + 1] = v[k]
  BY <1>1, <1>3, OneBefore
<1> HIDE DEF b
<1>5. Len(b) = n + 3 /\ Len(v) = n + 2
  BY <1>1, <1>3, <1>4
<1>6. b[2] = 1
  <2>1. 1 \in 1..Len(v) /\ 1 \in 1..(n + 1)
    BY <1>1, <1>5
  <2>2. QED
    BY <1>2, <1>3, <1>4, <2>1
<1>7. b[n + 3] = 2
  <2>1. n + 2 \in 1..Len(v) /\ (n + 2) + 1 = n + 3 /\ (n + 1) + 1 = n + 2
    BY <1>1, <1>5
  <2>2. QED
    BY <1>3, <1>4, <2>1
<1>8. ASSUME NEW k \in 1..n
      PROVE  b[k + 2] = s[k]
  <2>1. k + 1 \in 1..Len(v) /\ k + 1 \in 1..(n + 1) /\ (k + 1) + 1 = k + 2
    BY <1>1, <1>5
  <2>2. QED
    BY <1>2, <1>3, <1>4, <2>1
<1>9. Body(s) = b
  BY DEF Body, b, v, u
<1>10. QED
  BY <1>4, <1>5, <1>6, <1>7, <1>8, <1>9

(* What ParseCommit makes of a message without its "!".                     *)
Parse(rest, breaking) ==
  LET open == Index(rest, 1)
      close == Index(rest, 2)
      type == IF open > 0 THEN SubSeq(rest, 1, open - 1) ELSE rest
      scope == IF open > 0 THEN SubSeq(rest, open + 1, close - 1) ELSE <<>>
  IN IF (open > 0 /\ close < open) \/ type # <<0>> THEN NotParsed
     ELSE [err |-> "nil", scope |-> scope, breaking |-> breaking]

(* ParseCommit takes the "!" off, if there is one, and nothing else.        *)
LEMMA BangTaken ==
  ASSUME NEW b \in Seq(Int), NEW breaking \in BOOLEAN,
         breaking \/ b = <<>> \/ Last(b) # 3
  PROVE  ParseCommit(b \o (IF breaking THEN <<3>> ELSE <<>>), TRUE) = Parse(b, breaking)
<1> DEFINE p == b \o (IF breaking THEN <<3>> ELSE <<>>)
<1>1. Len(b) \in Nat
  OBVIOUS
<1>2. CASE breaking
  <2>1. p = b \o <<3>>
    BY <1>2
  <2> HIDE DEF p
  <2>2. p \in Seq(Int) /\ Len(p) = Len(b) + 1 /\ p[Len(b) + 1] = 3 /\ \A k \in 1..Len(b) : p[k] = b[k]
    BY <1>1, <2>1, OneBehind
  <2>3. p # <<>> /\ Last(p) = 3
    BY <1>1, <2>2 DEF Last
  <2>4. Front(p) = b
    <3>1. Front(p) = SubSeq(p, 1, Len(b))
      BY <1>1, <2>2 DEF Front
    <3>2. \A i \in 1..Len(b) : p[i] \in Int
      BY <1>1, <2>2, ElementOfSeq
    <3> DEFINE q == SubSeq(p, 1, Len(b))
    <3>3. q \in Seq(Int) /\ Len(q) = Len(b) /\ \A k \in 1..Len(b) : q[k] = p[k]
      BY <1>1, <2>2, <3>2, SubSeqProperties
    <3> HIDE DEF q
    <3>4. q = b
      BY <1>1, <2>2, <3>3, SeqEqual
    <3>5. QED
      BY <3>1, <3>4 DEF q
  <2>5. ParseCommit(p, TRUE) = Parse(b, TRUE)
    BY <2>3, <2>4 DEF ParseCommit, Parse
  <2>6. QED
    BY <1>2, <2>5 DEF p
<1>3. CASE ~breaking
  <2>1. p = b
    BY <1>3
  <2> HIDE DEF p
  <2>2. ~(b # <<>> /\ Last(b) = 3)
    BY <1>3
  <2>3. ParseCommit(p, TRUE) = Parse(b, FALSE)
    BY <2>1, <2>2 DEF ParseCommit, Parse
  <2>4. QED
    BY <1>3, <2>3 DEF p
<1>4. QED
  BY <1>2, <1>3

(* What stands before the "!" of a message written from its parts.          *)
LEMMA FormatSays ==
  ASSUME NEW s \in Seq(Int), NEW breaking \in BOOLEAN
  PROVE  ParseCommit(Format([scope |-> s, breaking |-> breaking]), TRUE) = Parse(Body(s), breaking)
<1> DEFINE b == Body(s)
           p == Format([scope |-> s, breaking |-> breaking])
<1>1. b \in Seq(Int) /\ Last(b) # 3
  <2>1. CASE s = <<>>
    BY <2>1 DEF Body, Last
  <2>2. CASE s # <<>>
    <3>1. Len(s) \in Nat
      OBVIOUS
    <3>2. b \in Seq(Int) /\ Len(b) = Len(s) + 3 /\ b[Len(s) + 3] = 2
      BY <2>2, BodySays
    <3> HIDE DEF b
    <3>3. QED
      BY <3>1, <3>2 DEF Last
  <2>3. QED
    BY <2>1, <2>2
<1>2. p = b \o (IF breaking THEN <<3>> ELSE <<>>)
  <2>1. CASE s = <<>>
    <3>1. <<0>> \o <<>> = <<0>>
      OBVIOUS
    <3>2. QED
      BY <2>1, <3>1 DEF Format, Body
  <2>2. CASE s # <<>>
    BY <2>2 DEF Format, Body
  <2>3. QED
    BY <2>1, <2>2
<1> HIDE DEF b, p
<1>3. ParseCommit(p, TRUE) = Parse(b, breaking)
  BY <1>1, <1>2, BangTaken
<1>4. QED
  BY <1>3 DEF p, b

(* The parser finds the scope it was given, up to a ")" of its own.         *)
LEMMA ParseSays ==
  ASSUME NEW s \in Seq(Int), NEW breaking \in BOOLEAN
  PROVE  Parse(Body(s), breaking)
           = [err |-> "nil", scope |-> IF Index(s, 2) = 0 THEN s ELSE SubSeq(s, 1, Index(s, 2) - 1),
              breaking |-> breaking]
<1> DEFINE b == Body(s)
           n == Len(s)
           cut == Index(s, 2)
           open == Index(b, 1)
           close == Index(b, 2)
<1>1. n \in Nat /\ cut \in 0..n
  BY IndexSays
<1>2. CASE s = <<>>
  <2>1. n = 0 /\ b = <<0>> /\ b \in Seq(Int) /\ Len(b) = 1 /\ b[1] = 0
    BY <1>2 DEF Body
  <2> HIDE DEF b
  <2>2. open = 0 /\ cut = 0
    <3>1. \A k \in 1..Len(b) : b[k] # 1
      BY <2>1
    <3>2. open = 0
      <4>1. (\E k \in 1..Len(b) : b[k] = 1) <=> open # 0
        BY <2>1, IndexSays
      <4>2. QED
        BY <3>1, <4>1
    <3>3. QED
      BY <1>1, <2>1, <3>2
  <2> HIDE DEF open, cut
  <2>3. Parse(b, breaking) = [err |-> "nil", scope |-> <<>>, breaking |-> breaking]
    BY <2>1, <2>2 DEF Parse, open
  <2>4. QED
    BY <1>2, <2>2, <2>3 DEF cut, b
<1>3. CASE s # <<>>
  <2>1. /\ b \in Seq(Int) /\ Len(b) = n + 3
        /\ b[1] = 0 /\ b[2] = 1 /\ b[n + 3] = 2
        /\ \A k \in 1..n : b[k + 2] = s[k]
    BY <1>3, BodySays
  <2> HIDE DEF b
  <2>2. /\ open \in 0..(n + 3)
        /\ (\E k \in 1..(n + 3) : b[k] = 1) <=> open # 0
        /\ open # 0 => b[open] = 1
        /\ \A k \in 1..(n + 3) : b[k] = 1 => open <= k
    BY <2>1, IndexSays
  <2>3. /\ close \in 0..(n + 3)
        /\ (\E k \in 1..(n + 3) : b[k] = 2) <=> close # 0
        /\ close # 0 => b[close] = 2
        /\ \A k \in 1..(n + 3) : b[k] = 2 => close <= k
    BY <2>1, IndexSays
  <2>4. /\ (\E k \in 1..n : s[k] = 2) <=> cut # 0
        /\ cut # 0 => s[cut] = 2
        /\ \A k \in 1..n : s[k] = 2 => cut <= k
    BY IndexSays
  <2> HIDE DEF open, close, cut, n
  <2>5. open = 2
    <3>1. 2 \in 1..(n + 3) /\ 1 \in 1..(n + 3)
      BY <1>1
    <3>2. open # 0 /\ open <= 2 /\ open # 1
      BY <2>1, <2>2, <3>1
    <3>3. QED
      BY <1>1, <2>2, <3>2
  <2>6. close = IF cut = 0 THEN n + 3 ELSE cut + 2
    <3>1. n + 3 \in 1..(n + 3)
      BY <1>1
    <3>2. close \in 1..(n + 3) /\ b[close] = 2
      BY <1>1, <2>1, <2>3, <3>1
    <3>3. close # 1 /\ close # 2
      BY <2>1, <3>2
    <3>4. close = n + 3 \/ (close - 2 \in 1..n /\ s[close - 2] = 2)
      <4>1. close = n + 3 \/ (close - 2 \in 1..n /\ (close - 2) + 2 = close)
        BY <1>1, <3>2, <3>3
      <4>2. QED
        BY <2>1, <3>2, <4>1
    <3>5. CASE cut = 0
      BY <2>4, <3>4, <3>5
    <3>6. CASE cut # 0
      <4>1. cut \in 1..n /\ cut + 2 \in 1..(n + 3)
        BY <1>1, <3>6
      <4>2. b[cut + 2] = 2
        BY <2>1, <2>4, <3>6, <4>1
      <4>3. close <= cut + 2
        BY <2>3, <4>1, <4>2
      <4>4. close # n + 3
        BY <1>1, <4>1, <4>3
      <4>5. cut <= close - 2
        BY <2>4, <3>4, <4>4
      <4>6. QED
        BY <1>1, <3>2, <3>6, <4>3, <4>5
    <3>7. QED
      BY <3>5, <3>6
  <2> DEFINE type == SubSeq(b, 1, 1)
             scope == SubSeq(b, 3, close - 1)
             given == IF cut = 0 THEN s ELSE SubSeq(s, 1, cut - 1)
             m == IF cut = 0 THEN n ELSE cut - 1
  <2>7. type = <<0>>
    <3>1. \A i \in 1..1 : b[i] \in Int
      BY <2>1
    <3>2. type \in Seq(Int) /\ Len(type) = 1 /\ type[1] = b[1]
      BY <2>1, <3>1, SubSeqProperties
    <3>3. <<0>> \in Seq(Int) /\ Len(<<0>>) = 1
      OBVIOUS
    <3> HIDE DEF type
    <3>4. \A i \in 1..Len(type) : type[i] = <<0>>[i]
      BY <2>1, <3>2
    <3>5. QED
      BY <3>2, <3>3, <3>4, SeqEqual
  <2>8. m \in 0..n /\ close - 1 = m + 2
    BY <1>1, <2>6
  <2>9. scope \in Seq(Int) /\ Len(scope) = m /\ \A k \in 1..m : scope[k] = s[k]
    <3>1. \A i \in 3..(m + 2) : b[i] \in Int
      BY <1>1, <2>1, <2>8, ElementOfSeq
    <3>2. /\ Len(SubSeq(b, 3, m + 2)) = IF 3 <= m + 2 THEN (m + 2) - 3 + 1 ELSE 0
          /\ \A k \in 1..((m + 2) - 3 + 1) : SubSeq(b, 3, m + 2)[k] = b[3 + k - 1]
          /\ SubSeq(b, 3, m + 2) \in Seq(Int)
      BY <2>8, <3>1, SubSeqProperties
    <3>3. scope = SubSeq(b, 3, m + 2)
      BY <2>8
    <3> HIDE DEF scope, m
    <3>4. m \in Nat /\ (m + 2) - 3 + 1 = m
      BY <1>1, <2>8
    <3>5. Len(scope) = m
      BY <3>2, <3>3, <3>4
    <3>6. ASSUME NEW k \in 1..m PROVE scope[k] = s[k]
      <4>1. k \in 1..n /\ 3 + k - 1 = k + 2
        BY <1>1, <2>8
      <4>2. scope[k] = b[k + 2]
        BY <3>2, <3>3, <3>4, <4>1
      <4>3. QED
        BY <2>1, <4>1, <4>2
    <3>7. QED
      BY <3>2, <3>3, <3>5, <3>6
  <2>10. given \in Seq(Int) /\ Len(given) = m /\ \A k \in 1..m : given[k] = s[k]
    <3>1. CASE cut = 0
      BY <3>1 DEF n
    <3>2. CASE cut # 0
      <4>1. \A i \in 1..(cut - 1) : s[i] \in Int
        BY <1>1, <3>2, ElementOfSeq DEF n
      <4>2. cut - 1 \in Nat
        BY <1>1, <3>2
      <4> DEFINE q == SubSeq(s, 1, cut - 1)
      <4>3. q \in Seq(Int) /\ Len(q) = cut - 1 /\ \A k \in 1..(cut - 1) : q[k] = s[k]
        BY <4>1, <4>2, SubSeqProperties
      <4> HIDE DEF q
      <4>4. given = q /\ m = cut - 1
        BY <3>2 DEF q
      <4>5. QED
        BY <4>3, <4>4
    <3>3. QED
      BY <3>1, <3>2
  <2> HIDE DEF scope, given, m
  <2>11. scope = given
    BY <2>9, <2>10, SeqEqual
  <2>12. Parse(b, breaking) = [err |-> "nil", scope |-> scope, breaking |-> breaking]
    <3>1. open > 0 /\ ~(close < open) /\ open - 1 = 1 /\ open + 1 = 3
      BY <1>1, <2>5, <2>6
    <3>2. QED
      BY <2>7, <3>1 DEF Parse, open, close, type, scope
  <2>13. QED
    BY <2>11, <2>12 DEF given, cut, b
<1>4. QED
  BY <1>2, <1>3

(* What is written from its parts is parsed to them.                        *)
LEMMA ParsesBackAlways ==
  ASSUME Flat \in Seq(Int)
  PROVE  ParsesBack
BY FormatSays, ParseSays DEF ParsesBack

(* What Parse accepts: a type, or a type, a "(" and a ")" somewhere.        *)
LEMMA ParseAccepts ==
  ASSUME NEW s \in Seq(Int), NEW breaking
  PROVE  Parse(s, breaking).err = "nil"
           <=> s = <<0>> \/ (Len(s) > 2 /\ s[1] = 0 /\ s[2] = 1 /\ 2 \in ToSet(s))
<1> DEFINE n == Len(s)
           open == Index(s, 1)
           close == Index(s, 2)
           type == IF open > 0 THEN SubSeq(s, 1, open - 1) ELSE s
           refused == (open > 0 /\ close < open) \/ type # <<0>>
<1>1. /\ n \in Nat /\ open \in 0..n
      /\ (\E k \in 1..n : s[k] = 1) <=> open # 0
      /\ open # 0 => s[open] = 1
      /\ \A k \in 1..n : s[k] = 1 => open <= k
  BY IndexSays
<1>2. /\ close \in 0..n
      /\ (\E k \in 1..n : s[k] = 2) <=> close # 0
      /\ close # 0 => s[close] = 2
  BY IndexSays
<1>3. Parse(s, breaking).err = "nil" <=> ~refused
  BY DEF Parse, NotParsed
<1>4. 2 \in ToSet(s) <=> \E k \in 1..n : s[k] = 2
  BY DEF ToSet
<1>5. <<0>> \in Seq(Int) /\ Len(<<0>>) = 1 /\ <<0>>[1] = 0
  OBVIOUS
<1>6. ASSUME open > 0
      PROVE  type = <<0>> <=> open = 2 /\ s[1] = 0
  <2> DEFINE q == SubSeq(s, 1, open - 1)
  <2>1. open - 1 \in Nat /\ \A i \in 1..(open - 1) : s[i] \in Int
    BY <1>1, <1>6, ElementOfSeq
  <2>2. q \in Seq(Int) /\ Len(q) = open - 1 /\ \A k \in 1..(open - 1) : q[k] = s[k]
    BY <2>1, SubSeqProperties
  <2>3. type = q
    BY <1>6
  <2> HIDE DEF q, open, type
  <2>4. ASSUME open = 2, s[1] = 0 PROVE q = <<0>>
    <3>1. Len(q) = 1 /\ 1 \in 1..(open - 1) /\ q[1] = 0
      BY <2>2, <2>4
    <3>2. \A i \in 1..Len(q) : q[i] = <<0>>[i]
      BY <3>1
    <3>3. QED
      BY <1>5, <2>2, <3>1, <3>2, SeqEqual
  <2>5. ASSUME Len(q) = 1, q[1] = 0
        PROVE  open = 2 /\ s[1] = 0
    <3>1. Len(q) = 1 /\ q[1] = 0
      BY <2>5
    <3>2. open - 1 = 1 /\ open = 2
      <4>1. open \in Int
        BY <1>1
      <4>2. Len(q) = open - 1
        BY <2>2
      <4>3. 1 = open - 1
        BY <3>1, <4>2, Zenon
      <4>4. QED
        BY <4>1, <4>3
    <3>3. 1 \in 1..(open - 1)
      BY <3>2
    <3>4. QED
      BY <2>2, <3>1, <3>2, <3>3
  <2>6. q = <<0>> => Len(q) = 1 /\ q[1] = 0
    OBVIOUS
  <2>7. QED
    BY <2>3, <2>4, <2>5, <2>6
<1>7. ASSUME open = 0
      PROVE  type = <<0>> <=> s = <<0>>
  <2>1. ~(open > 0)
    BY <1>7
  <2>2. type = s
    BY <2>1
  <2> HIDE DEF type
  <2>3. QED
    BY <2>2
<1>8. s = <<0>> => open = 0
  <2>1. s = <<0>> => \A k \in 1..n : s[k] # 1
    OBVIOUS
  <2>2. QED
    BY <1>1, <2>1
<1>9. n > 2 /\ s[1] = 0 /\ s[2] = 1 => open = 2
  <2>1. ASSUME n > 2, s[1] = 0, s[2] = 1 PROVE open = 2
    <3>1. 2 \in 1..n
      BY <1>1, <2>1
    <3>2. open # 0 /\ open <= 2 /\ open # 1
      BY <1>1, <2>1, <3>1
    <3>3. QED
      BY <1>1, <3>2
  <2>2. QED
    BY <2>1
<1>10. ASSUME open = 2, s[1] = 0
       PROVE  close >= open <=> n > 2 /\ 2 \in ToSet(s)
  <2> HIDE DEF open, close, n
  <2>1. s[2] = 1 /\ n >= 2
    BY <1>1, <1>10
  <2>2. close # 1 /\ close # 2
    BY <1>2, <1>10, <2>1
  <2>3. close >= open <=> close # 0
    BY <1>2, <1>10, <2>2
  <2>4. close # 0 => n > 2
    BY <1>1, <1>2, <2>2
  <2>5. QED
    BY <1>2, <1>4, <2>3, <2>4
<1> HIDE DEF open, close, type, n
<1>11. CASE open = 0
  <2>1. ~(n > 2 /\ s[1] = 0 /\ s[2] = 1)
    BY <1>9, <1>11
  <2>2. ~refused <=> s = <<0>>
    BY <1>7, <1>11
  <2>3. QED
    BY <1>3, <2>1, <2>2 DEF n
<1>12. CASE open > 0
  <2>1. ~refused <=> open = 2 /\ s[1] = 0 /\ close >= open
    BY <1>1, <1>2, <1>6, <1>12
  <2>2. s # <<0>>
    BY <1>8, <1>12
  <2>3. open = 2 => s[2] = 1
    BY <1>1
  <2>4. QED
    BY <1>3, <1>9, <1>10, <2>1, <2>2, <2>3 DEF n
<1>13. QED
  BY <1>1, <1>11, <1>12

(* ParseCommit accepts what it says it does.                                *)
LEMMA AcceptsFormAlways ==
  ASSUME Flat \in Seq(Int)
  PROVE  AcceptsForm
<1> SUFFICES ASSUME NEW breaking \in BOOLEAN
             PROVE  LET prefix == Flat \o (IF breaking THEN <<3>> ELSE <<>>)
                        form == Flat = <<0>> \/ (Len(Flat) > 2 /\ Flat[1] = 0 /\ Flat[2] = 1
                                                  /\ 2 \in ToSet(Flat))
                    IN /\ ParseCommit(prefix, FALSE).err # "nil"
                       /\ (breaking \/ Flat = <<>> \/ Last(Flat) # 3) =>
                            (ParseCommit(prefix, TRUE).err = "nil" <=> form)
  BY DEF AcceptsForm
<1> DEFINE prefix == Flat \o (IF breaking THEN <<3>> ELSE <<>>)
<1>1. ParseCommit(prefix, FALSE).err # "nil"
  BY DEF ParseCommit, NotParsed
<1>2. ASSUME breaking \/ Flat = <<>> \/ Last(Flat) # 3
      PROVE  ParseCommit(prefix, TRUE) = Parse(Flat, breaking)
  BY <1>2, BangTaken
<1>3. QED
  BY <1>1, <1>2, ParseAccepts

-----------------------------------------------------------------------------
(* GenerateJWT, ValidateJWT and AuthMiddleware.                             *)

(* Two parts and one appended.                                              *)
LEMMA ThreeParts ==
  ASSUME NEW E, NEW a \in E, NEW b \in E, NEW c \in E
  PROVE  LET t == Append(<<a, b>>, c)
         IN /\ t \in Seq(E) /\ Len(t) = 3 /\ SubSeq(t, 1, 2) = <<a, b>>
            /\ t[2] = b /\ t[3] = c
<1> DEFINE two == <<a, b>>
           t == Append(two, c)
           front == SubSeq(t, 1, 2)
<1>1. two \in Seq(E) /\ Len(two) = 2
  OBVIOUS
<1>2. two[2] = b
  OBVIOUS
<1>3. t = Append(two, c)
  OBVIOUS
<1> HIDE DEF two, t
<1>4. t \in Seq(E) /\ Len(t) = 2 + 1
  <2>1. Append(two, c) \in Seq(E) /\ Len(Append(two, c)) = Len(two) + 1
    BY <1>1, AppendProperties, Zenon
  <2>2. QED
    BY <1>1, <1>3, <2>1
<1>5. t[3] = c
  <2>1. Append(two, c)[Len(two) + 1] = c
    BY <1>1, AppendProperties, Zenon
  <2>2. Len(two) + 1 = 3
    BY <1>1
  <2>3. QED
    BY <1>3, <2>1, <2>2
<1>6. \A k \in 1..2 : t[k] = two[k]
  <2>1. \A k \in 1..Len(two) : t[k] = two[k]
    BY <1>1, <1>3, AppendProperties
  <2>2. QED
    BY <1>1, <2>1
<1>7. front = two
  <2>1. \A i \in 1..2 : t[i] \in E
    BY <1>4, ElementOfSeq
  <2>2. front \in Seq(E) /\ Len(front) = 2 /\ \A i \in 1..2 : front[i] = t[i]
    BY <2>1, SubSeqProperties
  <2> HIDE DEF front
  <2>3. QED
    BY <1>1, <1>6, <2>2, SeqEqual
<1>8. Len(t) = 3 /\ t[3] = c /\ t[2] = b
  BY <1>2, <1>4, <1>5, <1>6
<1>9. QED
  BY <1>4, <1>7, <1>8 DEF t, two, front

(* The parts of what is presented.                                          *)
HasParts(token, two, payload, sig) ==
  /\ Len(token) = 3 /\ SubSeq(token, 1, 2) = two
  /\ token[2] = payload /\ token[3] = sig
  /\ Len(Tail(token)) = 2 /\ Len(Append(token, sig)) = 4

LEMMA TokenSays ==
  ASSUME NEW header, NEW payload, NEW sig
  PROVE  HasParts(Append(<<header, payload>>, sig), <<header, payload>>, payload, sig)
<1> DEFINE E == {header, payload, sig}
           token == Append(<<header, payload>>, sig)
<1>1. header \in E /\ payload \in E /\ sig \in E
  OBVIOUS
<1> HIDE DEF E
<1>2. /\ token \in Seq(E) /\ Len(token) = 3 /\ SubSeq(token, 1, 2) = <<header, payload>>
      /\ token[2] = payload /\ token[3] = sig
  BY <1>1, ThreeParts
<1> HIDE DEF token
<1>3. Len(Append(token, sig)) = 4
  <2>1. Len(Append(token, sig)) = Len(token) + 1
    BY <1>1, <1>2, AppendProperties, Zenon
  <2>2. QED
    BY <1>2, <2>1
<1>4. Len(Tail(token)) = 2
  BY <1>2
<1>5. HasParts(token, <<header, payload>>, payload, sig)
  BY <1>2, <1>3, <1>4 DEF HasParts
<1>6. QED
  BY <1>5 DEF token

(* The handler is reached with a signature of the two texts by the secret,  *)
(* and a payload that is claims in time.                                    *)
Opened(two, payload, sig, secret, now) ==
  IF sig[1] = <<two, secret>> /\ payload[1] # <<>> /\ now <= payload[1][2]
    THEN [code |-> 200, claims |-> payload[1]]
  ELSE [code |-> 401]

InTime(payload) == payload[1] # <<>> => payload[1][2] \in Int

(* ValidateJWT and AuthMiddleware say so.                                   *)
LEMMA OpensWith ==
  ASSUME NEW two, NEW payload, NEW sig, NEW secret, NEW now \in Int, NEW token,
         HasParts(token, two, payload, sig), InTime(payload)
  PROVE  AuthMiddleware(TRUE, token, secret, now) = Opened(two, payload, sig, secret, now)
<1> DEFINE claims == payload[1]
           signed == sig[1] = <<two, secret>>
           valid == ValidateJWT(token, secret, now)
<1>1. valid = IF ~signed \/ claims = <<>> THEN [err |-> "ErrInvalidToken"]
              ELSE IF now > claims[2] THEN [err |-> "ErrExpiredToken"]
              ELSE [err |-> "nil", claims |-> claims]
  BY DEF HasParts, ValidateJWT, b64Decode, sign
<1>2. AuthMiddleware(TRUE, token, secret, now)
        = IF valid.err # "nil" THEN [code |-> 401] ELSE [code |-> 200, claims |-> valid.claims]
  BY DEF AuthMiddleware
<1>3. claims # <<>> => (now > claims[2] <=> ~(now <= claims[2]))
  BY DEF InTime
<1> HIDE DEF valid, claims, signed
<1>4. CASE ~signed \/ claims = <<>>
  <2>1. valid.err # "nil"
    BY <1>1, <1>4
  <2>2. QED
    BY <1>2, <1>4, <2>1 DEF claims, signed, Opened
<1>5. CASE signed /\ claims # <<>> /\ now > claims[2]
  <2>1. valid.err # "nil"
    BY <1>1, <1>5
  <2>2. QED
    BY <1>2, <1>3, <1>5, <2>1 DEF claims, signed, Opened
<1>6. CASE signed /\ claims # <<>> /\ now <= claims[2]
  <2>1. valid = [err |-> "nil", claims |-> claims]
    BY <1>1, <1>3, <1>6
  <2>2. valid.err = "nil" /\ valid.claims = claims
    BY <2>1
  <2>3. QED
    BY <1>2, <1>6, <2>2 DEF claims, signed, Opened
<1>7. QED
  BY <1>3, <1>4, <1>5, <1>6

(* The token that is issued.                                                *)
LEMMA TokenIssued ==
  ASSUME NEW user, NEW secret, NEW ttl \in Int
  PROVE  LET payload == <<<<user, ttl>>, "plain">>
             two == <<<<"header", "plain">>, payload>>
             sig == <<<<two, secret>>, "plain">>
             token == GenerateJWT(user, secret, ttl, 0)
         IN HasParts(token, two, payload, sig) /\ token[1] = <<"header", "plain">>
<1> DEFINE header == <<"header", "plain">>
           payload == <<<<user, ttl>>, "plain">>
           two == <<header, payload>>
           sig == <<<<two, secret>>, "plain">>
           token == GenerateJWT(user, secret, ttl, 0)
<1>1. token = Append(two, sig)
  <2>1. 0 + ttl = ttl
    OBVIOUS
  <2>2. QED
    BY <2>1 DEF GenerateJWT, b64Encode, sign
<1>2. two = <<header, payload>> /\ two[1] = header
  OBVIOUS
<1> HIDE DEF header, payload, sig, token
<1>3. HasParts(token, two, payload, sig)
  BY <1>1, <1>2, TokenSays
<1>4. token[1] = header
  <2>1. token[1] = SubSeq(token, 1, 2)[1]
    <3> DEFINE E == {header, payload, sig}
    <3>1. header \in E /\ payload \in E /\ sig \in E
      OBVIOUS
    <3> HIDE DEF E
    <3>2. token \in Seq(E)
      BY <1>1, <3>1, ThreeParts
    <3>3. Len(token) = 3
      BY <1>3 DEF HasParts
    <3>4. \A i \in 1..2 : token[i] \in E
      BY <3>2, <3>3, ElementOfSeq
    <3>5. SubSeq(token, 1, 2)[1] = token[1]
      BY <3>4, SubSeqProperties
    <3>6. QED
      BY <3>5
  <2>2. SubSeq(token, 1, 2) = two
    BY <1>3 DEF HasParts
  <2> HIDE DEF two
  <2>3. QED
    BY <1>2, <2>1, <2>2
<1>5. QED
  BY <1>3, <1>4 DEF header, payload, sig, token

(* The token that was issued opens the handler until it expires, and        *)
(* nothing else does.                                                       *)
LEMMA TokensReadBackAlways ==
  ASSUME list \in Seq(Digits \X Digits)
  PROVE  TokensReadBack
<1> DEFINE user == list[1][1]
           secret == list[1][2]
           ttl == list[2][1]
           now == list[2][2]
           token == GenerateJWT(user, secret, ttl, 0)
           mine == <<<<"header", "plain">>, <<<<user, ttl>>, "plain">>>>
           seal == <<mine, secret>>
<1> SUFFICES ASSUME Len(list) = 2
             PROVE  /\ \A header \in Headers, payload \in Payloads, spelling \in Spellings :
                         LET two == <<header, payload>>
                         IN \A sig \in Signatures(two, token[3], secret) :
                              AuthMiddleware(TRUE, Append(two, <<sig, spelling>>), secret, now)
                                = IF /\ header = token[1] /\ payload = token[2]
                                     /\ sig = b64Decode(token[3]) /\ now <= ttl
                                    THEN [code |-> 200, claims |-> <<user, ttl>>]
                                  ELSE [code |-> 401]
                    /\ \A other \in {Tail(token), Append(token, token[3])} :
                         AuthMiddleware(TRUE, other, secret, now) = [code |-> 401]
                    /\ AuthMiddleware(FALSE, token, secret, now) = [code |-> 401]
  BY DEF TokensReadBack
<1>1. ttl \in Int /\ now \in Int
  <2>1. list[2] \in Digits \X Digits
    <3>1. 2 \in 1..Len(list)
      OBVIOUS
    <3>2. QED
      BY <3>1, ElementOfSeq
  <2>2. list[2][1] \in Digits /\ list[2][2] \in Digits
    BY <2>1
  <2>3. QED
    BY <2>2, DigitsAssumption
<1> HIDE DEF user, secret, ttl, now
<1>2. /\ token[1] = <<"header", "plain">> /\ token[2] = <<<<user, ttl>>, "plain">>
      /\ token[3] = <<seal, "plain">>
      /\ Len(Tail(token)) = 2 /\ Len(Append(token, token[3])) = 4
  BY <1>1, TokenIssued DEF HasParts
<1> HIDE DEF token
<1>3. b64Decode(token[3]) = seal
  BY <1>2 DEF b64Decode
<1>4. ASSUME NEW header \in Headers, NEW payload \in Payloads, NEW spelling \in Spellings,
             NEW sig \in Signatures(<<header, payload>>, token[3], secret)
      PROVE  AuthMiddleware(TRUE, Append(<<header, payload>>, <<sig, spelling>>), secret, now)
               = IF /\ header = token[1] /\ payload = token[2]
                    /\ sig = b64Decode(token[3]) /\ now <= ttl
                   THEN [code |-> 200, claims |-> <<user, ttl>>]
                 ELSE [code |-> 401]
  <2> DEFINE two == <<header, payload>>
             text == <<sig, spelling>>
             shown == Append(two, text)
             whole == header = token[1] /\ payload = token[2] /\ sig = seal
  <2>1. text[1] = sig
    OBVIOUS
  <2>2. InTime(payload)
    <3>1. payload[1] \in (Digits \X Digits) \cup {<<>>}
      BY DEF Payloads
    <3>2. QED
      BY <3>1, DigitsAssumption DEF InTime
  <2>3. sig = <<two, secret>> <=> whole
    <3>1. two = mine <=> header = token[1] /\ payload = token[2]
      BY <1>2
    <3> HIDE DEF two, mine
    <3>2. sig \in {<<>>, seal} \cup {<<two, key>> : key \in Digits \ {secret}}
      BY <1>3 DEF Signatures, sign, two
    <3>3. CASE sig = <<>>
      <4>1. <<two, secret>> # <<>> /\ <<mine, secret>> # <<>>
        OBVIOUS
      <4>2. QED
        BY <3>3, <4>1
    <3>4. CASE sig = seal
      BY <3>1, <3>4
    <3>5. CASE \E key \in Digits \ {secret} : sig = <<two, key>>
      BY <3>5
    <3>6. QED
      BY <3>2, <3>3, <3>4, <3>5
  <2>4. whole => payload[1] = <<user, ttl>> /\ payload[1] # <<>> /\ payload[1][2] = ttl
    <3>1. payload = token[2] => payload[1] = <<user, ttl>>
      BY <1>2
    <3>2. QED
      BY <3>1
  <2> HIDE DEF text
  <2>5. HasParts(shown, two, payload, text)
    BY TokenSays
  <2> HIDE DEF shown, two, seal, mine, whole
  <2>6. AuthMiddleware(TRUE, shown, secret, now) = Opened(two, payload, text, secret, now)
    BY <1>1, <2>2, <2>5, OpensWith
  <2>7. AuthMiddleware(TRUE, shown, secret, now)
          = IF whole /\ now <= ttl THEN [code |-> 200, claims |-> <<user, ttl>>]
            ELSE [code |-> 401]
    <3> HIDE DEF whole
    <3>1. QED
      BY <2>1, <2>3, <2>4, <2>6 DEF Opened
  <2>8. whole <=> /\ header = token[1] /\ payload = token[2] /\ sig = b64Decode(token[3])
    BY <1>3 DEF whole
  <2> HIDE DEF whole
  <2>9. AuthMiddleware(TRUE, shown, secret, now)
          = IF /\ header = token[1] /\ payload = token[2]
               /\ sig = b64Decode(token[3]) /\ now <= ttl
              THEN [code |-> 200, claims |-> <<user, ttl>>]
            ELSE [code |-> 401]
    BY <2>7, <2>8
  <2>10. QED
    BY <2>9 DEF shown, two, text
<1>5. ASSUME NEW parts, Len(parts) # 3
      PROVE  AuthMiddleware(TRUE, parts, secret, now) = [code |-> 401]
  <2>1. ValidateJWT(parts, secret, now).err # "nil"
    BY <1>5 DEF ValidateJWT
  <2>2. QED
    BY <2>1 DEF AuthMiddleware
<1>6. AuthMiddleware(FALSE, token, secret, now) = [code |-> 401]
  BY DEF AuthMiddleware
<1>7. ASSUME NEW other \in {Tail(token), Append(token, token[3])}
      PROVE  AuthMiddleware(TRUE, other, secret, now) = [code |-> 401]
  <2>1. Len(other) # 3
    BY <1>2
  <2>2. QED
    BY <1>5, <2>1
<1>8. QED
  BY <1>4, <1>6, <1>7

-----------------------------------------------------------------------------
(* Validate.                                                                *)

(* An entry is the number of a field and the tag of a rule.                 *)
Entries == Nat \X Tags

(* A field has rules, of different tags.                                    *)
Ruled(field) ==
  /\ Len(field.rules) \in Nat
  /\ \A q \in 1..Len(field.rules) : field.rules[q].tag \in Tags
  /\ \A p, q \in 1..Len(field.rules) : field.rules[p].tag = field.rules[q].tag => p = q

(* What there is to say after one more rule.                                *)
Say(errs, i, field, k) ==
  IF Breaks(field, field.rules[k]) THEN Append(errs, <<i, field.rules[k].tag>>) ELSE errs

(* Complain tries the rules one by one.                                     *)
LEMMA ComplainSays ==
  ASSUME NEW errs \in Seq(Entries), NEW i \in Nat, NEW field, Ruled(field)
  PROVE  \E g : /\ Complain(errs, i, field) = g[Len(field.rules)]
                /\ \A k \in 0..Len(field.rules) : g[k] = IF k = 0 THEN errs ELSE Say(g[k - 1], i, field, k)
<1> DEFINE S == Seq(Entries)
           n == Len(field.rules)
           first == errs
           f == [p \in S \X (0..n) |-> IF p[2] = 0 THEN first ELSE Say(p[1], i, field, p[2])]
<1>1. n \in Nat /\ 0 \in Nat /\ first \in S
  BY DEF Ruled
<1>2. ASSUME NEW r \in S, NEW k \in 0..n, k # 0
      PROVE  Say(r, i, field, k) \in S
  <2>1. field.rules[k].tag \in Tags /\ k \in 1..Len(field.rules)
    BY <1>1, <1>2 DEF Ruled
  <2>2. <<i, field.rules[k].tag>> \in Entries
    BY <2>1 DEF Entries
  <2>3. QED
    BY <1>2, <2>2, AppendProperties DEF Say
<1>3. f \in [S \X (0..n) -> S]
  BY <1>1, <1>2
<1>4. \A r \in S, k \in 0..n : k # 0 => f[<<r, k>>] = Say(r, i, field, k)
  OBVIOUS
<1> HIDE DEF f, S, n, first
<1>5. PICK g \in [0..n -> S] : Loop(g, 0, n, first, f)
  BY <1>1, <1>3, LoopExists
<1> DEFINE h == [k \in 0..n |-> IF k = 0 THEN first ELSE Say(g[k - 1], i, field, k)]
<1>6. ASSUME NEW k \in 0..n
      PROVE  g[k] = h[k]
  <2>1. CASE k = 0
    BY <1>5, <2>1 DEF Loop
  <2>2. CASE k # 0
    <3>1. k - 1 \in 0..n /\ g[k - 1] \in S
      BY <1>1, <2>2
    <3>2. f[<<g[k - 1], k>>] = Say(g[k - 1], i, field, k)
      BY <1>4, <2>2, <3>1
    <3>3. QED
      BY <1>5, <2>2, <3>2 DEF Loop
  <2>3. QED
    BY <2>1, <2>2
<1>7. g = h
  <2>1. g = [k \in 0..n |-> g[k]]
    OBVIOUS
  <2>2. QED
    BY <1>6, <2>1
<1>8. \E q : q = [k \in 0..Len(field.rules) |-> IF k = 0 THEN errs ELSE Say(q[k - 1], i, field, k)]
  BY <1>7 DEF n, first
<1>9. QED
  BY <1>8 DEF Complain, Say

(* Complain makes a list of entries of one.                                 *)
LEMMA ComplainType ==
  ASSUME NEW errs \in Seq(Entries), NEW i \in Nat, NEW field, Ruled(field)
  PROVE  Complain(errs, i, field) \in Seq(Entries)
<1> DEFINE n == Len(field.rules)
<1>1. PICK g : /\ Complain(errs, i, field) = g[n]
               /\ \A k \in 0..n : g[k] = IF k = 0 THEN errs ELSE Say(g[k - 1], i, field, k)
  BY ComplainSays
<1>2. n \in Nat /\ 0 \in Nat /\ 0 \in 0..n /\ n \in 0..n
  BY DEF Ruled
<1> DEFINE T == {k \in 0..n : g[k] \in Seq(Entries)}
<1>3. 0 \in T
  BY <1>1, <1>2
<1>4. ASSUME NEW k \in 0..n, k > 0 /\ k - 1 \in T
      PROVE  k \in T
  <2>1. k \in 1..n /\ k # 0 /\ g[k - 1] \in Seq(Entries)
    BY <1>4
  <2>2. g[k] = Say(g[k - 1], i, field, k)
    BY <1>1, <2>1
  <2>3. field.rules[k].tag \in Tags
    BY <2>1 DEF Ruled
  <2>4. <<i, field.rules[k].tag>> \in Entries
    BY <2>3 DEF Entries
  <2>5. Say(g[k - 1], i, field, k) \in Seq(Entries)
    BY <2>1, <2>4, AppendProperties DEF Say
  <2>6. QED
    BY <2>2, <2>5
<1> HIDE DEF T
<1>5. \A k \in 0..n : k \in T
  BY <1>2, <1>3, <1>4, Climb
<1>6. QED
  BY <1>1, <1>2, <1>5 DEF T

(* Validate takes the fields one by one.                                    *)
LEMMA ValidateSays ==
  ASSUME NEW fields, Len(fields) \in Nat, \A i \in 1..Len(fields) : Ruled(fields[i])
  PROVE  \E g : /\ Validate(fields) = g[Len(fields)]
                /\ \A k \in 0..Len(fields) : g[k] = IF k = 0 THEN <<>> ELSE Complain(g[k - 1], k, fields[k])
<1> DEFINE S == Seq(Entries)
           n == Len(fields)
           first == <<>>
           f == [p \in S \X (0..n) |-> IF p[2] = 0 THEN first ELSE Complain(p[1], p[2], fields[p[2]])]
<1>1. n \in Nat /\ 0 \in Nat /\ first \in S
  OBVIOUS
<1>2. ASSUME NEW r \in S, NEW k \in 0..n, k # 0
      PROVE  Complain(r, k, fields[k]) \in S
  <2>1. Ruled(fields[k]) /\ k \in Nat
    BY <1>1, <1>2
  <2>2. QED
    BY <1>2, <2>1, ComplainType
<1>3. f \in [S \X (0..n) -> S]
  BY <1>1, <1>2
<1>4. \A r \in S, k \in 0..n : k # 0 => f[<<r, k>>] = Complain(r, k, fields[k])
  OBVIOUS
<1> HIDE DEF f, S, n, first
<1>5. PICK g \in [0..n -> S] : Loop(g, 0, n, first, f)
  BY <1>1, <1>3, LoopExists
<1> DEFINE h == [k \in 0..n |-> IF k = 0 THEN first ELSE Complain(g[k - 1], k, fields[k])]
<1>6. ASSUME NEW k \in 0..n
      PROVE  g[k] = h[k]
  <2>1. CASE k = 0
    BY <1>5, <2>1 DEF Loop
  <2>2. CASE k # 0
    <3>1. k - 1 \in 0..n /\ g[k - 1] \in S
      BY <1>1, <2>2
    <3>2. f[<<g[k - 1], k>>] = Complain(g[k - 1], k, fields[k])
      BY <1>4, <2>2, <3>1
    <3>3. QED
      BY <1>5, <2>2, <3>2 DEF Loop
  <2>3. QED
    BY <2>1, <2>2
<1>7. g = h
  <2>1. g = [k \in 0..n |-> g[k]]
    OBVIOUS
  <2>2. QED
    BY <1>6, <2>1
<1>8. \E q : q = [k \in 0..Len(fields) |-> IF k = 0 THEN <<>> ELSE Complain(q[k - 1], k, fields[k])]
  BY <1>7 DEF n, first
<1>9. QED
  BY <1>8 DEF Validate

(* The entries of r are those of X, field by field and rule by rule.        *)
Tells(r, X, order) ==
  /\ r \in Seq(Entries)
  /\ \A e : e \in X <=> \E k \in 1..Len(r) : r[k] = e
  /\ \A k \in 2..Len(r) : StandsAhead(r[k - 1], r[k], order)

(* A new entry, of the last field or a later one, can be put behind.        *)
LEMMA TellsMore ==
  ASSUME NEW r, NEW X, NEW order, Tells(r, X, order), NEW x \in Entries,
         \A e \in X : StandsAhead(e, x, order)
  PROVE  Tells(Append(r, x), X \cup {x}, order)
<1> DEFINE t == Append(r, x)
           n == Len(r)
<1>1. /\ r \in Seq(Entries) /\ n \in Nat
      /\ \A e : e \in X <=> \E k \in 1..n : r[k] = e
      /\ \A k \in 2..n : StandsAhead(r[k - 1], r[k], order)
  BY DEF Tells
<1>2. t \in Seq(Entries) /\ Len(t) = n + 1
  BY <1>1, AppendProperties
<1>3. t[n + 1] = x
  BY <1>1, AppendProperties
<1>4. \A k \in 1..n : t[k] = r[k]
  BY <1>1, AppendProperties
<1> HIDE DEF t, n
<1>5. \A k \in 1..(n + 1) : k \in 1..n \/ k = n + 1
  BY <1>1
<1>6. \A k \in 1..n : k \in 1..(n + 1) /\ r[k] \in X
  BY <1>1
<1>7. n + 1 \in 1..(n + 1)
  BY <1>1
<1>8. \A e : e \in X \cup {x} <=> \E k \in 1..(n + 1) : t[k] = e
  <2>1. ASSUME NEW e, e \in X PROVE \E k \in 1..(n + 1) : t[k] = e
    BY <1>1, <1>4, <1>6, <2>1
  <2>2. ASSUME NEW k \in 1..(n + 1) PROVE t[k] \in X \cup {x}
    BY <1>3, <1>4, <1>5, <1>6
  <2>3. QED
    BY <1>3, <1>7, <2>1, <2>2
<1>9. ASSUME NEW k \in 2..(n + 1)
      PROVE  StandsAhead(t[k - 1], t[k], order)
  <2>1. CASE k = n + 1
    <3>1. k - 1 \in 1..n
      BY <1>1, <2>1
    <3>2. t[k - 1] = r[k - 1] /\ r[k - 1] \in X
      BY <1>4, <1>6, <3>1
    <3>3. QED
      BY <1>3, <2>1, <3>2
  <2>2. CASE k # n + 1
    <3>1. k \in 2..n /\ k \in 1..n /\ k - 1 \in 1..n
      BY <1>1, <2>2
    <3>2. QED
      BY <1>1, <1>4, <3>1
  <2>3. QED
    BY <2>1, <2>2
<1>10. QED
  BY <1>2, <1>8, <1>9 DEF Tells, t

(* A field has its rules in the order that is given.                        *)
Follows(field, order) ==
  /\ Ruled(field)
  /\ \A q \in 1..Len(field.rules) : Index(order, field.rules[q].tag) = q

(* What the first k rules have to say of the i-th field.                    *)
Told(field, i, k) ==
  {e \in Entries : e[1] = i /\ \E q \in 1..k : e[2] = field.rules[q].tag /\ Breaks(field, field.rules[q])}

(* Complain adds what the rules have to say of the field.                   *)
LEMMA ComplainTells ==
  ASSUME NEW errs, NEW X, NEW order, Tells(errs, X, order),
         NEW i \in Nat, NEW field, Follows(field, order),
         \A e \in X : e[1] \in Nat /\ e[1] < i
  PROVE  Tells(Complain(errs, i, field), X \cup Told(field, i, Len(field.rules)), order)
<1> DEFINE n == Len(field.rules)
<1>1. /\ n \in Nat /\ 0 \in Nat /\ 0 \in 0..n /\ n \in 0..n
      /\ errs \in Seq(Entries) /\ Ruled(field)
  BY DEF Follows, Ruled, Tells
<1>2. PICK g : /\ Complain(errs, i, field) = g[n]
               /\ \A k \in 0..n : g[k] = IF k = 0 THEN errs ELSE Say(g[k - 1], i, field, k)
  BY <1>1, ComplainSays
<1> DEFINE T == {k \in 0..n : Tells(g[k], X \cup Told(field, i, k), order)}
<1>3. 0 \in T
  <2>1. Told(field, i, 0) = {}
    BY DEF Told
  <2>2. X \cup Told(field, i, 0) = X /\ g[0] = errs
    BY <1>1, <1>2, <2>1
  <2>3. QED
    BY <1>1, <2>2
<1>4. ASSUME NEW k \in 0..n, k > 0 /\ k - 1 \in T
      PROVE  k \in T
  <2> DEFINE tag == field.rules[k].tag
             x == <<i, tag>>
             Y == X \cup Told(field, i, k - 1)
             broken == Breaks(field, field.rules[k])
  <2>1. k \in 1..n /\ k # 0 /\ Tells(g[k - 1], Y, order)
    BY <1>4
  <2>2. g[k] = IF broken THEN Append(g[k - 1], x) ELSE g[k - 1]
    BY <1>2, <2>1 DEF Say
  <2>3. tag \in Tags /\ x \in Entries /\ x[1] = i /\ x[2] = tag
    BY <1>1, <2>1 DEF Ruled, Entries
  <2>4. \A q \in 1..k : q \in 1..n /\ (q \in 1..(k - 1) \/ q = k)
    BY <2>1
  <2>5. \A q \in 1..(k - 1) : q \in 1..k /\ q \in 1..n /\ q # k
    BY <2>1
  <2>6. \A q \in 1..n : Index(order, field.rules[q].tag) = q
    BY DEF Follows
  <2>7. ASSUME NEW e \in Y PROVE StandsAhead(e, x, order)
    <3>1. CASE e \in X
      BY <2>3, <3>1 DEF StandsAhead
    <3>2. CASE e \in Told(field, i, k - 1)
      <4>1. PICK q \in 1..(k - 1) : e[2] = field.rules[q].tag
        BY <3>2 DEF Told
      <4>2. e[1] = i
        BY <3>2 DEF Told
      <4>3. Index(order, e[2]) = q /\ Index(order, x[2]) = k
        BY <2>1, <2>3, <2>5, <2>6, <4>1
      <4>4. q < k
        BY <2>1
      <4> HIDE DEF x
      <4>5. QED
        BY <2>3, <4>2, <4>3, <4>4 DEF StandsAhead
    <3>3. QED
      BY <3>1, <3>2
  <2>8. CASE broken
    <3>1. Told(field, i, k) = Told(field, i, k - 1) \cup {x}
      <4>1. ASSUME NEW e \in Told(field, i, k) PROVE e \in Told(field, i, k - 1) \/ e = x
        <5>1. PICK q \in 1..k : e[2] = field.rules[q].tag /\ Breaks(field, field.rules[q])
          BY DEF Told
        <5>2. e \in Entries /\ e[1] = i
          BY DEF Told
        <5>3. CASE q = k
          BY <5>1, <5>2, <5>3 DEF Entries
        <5>4. CASE q \in 1..(k - 1)
          BY <5>1, <5>2, <5>4 DEF Told
        <5>5. QED
          BY <2>4, <5>3, <5>4
      <4>2. x \in Told(field, i, k)
        <5>1. k \in 1..k
          BY <2>1
        <5>2. QED
          BY <2>3, <2>8, <5>1 DEF Told
      <4>3. Told(field, i, k - 1) \subseteq Told(field, i, k)
        BY <2>5 DEF Told
      <4>4. QED
        BY <4>1, <4>2, <4>3
    <3> HIDE DEF x, Y, broken
    <3>2. Tells(Append(g[k - 1], x), Y \cup {x}, order)
      BY <2>1, <2>3, <2>7, TellsMore
    <3>3. g[k] = Append(g[k - 1], x) /\ Y \cup {x} = X \cup Told(field, i, k)
      BY <2>2, <2>8, <3>1 DEF Y
    <3>4. QED
      BY <3>2, <3>3
  <2>9. CASE ~broken
    <3>1. Told(field, i, k) = Told(field, i, k - 1)
      BY <2>4, <2>5, <2>9 DEF Told
    <3>2. QED
      BY <2>1, <2>2, <2>9, <3>1
  <2>10. QED
    BY <2>8, <2>9
<1> HIDE DEF T
<1>5. \A k \in 0..n : k \in T
  BY <1>1, <1>3, <1>4, Climb
<1>6. QED
  BY <1>1, <1>2, <1>5 DEF T

(* What the rules of the first k fields have to say.                        *)
AllTold(fields, k) == UNION {Told(fields[i], i, Len(fields[i].rules)) : i \in 1..k}

(* Validate says what the rules have to say of all the fields.              *)
LEMMA ValidateTells ==
  ASSUME NEW fields, Len(fields) \in Nat, NEW order,
         \A i \in 1..Len(fields) : Follows(fields[i], order)
  PROVE  Tells(Validate(fields), AllTold(fields, Len(fields)), order)
<1> DEFINE n == Len(fields)
<1>1. n \in Nat /\ 0 \in Nat /\ 0 \in 0..n /\ n \in 0..n
  OBVIOUS
<1>2. PICK g : /\ Validate(fields) = g[n]
               /\ \A k \in 0..n : g[k] = IF k = 0 THEN <<>> ELSE Complain(g[k - 1], k, fields[k])
  BY ValidateSays DEF Follows
<1> DEFINE T == {k \in 0..n : Tells(g[k], AllTold(fields, k), order)}
<1>3. 0 \in T
  <2>1. AllTold(fields, 0) = {}
    BY DEF AllTold
  <2>2. <<>> \in Seq(Entries) /\ Len(<<>>) = 0
    OBVIOUS
  <2>3. Tells(<<>>, {}, order)
    BY <2>2 DEF Tells
  <2>4. g[0] = <<>>
    BY <1>1, <1>2
  <2>5. QED
    BY <1>1, <2>1, <2>3, <2>4
<1>4. ASSUME NEW k \in 0..n, k > 0 /\ k - 1 \in T
      PROVE  k \in T
  <2> DEFINE X == AllTold(fields, k - 1)
             new == Told(fields[k], k, Len(fields[k].rules))
  <2>1. k \in 1..n /\ k # 0 /\ k \in Nat /\ Follows(fields[k], order) /\ Tells(g[k - 1], X, order)
    BY <1>4
  <2>2. g[k] = Complain(g[k - 1], k, fields[k])
    BY <1>2, <2>1
  <2>3. \A e \in X : e[1] \in Nat /\ e[1] < k
    <3> SUFFICES ASSUME NEW e \in X PROVE e[1] \in Nat /\ e[1] < k
      OBVIOUS
    <3>1. PICK i \in 1..(k - 1) : e \in Told(fields[i], i, Len(fields[i].rules))
      BY DEF AllTold
    <3>2. e[1] = i
      BY <3>1 DEF Told
    <3>3. QED
      BY <2>1, <3>2
  <2>4. AllTold(fields, k) = X \cup new
    <3>1. \A i \in 1..k : i \in 1..(k - 1) \/ i = k
      BY <2>1
    <3>2. k \in 1..k /\ \A i \in 1..(k - 1) : i \in 1..k
      BY <2>1
    <3> DEFINE W(i) == Told(fields[i], i, Len(fields[i].rules))
    <3>3. AllTold(fields, k) = UNION {W(i) : i \in 1..k} /\ X = UNION {W(i) : i \in 1..(k - 1)} /\ new = W(k)
      BY DEF AllTold
    <3> HIDE DEF W, X, new
    <3>4. QED
      BY <3>1, <3>2, <3>3
  <2> HIDE DEF X, new
  <2>5. Tells(Complain(g[k - 1], k, fields[k]), X \cup new, order)
    BY <2>1, <2>3, ComplainTells DEF new
  <2>6. QED
    BY <2>2, <2>4, <2>5
<1> HIDE DEF T
<1>5. \A k \in 0..n : k \in T
  BY <1>1, <1>3, <1>4, Climb
<1>6. QED
  BY <1>1, <1>2, <1>5 DEF T

(* There are three kinds.                                                   *)
LEMMA KindSays ==
  ASSUME NEW i \in Nat \ {0}
  PROVE  KindOf(i) \in {"string", "int", "bool"}
<1>1. 1 + ((i - 1) % 3) \in 1..3
  OBVIOUS
<1>2. \A k \in 1..3 : <<"string", "int", "bool">>[k] \in {"string", "int", "bool"}
  OBVIOUS
<1>3. QED
  BY <1>1, <1>2 DEF KindOf

(* The rules of an order, and their places in it.                           *)
LEMMA OrderSays ==
  ASSUME NEW order \in RuleOrders
  PROVE  /\ order \in Seq(Tags) /\ Len(order) \in Nat /\ DOMAIN order = 1..Len(order)
         /\ \A q \in 1..Len(order) : order[q] \in Tags /\ Index(order, order[q]) = q
<1> DEFINE texts == {[1..m -> Tags] : m \in 0..3}
<1>1. PICK m \in 0..3 : order \in [1..m -> Tags]
  <2>1. order \in UNION texts
    BY DEF RuleOrders
  <2>2. PICK T \in texts : order \in T
    BY <2>1, Zenon
  <2>3. PICK m \in 0..3 : T = [1..m -> Tags]
    BY <2>2
  <2>4. QED
    BY <2>2, <2>3
<1>0. IsInjective(order)
  BY DEF RuleOrders
<1>2. order \in Seq(Tags) /\ Len(order) \in Nat /\ DOMAIN order = 1..Len(order)
  BY <1>1
<1>3. \A p, q \in 1..Len(order) : order[p] = order[q] => p = q
  BY <1>0, <1>2 DEF IsInjective
<1>4. ASSUME NEW q \in 1..Len(order)
      PROVE  order[q] \in Tags /\ Index(order, order[q]) = q
  <2> DEFINE v == order[q]
             first == Index(order, v)
  <2>1. /\ first \in 0..Len(order)
        /\ (\E k \in 1..Len(order) : order[k] = v) <=> first # 0
        /\ first # 0 => order[first] = v
    BY <1>2, IndexSays
  <2>2. v \in Tags
    BY <1>2, ElementOfSeq
  <2> HIDE DEF first
  <2>3. first \in 1..Len(order) /\ order[first] = order[q]
    BY <1>2, <2>1
  <2>4. first = q
    BY <1>3, <2>3
  <2>5. QED
    BY <2>2, <2>4 DEF first
<1>5. QED
  BY <1>2, <1>4

(* Such a field has its rules in that order.                                *)
LEMMA FieldFollows ==
  ASSUME NEW i, NEW order \in RuleOrders, NEW most
  PROVE  Follows(FieldOf(i, order, most), order)
<1> DEFINE r == RulesOf(i, order, most)
           n == Len(order)
<1>1. /\ n \in Nat /\ DOMAIN order = 1..n
      /\ \A q \in 1..n : order[q] \in Tags /\ Index(order, order[q]) = q
  BY OrderSays
<1>2. Len(r) = n /\ \A q \in 1..n : r[q].tag = order[q]
  BY <1>1 DEF RulesOf
<1>3. FieldOf(i, order, most).rules = r
  BY DEF FieldOf
<1> HIDE DEF r, n
<1>4. \A p, q \in 1..n : order[p] = order[q] => p = q
  <2> SUFFICES ASSUME NEW p \in 1..n, NEW q \in 1..n, order[p] = order[q] PROVE p = q
    OBVIOUS
  <2>1. Index(order, order[p]) = p /\ Index(order, order[q]) = q
    BY <1>1
  <2>2. QED
    BY <2>1
<1>5. Ruled(FieldOf(i, order, most))
  BY <1>1, <1>2, <1>3, <1>4 DEF Ruled
<1>6. \A q \in 1..n : Index(order, r[q].tag) = q
  BY <1>1, <1>2
<1>7. QED
  BY <1>2, <1>3, <1>5, <1>6 DEF Follows

(* A rule of a field is broken when its value is not one of those left.     *)
LEMMA FieldBroken ==
  ASSUME NEW i \in Nat \ {0}, NEW order \in RuleOrders, NEW most \in Digits,
         list[i][1] \in Digits, list[i][2] \in Digits
  PROVE  (\E q \in 1..Len(RulesOf(i, order, most)) :
            Breaks(FieldOf(i, order, most), RulesOf(i, order, most)[q]))
         <=> ValueOf(i) \notin LeftOf(i, order, most)
<1> DEFINE r == RulesOf(i, order, most)
           f == FieldOf(i, order, most)
           v == ValueOf(i)
           bounded == KindOf(i) \in {"string", "int"}
           low == list[i][2] - 1
           there == ToSet(order)
           rule(t) == [tag |-> t, n |-> BoundOf(i, most)[t]]
           broken(t) == Breaks(f, rule(t))
<1>1. list[i][1] \in Int /\ list[i][2] \in Int /\ most \in Int
  BY DigitsAssumption
<1>2. v \in Int /\ low \in Int
  BY <1>1 DEF ValueOf
<1>3. f.kind = KindOf(i) /\ f.value = v
  BY DEF FieldOf
<1>4. KindOf(i) # "bool" <=> bounded
  BY KindSays
<1>5. /\ Len(order) \in Nat /\ DOMAIN order = 1..Len(order)
      /\ \A q \in 1..Len(order) : order[q] \in Tags
  BY OrderSays
<1>6. Len(r) = Len(order) /\ \A q \in 1..Len(order) : r[q] = rule(order[q])
  BY <1>5 DEF RulesOf
<1>7. \A t : t \in there <=> \E q \in 1..Len(order) : order[q] = t
  BY <1>5 DEF ToSet
<1>8. there \subseteq {"required", "min", "max"}
  BY <1>5, <1>7 DEF Tags
<1>9. /\ rule("required") = [tag |-> "required", n |-> 0]
      /\ rule("min") = [tag |-> "min", n |-> low]
      /\ rule("max") = [tag |-> "max", n |-> most]
  BY DEF BoundOf
<1>10. /\ broken("required") <=> v = 0
       /\ broken("min") <=> bounded /\ v < low
       /\ broken("max") <=> bounded /\ v > most
  <2> HIDE DEF rule, f, v, low
  <2>1. \A m : Breaks(f, [tag |-> "required", n |-> m]) <=> v = 0
    BY <1>3 DEF Breaks
  <2>2. \A m : Breaks(f, [tag |-> "min", n |-> m]) <=> bounded /\ v < m
    BY <1>3 DEF Breaks
  <2>3. \A m : Breaks(f, [tag |-> "max", n |-> m]) <=> bounded /\ v > m
    BY <1>3 DEF Breaks
  <2>4. QED
    BY <1>9, <2>1, <2>2, <2>3
<1> HIDE DEF rule
<1>11. (\E q \in 1..Len(r) : Breaks(f, r[q])) <=> \E t \in there : broken(t)
  <2> HIDE DEF r, f, there
  <2>1. \A q \in 1..Len(order) : Breaks(f, r[q]) <=> broken(order[q])
    BY <1>6
  <2> HIDE DEF broken
  <2>2. QED
    BY <1>6, <1>7, <2>1
<1>12. v \notin LeftOf(i, order, most)
         <=> \/ "required" \in there /\ v = 0
             \/ "min" \in there /\ bounded /\ v < low
             \/ "max" \in there /\ bounded /\ v > most
  <2> DEFINE least == IF "min" \in there /\ bounded THEN low ELSE v
             top == IF "max" \in there /\ bounded THEN most ELSE v
  <2>1. LeftOf(i, order, most) = (least..top) \ (IF "required" \in there THEN {0} ELSE {})
    BY <1>4 DEF LeftOf, Bounded, BoundOf
  <2>2. least \in Int /\ top \in Int
    BY <1>1, <1>2
  <2> HIDE DEF v, low, bounded, there
  <2>3. least <= v <=> ~("min" \in there /\ bounded /\ v < low)
    BY <1>1, <1>2
  <2>4. v <= top <=> ~("max" \in there /\ bounded /\ v > most)
    BY <1>1, <1>2
  <2> HIDE DEF least, top
  <2>5. v \in least..top <=> least <= v /\ v <= top
    BY <1>2, <2>2
  <2>6. QED
    BY <2>1, <2>3, <2>4, <2>5
<1> HIDE DEF broken, there, r, f, v, low, bounded
<1>13. (\E t \in there : broken(t))
         <=> \/ "required" \in there /\ broken("required")
             \/ "min" \in there /\ broken("min")
             \/ "max" \in there /\ broken("max")
  BY <1>8
<1>14. QED
  BY <1>10, <1>11, <1>12, <1>13 DEF r, f, v

(* Validate names the fields whose value is not one of those left, in order *)
(* and the rules of a field in theirs.                                      *)
LEMMA JudgesRightAlways ==
  ASSUME list \in Seq(Digits \X Digits)
  PROVE  JudgesRight
<1> SUFFICES ASSUME NEW order \in RuleOrders, NEW most \in Digits
             PROVE  LET errs == Validate([i \in DOMAIN list |-> FieldOf(i, order, most)])
                    IN /\ {e[1] : e \in ToSet(errs)}
                            = {i \in DOMAIN list : ValueOf(i) \notin LeftOf(i, order, most)}
                       /\ \A k \in 2..Len(errs) : StandsAhead(errs[k - 1], errs[k], order)
  BY DEF JudgesRight
<1> DEFINE n == Len(list)
           fields == [i \in DOMAIN list |-> FieldOf(i, order, most)]
           errs == Validate(fields)
           left(i) == LeftOf(i, order, most)
           X == AllTold(fields, n)
<1>1. /\ n \in Nat /\ DOMAIN list = 1..n /\ Len(fields) = n
      /\ \A i \in 1..n : fields[i] = FieldOf(i, order, most)
  OBVIOUS
<1>2. ASSUME NEW i \in 1..n
      PROVE  list[i][1] \in Digits /\ list[i][2] \in Digits
  <2>1. list[i] \in Digits \X Digits
    BY <1>1, ElementOfSeq
  <2>2. QED
    BY <2>1
<1>3. \A i \in 1..n : Follows(fields[i], order)
  BY <1>1, FieldFollows
<1> HIDE DEF fields, n
<1>4. Tells(errs, X, order)
  BY <1>1, <1>3, ValidateTells
<1> HIDE DEF errs, X
<1>5. errs \in Seq(Entries) /\ DOMAIN errs = 1..Len(errs)
  BY <1>4 DEF Tells
<1>6. ToSet(errs) = X
  BY <1>4, <1>5 DEF Tells, ToSet
<1>7. \A k \in 2..Len(errs) : StandsAhead(errs[k - 1], errs[k], order)
  BY <1>4 DEF Tells
<1>8. ASSUME NEW i \in 1..n
      PROVE  (\E e \in X : e[1] = i) <=> ValueOf(i) \notin left(i)
  <2> DEFINE f == FieldOf(i, order, most)
             r == RulesOf(i, order, most)
  <2>1. fields[i] = f /\ f.rules = r /\ i \in Nat \ {0} /\ Ruled(f)
    BY <1>1, FieldFollows DEF FieldOf, Follows
  <2>2. (\E q \in 1..Len(r) : Breaks(f, r[q])) <=> ValueOf(i) \notin left(i)
    BY <1>2, <2>1, FieldBroken
  <2> HIDE DEF f, r, left
  <2>3. ASSUME NEW e \in X, e[1] = i
        PROVE  \E q \in 1..Len(r) : Breaks(f, r[q])
    <3>1. PICK j \in 1..n : e \in Told(fields[j], j, Len(fields[j].rules))
      BY DEF X, AllTold
    <3>2. j = i
      BY <2>3, <3>1 DEF Told
    <3>3. QED
      BY <2>1, <3>1, <3>2 DEF Told
  <2>4. ASSUME NEW q \in 1..Len(r), Breaks(f, r[q])
        PROVE  \E e \in X : e[1] = i
    <3> DEFINE e == <<i, r[q].tag>>
    <3>1. e \in Entries /\ e[1] = i /\ e[2] = r[q].tag
      BY <2>1 DEF Ruled, Entries
    <3> HIDE DEF e
    <3>2. e \in Told(f, i, Len(f.rules))
      BY <2>1, <2>4, <3>1 DEF Told
    <3>3. e \in X
      BY <2>1, <3>2 DEF X, AllTold
    <3>4. QED
      BY <3>1, <3>3
  <2>5. QED
    BY <2>2, <2>3, <2>4
<1>9. \A e \in X : e[1] \in 1..n
  <2> SUFFICES ASSUME NEW e \in X PROVE e[1] \in 1..n
    OBVIOUS
  <2>1. PICK j \in 1..n : e \in Told(fields[j], j, Len(fields[j].rules))
    BY DEF X, AllTold
  <2>2. QED
    BY <2>1 DEF Told
<1> HIDE DEF left
<1>10. {e[1] : e \in X} = {i \in 1..n : ValueOf(i) \notin left(i)}
  BY <1>8, <1>9
<1>11. QED
  BY <1>1, <1>6, <1>7, <1>10 DEF errs, fields, left

-----------------------------------------------------------------------------
(* All of them.                                                             *)

(* The two functions that sort.                                             *)
LEMMA SortedRightAlways ==
  ASSUME list \in Seq(Digits \X Digits)
  PROVE  SortedRight
BY MergesRightAlways, SortsRightAlways DEF SortedRight

(* The five scans.                                                          *)
LEMMA ScansRightAlways ==
  ASSUME list \in Seq(Digits \X Digits)
  PROVE  ScansRight
<1>1. Flat \in Seq(Int)
  BY FlatSays
<1>2. \A target \in 0..6 : TwoSumRight(target)
  BY <1>1, TwoSumRightAlways
<1>3. UniqueRight
  BY <1>1, UniqueRightAlways
<1>4. MinSlice(Flat) = IF Flat = <<>> THEN "error" ELSE Min(ToSet(Flat))
  BY <1>1, MinSliceRight
<1>5. PalindromeRight
  BY <1>1, PalindromeRightAlways
<1>6. ReverseSlice(ReverseSlice(Flat)) = Flat
  BY <1>1, ReversedTwice
<1>7. QED
  BY <1>2, <1>3, <1>4, <1>5, <1>6 DEF ScansRight

(* The readers.                                                             *)
LEMMA ReadsRightAlways ==
  ASSUME list \in Seq(Digits \X Digits)
  PROVE  ReadsRight
BY FlatSays, ParsesBackAlways, AcceptsFormAlways, TokensReadBackAlways, JudgesRightAlways DEF ReadsRight

(* What a slice is given leaves it a sequence of pairs of digits.           *)
LEMMA ListStart == NoList => list \in Seq(Digits \X Digits)
BY DEF NoList

LEMMA ListGrows ==
  ASSUME list \in Seq(Digits \X Digits), Grow
  PROVE  list' \in Seq(Digits \X Digits)
<1>1. PICK x, y \in Digits : list' = Append(list, <<x, y>>)
  BY DEF Grow
<1>2. <<x, y>> \in Digits \X Digits
  OBVIOUS
<1>3. QED
  BY <1>1, <1>2, AppendProperties
=============================================================================
